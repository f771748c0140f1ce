SPECIFICATION Spec
CONSTANTS
  Ids = {"d", "s"}
  SysCfgIds = {"d"}
  VisaIds = {"d"}
  SimulatedIds = {"s"}
  ManualIds = {"s"}
  Readings <- MCReadings
  Configs <- MCConfigs
  RemovalSweeps = 2
  MaxQueue = 2
INVARIANTS DownstreamAgrees ReportsAgree
PROPERTY Monitored
CHECK_DEADLOCK FALSE
