\* One edge that connects and falls silent, its own alert, a prediction and a
\* rule about it.
SPECIFICATION FairSpec
CONSTANTS
  e1 = e1
  d1 = d1
  d2 = d2
  Edges = {e1}
  Devices = {d1}
  EdgeOf <- OneDevice
  Connecting = {e1}
  Rules = {"fail"}
  Condition <- RuleFail
  Suppress = {}
  Cap <- CapOne
  EdgeMetrics = {"edge:temp"}
  PredTypes = {"wear"}
  Cooldown <- OneEach
  AlertProb = 2
  OfflineLimit = 1
  EdgeTtl = 1
  PredTtl = 1
  Retention = 1
  Horizon = 2
  Configs <- AllConfigured
  Reports = {}
  Forecasts <- OnlyStrong
  HasDb = FALSE
  MaxAlerts = 1
  MaxFired = 1
  MaxRestarts = 0
  MaxFailedWrites = 0
  MaxQueue = 0
PROPERTIES ManualHoldKeptUnlessLost UnreportedAlertsEnd SilentEdgesCovered
