\* Two devices under a rule that fires on a lasting metric and on silence, cap 1.
SPECIFICATION Spec
CONSTANTS
  e1 = e1
  d1 = d1
  d2 = d2
  Edges = {e1}
  Devices = {d1, d2}
  EdgeOf <- TwoDevices
  Connecting = {}
  Rules = {"either"}
  Condition <- RuleSlowOrGone
  Suppress = {}
  Cap <- CapOne
  EdgeMetrics = {}
  PredTypes = {}
  Cooldown <- OneEach
  AlertProb = 1
  OfflineLimit = 0
  EdgeTtl = 1
  PredTtl = 1
  Retention = 1
  Horizon = 2
  Configs <- AllConfigured
  Reports <- LowHigh
  Forecasts = {}
  HasDb = FALSE
  MaxAlerts = 1
  MaxFired = 1
  MaxRestarts = 0
  MaxFailedWrites = 0
  MaxQueue = 0
SYMMETRY DeviceSymmetry
INVARIANTS CapRespected
