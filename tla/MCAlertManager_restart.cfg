\* A rule that may vanish from the configuration, a crash at any point, and a
\* database operation that fails.
SPECIFICATION Spec
CONSTANTS
  e1 = e1
  d1 = d1
  d2 = d2
  Edges = {e1}
  Devices = {d1}
  EdgeOf <- OneDevice
  Connecting = {}
  Rules = {"hot"}
  Condition <- RuleHot
  Suppress = {}
  Cap <- CapOne
  EdgeMetrics = {}
  PredTypes = {}
  Cooldown <- ZeroEach
  AlertProb = 1
  OfflineLimit = 0
  EdgeTtl = 0
  PredTtl = 0
  Retention = 0
  Horizon = 1
  Configs <- WithOrWithout
  Reports <- LowHigh
  Forecasts = {}
  HasDb = TRUE
  MaxAlerts = 2
  MaxFired = 1
  MaxRestarts = 1
  MaxFailedWrites = 1
  MaxQueue = 2
INVARIANTS AlertsStayEvaluable StatusIsKept
PROPERTIES RestartRepairs RestoredKeepsAlerts
