\* Ten components that share no state, one at a time.
SPECIFICATION PartsSpec
CONSTANTS
  \* predictions
  Values = {1, 3, 5, 7}
  Steps <- MCSteps
  ThresholdPairs <- MCThresholdPairs
  MaxBack = 1
  Window = 4
  WindowSize = 4
  Rate = 1
  ReemitAfter = 3
  \* notifications
  Configured <- MCConfigured
  RuleChannels <- MCRuleChannels
  MaxNotices = 2
  \* rules
  Entries <- MCEntries
  Separator = "_"
  LowerCase <- MCLowerCase
  DefaultCooldown <- BelowZero
  MaxCooldown = 10
  BuiltIn <- MCBuiltIn
  MaxEntries = 3
  \* hosts
  Hosts = {"console", "scm", "widget"}
  FlushWait = 1
  DrainWait = 1
  EdgeStopTimeout = 2
  LaneSize = 1
  MaxSamples <- MCSamples
  MaxStarts = 1
  \* window and poll of the widget
  Setups <- MCSetups
  StripW = 2
  ExpandedW = 15
  Margin = 0
  DefaultH = 11
  Heights = {7, 11}
  Moves <- MCMoves
  MinH = 5
  LeastH = 3
  BarH = 2
  Probe = 1
  Saved <- MCSaved
  SettingsTtl = 3
  MaxRestarts = 2
  \* National Instruments drivers
  Resetters = {"r1", "r2", "r3"}
  RetryAfter = 3
  MaxFound = 2
  \* the anomaly detector
  Readings = {0, 1, 3, 7}
  Smoothing = 3
  MinSamples = 2
  ZThreshold = 2
  MinStd = 1
  MaxReadings = 5
  \* what an edge and the hub say
  MaxLevel = 2
  MaxTalks = 2
  MaxAsked = 1
  \* the simulated edge
  Intervals = {1, 3}
  Late = 1
  OfflineAfter = 1
  RemoveAfter = 2
  ReconnectAfter = 2
  CloseTimeout = 1
  Pause = 1
  Backoffs <- MCBackoffs
  ExitTimeout = 3
  MaxSweeps = 5
  MaxPushes = 1
INVARIANTS PredictionsAreTrue RulesBuilt StopLosesNothing WidgetTrue SimulationHolds
PROPERTIES AnnouncedEverywhere StopsEnd DriversSound TalkKept
CHECK_DEADLOCK FALSE
