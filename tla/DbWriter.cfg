SPECIFICATION FairSpec
CONSTANTS
  LowCapacity = 2
  MaxOps = 4
INVARIANTS LanesInOrder NothingLeftBehind
PROPERTY WritesEnd
CHECK_DEADLOCK FALSE
