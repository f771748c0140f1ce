SPECIFICATION Spec
CONSTANTS
  Requests <- MCRequests
  Body <- MCBody
  Defaults <- MCDefaults
  Override <- MCOverride
  Own <- MCOwn
  MaxConnections = 2
  Capacity = 2
INVARIANTS EdgeAgrees DesiredInOrder
CHECK_DEADLOCK FALSE
