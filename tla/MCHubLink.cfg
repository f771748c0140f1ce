SPECIFICATION FairSpec
CONSTANTS
  Devices = {"d", "e"}
  Polled = {"d"}
  NoDevice = "none"
  MaxMessages = 2
  MaxBytes = 3
  Size <- Sizes
  MaxHeld = 1
  MaxReports = 3
  MaxConnections = 2
INVARIANT KeptOnce
PROPERTIES WritesInOrder ShutdownStops StableLinkDelivers
CHECK_DEADLOCK FALSE
