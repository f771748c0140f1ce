SPECIFICATION Spec
CONSTANTS
  Requests <- MCRequests
  Request <- MCRequest
  Devices = {"d", "e"}
  Becomes <- MCBecomes
  Services = {"spooler"}
  Scripts = {"fix"}
  AllowedServices = {"spooler"}
  AllowedScripts = {"fix"}
  DaqmxEnabled = TRUE
  MaxConcurrent = 2
  Timeout = 2
  KillTimeout = 1
  MaxReap = 1
  Grace = 1
INVARIANTS OverrunsContained ServicesUp
PROPERTY KeepsRules
CHECK_DEADLOCK FALSE
