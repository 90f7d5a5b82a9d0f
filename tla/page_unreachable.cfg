SPECIFICATION PageSpec
CONSTANTS
  Reachable = FALSE
  SysFailures = 3
  PollFailures = 5
  NotUpdated = 3
  MaxInFlight = 2
PROPERTIES
  UnreachableIsReported
