SPECIFICATION CleanupSpec
CONSTANTS
  Aliases <- NoAliases
  Consents = {"q1"}
  Targets = {"t1"}
  OtherOwners = TRUE
  MaxEpoch = 2
  MaxStops = 1
CHECK_DEADLOCK FALSE
PROPERTIES RemovalIsAuthorized
