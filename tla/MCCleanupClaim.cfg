SPECIFICATION CleanupFairSpec
CONSTANTS
  Aliases <- TwoAliases
  Consents = {"q1", "q2"}
  Targets = {"t1", "t2"}
  OtherOwners = FALSE
  MaxEpoch = 3
  MaxStops = 3
CHECK_DEADLOCK FALSE
INVARIANTS ClaimMatchesNames
PROPERTIES RemovalIsAuthorized CleanupEnds
