SPECIFICATION LiveSpec
CONSTANTS
  Legacy = legacy
  None = none
  Jobs = {j1, j2}
  Births = {b1, b2}
  Capacity = 2
  MaxEpoch = 2
CHECK_DEADLOCK FALSE
INVARIANTS ClaimsAreExact EnginesFit
PROPERTIES ClosedIsReleased
