SPECIFICATION Spec
CONSTANTS
  Legacy = legacy
  None = none
  Jobs = {j1}
  Births = {b1, b2}
  Capacity = 1
  MaxEpoch = 2
CHECK_DEADLOCK FALSE
SYMMETRY ClaimSymmetry
INVARIANTS
  SignalsOwnGroup
