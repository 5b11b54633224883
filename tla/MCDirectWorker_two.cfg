SPECIFICATION Spec
CONSTANTS
  Jobs = {j1, j2}
  Requests = {r1, r2}
  Payloads = {p1}
  MaxRevision = 4
  MaxEpoch = 1
  NoRow = NoRow
  Foreign = Foreign
  SharedLane = TRUE
  Tampering = FALSE
SYMMETRY Symmetry
CHECK_DEADLOCK FALSE
INVARIANTS NoBodyAfterPause EngineIsClaimed
