SPECIFICATION Spec
CONSTANTS
  Jobs = {j1}
  Requests = {r1, r2}
  Payloads = {p1}
  MaxRevision = 6
  MaxEpoch = 2
  NoRow = NoRow
  Foreign = Foreign
  SharedLane = FALSE
  Tampering = FALSE
SYMMETRY Symmetry
CHECK_DEADLOCK FALSE
PROPERTIES PauseClosesAdmission
