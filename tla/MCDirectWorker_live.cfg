SPECIFICATION FairSpec
CONSTANTS
  Jobs = {j1}
  Requests = {r1, r2}
  Payloads = {p1}
  MaxRevision = 7
  MaxEpoch = 1
  NoRow = NoRow
  Foreign = Foreign
  SharedLane = FALSE
  Tampering = FALSE
CHECK_DEADLOCK FALSE
PROPERTIES PublicationEnds RecoveryAnswered
