SPECIFICATION StoreSpec
CONSTANTS
  Jobs = {j1}
  Requests = {r1, r2}
  Payloads = {p1, p2}
  MaxRevision = 9
  MaxEpoch = 2
  NoRow = NoRow
SYMMETRY Symmetry
CHECK_DEADLOCK FALSE
INVARIANTS EligibleIsCurrent CompletedIsProven RowsAreBacked
PROPERTIES SettledReceiptsStand RowsAreFenced
