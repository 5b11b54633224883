SPECIFICATION RoundSpec
CONSTANTS
  NJobs = 2
  CohortOf <- OneBatch
  Targets = {}
  Starts = {r1}
  CohortSize = 1
  MaxEpoch = 2
  MaxRevision = 4
  None = None
INVARIANTS
  CompletionIsAnnounced
CHECK_DEADLOCK FALSE
