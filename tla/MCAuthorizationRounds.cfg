SPECIFICATION RoundFairSpec
CONSTANTS
  NJobs = 2
  CohortOf <- OneBatch
  Targets = {t1}
  Starts = {r1}
  CohortSize = 1
  MaxEpoch = 2
  MaxRevision = 4
  None = None
CHECK_DEADLOCK FALSE
INVARIANTS RoundsAreReadable AnnouncedExactlyOnce
PROPERTIES StartYieldsToLaterControl StartSettles
