SPECIFICATION Spec
CONSTANTS
  N = 3
  Concurrency = 3
  Limits = {None, 1, 2, 10}
  Caps = {None}
  MaxRev = 3
  MaxStarts = 3
  Faults = TRUE
  LostAnswers = TRUE
  Legacy = FALSE
  None = None
  Unset = Unset
INVARIANTS
  AppliedIsEnforced
