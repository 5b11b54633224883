SPECIFICATION FairSpec
CONSTANTS
  N = 2
  Concurrency = 2
  Limits = {1, 7, None}
  Caps = {None, 3}
  MaxRev = 2
  MaxStarts = 3
  Faults = TRUE
  LostAnswers = FALSE
  Legacy = TRUE
  None = None
  Unset = Unset
INVARIANTS RatesHold SharesAreFair
PROPERTIES SettingsAreApplied
