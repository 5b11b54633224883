SPECIFICATION Spec
CONSTANTS
  Commands <- AllCommands
  Child <- MCChild
  Ids = {1, 2, 3, 4, 5}
  Jobs = {"j1", "j2"}
  Dests = {"d1", "d2"}
  MaxRev = 6
  MaxEpoch = 2
  None = None
CHECK_DEADLOCK FALSE
INVARIANTS CommandsTakeEffectOnce DestinationSharedOnlyByEdit
PROPERTIES EditKeepsFence
