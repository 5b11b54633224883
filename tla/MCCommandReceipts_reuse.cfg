SPECIFICATION Spec
CONSTANTS
  Commands <- WorkCommands
  Child <- NoChild
  Ids = {1, 2, 3, 4, 5}
  Jobs = {"j1"}
  Dests = {"d1", "d2"}
  MaxRev = 5
  MaxEpoch = 1
  None = None
CHECK_DEADLOCK FALSE
INVARIANTS
  OneCommandPerRequest
