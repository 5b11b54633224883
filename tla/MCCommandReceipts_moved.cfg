SPECIFICATION Spec
CONSTANTS
  Commands <- MoveCommands
  Child <- NoChild
  Ids = {2, 3, 4}
  Jobs = {"j1", "j2"}
  Dests = {"d1", "d2"}
  MaxRev = 5
  MaxEpoch = 1
  None = None
CHECK_DEADLOCK FALSE
INVARIANTS
  DestinationsApart
