SPECIFICATION Spec

CONSTANTS
    MaxSerial = 2
    MaxEpoch = 1
    MaxResumes = 1
    MaxEdits = 0
    MaxHolds = 0
    MaxWrites = 1
    Slots = 2
    Faults = TRUE

INVARIANTS
    OnePreparation

CHECK_DEADLOCK FALSE
