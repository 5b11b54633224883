SPECIFICATION Spec

CONSTANTS
    MaxSerial = 2
    MaxEpoch = 1
    MaxResumes = 1
    MaxEdits = 1
    MaxHolds = 0
    MaxWrites = 1
    Slots = 1
    Faults = FALSE

PROPERTIES
    StopDrainedFirst

CHECK_DEADLOCK FALSE
