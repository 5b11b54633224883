SPECIFICATION Spec
CONSTANTS
    MaxSerial = 3
    MaxEpoch = 2
    MaxResumes = 2
    MaxEdits = 1
    MaxHolds = 1
    MaxWrites = 1
    Slots = 1
    Faults = TRUE
CHECK_DEADLOCK FALSE
INVARIANTS SealedBytesSurvive
PROPERTIES QuietAfterControl SavedWorkSettles
