SPECIFICATION Spec
CONSTANTS
    MaxMessages = 2
    MaxPending = 2
    MaxSteers = 2
    MaxDisturbances = 2
PROPERTY AbortResumes
CHECK_DEADLOCK FALSE
