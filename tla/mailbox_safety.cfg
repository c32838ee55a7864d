SPECIFICATION Spec
CONSTANTS
    MaxMessages = 2
    MaxPending = 2
    MaxSteers = 2
    MaxDisturbances = 2
INVARIANTS
    AtMostOnce
    TasksRunAlone
    WakeupNotLost
    DeletedIsQuiet
    HeldIsHeld
PROPERTIES
    UncertaintyBlocks
    TasksKeepTheirOrder
CHECK_DEADLOCK FALSE
