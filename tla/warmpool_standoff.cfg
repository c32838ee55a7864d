SPECIFICATION Spec
CONSTANTS
    KeyOrder <- MCKeys
    Targets <- MCTargets
    Fingerprints = {f1, f2}
    work = work
    code = code
    MaxConcurrency = 1
    MaxReady = 1
    MaxForeground = 2
    MaxSessions = 2
    MaxSyncs = 2
SYMMETRY Symmetry
CHECK_DEADLOCK FALSE
INVARIANT NoStandoff
