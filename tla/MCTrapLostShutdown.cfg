CONSTANTS
    Debug = FALSE
    MaxSignals = 2
SPECIFICATION Spec
INVARIANT ShutdownNotLost
CHECK_DEADLOCK FALSE
