CONSTANTS
    Debug = FALSE
    MaxSignals = 1
    Containers = {"c1", "c2"}
    Restarted = {"c1", "c2"}
    IgnoresTerm = {"c1"}
    BootMayFail = FALSE
    MaxConns = 0
SPECIFICATION Spec
PROPERTY ShutdownCompletes
CHECK_DEADLOCK FALSE
