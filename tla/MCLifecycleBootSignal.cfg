CONSTANTS
    Debug = FALSE
    MaxSignals = 1
    Containers = {"c1"}
    Restarted = {"c1"}
    IgnoresTerm = {}
    BootMayFail = FALSE
    MaxConns = 0
SPECIFICATION Spec
INVARIANT StopsContainersAtExit
CHECK_DEADLOCK FALSE
