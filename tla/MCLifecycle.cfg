CONSTANTS
    Debug = FALSE
    MaxSignals = 3
    Containers = {"c1"}
    Restarted = {"c1"}
    IgnoresTerm = {}
    BootMayFail = TRUE
    MaxConns = 1
SPECIFICATION Spec
INVARIANT TypeOK
INVARIANT CleanupOnce
INVARIANT PidfileLast
INVARIANT StoppedBeforeRelease
INVARIANT ServedAfterInstall
PROPERTY ShutdownCompletes
PROPERTY HeldConnectionsServed
CHECK_DEADLOCK FALSE
