CONSTANTS
    Containers = {"c1", "c2", "c3"}
    ExecDriver <- MCExecDriver
    Policy <- MCPolicy
    NetContainer <- MCNetContainer
    AutoRestart = TRUE
    ExitCodes <- MCExitCodes
    MaxRuns = 4
    MaxBoots = 3
SPECIFICATION Spec
PROPERTY AdoptLiveContainers
CHECK_DEADLOCK FALSE
