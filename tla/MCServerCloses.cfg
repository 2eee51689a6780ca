SPECIFICATION Spec
CONSTANTS
    Callers = {"other thread"}
    Modes = {"NEONFC"}
    MaxPeers = 1
INVARIANTS
    CloseReleases
\* the threads end
CHECK_DEADLOCK FALSE
