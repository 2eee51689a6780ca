SPECIFICATION FairSpec
CONSTANTS
    Callers = {"other thread", "signal handler"}
    Modes = {"NEONFC", "DIRECT"}
    MaxPeers = 2
INVARIANTS
    TypeOK
    ThreadSurvives
    ListenerKept
    PeersReleased
    PortReleased
PROPERTIES
    StopEndsThread
    PeerAccepted
    ServeEnds
\* the threads end
CHECK_DEADLOCK FALSE
