SPECIFICATION Spec
CONSTANTS
    MaxBatches = 1
    MaxEpisodes = 1
    MaxFrames = 1
    MaxHistory = 1
    Worths <- MCWorths
    Signals = FALSE
INVARIANTS
    ArmedIsStopped
\* the runner ends when it is closed
CHECK_DEADLOCK FALSE
