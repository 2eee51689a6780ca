SPECIFICATION FairSpec
CONSTANTS
    MaxBatches = 2
    MaxEpisodes = 2
    MaxFrames = 2
    MaxHistory = 1
    Worths <- MCWorths
    Signals = TRUE
INVARIANTS
    TypeOK
    FreshFrames
    TimerFresh
    HistoryIsTail
    HandedFinished
    PlayingExplained
PROPERTIES
    CommandAnswered
\* the runner ends when it is closed
CHECK_DEADLOCK FALSE
