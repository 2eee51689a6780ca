SPECIFICATION FairSpec
CONSTANTS
    Suites <- MCSuites
    Waits = {1, 3}
    Balls <- MCBalls
    Tracked <- MCTracked
    RobotSets <- MCRobotSets
    Targets = {0, 1}
    Limit = 1
    FrameLimit = 1
    MaxHistory = 2
    TimeoutReward = 0
    OutReward <- MCOutReward
INVARIANTS
    TypeOK
    OrderDecides
    OutcomeKept
    StoppedWaits
    StillNoticed
PROPERTIES
    TimerHonest
    EpisodeEnds
