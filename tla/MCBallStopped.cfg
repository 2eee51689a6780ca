SPECIFICATION Spec
CONSTANTS
    Suites <- MCSuites
    Waits = {3}
    Balls <- MCBalls
    Tracked <- MCTracked
    RobotSets <- MCRobotSets
    Targets = {0, 1}
    Limit = 1
    FrameLimit = 1
    MaxHistory = 2
    TimeoutReward = 0
    OutReward <- MCOutReward
INVARIANTS
    StoppedIsStill
