SPECIFICATION Spec
CONSTANTS
    keeper = keeper
    striker = striker
    kick = kick
    dribble = dribble
    none = none
    Robots <- MCRobots
    Striker <- striker
    Actions <- MCActions
    NoActions <- none
    Distances <- MCDistances
    Outcomes <- MCOutcomes
    MaxFrames = 2
    Signals = TRUE
INVARIANTS
    ShutdownKeepsLastDecision
\* the loop ends
CHECK_DEADLOCK FALSE
