SPECIFICATION Spec
CONSTANTS
    keeper = keeper
    striker = striker
    kick = kick
    dribble = dribble
    none = none
    Robots <- MCRobots
    Striker <- striker
    Actions <- MCActions
    NoActions <- none
    Distances <- MCDistances
    Outcomes <- MCOutcomes
    MaxFrames = 4
    Signals = TRUE
INVARIANTS
    TypeOK
    Contiguous
    OneDecisionPerRecord
    Telescopes
    OutcomeStandsAlone
PROPERTIES
    ImplementsDecisionLog
\* the loop ends
CHECK_DEADLOCK FALSE
