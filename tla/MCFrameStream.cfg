SPECIFICATION Spec
CONSTANTS
    Kinds <- MCKinds
    MaxRecords = 5
INVARIANTS
    TypeOK
    ReceivedIsQueued
    PulledInOrder
PROPERTIES
    ImplementsFrameQueue
