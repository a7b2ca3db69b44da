CONSTANTS
    NumPeripherals = 3
    NumEndpoints = 2
    Hubs <- SmallHubs
    NumPasses = 10
    NumLives = 3
SPECIFICATION Spec
CHECK_DEADLOCK FALSE
INVARIANTS
    TypeOK
    NoWordIsLost
    RunningWasStarted
    KnowsWhatChanged
    StoreAgrees
    InsideRunsWithin
    Settled
    NoneRunsUnseen
    GaveUpStays
PROPERTIES
    OnlyTheUserRevives
    CallsInOrder
