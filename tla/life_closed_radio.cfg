CONSTANTS
    NumPeripherals = 3
    NumEndpoints = 2
    Hubs <- ClosedRadio
    NumPasses = 10
    NumLives = 3
SPECIFICATION Spec
CHECK_DEADLOCK FALSE
INVARIANTS
    StoppedMeansStopped
