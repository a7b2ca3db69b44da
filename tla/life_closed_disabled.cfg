CONSTANTS
    NumPeripherals = 3
    NumEndpoints = 2
    Hubs <- ClosedDisabled
    NumPasses = 10
    NumLives = 3
SPECIFICATION Spec
CHECK_DEADLOCK FALSE
INVARIANTS
    DisabledStaysOff
