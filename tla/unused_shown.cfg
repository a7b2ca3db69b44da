CONSTANTS
    NumPeripherals = 4
    NumEndpoints = 2
    Worlds <- OneStick
SPECIFICATION Spec
CHECK_DEADLOCK FALSE
INVARIANT UnusedIsOnDemand
