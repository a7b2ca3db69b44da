CONSTANTS
    NumPeripherals = 5
    NumEndpoints = 4
    Worlds <- SomeWorlds
SPECIFICATION Spec
CHECK_DEADLOCK FALSE
INVARIANTS
    TypeOK
    HeldOnce
    TakenIsHeld
    Grounded
    GivenFirstWins
    OnDemandIsUsed
    AgreesWithResolve
PROPERTIES
    Terminates
