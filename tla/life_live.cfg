CONSTANTS
    NumPeripherals = 3
    NumEndpoints = 2
    Hubs <- LiveHubs
    NumPasses = 10
    NumLives = 3
SPECIFICATION FairSpec
CHECK_DEADLOCK FALSE
PROPERTIES
    DisablingTakesEffect
    IsTriedAgain
