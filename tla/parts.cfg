CONSTANTS
    c = c
    d = d
    x = x
    y = y
    Services = {x, y}
    Versions = {"v", "w"}
    MaxApplies = 4
    Subscribers = {"a"}
    Followers = {1, 2}
    Usns = {x, y}
    Tellings = {c, d}
    Telling = {1}
    Scanners = {"periodic"}
    NoListener = nobody
    Registrations = {"a"}
    Instances = {"a"}
    MaxTasks = 2
    Names = {"s"}
    Clients = {c, d}
    Listeners = {"all", "one"}
    Devices = {"a"}
    Sources = {1, 2}
    Strengths = {1}
    Data = {1, 2}
    Wants <- MCWants
    Evictors = {"loop", "asked"}
    Sticks = {"a"}
    Own = {"own"}
    Extra = {"extra"}
    Tells <- MCTells
    Ported = {"multi", "otbr"}
    Preferred <- MCPreferred
    PORTS = {5}
    MaxTaken = 1
    Networks = {"A"}
    Formed = "F"
    Channels = {"z", "o"}
    Zigbee = "z"
    Ids = {1, 2}
    Integrations = {"I"}
    Owner <- MCOwner
    Sessions = {x, y}
    Values = {"v"}
SYMMETRY MCAlike
SPECIFICATION PartsSpec
INVARIANTS
    PartsTypeOK
    TypeOK
    AppliedIsTrue
    ServesAsRendered
    LastIsApplied
    HeardIsKnown
    LeasesEnd
    ServesWhatRuns
    RemembersRight
    PortsStand
    JoinedIsOn
    ToldAsItStays
    SameInBoth
PROPERTIES
    ToldInOrder
