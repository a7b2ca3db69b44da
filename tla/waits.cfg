CONSTANTS
    Peripherals = {p1, p2}
    Delays <- MCDelays
    StableRun = 2
    MaxTime = 6
    Tasks = {t1, t2, t3, t4}
    Marks <- MCMarks
    NoOne = NoOne
SYMMETRY MCAlike
SPECIFICATION WaitsSpec
INVARIANTS
    WaitsTypeOK
    GivenUpAfterAll
    NextRetryIsTimed
    NoneWaitsForItself
PROPERTIES
    NoneTooEarly
