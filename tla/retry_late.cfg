CONSTANTS
    Peripherals = {p1, p2}
    Delays <- TwoDelays
    StableRun = 2
    MaxTime = 6
SPECIFICATION Spec
CHECK_DEADLOCK FALSE
INVARIANTS
    NoRetryIsLost
