CONSTANTS
    Services = {s1, s2}
    Versions = {v1, v2}
    MaxApplies = 4
SPECIFICATION Spec
SYMMETRY Alike
CHECK_DEADLOCK FALSE
INVARIANTS
    OnlyWhatRuns
