CONSTANTS
    Registrations = {"a"}
    Names = {"x"}
    Versions = {1, 2}
    MaxTasks = 2
SPECIFICATION Spec
INVARIANT KnownIsTold
