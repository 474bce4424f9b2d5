SPECIFICATION Spec

CONSTANTS
    NumTasks = 2
    NumSlots = 1
    MaxCrashes = 0
    Features = {"sendError", "unmarked"}

INVARIANTS
    OwnResult

\* Every task may be settled and every thread at its end.
CHECK_DEADLOCK FALSE
