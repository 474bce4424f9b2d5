SPECIFICATION Spec

CONSTANTS
    NumTasks = 2
    NumSlots = 2
    MaxCrashes = 0
    Features = {}

PROPERTIES
    SettledFinal

\* Every task may be settled and every thread at its end.
CHECK_DEADLOCK FALSE
