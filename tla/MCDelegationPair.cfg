SPECIFICATION Spec

CONSTANTS
    NumTasks = 2
    NumSlots = 2
    MaxCrashes = 1
    Features = {"concurrent", "time", "lostReply"}

PROPERTIES
    NeverRunTwice
    SettledStays

\* Every task may be settled and every thread at its end.
CHECK_DEADLOCK FALSE
