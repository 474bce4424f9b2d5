SPECIFICATION FairSpec

CONSTANTS
    NumTasks = 2
    NumSlots = 1
    MaxCrashes = 2
    Features = {"unmarked", "silent", "compaction", "apiCheck"}

INVARIANTS
    TypeOK
    OwnResult
PROPERTIES
    Contract
    OpenTasksUntouched
    RepliesAreTold

\* Every task may be settled and every thread at its end.
CHECK_DEADLOCK FALSE
