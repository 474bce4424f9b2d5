SPECIFICATION FairSpec

CONSTANTS
    NumTasks = 1
    NumSlots = 1
    MaxCrashes = 1
    Features = {"concurrent", "force", "unmarked", "died", "silent", "sendError", "lostReply", "poolFull", "compaction", "time", "apiCheck", "toolCheck", "dismiss", "remoteParent"}

PROPERTIES
    SettledStays
    OpenTasksSettle

\* Every task may be settled and every thread at its end.
CHECK_DEADLOCK FALSE
