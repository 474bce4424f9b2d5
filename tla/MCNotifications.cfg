SPECIFICATION FairSpec

CONSTANTS
    NumNotes = 1
    Fleeting = {}
    InboxCap = 1
    ClaimLimit = 1
    MaxAttempts = 2
    QueueCap = 1
    NumRuns = 2
    Features = {"again", "chat", "cancel", "compaction", "refused", "spawnFails", "dies", "reapProcess", "reapSession", "crash"}

INVARIANTS
    Accounted
PROPERTIES
    Arrives

\* Every note may be delivered and every coroutine at rest.
CHECK_DEADLOCK FALSE
