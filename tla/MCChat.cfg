SPECIFICATION ChatSpec
CONSTANTS
    Providers = {"codex", "anthropic", "openrouter"}
    NumRuns = 2
    RoundLimit = 2
    Keep = 3
    Window = 4
    MaxCalls = 3
    MaxOps = 2
    Cases <- MCCases
INVARIANTS
    TypeOK
    OutcomeTrue
    RequestPaired
    PageKeeps
    WakesKeep
PROPERTIES
    RefusedStays
    HistoryKept
\* Every run and every message may have ended.
CHECK_DEADLOCK FALSE
