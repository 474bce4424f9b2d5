SPECIFICATION Spec
CONSTANTS
    s1 = s1
    s2 = s2
    Sessions <- MCSessions
    Cap = 1
    NumTurns = 3
    MaxSpawns = 4
    MaxOps = 2
    Cases <- MCCases
INVARIANTS
    TypeOK
    OwnAnswer
    ContextFirst
    NeverStuck
\* Every message may have ended.
CHECK_DEADLOCK FALSE
