SPECIFICATION Spec
CONSTANTS
    w1 = w1
    r1 = r1
    Watchers <- MCWatchers
    Resumers <- MCResumers
    Faults = {"persist"}
    MaxEvents = 3
    MaxCrashes = 1
    RingMax = 2
    DbKeep = 2
    ReplayLimit = 3
INVARIANTS
    TypeOK
    IdsIncrease
    ReplayComplete
    WatchersMissNothing
PROPERTIES
    NoOverwrite
    StreamsInOrder
