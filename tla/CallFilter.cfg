SPECIFICATION Spec
CONSTANTS
    k1 = k1
    k2 = k2
    k3 = k3
    c1 = c1
    c2 = c2
    Keys = {empty, k1, k2, k3}
    EmptyKey = empty
    None = None
    Values <- Objects
    MaxSize = 2
    TTL = 1
    MaxTime = 2
    Callers = {c1, c2}
    MaxBatch = 2
    Batches <- TwoRecords
    Modules <- Enrichers
    MaxTroubles = 1
CHECK_DEADLOCK FALSE
INVARIANTS
    TypeOK
    CachedAsFetched
    OutputAccounted
PROPERTIES
    ImplementsLossyMap
    MemoMakesRoom
    ProcessReturns
