SPECIFICATION FairSpec
CONSTANTS
    Requests = {q1, q2}
    Workers = {w1, w2}
    QueueSizes = {0, 1}
    RateLimit = 1
INVARIANTS
    TypeOK
    StatusIsHonest
    ShutdownIsClean
PROPERTIES
    ServesThenStops
CHECK_DEADLOCK FALSE
