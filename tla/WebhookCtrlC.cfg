SPECIFICATION FairSpec
CONSTANTS
    Requests = {q1}
    Workers = {w1}
    QueueSizes = {1}
    RateLimit = 0
PROPERTY CtrlCStops
CHECK_DEADLOCK FALSE
