SPECIFICATION FairSpec
CONSTANTS
    a = a
    b = b
    MaxRecords = 3
    MaxTroubles = 2
    Filters <- SomeFilters
    MaxFilters = 2
    MaxLoad = 4
    MaxNested = 1
    MaxDepth = 2
    MaxItems = 1
    Aliases = {a, b}
    OutputConfigs <- SomeOutputs
CHECK_DEADLOCK FALSE
INVARIANTS
    DeliveryType
    FailuresShow
    LoopScopeIsExact
    ResultIsHonest
    DestinationIsExact
PROPERTIES
    DeliveryEnds
