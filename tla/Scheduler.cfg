SPECIFICATION FairSpec
CONSTANTS
    Pipelines = {p1}
    Regs = {r1, r2}
    Jobs = {j1, j2}
    QueueCapacity = 1
    MaxStarts = 2
    MaxTicks = 4
    None = None
INVARIANTS
    TypeOK
    OwnershipIsExact
    StopDrains
PROPERTIES
    NoExecutionAfterStop
    SchedulerProgress
