SPECIFICATION FairRunSpec
CONSTANTS
    Pipelines = {p1}
    Regs = {r1, r2}
    Jobs = {j1, j2}
    Chains = {c1, c2, c3}
    QueueCapacity = 1
    MaxStarts = 1
    MaxTicks = 4
    None = None
INVARIANTS
    ChainUseIsSafe
    ChainsAreReleased
PROPERTY SignalEndsProcess
CHECK_DEADLOCK FALSE
