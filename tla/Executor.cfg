SPECIFICATION FairSpec
CONSTANTS
    Configs <- OneCursor
    TicksPerSecond = 2
    Stamps = {1, 2}
    MaxRecords = 2
    MaxTime = 3
    MaxFailures = 1
    MaxCrashes = 1
INVARIANTS
    TypeOK
    ResumeIsSafe
    NoNeedlessDuplicate
PROPERTIES
    EveryRecordHandled
