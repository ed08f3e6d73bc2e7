SPECIFICATION Spec
CONSTANTS
    Configs <- DryRuns
    TicksPerSecond = 2
    Stamps = {1, 2}
    MaxRecords = 1
    MaxTime = 2
    MaxFailures = 0
    MaxCrashes = 0
PROPERTY DryRunTouchesNothing
