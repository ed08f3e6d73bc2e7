SPECIFICATION FetchSpec
CONSTANTS
    MaxKey = 4
    MaxPages = 3
    MaxChanges = 2
    MaxOAuth2Retries = 1
    Configs <- SomeInputs
CHECK_DEADLOCK FALSE
INVARIANTS
    FetchType
    RowsFetchedOnce
PROPERTIES
    FetchReturns
