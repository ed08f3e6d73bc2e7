SPECIFICATION FairSpec
CONSTANTS
    Callers = {c1, c2}
    Pollers = {c1}
    MaxTokens = 2
    MaxAttempts = 1
    MaxOAuth2Retries = 1
INVARIANTS
    TypeOK
    FetchesAreJustified
    RejectedStaysOut
PROPERTY CallReturns
