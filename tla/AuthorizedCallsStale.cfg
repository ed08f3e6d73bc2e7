SPECIFICATION Spec
CONSTANTS
    Callers = {c1}
    Pollers = {}
    MaxTokens = 2
    MaxAttempts = 1
    MaxOAuth2Retries = 2
INVARIANT RetryUsesFreshToken
