SPECIFICATION Spec
CONSTANTS
    Tokens = {t1, t2}
    NoToken = NoToken
    MaxAttempts = 1
    MaxJobs = 2
    Usage = {0, 1}
    MaxFaults = 1
    MaxEdits = 0
    MaxCalls = 3
    MaxTokens = 3
    CallTokens = 1
    MaxSearches = 1
    Overshoot = 0
    MaxGrants = 1
    GrantCalls = 2
    GrantTokens = 2
    Website = TRUE
CHECK_DEADLOCK FALSE
INVARIANT VerdictsAreFresh
