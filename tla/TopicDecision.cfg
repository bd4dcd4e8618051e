SPECIFICATION FairSpec
CONSTANTS
    Tokens = {t1, t2}
    NoToken = NoToken
    MaxAttempts = 2
    MaxJobs = 2
    Usage = {0, 2}
    MaxFaults = 1
    MaxEdits = 1
    MaxCalls = 2
    MaxTokens = 2
    CallTokens = 1
    MaxSearches = 1
    Overshoot = 1
    MaxGrants = 1
    GrantCalls = 1
    GrantTokens = 1
    Website = TRUE
CHECK_DEADLOCK FALSE
INVARIANTS BudgetBound UsageAttributedOnce CallsInFlight ActiveRunHasWork
PROPERTIES NoRegainedBudget ReviewIsFinal EveryDecisionSettles
