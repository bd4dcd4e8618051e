SPECIFICATION Spec
CONSTANTS
    Tokens = {t1, t2}
    NoToken = NoToken
    MaxAttempts = 2
    StepCount = 3
    CatalogSteps = {3}
    ApplyTries = 2
    Automation = FALSE
    MaxEvidence = 1
    MaxMoves = 1
    MaxFaults = 2
    MaxDeferrals = 1
CHECK_DEADLOCK FALSE
INVARIANTS StepBudget GivenUpOnlyWhenSpent
PROPERTY OutputsSurvive
