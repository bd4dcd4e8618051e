SPECIFICATION FairSpec
CONSTANTS
    Tokens = {t1, t2}
    NoToken = NoToken
    MaxAttempts = 1
    StepCount = 3
    CatalogSteps = {3}
    ApplyTries = 2
    Automation = TRUE
    MaxEvidence = 2
    MaxMoves = 1
    MaxFaults = 1
    MaxDeferrals = 0
CHECK_DEADLOCK FALSE
INVARIANTS ShownAnalysisIsCurrent RequestsAnswerChanges
PROPERTIES DecisionsStand EvidenceIsJudged
