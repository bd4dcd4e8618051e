SPECIFICATION FairSpec
CONSTANTS
    Images = {i1}
    NoImage = NoImage
    FirstImages = {NoImage}
    MaxAttempts = 2
    ApplyTries = 2
    MaxText = 1
    MaxRefreshes = 1
    MaxRetries = 2
    MaxEvents = 3
    MaxPrepared = 1
INVARIANTS
    EditsSurvive
PROPERTIES
    PromotedIsCurrent
    ConsentBinds
    RefreshEnds
CHECK_DEADLOCK FALSE
