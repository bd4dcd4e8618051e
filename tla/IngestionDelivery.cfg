SPECIFICATION FairSpec
CONSTANTS
    Sources = {s1}
    JobIds = {1}
    Feeds = {f1}
    Tokens = {1, 2, 3}
    NoToken = NoToken
    NoSource = NoSource
    NoFeed = NoFeed
    AdaptiveSources = {s1}
    MaxAttempts = 2
    MaxWorkers = 2
    MaxFailures = 1
    MaxOverrides = 1
    MaxFaults = 1
INVARIANTS TypeOK LeaseMatchesStatus
PROPERTIES OnlyOwnerSettles ContractHolds EveryJobSettles SourceKeepsFetching
