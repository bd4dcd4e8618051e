SPECIFICATION FairSpec
CONSTANTS
    Notices = {n1}
    FeedNotices = {n1}
    Tokens = {1, 2, 3}
    NoToken = NoToken
    MaxAttempts = 3
    MaxAge = 2
    Patience = 1
    Retention = 3
    Horizon = 5
    MaxWorkers = 2
    MaxFaults = 1
INVARIANTS ShownOnce SuccessIsTrue
PROPERTIES OwnerSettles ContractHolds EveryNoticeSettles
