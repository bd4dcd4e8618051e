SPECIFICATION Spec
CONSTANTS
    Sources = {s1}
    JobIds = {1, 2}
    Feeds = {f1, f2}
    Tokens = {1, 2, 3}
    NoToken = NoToken
    NoSource = NoSource
    NoFeed = NoFeed
    AdaptiveSources = {s1}
    MaxAttempts = 2
    MaxWorkers = 2
    MaxFailures = 1
    MaxOverrides = 0
    MaxFaults = 0
INVARIANTS OneActiveJob LearnedFeedIsCurrent
