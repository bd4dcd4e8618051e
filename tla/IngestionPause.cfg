SPECIFICATION Spec
CONSTANTS
    Sources = {s1}
    JobIds = {1}
    Feeds = {f1}
    Tokens = {1, 2, 3}
    NoToken = NoToken
    NoSource = NoSource
    NoFeed = NoFeed
    AdaptiveSources = {s1}
    MaxAttempts = 2
    MaxWorkers = 1
    MaxFailures = 1
    MaxOverrides = 0
    MaxFaults = 0
PROPERTY PauseIsNotFailure
