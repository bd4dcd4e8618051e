SPECIFICATION FairSpec
CONSTANTS
    Users = {1, 2, 3}
    Subjects = {topic, source}
    Batch = 2
    MaxChanges = 2
CHECK_DEADLOCK FALSE
INVARIANTS NoFollowerSkipped ExistingFollowersOnly
PROPERTY ExpansionEnds
