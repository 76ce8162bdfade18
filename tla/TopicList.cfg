CONSTANTS
    alice = alice
    NoConfig = NoConfig
    MaxTopicID = 3
    MaxPosts = 2
    DefaultMaxLive = 2
    MaxAsked = 3
    Users = {alice}
    Limits = {1}
    Requests <- AllRequests
SPECIFICATION Spec
INVARIANTS NothingLost SplicesKeepList OnlyOverlapBreaks
CHECK_DEADLOCK FALSE
