CONSTANTS
    alice = alice
    moderator = moderator
    term = term
    cfg = cfg
    NoConfig = NoConfig
    MaxTopicID = 3
    MaxPosts = 2
    MaxPieces = 1
    DefaultMaxLive = 5
    Users = {alice}
    Mods = {}
    Terms = {}
    Configs = {}
    Limits = {}
    Requests <- OrderRequests
    Flags = {}
SPECIFICATION Spec
INVARIANTS SnapshotKeepsStickyOrder
PROPERTIES DivergesOnlyBy OthersKeepOrder
