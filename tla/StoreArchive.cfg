CONSTANTS
    alice = alice
    moderator = moderator
    term = term
    cfg = cfg
    NoConfig = NoConfig
    MaxTopicID = 4
    MaxPosts = 2
    MaxPieces = 1
    DefaultMaxLive = 2
    Users = {alice}
    Mods = {}
    Terms = {}
    Configs = {}
    Limits = {}
    Requests <- ArchiveRequests
    Flags = {}
SPECIFICATION SnapshotFairSpec
INVARIANTS NothingLost ArchiveReadsBack
PROPERTIES ArchiveKeepsPosts KeepsLimit ArchiveEnds
