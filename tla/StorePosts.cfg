CONSTANTS
    alice = alice
    moderator = moderator
    term = term
    cfg = cfg
    NoConfig = NoConfig
    MaxTopicID = 1
    MaxPosts = 2
    MaxPieces = 2
    DefaultMaxLive = 3
    Users = {alice, moderator}
    Mods = {moderator}
    Terms = {term}
    Configs = {cfg}
    Limits = {4}
    Requests <- PostRequests
    Flags = {"image", "nsfw"}
SPECIFICATION SnapshotSpec
INVARIANTS TypeOK LogLoads RestartKeepsContent SnapshotKeepsAll
PROPERTIES DivergesOnlyBy
