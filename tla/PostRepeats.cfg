CONSTANTS
    r1 = r1
    r2 = r2
    r3 = r3
    alice = alice
    admin = admin
    home = home
    NoUser = NoUser
    Requests = {r1, r2, r3}
    Users = {alice}
    Admins = {}
    Mods = {}
    NoRoll = {}
    Addresses = {home}
    MaxPosts = 4
    MaxRolls = 1
    CacheSize = 1
    ThrotSize = 2
    MaxTime = 2
    ToLock = {}
    ToBlock = {}
    ToPurge = {}
    Forms <- Repeats
    Settings <- Calm
    OldTopics <- OneTopic
SPECIFICATION Spec
CHECK_DEADLOCK FALSE
SYMMETRY Alike
INVARIANTS RepeatNotPosted CooldownKept
