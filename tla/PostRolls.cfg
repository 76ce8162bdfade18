CONSTANTS
    r1 = r1
    r2 = r2
    r3 = r3
    alice = alice
    admin = admin
    home = home
    NoUser = NoUser
    Requests = {r1, r2, r3}
    Users = {alice, admin}
    Admins = {admin}
    Mods = {alice, admin}
    NoRoll = {admin}
    Addresses = {home}
    MaxPosts = 2
    MaxRolls = 1
    CacheSize = 2
    ThrotSize = 2
    MaxTime = 0
    ToLock = {1}
    ToBlock = {home}
    ToPurge = {3}
    Forms <- Tries
    Settings <- Rolling
    OldTopics <- TwoTopics
SPECIFICATION Spec
CHECK_DEADLOCK FALSE
SYMMETRY Alike
INVARIANTS AnswerIsTrue TriesAreCounted PassedIsForgiven
PROPERTIES LockedTakesOnlyEarly
