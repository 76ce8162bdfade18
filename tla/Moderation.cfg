CONSTANTS
    p1 = p1
    w1 = w1
    w2 = w2
    r1 = r1
    r2 = r2
    Paths = {p1}
    ImageWorkers = {w1, w2}
    QueueCap = 1
    MaxUploads = 2
    MaxFailures = 1
    Requests = {r1, r2}
    Users <- Everybody
    Messages <- AllMessages
    Numbers = {"cooldown"}
    Flags = {"cookie"}
    Texts = {"title", "announcement"}
    Default <- Defaults
    NotSaved = NotSaved
    Half = 4
    FirstLimit = 2
    MaxRequests = 2
SPECIFICATION MCSpec
\* the requests end
CHECK_DEADLOCK FALSE
INVARIANTS SettingsSurvive RemovedIsLogged
PROPERTIES OrphanOnlyByOverlap ThumbComes
