CONSTANTS
    Options = {"serve", "csrf"}
    CrashPoints = {"stat", "create", "write header", "serving"}
    RecordSize = 7
    MaxRecords = 3
    MaxStarts = 3
SPECIFICATION FairSpec
CHECK_DEADLOCK FALSE
INVARIANTS ReadyMeansLoaded
PROPERTIES ComesUp
