CONSTANTS
    s1 = s1
    s2 = s2
    c1 = c1
    NoRecord = NoRecord
    Torn = Torn
    StoreCallers = {s1, s2}
    ConfigCallers = {}
    MaxAppends = 5
    MaxDups = 2
    Chunk = 5
SPECIFICATION Spec
CHECK_DEADLOCK FALSE
INVARIANTS AckedLoads SnapshotLoads
PROPERTIES ImplementsDataFile
