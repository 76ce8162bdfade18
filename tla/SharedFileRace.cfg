CONSTANTS
    s1 = s1
    s2 = s2
    c1 = c1
    NoRecord = NoRecord
    Torn = Torn
    StoreCallers = {s1}
    ConfigCallers = {c1}
    MaxAppends = 2
    MaxDups = 0
    Chunk = 20
SPECIFICATION Spec
CHECK_DEADLOCK FALSE
INVARIANTS AppendIsWAL
