CONSTANTS
    r1 = r1
    r2 = r2
    NoRecord = NoRecord
    Torn = Torn
    Records = {r1, r2}
    MaxLength = 4
SPECIFICATION Spec
INVARIANTS Readable AckedIsKept
PROPERTIES ImplementsLog
