SPECIFICATION Spec
CONSTANTS
    a = a
    b = b
    LoopIds = {a, b}
    NoId = NoId
    Garbage = Garbage
    FirstCapacity = 1
    MaxRecords = 5
    MaxHandlers = 3
CHECK_DEADLOCK FALSE
INVARIANTS
    TypeOK
    RecordsAreTheLog
    ProfileIsTheLog
    LoopsOfMainAreWritten
PROPERTY WrittenOnce
