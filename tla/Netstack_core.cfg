CONSTANTS
    Conns = {c1}
    Udps = {u1}
    Buf = 1
    Queue = 1
    Up = 4
    Down = 2
    UpUnits <- MCUp
    DownUnits <- MCDown
    MaxChunk = 2
SPECIFICATION FairSpec
INVARIANTS TypeOK UploadIntact FinAfterAll EofMeansAll
PROPERTIES UploadSpec  AbandonedFreed CallersEnd
CHECK_DEADLOCK FALSE
