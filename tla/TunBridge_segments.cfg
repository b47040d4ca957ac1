SPECIFICATION Spec
CONSTANTS
    Modes = {"TUNNEL"}
    StreamLen = 3
    SeqMod = 5
    Isn = 2
    QueueCap = 2
    TunCap = 1
    MaxSessions = 1
    MaxConns = 1
    MaxChunks = 2
INVARIANTS StreamIntact EofAfterAll GapsShow
PROPERTY StopEnds
CHECK_DEADLOCK FALSE
