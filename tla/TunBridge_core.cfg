SPECIFICATION Spec
CONSTANTS
    Modes = {"TUNNEL", "DIRECT", "BLOCK"}
    StreamLen = 0
    SeqMod = 2
    Isn = 1
    QueueCap = 1
    TunCap = 1
    MaxSessions = 2
    MaxConns = 2
    MaxChunks = 0
INVARIANTS SoleSession SocketReleased
CHECK_DEADLOCK FALSE
