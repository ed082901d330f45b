SPECIFICATION Spec
CONSTANTS
    c1 = c1
    c2 = c2
    f = f
    Conn <- MCConn
    Foreign <- MCForeign
    MaxClient = 2
    ReadMax = 2
    RecvMax = 2
    MaxSent <- MCMaxSent
    MaxTold <- MCMaxTold
    AnswerSize = 2
    SockBuf = 1
    MayFail = TRUE
INVARIANTS StreamIntact GoneIsQuiet
PROPERTIES Served ShutdownReturns
CHECK_DEADLOCK FALSE
