SPECIFICATION FairSpec
CONSTANTS
    Buffers = {b1, b2, b3}
    NConns = 1
    Apps = {a1}
    Router = router
    me = me
    p1 = p1
    d1 = d1
    s1 = s1
    Sockets = {d1}
    ConnLess = {d1}
    CrcReq = {d1}
    MaxBind = 1
    Bindings <- LoopBindings
    Callbacks = {0}
    Connects <- LoopConnects
    Datagrams <- Grams
    Me = me
    Peers = {p1}
    Wire <- LoopWire
    QfifoLen = 1
    RxqLen = 1
    Preemptive = FALSE
    ClosesSockets = TRUE
    NoBuf = NoBuf
    NoHdr = NoHdr
    NoConn = NoConn
    NoSock = NoSock
    NoArgs = NoArgs
INVARIANTS OnePlace RightConn
PROPERTY Routed
CHECK_DEADLOCK FALSE
