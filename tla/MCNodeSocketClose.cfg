SPECIFICATION Spec
CONSTANTS
    Buffers = {b1, b2, b3, b4}
    NConns = 2
    Apps = {a1}
    Router = router
    me = me
    p1 = p1
    d1 = d1
    s1 = s1
    Sockets = {s1}
    ConnLess = {}
    CrcReq = {}
    MaxBind = 1
    Bindings <- ServerBindings
    Callbacks = {}
    Connects <- ClientConnects
    Datagrams = {}
    Me = me
    Peers = {p1}
    Wire <- MixedWire
    QfifoLen = 2
    RxqLen = 1
    Preemptive = FALSE
    ClosesSockets = TRUE
    NoBuf = NoBuf
    NoHdr = NoHdr
    NoConn = NoConn
    NoSock = NoSock
    NoArgs = NoArgs
SYMMETRY Symmetry
INVARIANTS NoConnLost
CHECK_DEADLOCK FALSE
