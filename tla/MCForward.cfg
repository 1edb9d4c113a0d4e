SPECIFICATION FairSpec
CONSTANTS
    Version = 2
    lo = lo
    a = a
    b = b
    u = u
    Ifaces = {lo, a, b, u}
    Lo = lo
    Removable = {a, b, u}
    Addr <- AddrOf
    Mask <- MaskOf
    Name <- NameOf
    Nodes <- NodeSet
    RtableSize = 3
    Flagged <- FlaggedSet
    Routes <- RouteSet
    CmpRoutes <- CmpSet
    Sends <- SendSet
    Receives <- ReceiveSet
    NoIface = NoIface
    NoVia = 65535
    NoJob = NoJob
    NoEvent = NoEvent
INVARIANTS TypeOK HeaderCarried
PROPERTIES RouteSpec SendReturns
CHECK_DEADLOCK FALSE
