SPECIFICATION Spec
CONSTANTS
    Version = 2
    lo = lo
    a = a
    b = b
    u = u
    Ifaces = {lo, a, u}
    Lo = lo
    Removable = {u}
    Addr <- AddrOf
    Mask <- MaskOf
    Name <- NameOf
    Nodes <- NodeSet
    RtableSize = 3
    Flagged <- PlainFlagged
    Routes = {}
    CmpRoutes = {}
    Sends = {}
    Receives <- PlainReceives
    NoIface = NoIface
    NoVia = 65535
    NoJob = NoJob
    NoEvent = NoEvent
PROPERTIES SplitHorizon
CHECK_DEADLOCK FALSE
