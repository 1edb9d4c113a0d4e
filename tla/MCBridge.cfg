SPECIFICATION Spec
CONSTANTS
    c1 = c1
    c2 = c2
    c3 = c3
    c4 = c4
    Traffic <- Mixed
    Zero = Zero
    Crcs = {Zero, c1, c2, c3, c4}
    Count = 4
    Window = 1
    ClockMod = 3
    A = A
    B = B
    C = C
    Ifaces = {A, B, C}
    NoIface = NoIface
    QfifoLen = 2
    Nothing = Nothing
SYMMETRY Symmetry
INVARIANTS TypeOK
PROPERTIES  RepeatsDropped BridgeSpec
