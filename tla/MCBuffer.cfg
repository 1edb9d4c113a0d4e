SPECIFICATION Spec
CONSTANTS
    Buffers = {b1, b2, b3}
    Refs = {r1, r2, r3, r4}
    Tasks = {t1, t2}
    MaxCount = 4
    SplitCount = FALSE
    IsrShares = TRUE
    NoBuf = NoBuf
    NoRef = NoRef
SYMMETRY Symmetry
INVARIANTS TypeOK CountExact FreeOnce Conserved
PROPERTY PoolSpec
CHECK_DEADLOCK FALSE
