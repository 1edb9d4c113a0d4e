SPECIFICATION FairSpec
CONSTANTS
    Buffers = {b1, b2, b3}
    Refs = {r1, r2, r3}
    Tasks = {t1}
    MaxCount = 4
    SplitCount = TRUE
    IsrShares = FALSE
    NoBuf = NoBuf
    NoRef = NoRef
INVARIANT CountExact
PROPERTY NoLeak
CHECK_DEADLOCK FALSE
