SPECIFICATION Spec
CONSTANTS
    Buffers = {b1, b2, b3}
    Refs = {r1, r2, r3}
    Tasks = {t1}
    MaxCount = 3
    SplitCount = FALSE
    IsrShares = TRUE
    NoBuf = NoBuf
    NoRef = NoRef
PROPERTY ReserveKept
CHECK_DEADLOCK FALSE
