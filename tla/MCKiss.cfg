SPECIFICATION Spec
CONSTANTS
    FEND = FEND
    FESC = FESC
    TFEND = TFEND
    TFESC = TFESC
    d = d
    TNC_DATA = d
    Plain = {d}
    Header <- Identifier
    DataSize = 8
    Payloads <- Sample
    MaxFrames = 3
    MaxFaults = 2
    Nothing = Nothing
CHECK_DEADLOCK FALSE
INVARIANTS TypeOK Held
PROPERTIES Resync KissSpec
