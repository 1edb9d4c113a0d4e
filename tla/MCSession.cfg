SPECIFICATION FairSpec
CONSTANTS
    Kinds <- Sample
    Mtu = 2
    MaxRequests = 3
    RxqLen = 3
    NoPort = NoPort
    Nothing = Nothing
CHECK_DEADLOCK FALSE
INVARIANTS TypeOK Placed
PROPERTIES InOrder  Whole Answered
