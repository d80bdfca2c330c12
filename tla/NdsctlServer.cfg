SPECIFICATION SockFairSpec
CONSTANTS
    Ctl = {c1, c2}
    Sock = Sock
    Null = Null
    Fd = {7, 8}
    MaxBytes = 1
    CallsFail = TRUE
INVARIANTS
    SockTypeOK
    AcceptNeverBlocks
    CountCoversConnections
PROPERTIES
    RequestEnds
CHECK_DEADLOCK FALSE
