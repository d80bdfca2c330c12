SPECIFICATION Spec
CONSTANTS
    Mac = {m1, m2}
    Ip = {i1}
    Node = {n1}
    Null = Null
    MaxClients = 1
    MaxId = 3
    Faults = {}
    MaxCopies = 0
    MacMechanism = "MAC_BLOCK"
    BinAuth = FALSE
    BinSeconds = {}
    SessionTimeout = 1
    SessionTimeoutBlock = TRUE
    SessionLimitBlock = FALSE
    PreauthIdleTimeout = 1
    AuthIdleTimeout = 0
    AdminMac = {m1}
    MaxTime = 2
    \* the bits of the default marks 0x10000, 0x20000 and 0x30000
    MarkBlocked = {16}
    MarkTrusted = {17}
    MarkAuthenticated = {16, 17}
    MarkOp = "--or-mark"
    MarkMask = TRUE
INVARIANT
    BlockedDropped
