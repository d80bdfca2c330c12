SPECIFICATION Spec
CONSTANTS
    Mac = {m1}
    Ip = {i1, i2}
    Node = {n1, n2}
    Null = Null
    MaxClients = 1
    MaxId = 3
    Faults = {"append"}
    MaxCopies = 0
    MacMechanism = "MAC_ALLOW"
    BinAuth = TRUE
    BinSeconds <- ScriptSeconds
    SessionTimeout = 0
    SessionTimeoutBlock = FALSE
    SessionLimitBlock = TRUE
    PreauthIdleTimeout = 1
    AuthIdleTimeout = 1
    AdminMac = {m1}
    MaxTime = 1
    \* the bits of the default marks 0x10000, 0x20000 and 0x30000
    MarkBlocked = {16}
    MarkTrusted = {17}
    MarkAuthenticated = {16, 17}
    MarkOp = "--set-mark"
    MarkMask = FALSE
SYMMETRY Symmetry
INVARIANTS
    TypeOK
    RulesOnlyForClients
    OnlyGrantedPass
PROPERTIES
    ImplementsClientList
    ImplementsAdmission
