SPECIFICATION FairSpec
CONSTANTS
    Mac = {m1}
    Ip = {i1}
    Node = {n1}
    Null = Null
    MaxClients = 1
    MaxId = 3
    Faults = {}
    MaxCopies = 0
    MacMechanism = "MAC_BLOCK"
    BinAuth = FALSE
    BinSeconds = {}
    SessionTimeout = 1
    SessionTimeoutBlock = FALSE
    SessionLimitBlock = FALSE
    PreauthIdleTimeout = 1
    AuthIdleTimeout = 1
    AdminMac = {}
    MaxTime = 2
PROPERTIES
    PreauthIdleRemoved
