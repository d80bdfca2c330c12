SPECIFICATION LifeFairSpec
CONSTANTS
    Mac = {m1}
    Ip = {i1}
    Node = {n1}
    Null = Null
    MaxClients = 1
    MaxId = 2
    Faults = {}
    MaxCopies = 0
    MacMechanism = "MAC_BLOCK"
    BinAuth = FALSE
    BinSeconds = {}
    SessionTimeout = 0
    SessionTimeoutBlock = FALSE
    SessionLimitBlock = FALSE
    PreauthIdleTimeout = 0
    AuthIdleTimeout = 0
    AdminMac = {}
    MaxTime = 2
    Signal = {"SIGTERM"}
    MaxStarts = 1
    MaxStops = 2
PROPERTIES
    ShutdownCompletes
CHECK_DEADLOCK FALSE
