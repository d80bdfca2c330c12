SPECIFICATION LifeSpec
CONSTANTS
    Mac = {m1, m2}
    Ip = {i1}
    Node = {n1, n2}
    Null = Null
    MaxClients = 2
    MaxId = 3
    Faults = {}
    MaxCopies = 0
    MacMechanism = "MAC_BLOCK"
    BinAuth = FALSE
    BinSeconds = {}
    SessionTimeout = 0
    SessionTimeoutBlock = FALSE
    SessionLimitBlock = FALSE
    PreauthIdleTimeout = 0
    AuthIdleTimeout = 0
    AdminMac = {}
    MaxTime = 1
    Signal = {"SIGTERM"}
    MaxStarts = 2
    MaxStops = 1
SYMMETRY HostSymmetry
CONSTRAINT RefusedFileBound
INVARIANTS
    LifeTypeOK
    CleanExit
    NoRuleSurvivesCrash
PROPERTIES
    ImportRestoresSessions
CHECK_DEADLOCK FALSE
