SPECIFICATION TrafficSpec
CONSTANTS
    m1 = m1
    m2 = m2
    i1 = i1
    Mac = {m1, m2}
    Ip = {i1}
    Guests <- TwoGuests
    BinLimits <- PrintedLimits
    DownloadLimit = 1
    UploadLimit = 0
    IfbFails = FALSE
    TcFails = {2}
    IdleTimeout = 1
    PreauthIdleTimeout = 1
    MaxClients = 2
    MaxId = 3
    MaxBytes = 2
    MaxTime = 1
SYMMETRY Symmetry
INVARIANTS
    TrafficTypeOK
    NoShapingLeft
PROPERTIES
    ShapingUndisturbed
    ActiveStays
CHECK_DEADLOCK FALSE
