SPECIFICATION SplashSpec
CONSTANTS
    Window = {w1, w2}
    None = None
    Origins <- FiveOrigins
    BinAuth = TRUE
    RedirectURL <- NoText
    QueryMaxLen = 23
    MaxResets = 2
    MaxPath = 6
    MaxText = 4
    MaxPieces = 3
INVARIANTS
    AuthtargetKeepsOrigin
CHECK_DEADLOCK FALSE
