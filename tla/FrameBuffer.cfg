SPECIFICATION Spec
CONSTANTS
    t1 = t1
    t2 = t2
    x1 = x1
    x2 = x2
    w1 = w1
    b1 = b1
    b2 = b2
    Threads <- MCThreads
    Contexts <- MCContexts
    Windows <- MCWindows
    Buffers <- MCBuffers
    Sizes <- MCSizes
    Null = Null
    FBContext = FBContext
    FBSurface = FBSurface
    MaxGen = 3
    Rules <- AllRules
    EglMayFail = TRUE
SYMMETRY Symmetry
CHECK_DEADLOCK FALSE
INVARIANTS
    TypeOK
    FBContextReleased
    RendersIntoOwnContext
    BlitSizesAgree
