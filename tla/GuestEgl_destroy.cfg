SPECIFICATION GuestSpec
CONSTANTS
    t1 = t1
    t2 = t2
    x1 = x1
    w1 = w1
    w2 = w2
    b1 = b1
    b2 = b2
    p1 = p1
    p2 = p2
    Null = Null
    FBContext = FBContext
    FBSurface = FBSurface
    Threads <- MCThreads
    Contexts <- MCContexts
    Windows <- MCWindows
    Buffers <- MCBuffers
    Addrs <- MCAddrs
    Sizes <- MCSizes
    MaxGen = 1
    MaxPending = 2
    Rules <- NoRules
    EglMayFail = FALSE
    GuestRules <- AllButSurface
SYMMETRY Symmetry
INVARIANTS
    NothingToDo
CHECK_DEADLOCK FALSE
