SPECIFICATION Spec
CONSTANTS
    a1 = a1
    c1 = c1
    server = server
    client = client
    NoProc = NoProc
    Threads <- MCThreads
    Procs <- MCProcs
    ProcOf <- MCProcOf
    MaxBuffers = 1
    MaxHeld = 2
    MaxOut = 2
    MaxPosts = 1
    MaxFailed = 1
    Rules <- AllRules
INVARIANTS
    TypeOK
    CountIsClientReferences
    HeldBuffersExist
PROPERTIES
    PostsArrive
    ImplementsHandleTables
CHECK_DEADLOCK FALSE
