SPECIFICATION Spec
CONSTANTS
    c1 = c1
    c2 = c2
    c3 = c3
    a1 = a1
    a2 = a2
    Conns <- MCConns
    Addrs <- MCAddrs
    NoAddr = NoAddr
    NoConn = NoConn
    Exit = Exit
    ReuseFreed = FALSE
    MaxInits <- MCMaxInits
INVARIANTS
    TypeOK
    FinalizeAfterThreads
    MainHasItsObject
PROPERTIES
    StopCompletes
    ClientsAreServed
