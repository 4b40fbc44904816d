SPECIFICATION Spec
CONSTANTS
    c1 = c1
    c2 = c2
    c3 = c3
    a1 = a1
    a2 = a2
    Conns <- MCConns3
    Addrs <- MCAddrs
    NoAddr = NoAddr
    NoConn = NoConn
    Exit = Exit
    ReuseFreed = TRUE
    MaxInits <- MCMaxInits
SYMMETRY Symmetry
INVARIANT FinalizeAfterThreads
