SPECIFICATION Spec
CONSTANTS
    HeaderLen <- MCHeaderLen
    Lengths <- MCLengths
    BufSize <- MCBufSize
    AllocLimit <- MCAllocLimit
    SizeMod <- MCSizeMod
    IntMax <- MCIntMax
    MaxCommands <- MCMaxCommands
CHECK_DEADLOCK FALSE
INVARIANTS
    TypeOK
    BufferIsStream
    NoCommandStuck
PROPERTIES
    ImplementsFifo
    CommandsAreExecuted
