SPECIFICATION Spec
CONSTANTS
    HandleMod <- MCHandleMod
    MaxSerial <- MCMaxSerial
    MaxRefs <- MCMaxRefs
INVARIANTS
    TypeOK
    HandlesResolve
    BuffersKeptUntilWrap
