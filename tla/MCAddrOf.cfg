\* r_pass1 on the address of a static object.
CONSTANTS
    TextVaddr <- MCTextVaddr
    GpValue = 65536
    GpValueAdj = 32
    GotLocals <- MCGotLocals
    GotGlobals <- MCGotGlobals
    MaxLookback = 128
    RodataVaddr = 0
    Rodata <- MCNoRodata
    Programs <- MCAddrOf
SPECIFICATION Spec
CHECK_DEADLOCK FALSE
INVARIANT ExitValuesPreserved
