\* r_pass1, then the LI scan of r_pass2, on a function address loaded from the GOT and passed as an argument.
CONSTANTS
    TextVaddr <- MCTextVaddr
    GpValue = 65536
    GpValueAdj = 32
    GotLocals <- MCGotLocals
    GotGlobals <- MCGotGlobals
    MaxLookback = 128
    RodataVaddr = 0
    Rodata <- MCNoRodata
    Programs <- MCFuncArg
SPECIFICATION Spec
CHECK_DEADLOCK FALSE
INVARIANT LiPointersFound
