\* r_pass1 on a function that ends with a GOT-local load, followed by one that reads v0 at entry.
CONSTANTS
    TextVaddr <- MCTextVaddr
    GpValue = 65536
    GpValueAdj = 32
    GotLocals <- MCGotLocals
    GotGlobals <- MCGotGlobals
    MaxLookback = 128
    RodataVaddr = 0
    Rodata <- MCNoRodata
    Programs <- MCCrossReturn
SPECIFICATION Spec
CHECK_DEADLOCK FALSE
INVARIANT NoLinkAcrossReturn
