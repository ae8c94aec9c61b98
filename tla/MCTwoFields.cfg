\* r_pass1 on two field loads through one GOT-local load.
CONSTANTS
    TextVaddr <- MCTextVaddr
    GpValue = 65536
    GpValueAdj = 32
    GotLocals <- MCGotLocals
    GotGlobals <- MCGotGlobals
    MaxLookback = 128
    RodataVaddr = 0
    Rodata <- MCNoRodata
    Programs <- MCTwoFields
SPECIFICATION Spec
CHECK_DEADLOCK FALSE
INVARIANT AccessesPreserved
