\* r_pass1 over every function of three PIC idioms, each GOT load with one user.
CONSTANTS
    TextVaddr <- MCTextVaddr
    GpValue = 65536
    GpValueAdj = 32
    GotLocals <- MCGotLocals
    GotGlobals <- MCGotGlobals
    MaxLookback = 128
    RodataVaddr = 0
    Rodata <- MCNoRodata
    Programs <- MCPrograms
SPECIFICATION Spec
CHECK_DEADLOCK FALSE
INVARIANT TypeOK
INVARIANT CallTargetsPreserved
INVARIANT AccessesPreserved
