\* r_pass1 on IDO 5.3 and IDO 7.1 PIC jump tables.
CONSTANTS
    TextVaddr <- MCTextVaddr
    GpValue = 65536
    GpValueAdj = 32
    GotLocals <- MCGotLocals
    GotGlobals <- MCGotGlobals
    MaxLookback = 128
    RodataVaddr <- MCRodataVaddr
    Rodata <- MCRodata
    Programs <- MCSwitches
SPECIFICATION Spec
CHECK_DEADLOCK FALSE
INVARIANT SwitchIndexPreserved
