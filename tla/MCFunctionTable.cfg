\* inspect_data_function_pointers and r_pass2 on IDO 5.3 and 7.1 layouts and the inputs that abort.
CONSTANTS
    TextVaddr <- MCTextVaddr
    RodataVaddr <- MCRodataVaddr
    DataVaddr <- MCDataVaddr
    ProcTableStart <- MCProcTableStart
    ProcTableLen <- MCProcTableLen
    McountAddr <- MCMcountAddr
    Images <- MCImages
SPECIFICATION Spec
CHECK_DEADLOCK FALSE
INVARIANT TypeOK
INVARIANT ReturnsAttributed
INVARIANT ReturnsAreJrDelaySlots
