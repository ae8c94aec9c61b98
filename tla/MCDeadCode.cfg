\* Dead-code annotations against what the emitted C reads, on skeleton P (MULT then MFLO).
CONSTANTS
    TextVaddr <- MCTextVaddr
    Programs <- MCPPrograms
    MaxQueue <- MCMaxQueue
SPECIFICATION Spec
\* the program exits after r_pass6 or an assert
CHECK_DEADLOCK FALSE
INVARIANT BdeadIsFaint
