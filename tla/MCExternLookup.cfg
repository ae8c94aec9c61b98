\* Extern resolution of r_pass4 and r_pass5 when a patched LI follows a call.
CONSTANTS
    TextVaddr <- MCTextVaddr
    Programs <- MCPatchedPrograms
    MaxQueue <- MCMaxQueue
SPECIFICATION Spec
\* the program exits after r_pass6 or an assert
CHECK_DEADLOCK FALSE
INVARIANT ExternLookupsAgree
