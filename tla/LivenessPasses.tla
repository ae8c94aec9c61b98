--------------------------- MODULE LivenessPasses ---------------------------
(***************************************************************************)
(* What main() promises of stages 2-6 (spec sections 4.3-4.6), seen from   *)
(* the masks and not from the worklists:                                   *)
(*   - the graph is built first, while every mask is still empty;          *)
(*   - the forward pass then only adds registers to f_livein/f_liveout,    *)
(*     and touches nothing else;                                           *)
(*   - the backward pass only adds registers to b_livein/b_liveout;        *)
(*   - the signatures are written once, after both passes;                 *)
(*   - an assert or abort() may end any stage before the signatures.       *)
(* A pass is one atomic "grow" here: how many steps it takes and in which  *)
(* order it visits the nodes is the detailed specification's business.     *)
(***************************************************************************)
CONSTANT Value              \* what a register mask may hold

VARIABLES
    stage,      \* "graph", "forward", "backward", "signed" or "abort"
    graph,      \* the control-flow graph the passes read
    fin, fout,  \* forward masks, one per instruction
    bin, bout,  \* backward masks
    sig         \* the signatures

avars == <<stage, graph, fin, fout, bin, bout, sig>>

Empty(m) == \A n \in DOMAIN m : m[n] = {}

\* m' keeps the nodes of m and every register m had at each of them
Grows(m) ==
    /\ DOMAIN m' = DOMAIN m
    /\ \A n \in DOMAIN m : m[n] \subseteq m'[n] /\ m'[n] \subseteq Value

Init ==
    /\ stage = "graph"
    /\ Empty(fin) /\ Empty(fout) /\ Empty(bin) /\ Empty(bout)

Build ==
    /\ stage = "graph" /\ stage' = "graph"
    /\ UNCHANGED <<fin, fout, bin, bout, sig>>

Forward ==
    /\ stage \in {"graph", "forward"} /\ stage' = "forward"
    /\ Grows(fin) /\ Grows(fout)
    /\ UNCHANGED <<graph, bin, bout, sig>>

Backward ==
    /\ stage \in {"forward", "backward"} /\ stage' = "backward"
    /\ Grows(bin) /\ Grows(bout)
    /\ UNCHANGED <<graph, fin, fout, sig>>

Sign ==
    /\ stage = "backward" /\ stage' = "signed"
    /\ UNCHANGED <<graph, fin, fout, bin, bout>>

Abort ==
    /\ stage \notin {"signed", "abort"} /\ stage' = "abort"
    /\ UNCHANGED <<graph, fin, fout, bin, bout, sig>>

Next == Build \/ Forward \/ Backward \/ Sign \/ Abort

Spec == Init /\ [][Next]_avars
=============================================================================
