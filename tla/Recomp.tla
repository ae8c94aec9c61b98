------------------------------ MODULE Recomp ------------------------------
(***************************************************************************)
(* The analysis pipeline of src/rrecomp.cpp after symbol resolution:       *)
(*   r_pass2  find the returns of every function, reject a function with   *)
(*            no return, collect li_function_pointers;                     *)
(*   r_pass3  build the control-flow graph (successors / predecessors      *)
(*            with the edge kinds entry, exit, extern and fptr);           *)
(*   r_pass4  forward liveness ("which registers hold a value"), a LIFO    *)
(*            worklist over instruction indices;                           *)
(*   r_pass5  backward liveness, a second LIFO worklist;                   *)
(*   r_pass6  the signature of every function (nret, nargs, v0_in).        *)
(* The input is the instruction vector as r_pass1 leaves it, one of the    *)
(* CONSTANT Programs; the pipeline is deterministic from there on.         *)
(*                                                                         *)
(* A program is a record                                                   *)
(*   code      [0..N -> instruction], N the dummy NOP r_disassemble adds   *)
(*   funcs     the addresses in the functions map                          *)
(*   main, mcount   main_addr and mcount_addr                              *)
(*   dataptrs  the function addresses of data_function_pointers, in order  *)
(*   symbols   symbol_names, address -> name                               *)
(***************************************************************************)
EXTENDS ExternCatalog, FiniteSets

CONSTANTS
    TextVaddr,    \* text_vaddr
    Programs,     \* the instruction vectors the pipeline may be given
    MaxQueue      \* bound on the worklist length (the code has none)

VARIABLES
    prog,         \* the input
    phase,        \* the pass main() is in, or "done" / "abort"
    why,          \* the reason of an abort
    returns,      \* Function.returns: delay-slot addresses of the JR $ra
    liptrs,       \* li_function_pointers
    refd,         \* the functions with referenced_by_function_pointer
    i3,           \* r_pass3's loop index
    succ, pred,   \* RInsn.successors / predecessors: sequences of edges
    nfs,          \* RInsn.no_following_successor
    fin, fout,    \* RInsn.f_livein / f_liveout
    bin, bout,    \* RInsn.b_livein / b_liveout
    q,            \* the worklist vector of r_pass4 / r_pass5 (indices)
    ext4, ext5,   \* ghost: the extern each pass resolved for a call site
    sig,          \* Function.nret, nargs, v0_in
    labels,       \* label_addresses
    fx, ex,       \* r_dump_c: the function and the instruction it is at
    lbl, gto      \* ghost: the labels r_dump_c printed in each C function,
                  \* and the labels its gotos and switch tables name

vars == <<prog, phase, why, returns, liptrs, refd, i3, succ, pred, nfs,
          fin, fout, bin, bout, q, ext4, ext5, sig, labels, fx, ex, lbl, gto>>

emitVars == <<labels, fx, ex, lbl, gto>>

Code == prog.code
N == Cardinality(DOMAIN Code) - 1
Nodes == 0..N
Funcs == prog.funcs
Symbols == prog.symbols

\* addr_to_i, and the vram of instruction i
AddrToI(a) == a - TextVaddr
Vram(i) == TextVaddr + i

\* [text_vaddr, text_vaddr + text_section_len): the sentinel is outside
InText(a) == TextVaddr <= a /\ a < TextVaddr + N

\* a set of addresses or indices in ascending order (std::set iteration)
AscendingSeq(S) ==
    [k \in 1..Cardinality(S) |->
       CHOOSE x \in S : Cardinality({y \in S : y < x}) = k - 1]

Kinds == {"plain", "entry", "exit", "extern", "fptr"}
NoExt == "none"

\* find_function: upper_bound(addr), then one step back
FindFunction(a) == CHOOSE f \in Funcs : f <= a /\ \A g \in Funcs : g <= a => g <= f

(***************************************************************************)
(* r_pass2                                                                 *)
(***************************************************************************)
IsRet(i) == Code[i].op = "jr" /\ Code[i].rs = "ra"

\* it->second.returns.push_back(addr + 4), in ascending order of addr
ReturnsOf(f) ==
    AscendingSeq({Vram(i) + 1 : i \in {k \in Nodes : IsRet(k) /\ FindFunction(Vram(k)) = f}})

\* is_global_got_memop with a processed immediate inside .text
LiFunctionPointers ==
    {Code[i].imm : i \in {k \in Nodes : Code[k].got /\ InText(Code[k].imm)}}

\* The cases of the no-return check that do not abort: __start, the
\* "lw / move / jalr" stub, and functions at or below _mcount.
NoReturnAllowed(f) ==
    LET i == AddrToI(f) IN
    \/ f \in DOMAIN Symbols /\ Symbols[f] = "__start"
    \/ /\ Code[i].op = "lw" /\ Code[i + 1].op = "move"
       /\ Code[i + 2].op = "jalr"
    \/ f <= prog.mcount

NoRet(f) == ReturnsOf(f) = <<>> /\ ~NoReturnAllowed(f)

Pass2 ==
    /\ phase = "pass2"
    /\ \A f \in Funcs : ~NoRet(f)
    /\ returns' = [f \in Funcs |-> ReturnsOf(f)]
    /\ liptrs' = LiFunctionPointers
    /\ refd' = refd \cup LiFunctionPointers
    /\ phase' = "pass3"
    /\ UNCHANGED <<prog, why, i3, succ, pred, nfs, fin, fout, bin, bout, q,
                   ext4, ext5, sig>>
    /\ UNCHANGED emitVars

\* fprintf(stderr, "no ret: 0x%x\n", it->first); abort();
Pass2NoRet ==
    /\ phase = "pass2"
    /\ \E f \in Funcs : NoRet(f)
    /\ phase' = "abort"
    /\ why' = "no ret"
    /\ UNCHANGED <<prog, returns, liptrs, refd, i3, succ, pred, nfs, fin, fout,
                   bin, bout, q, ext4, ext5, sig>>
    /\ UNCHANGED emitVars

(***************************************************************************)
(* r_pass3 and r_add_edge                                                  *)
(***************************************************************************)
Ed(from, to, kind) == [from |-> from, to |-> to, kind |-> kind]

\* the JAL branch "dest > mcount_addr && dest in .text"
InternalCall(d) == d > prog.mcount /\ InText(d)

Pass3Edges(i) ==
    LET ins == Code[i]
        d   == Target(ins)
        t   == AddrToI(d)
    IN CASE ins.op \in CondBranches ->
              <<Ed(i, i + 1, "plain"), Ed(i + 1, t, "plain")>>
         [] ins.op \in LikelyBranches ->
              <<Ed(i, i + 1, "plain"), Ed(i, i + 2, "plain"),
                Ed(i + 1, t, "plain")>>
         [] ins.op = "b" ->
              <<Ed(i, i + 1, "plain"), Ed(i + 1, t, "plain")>>
         [] ins.op = "jr" ->
              <<Ed(i, i + 1, "plain")>>
              \o [k \in 1..Len(ins.cases) |->
                    Ed(i + 1, AddrToI(ins.cases[k]), "plain")]
         [] ins.op = "jal" /\ InternalCall(d) ->
              <<Ed(i, i + 1, "plain"), Ed(i + 1, t, "entry")>>
              \o [k \in 1..Len(returns[d]) |->
                    Ed(AddrToI(returns[d][k]), i + 2, "exit")]
         [] ins.op = "jal" ->
              <<Ed(i, i + 1, "plain"), Ed(i + 1, i + 2, "extern")>>
         [] ins.op = "jalr" ->
              <<Ed(i, i + 1, "plain"), Ed(i + 1, i + 2, "fptr")>>
         [] OTHER -> <<Ed(i, i + 1, "plain")>>

\* the opcodes whose case sets rinsns[i + 1].no_following_successor
SkipsDelaySlot(op) == op \in LikelyBranches \cup {"b", "jr", "jal", "jalr"}

\* the two asserts of r_pass3: a JR that is neither a return nor a jump
\* table, and a call into .text that is not a known function
Pass3Rejects(i) ==
    \/ Code[i].op = "jr" /\ Code[i].cases = <<>> /\ Code[i].rs # "ra"
    \/ Code[i].op = "jal" /\ InternalCall(Target(Code[i]))
       /\ Target(Code[i]) \notin Funcs

\* r_add_edge: push the edge on from's successors and to's predecessors
AddEdge(g, e) ==
    [s |-> [g.s EXCEPT ![e.from] = Append(@, [n |-> e.to, kind |-> e.kind])],
     p |-> [g.p EXCEPT ![e.to] = Append(@, [n |-> e.from, kind |-> e.kind])]]

\* if (insn.no_following_successor) continue;
Pass3Skip ==
    /\ phase = "pass3" /\ i3 <= N /\ nfs[i3]
    /\ i3' = i3 + 1
    /\ UNCHANGED <<prog, phase, why, returns, liptrs, refd, succ, pred, nfs,
                   fin, fout, bin, bout, q, ext4, ext5, sig>>
    /\ UNCHANGED emitVars

Pass3Step ==
    /\ phase = "pass3" /\ i3 <= N /\ ~nfs[i3]
    /\ ~Pass3Rejects(i3)
    /\ LET g == FoldLeft(AddEdge, [s |-> succ, p |-> pred], Pass3Edges(i3))
       IN /\ succ' = g.s
          /\ pred' = g.p
    /\ nfs' = IF SkipsDelaySlot(Code[i3].op)
              THEN [nfs EXCEPT ![i3 + 1] = TRUE] ELSE nfs
    /\ i3' = i3 + 1
    /\ UNCHANGED <<prog, phase, why, returns, liptrs, refd, fin, fout, bin,
                   bout, q, ext4, ext5, sig>>
    /\ UNCHANGED emitVars

Pass3Reject ==
    /\ phase = "pass3" /\ i3 <= N /\ ~nfs[i3]
    /\ Pass3Rejects(i3)
    /\ phase' = "abort"
    /\ why' = "pass3 assert"
    /\ UNCHANGED <<prog, returns, liptrs, refd, i3, succ, pred, nfs, fin, fout,
                   bin, bout, q, ext4, ext5, sig>>
    /\ UNCHANGED emitVars

(***************************************************************************)
(* Register-mask transfer functions (the switches on r_insn_to_type)       *)
(***************************************************************************)
\* r_pass4: what an instruction adds to the registers holding a value
FwdTransfer(ins, live) ==
    CASE InsnType(ins) = "1D" -> live \cup DestMask(ins)
      [] InsnType(ins) = "1D_1S" ->
           IF live \cap Src1Mask(ins) # {} THEN live \cup DestMask(ins) ELSE live
      [] InsnType(ins) = "1D_2S" ->
           IF SrcAllMask(ins) \subseteq live THEN live \cup DestMask(ins) ELSE live
      [] InsnType(ins) = "D_LO_HI_2S" ->
           IF SrcAllMask(ins) \subseteq live THEN live \cup {"hi", "lo"} ELSE live
      [] OTHER -> live

\* r_pass5: backward liveness of one instruction
BwdTransfer(ins, live) ==
    CASE InsnType(ins) \in {"1S", "1S_POS1"} -> live \cup Src1Mask(ins)
      [] InsnType(ins) = "2S" -> live \cup SrcAllMask(ins)
      [] InsnType(ins) = "1D" -> live \ DestMask(ins)
      [] InsnType(ins) = "1D_1S" ->
           IF live \cap DestMask(ins) # {}
           THEN (live \ DestMask(ins)) \cup Src1Mask(ins) ELSE live
      [] InsnType(ins) = "1D_2S" ->
           IF live \cap DestMask(ins) # {}
           THEN (live \ DestMask(ins)) \cup SrcAllMask(ins) ELSE live
      [] InsnType(ins) = "D_LO_HI_2S" ->
           (live \ {"hi", "lo"})
           \cup (IF live \cap {"hi", "lo"} # {} THEN SrcAllMask(ins) ELSE {})
      [] OTHER -> live

ArgRegSet == {"a0", "a1", "a2", "a3"}

\* livein_func_start, and the seed of an address-taken function
LiveinFuncStart == {Reach, "a0", "a1", "sp", "zero"}
LiveinFptr == LiveinFuncStart \cup {"a2", "a3"}

(***************************************************************************)
(* The extern looked up on an extern_function edge.  r_pass4, at the delay *)
(* slot i, reads the call rinsns[i - 1]; r_pass5, at the instruction j     *)
(* after the delay slot, reads insn.patched of rinsns[j] itself and the    *)
(* word of rinsns[j - 2].                                                  *)
(***************************************************************************)
CalleeAddr4(i) ==
    IF Code[i - 1].patched THEN Code[i - 1].paddr ELSE Code[i - 1].tgt

CalleeAddr5(j) ==
    IF Code[j].patched THEN Code[j].paddr ELSE Code[j - 2].tgt

\* symbol_names.find, then the catalog loop; assert(found_fn)
Resolves(a) == a \in DOMAIN Symbols /\ Symbols[a] \in CatalogNames
UnknownExtern == X("", <<"v">>, {})
ExternAt(a) == IF Resolves(a) THEN FindExtern(Symbols[a]) ELSE UnknownExtern

\* r_pass4: the mask an edge applies to the registers it carries
FwdEdgeMask(i, e, live) ==
    CASE e.kind = "exit"  -> live \cap {Reach, "v0", "v1", "zero"}
      [] e.kind = "entry" -> live \cap ({Reach, "v0", "sp", "zero"} \cup ArgRegSet)
      [] e.kind = "extern" ->
           (live \ CallerSaved) \cup RetRegs(ExternAt(CalleeAddr4(i)))
      [] e.kind = "fptr"  -> (live \ CallerSaved) \cup {"v0", "v1"}
      [] OTHER -> live

\* r_pass5: the mask a predecessor edge applies
BwdEdgeMask(j, e, live) ==
    CASE e.kind = "exit"  -> live \cap {Reach, "v0", "v1"}
      [] e.kind = "entry" -> live \cap ({Reach, "v0", "sp"} \cup ArgRegSet)
      [] e.kind = "extern" ->
           (live \ CallerSaved) \cup ArgRegs(ExternAt(CalleeAddr5(j)))
      [] e.kind = "fptr"  -> (live \ CallerSaved) \cup ArgRegSet
      [] OTHER -> live

ExternEdges(es) == {k \in DOMAIN es : es[k].kind = "extern"}
HasKind(es, kind) == \E k \in DOMAIN es : es[k].kind = kind

\* Slip: the successor's mask is assigned the new bits instead of or-ed
PropagateOverwrite(acc, to, new) ==
    IF new \subseteq acc.m[to] THEN acc
    ELSE [m |-> [acc.m EXCEPT ![to] = new], q |-> Append(acc.q, to)]

\* "if ((m[e.i] | new_live) != m[e.i]) { m[e.i] |= new_live; q.push_back }"
Propagate(acc, to, new) ==
    IF new \subseteq acc.m[to] THEN acc
    ELSE [m |-> [acc.m EXCEPT ![to] = @ \cup new], q |-> Append(acc.q, to)]

(***************************************************************************)
(* r_pass4                                                                 *)
(***************************************************************************)
\* the seeds, in push order: main, data_function_pointers, then the set
\* li_function_pointers in ascending order
Pass4Init ==
    /\ phase = "pass3" /\ i3 = N + 1
    /\ LET lis == AscendingSeq(liptrs)
           fps == prog.dataptrs \o lis
           seeded == {AddrToI(fps[k]) : k \in DOMAIN fps}
       IN /\ q' = [k \in 1..(1 + Len(fps)) |->
                     IF k = 1 THEN AddrToI(prog.main) ELSE AddrToI(fps[k - 1])]
          /\ fin' = [i \in Nodes |->
                       IF i \in seeded THEN LiveinFptr
                       ELSE IF i = AddrToI(prog.main) THEN LiveinFuncStart
                       ELSE {}]
    /\ phase' = "pass4"
    /\ UNCHANGED <<prog, why, returns, liptrs, refd, i3, succ, pred, nfs, fout,
                   bin, bout, ext4, ext5, sig>>
    /\ UNCHANGED emitVars

SkipCall4(i, live, acc) == Propagate(acc, i + 1, live \ CallerSaved)

\* the pop: live = f_livein | 1 and the transfer of the instruction
FwdLive(i) == FwdTransfer(Code[i], fin[i] \cup {Reach})

\* Slip: the entry is read with q.back() but never popped.
Pass4PopKeep ==
    /\ phase = "pass4" /\ q # <<>>
    /\ FwdLive(Last(q)) \subseteq fout[Last(q)]
    /\ UNCHANGED vars

\* "No new bits": continue
Pass4Pop ==
    /\ phase = "pass4" /\ q # <<>>
    /\ FwdLive(Last(q)) \subseteq fout[Last(q)]
    /\ q' = Front(q)
    /\ UNCHANGED <<prog, phase, why, returns, liptrs, refd, i3, succ, pred,
                   nfs, fin, fout, bin, bout, ext4, ext5, sig>>
    /\ UNCHANGED emitVars

Pass4Resolved(i) ==
    \A k \in ExternEdges(succ[i]) : Resolves(CalleeAddr4(i))

Pass4Step ==
    /\ phase = "pass4" /\ q # <<>>
    /\ LET i    == Last(q)
           live == FwdLive(i) \cup fout[i]
           es   == succ[i]
           step(acc, e) == Propagate(acc, e.n, FwdEdgeMask(i, e, live))
           acc1 == FoldLeft(step, [m |-> fin, q |-> Front(q)], es)
           acc2 == IF HasKind(es, "entry") THEN SkipCall4(i, live, acc1) ELSE acc1
       IN /\ ~(FwdLive(i) \subseteq fout[i])
          /\ Pass4Resolved(i)
          /\ Len(acc2.q) <= MaxQueue
          /\ fout' = [fout EXCEPT ![i] = live]
          /\ fin' = acc2.m
          /\ q' = acc2.q
          /\ ext4' = IF ExternEdges(es) = {} THEN ext4
                     ELSE [ext4 EXCEPT ![i - 1] = Symbols[CalleeAddr4(i)]]
    /\ UNCHANGED <<prog, phase, why, returns, liptrs, refd, i3, succ, pred,
                   nfs, bin, bout, ext5, sig>>
    /\ UNCHANGED emitVars

\* assert(found_fn) on an extern_function successor
Pass4Missing ==
    /\ phase = "pass4" /\ q # <<>>
    /\ ~(FwdLive(Last(q)) \subseteq fout[Last(q)])
    /\ ~Pass4Resolved(Last(q))
    /\ phase' = "abort"
    /\ why' = "missing extern in r_pass4"
    /\ UNCHANGED <<prog, returns, liptrs, refd, i3, succ, pred, nfs, fin, fout,
                   bin, bout, q, ext4, ext5, sig>>
    /\ UNCHANGED emitVars

(***************************************************************************)
(* r_pass5                                                                 *)
(***************************************************************************)
\* functions[addr].returns, with operator[]'s empty entry for a non-function
RetsOf(f) == IF f \in Funcs THEN returns[f] ELSE <<>>

\* the seeds, in push order: the returns of main (b_liveout = {1, v0}),
\* the returns of every address-taken function (b_liveout = {1, v0, v1}),
\* then every instruction with f_livein != 0, ascending
Pass5Init ==
    /\ phase = "pass4" /\ q = <<>>
    /\ LET fps == prog.dataptrs \o AscendingSeq(liptrs)
           fpRets == FoldLeft(LAMBDA acc, f : acc \o RetsOf(f), <<>>, fps)
           mainRets == returns[prog.main]
           live == AscendingSeq({i \in Nodes : fin[i] # {}})
           fpIdx == {AddrToI(fpRets[k]) : k \in DOMAIN fpRets}
           mainIdx == {AddrToI(mainRets[k]) : k \in DOMAIN mainRets}
       IN /\ q' = [k \in DOMAIN mainRets |-> AddrToI(mainRets[k])]
                  \o [k \in DOMAIN fpRets |-> AddrToI(fpRets[k])] \o live
          /\ bout' = [i \in Nodes |->
                        IF i \in fpIdx THEN {Reach, "v0", "v1"}
                        ELSE IF i \in mainIdx THEN {Reach, "v0"} ELSE {}]
    /\ phase' = "pass5"
    /\ UNCHANGED <<prog, why, returns, liptrs, refd, i3, succ, pred, nfs, fin,
                   fout, bin, ext4, ext5, sig>>
    /\ UNCHANGED emitVars

\* Slip: the skip-call edge is not added.
SkipCallNone5(j, live, acc) == acc

\* "if (function_exit)": the edge that skips the call, caller-saved cleared
SkipCall5(j, live, acc) == Propagate(acc, j - 1, live \ CallerSaved)

BwdLive(j) == BwdTransfer(Code[j], bout[j] \cup {Reach})

Pass5Pop ==
    /\ phase = "pass5" /\ q # <<>>
    /\ BwdLive(Last(q)) \subseteq bin[Last(q)]
    /\ q' = Front(q)
    /\ UNCHANGED <<prog, phase, why, returns, liptrs, refd, i3, succ, pred,
                   nfs, fin, fout, bin, bout, ext4, ext5, sig>>
    /\ UNCHANGED emitVars

Pass5Resolved(j) ==
    \A k \in ExternEdges(pred[j]) : Resolves(CalleeAddr5(j))

Pass5Step ==
    /\ phase = "pass5" /\ q # <<>>
    /\ LET j    == Last(q)
           live == BwdLive(j) \cup bin[j]
           es   == pred[j]
           step(acc, e) == Propagate(acc, e.n, BwdEdgeMask(j, e, live))
           acc1 == FoldLeft(step, [m |-> bout, q |-> Front(q)], es)
           acc2 == IF HasKind(es, "exit") THEN SkipCall5(j, live, acc1) ELSE acc1
       IN /\ ~(BwdLive(j) \subseteq bin[j])
          /\ Pass5Resolved(j)
          /\ Len(acc2.q) <= MaxQueue
          /\ bin' = [bin EXCEPT ![j] = live]
          /\ bout' = acc2.m
          /\ q' = acc2.q
          /\ ext5' = IF ExternEdges(es) = {} THEN ext5
                     ELSE [ext5 EXCEPT ![j - 2] = Symbols[CalleeAddr5(j)]]
    /\ UNCHANGED <<prog, phase, why, returns, liptrs, refd, i3, succ, pred,
                   nfs, fin, fout, ext4, sig>>
    /\ UNCHANGED emitVars

\* assert(found_fn) on an extern_function predecessor
Pass5Missing ==
    /\ phase = "pass5" /\ q # <<>>
    /\ ~(BwdLive(Last(q)) \subseteq bin[Last(q)])
    /\ ~Pass5Resolved(Last(q))
    /\ phase' = "abort"
    /\ why' = "missing extern in r_pass5"
    /\ ext5' = [ext5 EXCEPT ![Last(q) - 2] = "?"]
    /\ UNCHANGED <<prog, returns, liptrs, refd, i3, succ, pred, nfs, fin, fout,
                   bin, bout, q, ext4, sig>>
    /\ UNCHANGED emitVars

(***************************************************************************)
(* r_pass6                                                                 *)
(***************************************************************************)
BothLive(i) == fout[i] \cap bout[i]

\* Slip: a later return with $v0 overwrites an nret of 2.
NretStepNoZero(n, r) ==
    IF "v1" \in BothLive(AddrToI(r)) THEN 2
    ELSE IF "v0" \in BothLive(AddrToI(r)) THEN 1 ELSE n

NretStep(n, r) ==
    IF "v1" \in BothLive(AddrToI(r)) THEN 2
    ELSE IF "v0" \in BothLive(AddrToI(r)) /\ n = 0 THEN 1 ELSE n

\* Slip: nargs = i + 2 for the highest live $a(i).
NargsStepOff(e, n, k) == IF AReg[k + 1] \in e THEN 2 + k ELSE n

NargsStep(e, n, k) == IF AReg[k + 1] \in e THEN 1 + k ELSE n

Signature(f) ==
    LET entry == fin[AddrToI(f)] \cap bin[AddrToI(f)]
    IN [nret  |-> FoldLeft(NretStep, 0, returns[f]),
        nargs |-> FoldLeft(LAMBDA n, k : NargsStep(entry, n, k), 0, <<0, 1, 2, 3>>),
        v0in  |-> "v0" \in entry /\ f \notin refd]

Pass6 ==
    /\ phase = "pass5" /\ q = <<>>
    /\ sig' = [f \in Funcs |-> Signature(f)]
    /\ phase' = "done"
    /\ UNCHANGED <<prog, why, returns, liptrs, refd, i3, succ, pred, nfs, fin,
                   fout, bin, bout, q, ext4, ext5>>
    /\ UNCHANGED emitVars

(***************************************************************************)
(* r_dump_c: the C text of every function, reduced to its labels and      *)
(* gotos.  The functions are emitted in address order, each over           *)
(* [start, end_addr), and a function whose first instruction was never     *)
(* reached (f_livein == 0) is skipped.  Before r_dump_instr(i) the loop    *)
(* prints "L<vaddr>:" if the vaddr is in label_addresses; r_dump_instr     *)
(* then writes the gotos of a jump, emitting the delay slot inside it, and *)
(* may insert the continuation i + 2 into label_addresses.                 *)
(***************************************************************************)
pipeVars == <<prog, phase, why, returns, liptrs, refd, i3, succ, pred, nfs,
              fin, fout, bin, bout, q, ext4, ext5, sig>>

\* r_pass1: the target of every JAL (patched or not)
CallLabels(c) == {Target(c[i]) : i \in {k \in DOMAIN c : c[k].op = "jal"}}

\* r_pass1: the entries of every jump table, read from .rodata + gp_value
CaseLabels(c) == UNION {{c[i].cases[k] : k \in DOMAIN c[i].cases} : i \in DOMAIN c}

\* label_addresses as r_dump_c finds it; inspect_data_function_pointers
\* adds every code pointer found in data.  No pass inserts a branch target:
\* the I-type insert of r_pass1 sits inside the isJump test, which
\* rabbitizer sets for j, jal, jr and jalr only.
InitialLabels(p) ==
    CallLabels(p.code) \cup CaseLabels(p.code)
    \cup {p.dataptrs[k] : k \in DOMAIN p.dataptrs}

\* what r_dump_instr writes: the labels its gotos (and "&&L" entries) name,
\* and what it inserts into label_addresses
Out(g, n) == [gotos |-> g, ins |-> n]
Join(a, b) == [gotos |-> a.gotos \cup b.gotos, ins |-> a.ins \cup b.ins]

\* Slip: the not-taken "else goto L(i+2)" without its label.
LikelyBranchNoInsert(i, d) == Join(d, Out({Vram(i + 2)}, {}))

\* r_dump_cond_branch_likely: "if (c) {<delay> goto T;} else goto L(i+2);"
\* and the insert of i + 2; T is the one of r_dump_cond_branch (below)
LikelyBranch(i, d) == Join(d, Out({Vram(i + 2)}, {Vram(i + 2)}))

\* r_dump_jal and JALR: the delay slot, the call, "goto L(i+2)" over the
\* second copy of the delay slot the loop emits
CallContinue(i, d) == Join(d, Out({Vram(i + 2)}, {Vram(i + 2)}))

\* r_dump_cond_branch, "b", bc1f/bc1t: "goto L%x" of patched_addr if the
\* branch is patched, else of getProcessedImmediate, the raw 16-bit word
\* offset.  No pass patches a branch, so the goto names an offset, never
\* an address of .text: it is left out of gotos (see README, hazards).
RECURSIVE Dump(_)
Dump(i) ==
    LET ins   == Code[i]
        cases == {ins.cases[k] : k \in DOMAIN ins.cases}
    IN CASE ins.op \in CondBranches \cup {"b"} -> Dump(i + 1)
         [] ins.op \in LikelyBranches -> LikelyBranch(i, Dump(i + 1))
         [] ins.op \in {"jal", "jalr"} -> CallContinue(i, Dump(i + 1))
         [] ins.op = "jr" /\ ins.cases # <<>> ->
              Join(Dump(i + 1), Out(cases, cases))
         [] IsReturn(ins) -> Dump(i + 1)
         [] OTHER -> Out({}, {})

\* the functions map in address order, and each one's end_addr (r_pass2)
FOrder == AscendingSeq(Funcs)
EndOf(k) == IF k = Len(FOrder) THEN Vram(N) ELSE FOrder[k + 1]

\* "Non-used function, skip"
EmitSkip ==
    /\ phase = "done" /\ ex = -1 /\ fx <= Len(FOrder)
    /\ fin[AddrToI(FOrder[fx])] = {}
    /\ fx' = fx + 1
    /\ UNCHANGED <<labels, ex, lbl, gto>>
    /\ UNCHANGED pipeVars

\* the signature and locals; the loop starts at addr_to_i(start_addr)
EmitEnter ==
    /\ phase = "done" /\ ex = -1 /\ fx <= Len(FOrder)
    /\ fin[AddrToI(FOrder[fx])] # {}
    /\ ex' = AddrToI(FOrder[fx])
    /\ UNCHANGED <<labels, fx, lbl, gto>>
    /\ UNCHANGED pipeVars

\* one iteration: the label, then r_dump_instr(i)
EmitInsn ==
    /\ phase = "done" /\ ex # -1 /\ ex < AddrToI(EndOf(fx))
    /\ LET f == FOrder[fx]
           d == Dump(ex)
       IN /\ lbl' = [lbl EXCEPT ![f] = @ \cup ({Vram(ex)} \cap labels)]
          /\ gto' = [gto EXCEPT ![f] = @ \cup d.gotos]
          /\ labels' = labels \cup d.ins
    /\ ex' = ex + 1
    /\ UNCHANGED fx
    /\ UNCHANGED pipeVars

\* the closing brace
EmitLeave ==
    /\ phase = "done" /\ ex # -1 /\ ex = AddrToI(EndOf(fx))
    /\ ex' = -1 /\ fx' = fx + 1
    /\ UNCHANGED <<labels, lbl, gto>>
    /\ UNCHANGED pipeVars

EmitDone == phase = "done" /\ fx > Len(FOrder)

(***************************************************************************)
(* The specification                                                       *)
(***************************************************************************)
Init ==
    /\ prog \in Programs
    /\ phase = "pass2"
    /\ why = ""
    /\ returns = [f \in prog.funcs |-> <<>>]
    /\ liptrs = {}
    /\ refd = {prog.dataptrs[k] : k \in DOMAIN prog.dataptrs}
    /\ i3 = 0
    /\ succ = [i \in DOMAIN prog.code |-> <<>>]
    /\ pred = [i \in DOMAIN prog.code |-> <<>>]
    /\ nfs = [i \in DOMAIN prog.code |-> i = Cardinality(DOMAIN prog.code) - 1]
    /\ fin = [i \in DOMAIN prog.code |-> {}]
    /\ fout = [i \in DOMAIN prog.code |-> {}]
    /\ bin = [i \in DOMAIN prog.code |-> {}]
    /\ bout = [i \in DOMAIN prog.code |-> {}]
    /\ q = <<>>
    /\ ext4 = [i \in DOMAIN prog.code |-> NoExt]
    /\ ext5 = [i \in DOMAIN prog.code |-> NoExt]
    /\ sig = [f \in prog.funcs |-> [nret |-> 0, nargs |-> 0, v0in |-> FALSE]]
    /\ labels = InitialLabels(prog)
    /\ fx = 1 /\ ex = -1
    /\ lbl = [f \in prog.funcs |-> {}]
    /\ gto = [f \in prog.funcs |-> {}]

Next ==
    \/ Pass2 \/ Pass2NoRet
    \/ Pass3Skip \/ Pass3Step \/ Pass3Reject
    \/ Pass4Init \/ Pass4Pop \/ Pass4Step \/ Pass4Missing
    \/ Pass5Init \/ Pass5Pop \/ Pass5Step \/ Pass5Missing
    \/ Pass6
    \/ EmitSkip \/ EmitEnter \/ EmitInsn \/ EmitLeave

\* main() runs the passes to completion on one thread: every enabled step
\* is eventually taken.
Spec == Init /\ [][Next]_vars /\ WF_vars(Next)

(***************************************************************************)
(* Reference definitions                                                   *)
(***************************************************************************)
Phases == {"pass2", "pass3", "pass4", "pass5", "done", "abort"}
Edge == [n : Int, kind : Kinds]

EmptyMasks == [i \in Nodes |-> {}]

\* The seeds of r_pass4 as one function.
FwdSeed ==
    LET fps == prog.dataptrs \o AscendingSeq(liptrs)
        seeded == {AddrToI(fps[k]) : k \in DOMAIN fps}
    IN [i \in Nodes |-> IF i \in seeded THEN LiveinFptr
                        ELSE IF i = AddrToI(prog.main) THEN LiveinFuncStart
                        ELSE {}]

\* f_liveout of an instruction whose f_livein is m[i]: an instruction that
\* was never reached (f_livein = 0) is never popped and passes nothing on.
FwdOut(m, i) == IF m[i] = {} THEN {} ELSE FwdTransfer(Code[i], m[i] \cup {Reach})

\* One round of the forward data-flow equations, over all edges at once.
FwdRound(m) ==
    [j \in Nodes |->
       FwdSeed[j]
       \cup UNION {UNION {FwdEdgeMask(i, succ[i][k], FwdOut(m, i)) :
                            k \in {y \in 1..Len(succ[i]) : succ[i][y].n = j}} :
                     i \in {x \in Nodes : m[x] # {}}}
       \cup UNION {FwdOut(m, i) \ CallerSaved :
                     i \in {x \in Nodes : x + 1 = j /\ m[x] # {}
                                          /\ HasKind(succ[x], "entry")}}]

RECURSIVE FwdLfpFrom(_)
FwdLfpFrom(m) == IF FwdRound(m) = m THEN m ELSE FwdLfpFrom(FwdRound(m))

\* the least solution of the forward equations (Kleene iteration)
FwdLfp == FwdLfpFrom(EmptyMasks)

\* The seeds of r_pass5 as one function.
BwdSeed ==
    LET fps == prog.dataptrs \o AscendingSeq(liptrs)
        fpRets == FoldLeft(LAMBDA acc, f : acc \o RetsOf(f), <<>>, fps)
        mainRets == returns[prog.main]
    IN [i \in Nodes |->
          IF i \in {AddrToI(fpRets[k]) : k \in DOMAIN fpRets}
          THEN {Reach, "v0", "v1"}
          ELSE IF i \in {AddrToI(mainRets[k]) : k \in DOMAIN mainRets}
          THEN {Reach, "v0"} ELSE {}]

\* an instruction is popped by r_pass5 iff it is forward-reachable or some
\* register is live after it
BwdIn(m, j) ==
    IF fin[j] = {} /\ m[j] = {} THEN {}
    ELSE BwdTransfer(Code[j], m[j] \cup {Reach})

\* one round of the backward equations for a given instruction transfer
BwdRoundWith(In(_, _), m) ==
    [i \in Nodes |->
       BwdSeed[i]
       \cup UNION {UNION {BwdEdgeMask(j, pred[j][k], In(m, j)) :
                            k \in {y \in 1..Len(pred[j]) : pred[j][y].n = i}} :
                     j \in Nodes}
       \cup UNION {In(m, j) \ CallerSaved :
                     j \in {x \in Nodes : x = i + 1 /\ HasKind(pred[x], "exit")}}]

RECURSIVE BwdLfpWith(_, _)
BwdLfpWith(In(_, _), m) ==
    IF BwdRoundWith(In, m) = m THEN m ELSE BwdLfpWith(In, BwdRoundWith(In, m))

BwdLfpFrom(m) == BwdLfpWith(BwdIn, m)

BwdLfp == BwdLfpFrom(EmptyMasks)

(***************************************************************************)
(* r_dump_instr: the "// fdead" / "// bdead" annotation is printed on the  *)
(* line of the instruction, so the C statement that follows is commented   *)
(* out.  Jumps and calls (rabbitizer's isJump: j, jal, jr, jalr) are     *)
(* never annotated; a branch is, by its r_insn_to_type class.             *)
(***************************************************************************)
IsJump(op) == op \in {"jal", "jalr", "jr"}

FDead(i) ==
    LET ins == Code[i]
        f   == fin[i]
    IN /\ ~IsJump(ins.op)
       /\ CASE InsnType(ins) \in {"1S", "1S_POS1", "1D_1S"} -> f \cap Src1Mask(ins) = {}
            [] InsnType(ins) \in {"2S", "D_LO_HI_2S"} -> ~(SrcAllMask(ins) \subseteq f)
            [] InsnType(ins) = "1D_2S" ->
                 ins.rt \notin f \/ f \cap Src1Mask(ins) = {}
            [] OTHER -> FALSE

BDead(i) ==
    LET ins == Code[i]
    IN /\ ~IsJump(ins.op) /\ ~FDead(i)
       /\ CASE InsnType(ins) \in {"1D", "1D_1S", "1D_2S"} -> bout[i] \cap DestMask(ins) = {}
            [] InsnType(ins) = "D_LO_HI_2S" -> bout[i] \cap {"hi", "lo"} = {}
            [] OTHER -> FALSE

\* The registers each statement r_dump_instr emits reads and writes.
\* Calls are left to the edge masks; a return reads nothing itself.
SemReads(ins) ==
    CASE ins.op \in {"addu", "subu", "mult", "sw", "beq", "beql"} -> {ins.rs, ins.rt}
      [] ins.op \in {"addiu", "ori", "lw", "move", "bnez", "jalr"} -> {ins.rs}
      [] ins.op = "sll"  -> {ins.rt}
      [] ins.op = "mflo" -> {"lo"}
      [] ins.op = "jr"   -> IF ins.cases # <<>> THEN {ins.ireg}
                            ELSE IF ins.rs = "ra" THEN {} ELSE {ins.rs}
      [] OTHER -> {}

SemWrites(ins) ==
    CASE ins.op \in {"addu", "subu", "move", "sll", "mflo"} -> {ins.rd}
      [] ins.op \in {"addiu", "ori", "lw", "lui"} -> {ins.rt}
      [] ins.op = "mult" -> {"hi", "lo"}
      [] OTHER -> {}

\* strong liveness of the emitted statement: one whose writes are all dead
\* reads nothing
SemTransfer(ins, live) ==
    IF SemWrites(ins) # {} /\ SemWrites(ins) \cap live = {} THEN live
    ELSE (live \ SemWrites(ins)) \cup SemReads(ins)

SemIn(m, j) ==
    IF fin[j] = {} /\ m[j] = {} THEN {}
    ELSE SemTransfer(Code[j], m[j] \cup {Reach})

\* the registers the emitted C really reads after each instruction, over the
\* same graph, seeds and edge masks as r_pass5
SemLfp == BwdLfpWith(SemIn, EmptyMasks)

(***************************************************************************)
(* Properties                                                              *)
(***************************************************************************)
\* The type invariant of the pipeline's state.
TypeOK ==
    /\ prog \in Programs
    /\ phase \in Phases
    /\ returns \in [Funcs -> Seq(Int)]
    /\ i3 \in 0..(N + 1)
    /\ DOMAIN succ = Nodes /\ DOMAIN pred = Nodes
    /\ \A i \in Nodes : \A x \in DOMAIN succ[i] : succ[i][x] \in Edge
    /\ \A i \in Nodes : \A x \in DOMAIN pred[i] : pred[i][x] \in Edge
    /\ nfs \in [Nodes -> BOOLEAN]
    /\ \A i \in Nodes : \A m \in {fin, fout, bin, bout} :
          m[i] \subseteq MaskRegs \cup {Reach}
    /\ q \in Seq(Nodes)
    /\ sig \in [Funcs -> [nret : 0..2, nargs : 0..4, v0in : BOOLEAN]]
    /\ labels \subseteq Int
    /\ fx \in 1..(Len(FOrder) + 1) /\ ex \in Nodes \cup {-1}
    /\ lbl \in [Funcs -> SUBSET Int] /\ gto \in [Funcs -> SUBSET Int]

BwdIsLfp ==
    (phase = "pass5" /\ q = <<>>) =>
        LET m == BwdLfp
        IN /\ bout = m
           /\ bin = [j \in Nodes |-> BwdIn(m, j)]

(***************************************************************************)
(* r_pass6 computes the signature spec section 4.6 states: nret 2 if some  *)
(* return has $v1 live both ways, else 1 if some return has $v0; nargs one *)
(* more than the highest live $a register at the entry; v0_in.            *)
(***************************************************************************)
SpecSignature(f) ==
    LET rets  == {AddrToI(returns[f][k]) : k \in DOMAIN returns[f]}
        entry == fin[AddrToI(f)] \cap bin[AddrToI(f)]
        live  == {k \in 0..3 : AReg[k + 1] \in entry}
    IN [nret  |-> IF \E r \in rets : "v1" \in BothLive(r) THEN 2
                  ELSE IF \E r \in rets : "v0" \in BothLive(r) THEN 1 ELSE 0,
        nargs |-> IF live = {} THEN 0
                  ELSE 1 + CHOOSE k \in live : \A x \in live : x <= k,
        v0in  |-> "v0" \in entry /\ f \notin refd]

SignaturesMatchSpec ==
    phase = "done" => \A f \in Funcs : sig[f] = SpecSignature(f)

(***************************************************************************)
(* An instruction r_dump_instr comments out as "bdead" writes no register  *)
(* that a statement emitted after it reads: the backward liveness of       *)
(* r_pass5 (its transfer types from r_insn_to_type) never declares a value *)
(* dead that the generated C still uses.                                   *)
(***************************************************************************)
BdeadIsFaint ==
    phase = "done" =>
        LET m == SemLfp
        IN \A i \in Nodes : BDead(i) => SemWrites(Code[i]) \cap m[i] = {}

(***************************************************************************)
(* r_pass4 and r_pass5 resolve every extern call site to the same catalog  *)
(* entry: the register masks on the two sides of a call agree on which     *)
(* function is called.                                                     *)
(***************************************************************************)
ExternLookupsAgree ==
    \A k \in Nodes : ext4[k] # NoExt /\ ext5[k] # NoExt => ext5[k] = ext4[k]

(***************************************************************************)
(* main() always ends: the worklists drain and r_dump_c writes the last    *)
(* function, or an assert aborts.                                          *)
(***************************************************************************)
Terminates == <>(phase = "abort" \/ EmitDone)

(***************************************************************************)
(* Spec section 8: every "goto Lx" to an address (the "else goto L(i+2)"  *)
(* of a likely branch, the "goto L(i+2)" after a call, every "&&Lx" of a   *)
(* switch table) r_dump_c writes into a C function has its "Lx:" in that  *)
(* same function.  r_dump_instr inserts the continuation i + 2 while      *)
(* emitting i, so the insert must come before the loop's label test at    *)
(* i + 2 and i + 2 must lie before end_addr.  The gotos of plain branches *)
(* name a raw offset and are outside this property (see Dump).            *)
(***************************************************************************)
GotosHaveLabels ==
    \A k \in 1..(fx - 1) : gto[FOrder[k]] \subseteq lbl[FOrder[k]]

(***************************************************************************)
(* Refinement: the worklist passes implement LivenessPasses.  The stage is *)
(* the pass main() is in; the graph is what r_pass3 built.                 *)
(***************************************************************************)
StageOf(ph) ==
    CASE ph \in {"pass2", "pass3"} -> "graph"
      [] ph = "pass4" -> "forward"
      [] ph = "pass5" -> "backward"
      [] ph = "done"  -> "signed"
      [] ph = "abort" -> "abort"

LP == INSTANCE LivenessPasses
        WITH Value <- MaskRegs \cup {Reach}, stage <- StageOf(phase), graph <- <<succ, pred>>

\* main()'s passes run in order, r_pass4 and r_pass5 only ever add bits to
\* their own masks (the "m |= new_live" of every push and the f_liveout /
\* b_livein update of every pop), and r_pass6 writes the signatures last.
ImplementsLivenessPasses == LP!Spec

=============================================================================
