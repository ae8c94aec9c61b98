---------------------------- MODULE FunctionTable ----------------------------
(***************************************************************************)
(* The function table of src/rrecomp.cpp: the two calls of                 *)
(* inspect_data_function_pointers in main (.rodata, then .data), and       *)
(* r_pass2, which attributes every "jr $ra" to the function find_function  *)
(* returns, patches xmalloc and xfree, aborts on a function with no        *)
(* return, and sets end_addr.  One step is one iteration of one of the     *)
(* three loops: a word of a section, an instruction, or a function.        *)
(*                                                                         *)
(* Addresses are byte addresses: instruction k is at TextVaddr + 4 * k.    *)
(* r_pass1 runs between the scan and r_pass2; it only adds functions and   *)
(* rewrites instructions, so an input gives the vector as r_pass1 leaves   *)
(* it and the functions parse_elf and r_pass1 register.  An instruction is *)
(* a record                                                                *)
(*   op     the uniqueId: "jr", "lw", "move", "jalr", "jal", "ori",        *)
(*          "addiu", "nop" or "other"                                      *)
(*   rs     "ra" or "other": only "jr $ra" is told apart                   *)
(*   got    is_global_got_memop                                            *)
(*   imm    the processed immediate; a negative gp offset stands for the   *)
(*          uint32 it is converted to, which is >= 2^31                    *)
(*   lval   linked_value: the address the GOT entry holds                  *)
(*   paddr  patched_addr                                                   *)
(***************************************************************************)
EXTENDS Integers, Sequences, FiniteSets, SequencesExt

CONSTANTS
    TextVaddr,      \* text_vaddr
    RodataVaddr,    \* rodata_vaddr
    DataVaddr,      \* data_vaddr
    ProcTableStart, \* procedure_table_start (0 when there is no table)
    ProcTableLen,   \* procedure_table_len = 40 * _procedure_table_size
    McountAddr,     \* mcount_addr
    Images          \* the inputs: [code |-> the vector, index 0 .. N with
                    \*   the dummy NOP at N, funcs |-> the keys of functions,
                    \*   symbols |-> symbol_names, rodata, data |-> the
                    \*   big-endian words of the sections]

VARIABLES
    img,        \* the input (never changes)
    phase,      \* "rodata", "data", "returns", "functions", "done", "abort"
    i,          \* the index of the loop the phase is in
    dfp,        \* data_function_pointers, a sequence of <<location, addr>>
    labels,     \* the label_addresses the scan inserts
    funcs,      \* the keys of functions
    refd,       \* the functions with referenced_by_function_pointer
    liptrs,     \* li_function_pointers
    rinsns,     \* the vector r_pass2 patches
    returns,    \* Function.returns, for every function
    endaddr,    \* Function.end_addr, for every function
    why         \* the assert or abort that stopped the program

vars == <<img, phase, i, dfp, labels, funcs, refd, liptrs, rinsns, returns,
          endaddr, why>>

N == Cardinality(DOMAIN img.code) - 1   \* index of the dummy NOP
Vram(k) == TextVaddr + 4 * k
TextEnd == Vram(N)                      \* text_vaddr + text_section_len
TextAddrs == {Vram(k) : k \in 0..N - 1}
AddrToI(a) == (a - TextVaddr) \div 4    \* addr_to_i
Sym(a, name) == a \in DOMAIN img.symbols /\ img.symbols[a] = name

IsJrRa(x) == x.op = "jr" /\ x.rs = "ra"

\* functions[a] for every a of fs: an entry not there yet is created with
\* no returns and end_addr 0
Register(fs) ==
    /\ funcs' = funcs \cup fs
    /\ returns' = [f \in funcs' |-> IF f \in funcs THEN returns[f] ELSE <<>>]
    /\ endaddr' = [f \in funcs' |-> IF f \in funcs THEN endaddr[f] ELSE 0]

(***************************************************************************)
(* inspect_data_function_pointers                                          *)
(***************************************************************************)
\* words that are integers in as1 and copt, never pointers
NotPointers == {4393728, 4406016, 4849664}  \* 0x430b00, 0x433b00, 0x4a0000

\* Slip: no alignment test
IsCodePointerUnaligned(w, at) ==
    /\ w \notin NotPointers
    /\ ~(at >= ProcTableStart /\ at < ProcTableStart + ProcTableLen)
    /\ w >= TextVaddr /\ w < TextEnd

\* the tests of one iteration, in the order of its early continues
IsCodePointer(w, at) ==
    /\ w \notin NotPointers
    /\ ~(at >= ProcTableStart /\ at < ProcTableStart + ProcTableLen)
    /\ w >= TextVaddr /\ w < TextEnd /\ w % 4 = 0

Section == IF phase = "rodata" THEN img.rodata ELSE img.data
SectionVaddr == IF phase = "rodata" THEN RodataVaddr ELSE DataVaddr

ScanWord ==
    /\ phase \in {"rodata", "data"}
    /\ i < 4 * Len(Section)
    /\ LET w == Section[i \div 4 + 1]
           at == SectionVaddr + i
       IN IF IsCodePointer(w, at)
          THEN /\ dfp' = Append(dfp, <<at, w>>)
               /\ labels' = labels \cup {w}
               /\ Register({w})
               /\ refd' = refd \cup {w}
          ELSE UNCHANGED <<dfp, labels, funcs, refd, returns, endaddr>>
    /\ i' = i + 4
    /\ UNCHANGED <<img, phase, liptrs, rinsns, why>>

\* the loop ends; main calls the scan of .data, then r_pass1 and r_pass2
ScanEnd ==
    /\ phase \in {"rodata", "data"}
    /\ i >= 4 * Len(Section)
    /\ phase' = IF phase = "rodata" THEN "data" ELSE "returns"
    /\ i' = 0
    /\ UNCHANGED <<img, dfp, labels, funcs, refd, liptrs, rinsns, returns,
                   endaddr, why>>

(***************************************************************************)
(* r_pass2, first loop: every instruction, the dummy NOP included          *)
(***************************************************************************)
\* Slip: lower_bound instead of upper_bound, so the greatest key < a
FindFunctionBefore(a) ==
    CHOOSE f \in funcs : f < a /\ \A g \in funcs : g < a => g <= f

\* find_function: the greatest key <= a (upper_bound, then one step back)
HasFunction(a) == \E f \in funcs : f <= a
FindFunction(a) ==
    CHOOSE f \in funcs : f <= a /\ \A g \in funcs : g <= a => g <= f

\* is_global_got_memop with a processed immediate inside .text; a negative
\* gp offset is a uint32 >= 2^31, above every text address
LiTest(x) == x.got /\ x.imm >= 0 /\ TextVaddr <= x.imm /\ x.imm < TextEnd

\* one iteration: the return of a "jr $ra", then the LI function pointer
ScanInsn ==
    /\ phase = "returns" /\ i <= N
    /\ LET x == rinsns[i]
           a == Vram(i)
       IN /\ IsJrRa(x) => HasFunction(a)
          /\ IF LiTest(x)
             THEN /\ liptrs' = liptrs \cup {x.imm}
                  /\ refd' = refd \cup {x.imm}
                  /\ Register({x.imm})
             ELSE /\ UNCHANGED <<liptrs, refd, funcs, endaddr>>
                  /\ returns' = IF IsJrRa(x)
                                THEN [returns EXCEPT ![FindFunction(a)] =
                                                        Append(@, a + 4)]
                                ELSE returns
    /\ i' = i + 1
    /\ UNCHANGED <<img, phase, dfp, labels, rinsns, why>>

\* assert(it != functions.end()): a "jr $ra" before the first function
ReturnOrphan ==
    /\ phase = "returns" /\ i <= N
    /\ IsJrRa(rinsns[i]) /\ ~HasFunction(Vram(i))
    /\ phase' = "abort" /\ why' = "assert"
    /\ UNCHANGED <<img, i, dfp, labels, funcs, refd, liptrs, rinsns, returns,
                   endaddr>>

ReturnsEnd ==
    /\ phase = "returns" /\ i > N
    /\ phase' = "functions" /\ i' = 1
    /\ UNCHANGED <<img, dfp, labels, funcs, refd, liptrs, rinsns, returns,
                   endaddr, why>>
(***************************************************************************)
(* r_pass2, second loop: the functions in ascending order                  *)
(***************************************************************************)
\* the keys of the std::map, ascending: the n-th has n - 1 keys below it
Order ==
    [n \in 1..Cardinality(funcs) |->
       CHOOSE f \in funcs : Cardinality({g \in funcs : g < f}) = n - 1]

\* it->second.end_addr: the next function, or the end of .text
EndAddr(n) == IF n = Len(Order) THEN TextEnd ELSE Order[n + 1]

\* the "lw $t9 / move / jalr $t9" stub that calls _mcount and never returns
TailPattern(k) ==
    /\ rinsns[k].op = "lw" /\ rinsns[k + 1].op = "move"
    /\ rinsns[k + 2].op = "jalr"

\* RabbitizerInstruction_init of a new word: the RInsn fields stay
Reinit(x, op, rs) == [x EXCEPT !.op = op, !.rs = rs, !.imm = 0]

\* Slip: one i++ too few before the push
WrapperReturnEarly(k) == Vram(k + 1) + 4

\* the return the rewrite gives a wrapper: the delay slot of its "jr $ra"
WrapperReturn(k) == Vram(k + 2) + 4

\* xmalloc: jal alloc_new / the lui of $a1 (7.1 or 5.3 layout) / jr $ra /
\* four nops
XmallocPatch(r, k) ==
    LET li == IF r[k + 6].op \in {"ori", "addiu"} THEN r[k + 6] ELSE r[k + 4]
    IN [j \in DOMAIN r |->
          CASE j = k -> [r[k] EXCEPT !.op = "jal", !.paddr = Vram(k + 7)]
            [] j = k + 1 -> li
            [] j = k + 2 -> Reinit(r[j], "jr", "ra")
            [] j \in k + 3 .. k + 6 -> Reinit(r[j], "nop", "other")
            [] OTHER -> r[j]]

\* alloc_dispose follows xfree at +16, or at +20 when a symbol says so
AllocDispose(k) ==
    IF Sym(Vram(k + 5), "alloc_dispose") THEN Vram(k + 5) ELSE Vram(k + 4)

\* xfree: jal alloc_dispose / the lui of $a1 / jr $ra / nop
XfreePatch(r, k) ==
    [r EXCEPT ![k] = [@ EXCEPT !.op = "jal", !.paddr = AllocDispose(k)],
              ![k + 1] = r[k + 3],
              ![k + 2] = Reinit(@, "jr", "ra"),
              ![k + 3] = Reinit(@, "nop", "other")]

\* the checks of one function, up to the "no ret" abort, in their order
NoReturns(f) == returns[f] = <<>> /\ ~Sym(f, "__start")
IsXmalloc(f) == NoReturns(f) /\ Sym(f, "xmalloc")
IsXfree(f) == NoReturns(f) /\ ~Sym(f, "xmalloc") /\ Sym(f, "xfree")
LeftEmpty(f) ==
    /\ NoReturns(f) /\ ~Sym(f, "xmalloc") /\ ~Sym(f, "xfree")
    /\ (TailPattern(AddrToI(f)) \/ f <= McountAddr)

\* a function with returns, __start, the tail stub, or one below _mcount
FunctionStep ==
    /\ phase = "functions" /\ i <= Len(Order)
    /\ LET f == Order[i] IN
       /\ ~IsXmalloc(f) /\ ~IsXfree(f)
       /\ NoReturns(f) => LeftEmpty(f)
       /\ endaddr' = [endaddr EXCEPT ![f] = EndAddr(i)]
    /\ i' = i + 1
    /\ UNCHANGED <<img, phase, dfp, labels, funcs, refd, liptrs, rinsns,
                   returns, why>>

Xmalloc ==
    /\ phase = "functions" /\ i <= Len(Order)
    /\ LET f == Order[i]
           k == AddrToI(f)
       IN /\ IsXmalloc(f)
          /\ IF Sym(Vram(k + 7), "alloc_new")
             THEN /\ rinsns' = XmallocPatch(rinsns, k)
                  /\ returns' = [returns EXCEPT ![f] = Append(@, WrapperReturn(k))]
                  /\ endaddr' = [endaddr EXCEPT ![f] = EndAddr(i)]
                  /\ i' = i + 1
                  /\ UNCHANGED <<phase, why>>
             ELSE /\ phase' = "abort" /\ why' = "assert"
                  /\ UNCHANGED <<i, rinsns, returns, endaddr>>
    /\ UNCHANGED <<img, dfp, labels, funcs, refd, liptrs>>

Xfree ==
    /\ phase = "functions" /\ i <= Len(Order)
    /\ LET f == Order[i]
           k == AddrToI(f)
       IN /\ IsXfree(f)
          /\ IF Sym(AllocDispose(k), "alloc_dispose")
             THEN /\ rinsns' = XfreePatch(rinsns, k)
                  /\ returns' = [returns EXCEPT ![f] = Append(@, WrapperReturn(k))]
                  /\ endaddr' = [endaddr EXCEPT ![f] = EndAddr(i)]
                  /\ i' = i + 1
                  /\ UNCHANGED <<phase, why>>
             ELSE /\ phase' = "abort" /\ why' = "assert"
                  /\ UNCHANGED <<i, rinsns, returns, endaddr>>
    /\ UNCHANGED <<img, dfp, labels, funcs, refd, liptrs>>

\* fprintf(stderr, "no ret: 0x%x\n", it->first); abort();
NoRet ==
    /\ phase = "functions" /\ i <= Len(Order)
    /\ LET f == Order[i] IN
       NoReturns(f) /\ ~IsXmalloc(f) /\ ~IsXfree(f) /\ ~LeftEmpty(f)
    /\ phase' = "abort" /\ why' = "no ret"
    /\ UNCHANGED <<img, i, dfp, labels, funcs, refd, liptrs, rinsns, returns,
                   endaddr>>

FunctionsEnd ==
    /\ phase = "functions" /\ i > Len(Order)
    /\ phase' = "done"
    /\ UNCHANGED <<img, i, dfp, labels, funcs, refd, liptrs, rinsns, returns,
                   endaddr, why>>

(***************************************************************************)
(* main: parse_elf and r_disassemble have run                              *)
(***************************************************************************)
Init ==
    /\ img \in Images
    /\ phase = "rodata" /\ i = 0
    /\ dfp = <<>> /\ labels = {} /\ refd = {} /\ liptrs = {}
    /\ funcs = img.funcs
    /\ returns = [f \in funcs |-> <<>>]
    /\ endaddr = [f \in funcs |-> 0]
    /\ rinsns = img.code
    /\ why = "none"

Next ==
    \/ ScanWord \/ ScanEnd
    \/ ScanInsn \/ ReturnOrphan \/ ReturnsEnd
    \/ FunctionStep \/ Xmalloc \/ Xfree \/ NoRet \/ FunctionsEnd

Spec == Init /\ [][Next]_vars /\ WF_vars(Next)
(***************************************************************************)
(* Properties                                                              *)
(***************************************************************************)
Phases == {"rodata", "data", "returns", "functions", "done", "abort"}

TypeOK ==
    /\ phase \in Phases
    /\ funcs \subseteq TextAddrs /\ refd \subseteq funcs
    /\ labels \subseteq funcs /\ liptrs \subseteq funcs
    /\ \A n \in 1..Len(dfp) : dfp[n][2] \in refd
    /\ DOMAIN returns = funcs /\ DOMAIN endaddr = funcs
    /\ \A f \in funcs : returns[f] \in Seq(TextVaddr..TextEnd)
    /\ why \in {"none", "assert", "no ret"}

\* r_pass2 attributes each "jr $ra" by find_function while it walks the
\* vector, and sets end_addr in a later loop: when it ends, every return of
\* a function lies in (entry, end_addr], and every "jr $ra" of the input
\* after the first function is the return of one.
ReturnsAttributed ==
    phase = "done" =>
        /\ \A f \in funcs : \A r \in ToSet(returns[f]) : f < r /\ r <= endaddr[f]
        /\ \A k \in 0..N : IsJrRa(img.code[k]) /\ HasFunction(Vram(k)) =>
              \E f \in funcs : Vram(k) + 4 \in ToSet(returns[f])

\* Every return r_pass2 records, the ones the xmalloc and xfree rewrites
\* add included, is the delay slot of a "jr $ra" of the vector r_pass3 and
\* the C emitter then read.
ReturnsAreJrDelaySlots ==
    phase = "done" =>
        \A f \in funcs : \A r \in ToSet(returns[f]) : IsJrRa(rinsns[AddrToI(r) - 1])
====
