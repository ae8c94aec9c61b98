------------------------------ MODULE Resolver ------------------------------
(***************************************************************************)
(* Symbol resolution, r_pass1 of src/rrecomp.cpp, with its two backward    *)
(* searches r_link_with_lui and r_link_with_jalr.  One step is one         *)
(* iteration of r_pass1's loop over the instruction vector, in ascending   *)
(* order; it rewrites instructions in place (opcode, descriptor, patched,  *)
(* patched_addr) and links pairs (linked_insn, linked_value).              *)
(*                                                                         *)
(* The input is the vector r_disassemble builds: one record per word and   *)
(* the dummy NOP, whose fields are zero-initialised (linked_insn = 0).     *)
(* An instruction is a record                                              *)
(*   op       the uniqueId, rewritten in place                             *)
(*   desc     the opcode whose rabbitizer descriptor the record points to  *)
(*            (a rewrite sets uniqueId and descriptor separately)          *)
(*   rs, rt, rd  the register fields of the word; for an I-type word the   *)
(*            "rd" field is bits 11..15 of the immediate (RdBits)          *)
(*   imm      the processed immediate; tgt the J-type target address       *)
(*   patched, paddr, linked, lval, got   RInsn.patched, patched_addr,      *)
(*            linked_insn, linked_value (linked_float shares its bits),    *)
(*            is_global_got_memop                                          *)
(* Addresses are byte addresses: instruction k is at TextVaddr + 4 * k.    *)
(***************************************************************************)
EXTENDS Program, FiniteSets, TLC

CONSTANTS
    TextVaddr,     \* text_vaddr
    GpValue,       \* gp_value: $gp during the whole run of the binary
    GpValueAdj,    \* gp_value_adj: gp_value - the start of .got
    GotLocals,     \* got_locals, a sequence of addresses
    GotGlobals,    \* got_globals
    MaxLookback,   \* MAX_LOOKBACK (128 in the code)
    RodataVaddr,   \* rodata_vaddr
    Rodata,        \* the words of .rodata, a sequence (<<>>: no section)
    Programs       \* the inputs: [code |-> the decoded words, index 0..,
                   \*   funcs |-> the functions parse_elf and
                   \*   inspect_data_function_pointers registered]

VARIABLES
    prog,          \* the input vector (never changes)
    rinsns,        \* the vector r_pass1 rewrites
    labels,        \* label_addresses
    funcs,         \* the keys of the functions map
    i,             \* r_pass1's loop index
    fail           \* "none", or the assert / exit that stopped the program

vars == <<prog, rinsns, labels, funcs, i, fail>>

Code == prog.code          \* the words, and the dummy NOP, from index 0
N == Cardinality(DOMAIN Code) - 1         \* index of the dummy NOP
Nodes == 0..N
Vram(k) == TextVaddr + 4 * k
TextEnd == Vram(N)          \* text_vaddr + text_section_len

\* the O32 names of the 32 GPR numbers
GprName == <<"zero", "at", "v0", "v1", "a0", "a1", "a2", "a3",
             "t0", "t1", "t2", "t3", "t4", "t5", "t6", "t7",
             "s0", "s1", "s2", "s3", "s4", "s5", "s6", "s7",
             "t8", "t9", "k0", "k1", "gp", "sp", "fp", "ra">>

\* RAB_INSTR_GET_rd of an I-type word: bits 11..15, inside the immediate
RdBits(imm) == GprName[((imm % 65536) \div 2048) + 1]

\* the descriptor facts of the opcodes only r_pass1 meets
RDesc == Descriptors @@
    [mtc1   |-> D(FALSE, FALSE, FALSE, TRUE),   \* mtc1  rt, fs
     bgezal |-> D(FALSE, FALSE, TRUE,  FALSE),
     j      |-> D(FALSE, FALSE, FALSE, FALSE),
     sltiu  |-> D(TRUE,  FALSE, TRUE,  TRUE),
     andi   |-> D(TRUE,  FALSE, TRUE,  TRUE),
     beqz   |-> D(FALSE, FALSE, TRUE,  FALSE)]

IsJumpDesc(d) == d \in {"j", "jal", "jr", "jalr"}

MemOps == {"lw", "sw"}      \* the memory opcodes of the switch in the model

\* get_dest_reg: reads the descriptor, not the opcode
DestReg(x) ==
    IF RDesc[x.desc].modifiesRt THEN x.rt
    ELSE IF RDesc[x.desc].modifiesRd THEN x.rd
    ELSE "zero"

\* (imm + gp_value_adj) / 4 as an unsigned number: -1 when it wraps
GotEntry(imm) == IF imm + GpValueAdj >= 0 THEN (imm + GpValueAdj) \div 4 ELSE -1
IsLocalEntry(e) == 0 <= e /\ e < Len(GotLocals)
IsGlobalEntry(e) == Len(GotLocals) <= e /\ e < Len(GotLocals) + Len(GotGlobals)

\* addr >= text_vaddr && addr < text_vaddr + text_section_len
InTextRange(a) == TextVaddr <= a /\ a < TextEnd

\* add_function: only addresses inside .text become functions
\* Slip: add_function without its range test
AddFunctionAnyAddr(fs, a) == fs \cup {a}

AddFunction(fs, a) == IF InTextRange(a) THEN fs \cup {a} ELSE fs

(***************************************************************************)
(* The pipeline state one iteration passes along: the vector, the label    *)
(* and function sets, and the failure flag.                                *)
(***************************************************************************)
St(ins, ls, fs, fl) == [ins |-> ins, labels |-> ls, funcs |-> fs, fail |-> fl]

\* rewrite one record's opcode and descriptor (uniqueId, descriptor)
Op(x, op, desc) == [x EXCEPT !.op = op, !.desc = desc]

(***************************************************************************)
(* r_link_with_lui, the GOT-local case: the LW at s loads a local GOT      *)
(* entry; the load becomes an ORI of the full address, and the user at o   *)
(* becomes a MOVE (ADDIU) or gets offset 0 (a load or store).              *)
(***************************************************************************)
LinkGotLocal(st, o, s, memImm) ==
    LET e == GotEntry(st.ins[s].imm) IN
    IF ~IsLocalEntry(e) THEN st
    ELSE
      LET addr == GotLocals[e + 1] + memImm
          d    == [Op(st.ins[s], "ori", "ori") EXCEPT
                     !.linked = o, !.lval = addr, !.patched = TRUE, !.paddr = addr]
          u    == [st.ins[o] EXCEPT !.linked = s, !.lval = addr]
          ins(uu) == [st.ins EXCEPT ![s] = d, ![o] = uu]
      IN CASE st.ins[o].op = "addiu" ->
                \* the descriptor is taken from rinsns[search], already an ORI;
                \* the range is tested here and again in add_function
                [st EXCEPT !.ins = ins([Op(u, "move", d.op) EXCEPT !.patched = TRUE]),
                           !.funcs = IF InTextRange(addr) THEN AddFunction(st.funcs, addr)
                                     ELSE st.funcs]
           [] st.ins[o].op \in MemOps ->
                [st EXCEPT !.ins = ins([u EXCEPT !.patched = TRUE, !.paddr = 0])]
           [] OTHER -> [st EXCEPT !.ins = ins(u), !.fail = "unsupported"]

\* r_link_with_lui's loop, from search down to end_search
RECURSIVE LuiScan(_, _, _, _, _, _)
LuiScan(st, o, reg, memImm, s, endS) ==
    IF s < endS THEN st
    ELSE
      LET x == st.ins[s]
          next == LuiScan(st, o, reg, memImm, s - 1, endS)
      IN CASE x.op = "lui" -> IF reg = x.rt THEN st ELSE next
           [] x.op \in {"lw", "addiu", "subu"} ->
                IF reg # DestReg(x) THEN next
                ELSE IF x.op = "lw" /\ x.rs = "gp" THEN LinkGotLocal(st, o, s, memImm)
                ELSE st
           \* the JR stop tests the rd field
           [] x.op = "jr" -> IF x.rd = "ra" /\ o - s >= 2 THEN st ELSE next
           [] OTHER -> next

LinkWithLui(st, o, reg, memImm) ==
    LuiScan(st, o, reg, memImm, o - 1, IF o - MaxLookback > 0 THEN o - MaxLookback ELSE 0)

(***************************************************************************)
(* r_link_with_jalr: the producer of $t9 for the JALR at o.                *)
(***************************************************************************)
JalrLink(st, o, s) ==
    LET x == st.ins[s]
        y == st.ins[o]
    IN
    [st EXCEPT
       !.ins = [st.ins EXCEPT
                  ![o] = [Op(y, "jal", x.op) EXCEPT !.linked = s, !.lval = x.lval,
                                                  !.patched = TRUE, !.paddr = y.imm],
                  ![s] = [Op(x, "nop", "nop") EXCEPT !.linked = o, !.patched = TRUE,
                                                   !.got = FALSE]],
       !.funcs = AddFunction(st.funcs, x.lval)]

RECURSIVE JalrScan(_, _, _, _)
JalrScan(st, o, s, endS) ==
    IF s < endS THEN st
    ELSE
      LET x == st.ins[s] IN
      IF DestReg(x) = "t9" THEN
        CASE x.op \in {"lw", "ori"} ->
               IF x.got \/ x.op = "ori" THEN JalrLink(st, o, s) ELSE st
          [] x.op = "addiu" ->
               IF x.linked = -1 THEN st
               ELSE [st EXCEPT !.ins = [st.ins EXCEPT
                                          ![s].linked = o,
                                          ![o].linked = x.linked,
                                          ![o].lval = x.lval]]
          [] x.op \in {"addu", "subu"} -> st
          [] OTHER -> JalrScan(st, o, s - 1, endS)
      ELSE IF x.op = "jr" /\ x.rs = "ra" THEN st
      ELSE JalrScan(st, o, s - 1, endS)

LinkWithJalr(st, o) ==
    JalrScan(st, o, o - 1, IF o - MaxLookback > 0 THEN o - MaxLookback ELSE 0)

(***************************************************************************)
(* Jump-table recognition for a JR at k (r_pass1, the JR branch).  The     *)
(* indices count back from k over the idiom                                *)
(*   [sltiu at, ty, n | andi]  beqz at  ...  sll tx, ty, 2                 *)
(*   addu at, at, tx   lw tx, lo(at)   [nop]   [addu tx, tx, gp]   jr tx   *)
(* The code reads the vector at these indices without a bounds check; a    *)
(* negative index is a read outside the vector, undefined behaviour, and   *)
(* the model stops there with fail = "out_of_bounds".  The hard-coded      *)
(* indices 219382, 368393 and 370995 of the code lie beyond every vector   *)
(* the model builds.                                                       *)
(***************************************************************************)
NopAt(ins, j) == [ins EXCEPT ![j] = [Op(@, "nop", "nop") EXCEPT !.patched = TRUE]]

\* the j in 5..end of the first SLTIU $at at base - j; -1 if a JR or end comes
\* first; -2 if the scan leaves the vector
RECURSIVE SltiuScan(_, _, _, _)
SltiuScan(ins, base, j, end) ==
    IF j > end THEN -1
    ELSE IF base - j < 0 THEN -2
    ELSE IF ins[base - j].op = "sltiu" /\ ins[base - j].rt = "at" THEN j
    ELSE IF ins[base - j].op = "jr" THEN -1
    ELSE SltiuScan(ins, base, j + 1, end)

\* the case targets: .rodata words (gp-relative, so negative), plus gp_value
CaseTargets(jtbl, n) ==
    {Rodata[(jtbl - RodataVaddr) \div 4 + c] + GpValue : c \in 1..n}

JumpTable(st, k) ==
    LET ins   == st.ins
        x     == ins[k]
        pic   == IF ins[k - 1].op = "addu" /\ ins[k - 1].rt = "gp" THEN 1 ELSE 0
        nop   == IF ins[k - pic - 1].op = "nop" THEN 1 ELSE 0
        extra == IF ins[k - pic - nop - 5].op # "beqz" THEN 1 ELSE 0
        lw    == IF ins[k - pic - nop - 1].op # "lw" THEN k - pic - nop - 2 ELSE k - pic - nop - 1
        ad    == IF ins[lw - 1].op # "addu" THEN lw - 2 ELSE lw - 1
        sl    == SltiuScan(ins, lw - extra, 5, 14)
        andi  == IF lw - 3 >= 0 /\ ins[lw - 3].op = "andi" THEN lw - 3
                 ELSE IF lw - 4 >= 0 /\ ins[lw - 4].op = "andi" THEN lw - 4 ELSE -1
        found == sl > 0 \/ andi # -1
        andv  == sl < 0
        n     == IF sl > 0 THEN ins[lw - extra - sl].imm ELSE ins[andi].imm + 1
        jtbl  == ins[lw].lval
        ins1  == [NopAt(NopAt(NopAt(IF pic = 1 THEN NopAt(ins, k - 1) ELSE ins, lw), ad), ad - 1)
                    EXCEPT ![k].jtbl = jtbl, ![k].ncases = n,
                           \* index_reg: the rs field of the SLL
                           ![k].ireg = ins[ad - 1].rs]
    IN IF k < 7 \/ Rodata = <<>> THEN st
       ELSE IF ins[lw].op # "lw" \/ ins[lw].linked = -1 THEN st
       ELSE IF ins[ad].op # "addu" \/ ins[ad - 1].op # "sll" \/ DestReg(ins[ad - 1]) # x.rs
            THEN st
       ELSE IF lw - 3 < 0 \/ (ins[lw - 3].op # "andi" /\ lw - 4 < 0) \/ sl = -2 \/ (found /\ ~andv /\ ad - 2 < 0)
            THEN [st EXCEPT !.fail = "out_of_bounds"]
       ELSE IF ~found THEN st
       ELSE IF jtbl < RodataVaddr \/ jtbl + 4 * n > RodataVaddr + 4 * Len(Rodata)
            THEN [st EXCEPT !.ins = ins1, !.fail = "jtbl_outside_rodata"]
       ELSE [st EXCEPT !.ins = IF andv THEN ins1 ELSE NopAt(ins1, ad - 2),
                       !.labels = @ \cup CaseTargets(jtbl, n)]

(***************************************************************************)
(* The parts of one iteration of r_pass1, in the order the code runs them. *)
(***************************************************************************)
\* BGEZAL $zero becomes JAL, its patched_addr the processed immediate
Bal(st, k) ==
    LET x == st.ins[k] IN
    IF x.op = "bgezal" /\ x.rs = "zero"
    THEN [st EXCEPT !.ins[k] = [Op(x, "jal", "jal") EXCEPT !.patched = TRUE, !.paddr = x.imm]]
    ELSE st

Jumps(st, k) ==
    LET x == st.ins[k] IN
    IF ~IsJumpDesc(x.desc) THEN st
    ELSE IF x.op \in {"jal", "j"} THEN
      LET t == IF x.patched THEN x.paddr ELSE x.tgt IN
      [st EXCEPT !.labels = @ \cup {t}, !.funcs = AddFunction(@, t)]
    ELSE IF x.op = "jr" THEN JumpTable(st, k)
    ELSE st

\* the float LI search of MTC1: no window, and any LUI ends it
RECURSIVE FloatScan(_, _, _, _)
FloatScan(st, k, rt, s) ==
    IF s < 0 THEN st
    ELSE
      LET x == st.ins[s] IN
      CASE x.op = "lui" ->
             IF x.rt # rt THEN st
             ELSE [st EXCEPT !.ins[s] = [Op(x, "ori", "ori") EXCEPT
                                            !.linked = k, !.lval = x.imm * 65536,
                                            !.patched = TRUE, !.paddr = x.imm * 65536]]
        \* compares rt with the rd field of each writer
        [] x.op \in {"lw", "addiu", "subu"} ->
             IF rt = x.rd THEN st ELSE FloatScan(st, k, rt, s - 1)
        [] x.op = "jr" -> IF x.rs = "ra" THEN st ELSE FloatScan(st, k, rt, s - 1)
        [] OTHER -> FloatScan(st, k, rt, s - 1)

\* Slip: the pairing search is not given the access's own offset
MemOpNoOffset(st, k) ==
    LET x == st.ins[k]
        e == GotEntry(x.imm)
    IN IF x.rs # "gp" THEN LinkWithLui(st, k, x.rs, 0)
       ELSE IF ~IsGlobalEntry(e) THEN st
       ELSE IF x.op # "lw" THEN [st EXCEPT !.fail = "got_not_lw"]
       ELSE LET v == GotGlobals[e - Len(GotLocals) + 1] IN
            [st EXCEPT !.ins[k] = [Op(x, "ori", "ori") EXCEPT !.got = TRUE, !.lval = v,
                                                         !.patched = TRUE, !.paddr = v]]

\* a load or store: GOT-global loads become LI, other bases are paired
MemOp(st, k) ==
    LET x == st.ins[k]
        e == GotEntry(x.imm)
    IN IF x.rs # "gp" THEN LinkWithLui(st, k, x.rs, x.imm)
       ELSE IF ~IsGlobalEntry(e) THEN st
       ELSE IF x.op # "lw" THEN [st EXCEPT !.fail = "got_not_lw"]
       ELSE LET v == GotGlobals[e - Len(GotLocals) + 1] IN
            [st EXCEPT !.ins[k] = [Op(x, "ori", "ori") EXCEPT !.got = TRUE, !.lval = v,
                                                         !.patched = TRUE, !.paddr = v]]

\* Slip: the JAL keeps the patched_addr r_link_with_jalr stored (the
\* JALR's immediate) instead of taking linked_value
JalrKeepAddr(st, k) ==
    IF st.ins[k].rs # "t9" THEN st
    ELSE LET s1 == LinkWithJalr(st, k)
             x  == s1.ins[k]
         IN IF x.linked = -1 THEN s1
            ELSE [s1 EXCEPT !.ins[k] = [Op(x, "jal", "jal") EXCEPT !.patched = TRUE],
                            !.labels = @ \cup {x.lval},
                            !.funcs = AddFunction(@, x.lval)]

\* JALR $t9: rewritten to JAL when r_link_with_jalr linked it
Jalr(st, k) ==
    IF st.ins[k].rs # "t9" THEN st
    ELSE LET s1 == LinkWithJalr(st, k)
             x  == s1.ins[k]
         IN IF x.linked = -1 THEN s1
            ELSE [s1 EXCEPT !.ins[k] = [Op(x, "jal", "jal") EXCEPT !.patched = TRUE, !.paddr = x.lval],
                            !.labels = @ \cup {x.lval},
                            !.funcs = AddFunction(@, x.lval)]

Switch(st, k) ==
    LET x == st.ins[k] IN
    CASE x.op = "mtc1" -> FloatScan(st, k, x.rt, k - 1)
      [] x.op \in MemOps -> MemOp(st, k)
      \* the rd field of an ADDIU/ORI is immediate bits
      [] x.op \in {"addiu", "ori"} ->
           IF x.rs = "zero" \/ x.rd = "gp" THEN st ELSE LinkWithLui(st, k, x.rs, x.imm)
      [] x.op = "jalr" -> Jalr(st, k)
      [] OTHER -> st

\* the PIC $gp set-up (LUI, ADDIU, ADDU gp, gp, t9) becomes three NOPs
GpSetup(st, k) ==
    LET x == st.ins[k] IN
    IF x.op = "addu" /\ x.rd = "gp" /\ x.rs = "gp" /\ x.rt = "t9" /\ k >= 2
    THEN [st EXCEPT !.ins = [j \in DOMAIN @ |->
                               IF k - 2 <= j /\ j <= k
                               THEN [Op(@[j], "nop", "nop") EXCEPT !.patched = TRUE]
                               ELSE @[j]]]
    ELSE st

\* one iteration of r_pass1's loop body
Iter(st, k) == GpSetup(Switch(Jumps(Bal(st, k), k), k), k)

(***************************************************************************)
(* r_disassemble: one RInsn per word, linked_insn = -1; the dummy NOP      *)
(* appended last is value-initialised, so its linked_insn is 0.            *)
(***************************************************************************)
RInsn(w, linked) ==
    [op |-> w.op, desc |-> w.op, rs |-> w.rs, rt |-> w.rt, rd |-> w.rd, imm |-> w.imm,
     tgt |-> w.tgt, patched |-> FALSE, paddr |-> 0, linked |-> linked, lval |-> 0,
     got |-> FALSE, jtbl |-> 0, ncases |-> 0, ireg |-> "zero"]

Disassemble(code) ==
    [k \in DOMAIN code |-> RInsn(code[k], IF k = Cardinality(DOMAIN code) - 1 THEN 0 ELSE -1)]

Init ==
    /\ prog \in Programs
    /\ rinsns = Disassemble(prog.code)
    /\ labels = {}
    /\ funcs = prog.funcs
    /\ i = 0
    /\ fail = "none"

\* one iteration of the loop in r_pass1
Pass1Step ==
    /\ fail = "none"
    /\ i <= N
    /\ LET st == Iter(St(rinsns, labels, funcs, fail), i) IN
         /\ rinsns' = st.ins
         /\ labels' = st.labels
         /\ funcs' = st.funcs
         /\ fail' = st.fail
    /\ i' = i + 1
    /\ UNCHANGED prog

Next == Pass1Step

Spec == Init /\ [][Next]_vars /\ WF_vars(Next)

Done == fail = "none" /\ i > N

(***************************************************************************)
(* A reference: the value each register holds in straight-line code, in    *)
(* the MIPS program (mode "mips", the input words) and in the C the        *)
(* emitter prints from the rewritten vector (mode "c").  A value is a      *)
(* number, or an opaque term: an incoming register, a call result, or the  *)
(* word loaded from an address.  In the C, every register starts at 0      *)
(* except the arguments (r_dump_c declares gp = 0; the PIC $gp set-up is   *)
(* three NOPs); in the MIPS program $gp holds gp_value.  The .got words    *)
(* are GotLocals and GotGlobals at gp_value - gp_value_adj.  A function    *)
(* starts at 0 or after the delay slot of a JR $ra.                        *)
(***************************************************************************)
\* The model's addresses stay below 2^31; a uint32 sum that would wrap (a
\* negative gp offset added to the C's gp = 0) is a negative number here.
Num(n) == [k |-> "num", n |-> n]
Term(t) == [k |-> "term", t |-> t]

AddV(a, n) == IF a.k = "num" THEN Num(a.n + n) ELSE Term(<<"+", a, n>>)
AddVV(a, b) == IF a.k = "num" /\ b.k = "num" THEN Num(a.n + b.n) ELSE Term(<<"+", a, b>>)
\* a | n is a + n when a is 0, or when a has a clear low half and n fits in it
OrV(a, n) == IF a.k = "num" /\ (a.n = 0 \/ (a.n % 65536 = 0 /\ 0 <= n /\ n < 65536))
             THEN Num(a.n + n) ELSE Term(<<"|", a, n>>)

\* the word at address a: a .got entry, or whatever memory holds
GotBase == GpValue - GpValueAdj
Load(a) ==
    LET e == (a.n - GotBase) \div 4 IN
    IF a.k = "num" /\ a.n >= GotBase /\ (a.n - GotBase) % 4 = 0 /\ IsLocalEntry(e)
    THEN Num(GotLocals[e + 1])
    ELSE IF a.k = "num" /\ a.n >= GotBase /\ (a.n - GotBase) % 4 = 0 /\ IsGlobalEntry(e)
    THEN Num(GotGlobals[e - Len(GotLocals) + 1])
    ELSE Term(<<"mem", a>>)

\* the registers an instruction writes, in the MIPS program or in its C
Writes(x) ==
    CASE x.op \in {"lw", "lui", "addiu", "ori", "sltiu", "andi"} -> {x.rt}
      [] x.op \in {"addu", "subu", "sll", "move"} -> {x.rd}
      [] x.op \in {"jal", "jalr", "bgezal"} -> {"v0"}
      [] OTHER -> {}

StartOf(code, k) ==
    LET ends == {s \in 2..k : code[s - 2].op = "jr" /\ code[s - 2].rs = "ra"} IN
    IF ends = {} THEN 0 ELSE CHOOSE s \in ends : \A t \in ends : t <= s

\* the immediate the C of x uses (patched_addr once patched)
ImmC(m, x) == IF m = "c" /\ x.patched THEN x.paddr ELSE x.imm

RECURSIVE ValueOf(_, _, _, _)
\* the value of register r just before instruction k of code, in mode m
ValueOf(m, code, k, r) ==
    LET ws == {s \in StartOf(code, k)..(k - 1) : r \in Writes(code[s])} IN
    IF r = "zero" THEN Num(0)
    ELSE IF ws = {} THEN (IF r = "gp" THEN Num(IF m = "c" THEN 0 ELSE GpValue)
                          ELSE Term(<<"in", r>>))
    ELSE
      LET s == CHOOSE t \in ws : \A u \in ws : u <= t
          x == code[s]
          src(reg) == ValueOf(m, code, s, reg)
      IN CASE x.op = "lw"    -> Load(AddV(src(x.rs), ImmC(m, x)))
           [] x.op = "lui"   -> Num(x.imm * 65536)
           [] x.op = "addiu" -> AddV(src(x.rs), x.imm)
           [] x.op = "ori"   -> OrV(src(x.rs), ImmC(m, x))
           [] x.op = "addu"  -> AddVV(src(x.rs), src(x.rt))
           [] x.op = "move"  -> src(x.rs)
           [] x.op \in {"jal", "jalr", "bgezal"} -> Term(<<"ret", s>>)
           [] OTHER -> Term(<<x.op, s>>)

\* the address a load or store at k accesses
AddrOf(m, code, k) == AddV(ValueOf(m, code, k, code[k].rs), ImmC(m, code[k]))

(***************************************************************************)
(* li_function_pointers as r_pass2 fills it from this vector: a GOT-global *)
(* load turned into an LI whose getProcessedImmediate lies in .text.  The  *)
(* LI (ORI) descriptor makes the immediate unsigned 16-bit.                *)
(***************************************************************************)
ProcessedImm(x) == IF x.desc = "ori" THEN x.imm % 65536 ELSE x.imm

LiFunctionPointers ==
    {ProcessedImm(rinsns[k]) : k \in {j \in Nodes : rinsns[j].got /\ TextVaddr <= ProcessedImm(rinsns[j])
                                                 /\ ProcessedImm(rinsns[j]) < TextEnd}}

(***************************************************************************)
(* Properties                                                              *)
(***************************************************************************)
\* The type invariant of r_pass1's state; the functions map holds only
\* addresses of .text words, whatever address an ADDIU or a JAL names.
TypeOK ==
    /\ DOMAIN rinsns = Nodes
    /\ \A k \in Nodes : rinsns[k].op \in DOMAIN RDesc /\ rinsns[k].desc \in DOMAIN RDesc
                        /\ rinsns[k].linked \in -1..N /\ rinsns[k].patched \in BOOLEAN
    /\ labels \subseteq Nat
    \* add_function only ever records addresses inside .text
    /\ funcs \subseteq {TextVaddr + 4 * j : j \in 0..N - 1}
    /\ i \in 0..N + 1
    /\ fail \in {"none", "unsupported", "got_not_lw", "out_of_bounds", "jtbl_outside_rodata"}

\* where a JALR goes in the MIPS program: the value of its rs, $t9
CallTarget(k) == ValueOf("mips", Code, k, Code[k].rs)

\* Every JALR $t9 that r_link_with_jalr rewrites into a JAL calls the
\* address the MIPS JALR transfers to, whichever GOT idiom (global entry,
\* local page + ADDIU %lo) loaded $t9.  The BGEZAL $zero rewrite at line
\* 561, whose patched_addr is the raw branch offset (a TODO of the code),
\* is outside this property; the inputs hold no BGEZAL.
CallTargetsPreserved ==
    Done => \A k \in Nodes :
              rinsns[k].op = "jal" /\ Code[k].op = "jalr" =>
                 Num(rinsns[k].paddr) = CallTarget(k)

\* Every load and store through a base other than $gp accesses in the C the
\* address the MIPS instruction accesses, after r_link_with_lui has moved
\* the offset into the ORI that replaced the GOT load and zeroed it in the
\* user.
AccessesPreserved ==
    Done => \A k \in Nodes :
              Code[k].op \in MemOps /\ Code[k].rs # "gp" /\ rinsns[k].op \in MemOps =>
                 AddrOf("c", rinsns, k) = AddrOf("mips", Code, k)

\* Spec section 4.2, rule 4: r_link_with_lui stops at a JR $ra at least two
\* instructions before the user, so no pair spans a function boundary.
NoLinkAcrossReturn ==
    Done => \A o \in Nodes :
              LET s == rinsns[o].linked IN
              s \in 0..o - 1 =>
                 ~\E r \in s + 1..o - 2 : Code[r].op = "jr" /\ Code[r].rs = "ra"

\* At every JR $ra, $v0 (the result) and $sp hold in the C the values they
\* hold in the MIPS program: a rewrite writes no register the MIPS
\* instruction left alone (the ADDIU that becomes a MOVE included).
ExitValuesPreserved ==
    Done => \A k \in Nodes :
              Code[k].op = "jr" /\ Code[k].rs = "ra" =>
                 \A r \in {"v0", "sp"} : ValueOf("c", rinsns, k, r) = ValueOf("mips", Code, k, r)

\* the SLL that scales the index for the table JR at k
ScaleOf(k) ==
    CHOOSE s \in 0..k - 1 : /\ Code[s].op = "sll" /\ Code[s].rd = Code[k].rs
                            /\ \A t \in s + 1..k - 1 : ~(Code[t].op = "sll" /\ Code[t].rd = Code[k].rs)

\* A JR recognised as a jump table becomes "dest = Lswitch[index_reg]" in
\* the C; index_reg must hold there the case number the MIPS code scales
\* by 4 in the SLL before the table load (spec 8, scenario 3: $v0).
SwitchIndexPreserved ==
    Done => \A k \in Nodes :
              rinsns[k].jtbl # 0 =>
                 ValueOf("c", rinsns, k, rinsns[k].ireg)
                   = ValueOf("mips", Code, ScaleOf(k), Code[ScaleOf(k)].rt)

\* Spec 4.1 (stage 0'): every LI-materialised value pointing into .text,
\* here a function address loaded from the GOT and not called, is put in
\* li_function_pointers by r_pass2.
LiPointersFound ==
    Done => \A k \in Nodes :
              rinsns[k].got /\ TextVaddr <= rinsns[k].lval /\ rinsns[k].lval < TextEnd =>
                 rinsns[k].lval \in LiFunctionPointers
=============================================================================
