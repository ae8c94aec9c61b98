----------------------------- MODULE MCRecomp -----------------------------
(***************************************************************************)
(* Inputs for Recomp: small instruction vectors as r_pass1 leaves them.    *)
(* Vram(i) = TextVaddr + i; externs live at addresses 100.. outside .text. *)
(*                                                                         *)
(* Skeleton P (main calls F and an extern in a loop):                      *)
(*    0  A                  main                                           *)
(*    1  jal F                                                             *)
(*    2  nop                                                               *)
(*    3  beql v0, zero, 7                                                  *)
(*    4  C                  (delay slot, nullified when not taken)         *)
(*    5  jal EXT                                                           *)
(*    6  nop                                                               *)
(*    7  bnez s0, 3                                                        *)
(*    8  nop                                                               *)
(*    9  jr ra                                                             *)
(*   10  nop                                                               *)
(*   11  D1                 F                                              *)
(*   12  D2                                                                *)
(*   13  jr ra                                                             *)
(*   14  E                                                                 *)
(*   15  (the dummy NOP r_disassemble appends)                             *)
(*                                                                         *)
(* Skeleton Q (main calls G through a pointer; G is address-taken, has a   *)
(* jump table and two returns):                                            *)
(*    0  lw t9, 0(a0)       main                                           *)
(*    1  jalr t9                                                           *)
(*    2  nop                                                               *)
(*    3  jr ra                                                             *)
(*    4  nop                                                               *)
(*    5  sll t0, a0         G (in data_function_pointers)                  *)
(*    6  jr t0              jump table: cases 8, 11, index_reg a0          *)
(*    7  nop                                                               *)
(*    8  S1                                                                *)
(*    9  jr ra                                                             *)
(*   10  nop                                                               *)
(*   11  b 13                                                              *)
(*   12  S2                                                                *)
(*   13  jr ra                                                             *)
(*   14  subu v0, a0, a1                                                   *)
(*   15  (dummy NOP)                                                       *)
(***************************************************************************)
EXTENDS Recomp

Ins0 == [op |-> "nop", rs |-> "zero", rt |-> "zero", rd |-> "zero",
         tgt |-> 0, patched |-> FALSE, paddr |-> 0, cases |-> <<>>,
         ireg |-> "zero", got |-> FALSE, imm |-> 0]

Nop == Ins0
R3(op, rd, rs, rt) == [Ins0 EXCEPT !.op = op, !.rd = rd, !.rs = rs, !.rt = rt]
I2(op, rt, rs) == [Ins0 EXCEPT !.op = op, !.rt = rt, !.rs = rs]
Br(op, rs, rt, a) == [Ins0 EXCEPT !.op = op, !.rs = rs, !.rt = rt, !.tgt = a]
Jal(a) == [Ins0 EXCEPT !.op = "jal", !.tgt = a]
Jr(rs) == [Ins0 EXCEPT !.op = "jr", !.rs = rs]
JrTable(rs, cs, ireg) == [Jr(rs) EXCEPT !.cases = cs, !.ireg = ireg]
\* a LUI r_pass1 rewrote to a float LI (patched, patched_addr = the bits)
FloatLi(rt, bits) == [Ins0 EXCEPT !.op = "ori", !.rt = rt, !.patched = TRUE,
                                  !.paddr = bits]

V(i) == TextVaddr + i

Seq0(s) == [i \in 0..(Len(s) - 1) |-> s[i + 1]]

Externs == [e \in {100, 101, 102, 103, 104} |->
              CASE e = 100 -> "memcpy" [] e = 101 -> "printf"
                [] e = 102 -> "__ll_mul" [] e = 103 -> "sqrt"
                [] OTHER -> "foo"]

\* symbol_names: the text functions and the externs
Syms(fnames) ==
    [a \in DOMAIN fnames \cup DOMAIN Externs |->
       IF a \in DOMAIN fnames THEN fnames[a] ELSE Externs[a]]

PCode(a, c, d, e, ext, at7) ==
    Seq0(<<a, Jal(V(11)), Nop, Br("beql", "v0", "zero", V(7)), c,
           Jal(ext), Nop, at7, Nop, Jr("ra"), Nop,
           d[1], d[2], Jr("ra"), e, Nop>>)

PProg(code, mcount, fname) ==
    [code |-> code, funcs |-> {V(0), V(11)}, main |-> V(0), mcount |-> mcount,
     dataptrs |-> <<>>,
     symbols |-> Syms([x \in {V(0), V(11)} |-> IF x = V(0) THEN "main" ELSE fname])]

SlotA == {Nop, I2("lui", "a2", "zero"), I2("addiu", "v0", "a0")}
SlotC == {Nop, I2("ori", "v1", "zero")}
SlotD == {<<Nop, R3("addu", "v0", "a0", "a2")>>,
          <<R3("mult", "zero", "a0", "a1"), R3("mflo", "v0", "zero", "zero")>>,
          <<Nop, I2("addiu", "v0", "v0")>>, <<I2("sw", "a1", "sp"), Nop>>}
SlotE == {Nop, R3("move", "v0", "a0", "zero")}
SlotExt == {100, 101, 102, 103}
Loop == Br("bnez", "s0", "zero", V(3))

PPrograms ==
    {PProg(PCode(a, c, d, e, ext, Loop), -1, "F") :
        a \in SlotA, c \in SlotC, d \in SlotD, e \in SlotE, ext \in SlotExt}

QCode(s1, s2) ==
    Seq0(<<I2("lw", "t9", "a0"), [Jr("t9") EXCEPT !.op = "jalr", !.rd = "ra"],
           Nop, Jr("ra"), Nop,
           R3("sll", "t0", "zero", "a0"), JrTable("t0", <<V(8), V(11)>>, "a0"),
           Nop, s1, Jr("ra"), Nop,
           Br("b", "zero", "zero", V(13)), s2, Jr("ra"),
           R3("subu", "v0", "a0", "a1"), Nop>>)

QPrograms ==
    {[code |-> QCode(s1, s2), funcs |-> {V(0), V(5)}, main |-> V(0),
      mcount |-> -1, dataptrs |-> <<V(5)>>,
      symbols |-> Syms([x \in {V(0), V(5)} |-> IF x = V(0) THEN "main" ELSE "G"])] :
        s1 \in {Nop, R3("addu", "v0", "a1", "a2"), R3("move", "v1", "a3", "zero")},
        s2 \in {Nop, R3("move", "v1", "a3", "zero")}}

(***************************************************************************)
(* Inputs the recompiler rejects or treats specially                       *)
(***************************************************************************)
\* F without a return (r_pass2 "no ret")
NoRetProg ==
    PProg([PCode(Nop, Nop, <<Nop, Nop>>, Nop, 100, Loop) EXCEPT ![13] = Nop], -1, "F")

\* F at or below _mcount: a libc function called as an extern
LibcProg == PProg(PCode(Nop, Nop, <<Nop, Nop>>, Nop, 100, Loop), V(11), "strlen")

\* a call to a symbol the catalog does not have
UnknownExternProg == PProg(PCode(Nop, Nop, <<Nop, Nop>>, Nop, 104, Loop), -1, "F")

\* JR $t9 that is no jump table (r_pass3's assert)
JrT9Prog ==
    [code |-> Seq0(<<Jr("t9"), Nop, Jr("ra"), Nop, Nop>>), funcs |-> {V(0)},
     main |-> V(0), mcount |-> -1, dataptrs |-> <<>>,
     symbols |-> Syms([x \in {V(0)} |-> "main"])]

\* the instruction after the extern call's delay slot is a patched float LI
PatchedAfterCallProg ==
    PProg(PCode(Nop, Nop, <<Nop, Nop>>, Nop, 100, FloatLi("at", 77)), -1, "F")

SpecialPrograms ==
    {NoRetProg, LibcProg, UnknownExternProg, JrT9Prog, PatchedAfterCallProg}

MCPrograms == PPrograms \cup QPrograms \cup SpecialPrograms

\* the inputs of the single-property runs
MCPatchedPrograms == {PatchedAfterCallProg}
MCPPrograms == PPrograms

MCTextVaddr == 10
MCMaxQueue == 40

=============================================================================
