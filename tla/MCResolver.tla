---------------------------- MODULE MCResolver ----------------------------
(***************************************************************************)
(* Inputs for Resolver: small .text images of the idioms IDO emits, with a *)
(* two-entry local and a three-entry global GOT.                             *)
(*   TextVaddr 4096; gp_value 65536, gp_value_adj 32, so the .got starts at *)
(*   65504 and entry e is loaded by "lw r, 4e-32(gp)".                     *)
(*   local 0:  a data page, 131072                                         *)
(*   local 1:  the page below .text (static functions: 0 + %lo)            *)
(*   global 0: a data object, 196608; global 1: a function, TextVaddr + 8  *)
(*   global 2: an undefined function, its stub at 2048 outside .text       *)
(* A %lo of 4104 (0x1008) has the bits 00010 in the rd field: $v0.         *)
(***************************************************************************)
EXTENDS Resolver

MCTextVaddr == 4096
MCGotLocals == <<131072, 0>>
MCGotGlobals == <<196608, 4104, 2048>>
MCNoRodata == <<>>

\* a decoded word
W(op, rs, rt, rd, imm, tgt) == [op |-> op, rs |-> rs, rt |-> rt, rd |-> rd, imm |-> imm, tgt |-> tgt]
\* an I-type word: its rd field is part of the immediate
I(op, rt, rs, imm) == W(op, rs, rt, RdBits(imm), imm, 0)
R(op, rd, rs, rt) == W(op, rs, rt, rd, 0, 0)

Nop == R("nop", "zero", "zero", "zero")
LwGot(rt, e) == I("lw", rt, "gp", 4 * e - 32)
JalrT9 == R("jalr", "ra", "t9", "zero")
JrRa == R("jr", "zero", "ra", "zero")
Jal(a) == W("jal", "zero", "zero", "zero", 0, a)

(***************************************************************************)
(* The idioms of IDO's PIC code, each GOT load with its one user.          *)
(***************************************************************************)
Call16 == <<LwGot("t9", 3), JalrT9, Nop>>                  \* global function
Static == <<LwGot("t9", 1), I("addiu", "t9", "t9", 4104), JalrT9, Nop>>  \* static function
Field  == <<LwGot("at", 0), I("lw", "v0", "at", 4)>>        \* field of a static object
GField == <<LwGot("a0", 2), I("sw", "a1", "a0", 8)>>        \* field of a global object
Addr   == <<LwGot("a0", 0), I("addiu", "a0", "a0", 4100)>>  \* &static object
FPtr   == <<I("lw", "t9", "a0", 0), JalrT9, Nop>>           \* call through a pointer
Float  == <<I("lui", "at", "zero", 16256), I("mtc1", "at", "zero", 0)>>  \* li.s 1.0
Direct == <<Jal(MCTextVaddr), Nop>>                          \* jal to a function
Extern == <<LwGot("t9", 4), JalrT9, Nop>>                   \* libc function

Blocks == {Call16, Static, Field, GField, Addr, FPtr, Float, Direct, Extern}

\* a sequence as a vector indexed from 0
Vec(sq) == [k \in 0..Len(sq) - 1 |-> sq[k + 1]]

Prog(sq) == [code |-> Vec(sq \o <<JrRa, Nop, Nop>>), funcs |-> {MCTextVaddr}]

\* one function of three idioms, jr ra, its delay slot and the dummy NOP
MCCanonical == {Prog(a \o b \o c) : a, b, c \in Blocks}

MCPrograms == MCCanonical

(***************************************************************************)
(* Single inputs on which a property of Resolver fails.                    *)
(***************************************************************************)
\* two fields of one static object through one GOT load
MCTwoFields == {Prog(<<LwGot("at", 0), I("lw", "v0", "at", 4), I("lw", "v1", "at", 8)>>)}

\* &static object: the ADDIU becomes a MOVE whose rd field, 4100 >> 11, is $v0
MCAddrOf == {Prog(Addr)}

\* G ends with a GOT-local load of $v0; H (v0_in) reads through $v0 at entry
MCCrossReturn ==
    {[code |-> Vec(<<LwGot("v0", 0), JrRa, Nop, I("lw", "v1", "v0", 4), JrRa, Nop, Nop>>),
      funcs |-> {MCTextVaddr, MCTextVaddr + 12}]}

\* a function address passed as an argument: lw a0, %got(f)(gp), f at 4104
MCFuncArg == {Prog(<<LwGot("a0", 3), Jal(4100), Nop>>)}

(***************************************************************************)
(* Jump tables.  .rodata starts at the first local GOT page, 131072; the   *)
(* table at %lo 16 holds gp-relative case addresses.                       *)
(***************************************************************************)
MCRodataVaddr == 131072
CaseWord(k) == MCTextVaddr + 4 * k - 65536
MCRodata == <<0, 0, 0, 0, CaseWord(13), CaseWord(15), CaseWord(13), CaseWord(15), CaseWord(13)>>

\* IDO 5.3, PIC (spec 8, scenario 3): sltiu / beq / lw / sll / addu / lw /
\* addu gp / jr, after the return of a previous function
Ido53 ==
    <<JrRa, Nop,
      I("sltiu", "at", "v0", 5), W("beqz", "at", "zero", "zero", 9, 0), Nop,
      LwGot("at", 0), R("sll", "t0", "zero", "v0"), R("addu", "at", "at", "t0"),
      I("lw", "t0", "at", 16), R("addu", "t0", "t0", "gp"), R("jr", "zero", "t0", "zero"), Nop,
      JrRa, Nop, JrRa, Nop, Nop>>

\* IDO 7.1, PIC: lw / andi / sll / addu / lw / addu gp / jr
Ido71 ==
    <<JrRa, Nop, Nop,
      LwGot("at", 0), I("andi", "t9", "t8", 3), R("sll", "t9", "zero", "t9"),
      R("addu", "at", "at", "t9"), I("lw", "t9", "at", 16), R("addu", "t9", "t9", "gp"),
      R("jr", "zero", "t9", "zero"), Nop,
      JrRa, Nop, JrRa, Nop, Nop>>

MCSwitches == {[code |-> Vec(sq), funcs |-> {MCTextVaddr, MCTextVaddr + 8}] : sq \in {Ido53, Ido71}}
=============================================================================
