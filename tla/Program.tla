------------------------------ MODULE Program ------------------------------
(***************************************************************************)
(* The instruction model of the recompiler (src/rrecomp.cpp): the decoded  *)
(* instruction as the analysis passes see it, the register-bit masks of    *)
(* the liveness engine and the classification of an opcode into a          *)
(* liveness transfer type (r_insn_to_type).                                *)
(*                                                                         *)
(* An instruction is a record                                              *)
(*   op      opcode (rabbitizer uniqueId, after any in-place rewrite)      *)
(*   rs, rt, rd   the register fields of the 32-bit word                   *)
(*   tgt     the target the word encodes: the branch target, or for a      *)
(*           J-type word getInstrIndexAsVram                               *)
(*   patched, paddr   RInsn.patched and RInsn.patched_addr                 *)
(*   cases, ireg      jump-table targets (read from .rodata, + gp_value)   *)
(*                    and index_reg of a JR recognised as a switch         *)
(*   got, imm  RInsn.is_global_got_memop and the processed immediate of    *)
(*             the word (the gp offset of a GOT load)                      *)
(* Addresses (tgt, paddr, cases) are vram addresses counted in words     *)
(* (the model drops the factor 4); the recompiler maps                   *)
(* them to instruction indices with addr_to_i.                             *)
(* Register masks are sets of register names; the bit 1U the code sets on  *)
(* every mask ("reachable") is the element Reach.                          *)
(***************************************************************************)
EXTENDS Integers, Sequences

Reach == "R"

GPRs == {"zero", "at", "v0", "v1", "a0", "a1", "a2", "a3",
         "t0", "t9", "s0", "gp", "sp", "ra"}

\* RABBITIZER_REG_GPR_O32_hi / _lo: the two synthetic bits after $ra
MaskRegs == GPRs \cup {"hi", "lo"}

AReg == <<"a0", "a1", "a2", "a3">>

\* r_temporary_regs: $t0..$t9 (the model keeps two of them)
TemporaryRegs == {"t0", "t9"}

\* the set every call edge clears: v0, a0..a3, v1 and the temporaries
CallerSaved == {"v0", "v1", "a0", "a1", "a2", "a3"} \cup TemporaryRegs

(***************************************************************************)
(* The rabbitizer descriptor of each opcode the model uses: whether the    *)
(* instruction writes rt or rd, and whether rs (or the base of a memory    *)
(* operand, its alias) and rt are operands.  These are the facts           *)
(* get_dest_reg, get_single_source_reg_mask and get_all_source_reg_mask    *)
(* read; they come from rabbitizer's operand lists, not from this code.    *)
(***************************************************************************)
D(mrt, mrd, hrs, hrt) ==
    [modifiesRt |-> mrt, modifiesRd |-> mrd, hasRs |-> hrs, hasRt |-> hrt]

Descriptors ==
    [addu  |-> D(FALSE, TRUE,  TRUE,  TRUE),   \* addu  rd, rs, rt
     subu  |-> D(FALSE, TRUE,  TRUE,  TRUE),   \* subu  rd, rs, rt
     addiu |-> D(TRUE,  FALSE, TRUE,  TRUE),   \* addiu rt, rs, imm
     ori   |-> D(TRUE,  FALSE, TRUE,  TRUE),   \* ori   rt, rs, imm
     lui   |-> D(TRUE,  FALSE, FALSE, TRUE),   \* lui   rt, imm
     lw    |-> D(TRUE,  FALSE, TRUE,  TRUE),   \* lw    rt, imm(rs)
     sw    |-> D(FALSE, FALSE, TRUE,  TRUE),   \* sw    rt, imm(rs)
     mult  |-> D(FALSE, FALSE, TRUE,  TRUE),   \* mult  rs, rt
     mflo  |-> D(FALSE, TRUE,  FALSE, FALSE),  \* mflo  rd
     move  |-> D(FALSE, TRUE,  TRUE,  FALSE),  \* move  rd, rs
     sll   |-> D(FALSE, TRUE,  FALSE, TRUE),   \* sll   rd, rt, sa
     beq   |-> D(FALSE, FALSE, TRUE,  TRUE),
     beql  |-> D(FALSE, FALSE, TRUE,  TRUE),
     bnez  |-> D(FALSE, FALSE, TRUE,  FALSE),
     b     |-> D(FALSE, FALSE, FALSE, FALSE),
     jal   |-> D(FALSE, FALSE, FALSE, FALSE),
     jalr  |-> D(FALSE, TRUE,  TRUE,  FALSE),  \* jalr  rd, rs
     jr    |-> D(FALSE, FALSE, TRUE,  FALSE),
     nop   |-> D(FALSE, FALSE, FALSE, FALSE)]

Opcodes == DOMAIN Descriptors

\* Opcode classes of r_pass3
CondBranches   == {"beq", "bnez"}
LikelyBranches == {"beql"}

IsReturn(ins) == ins.op = "jr" /\ ins.rs = "ra"

\* The address a branch or J-type instruction transfers to:
\*   insn.patched ? insn.patched_addr : <target encoded in the word>
Target(ins) == IF ins.patched THEN ins.paddr ELSE ins.tgt

(***************************************************************************)
(* r_insn_to_type.  ADD/ADDU sit in the TYPE_1D_1S group, MFLO is          *)
(* TYPE_1D_1S although it has no GPR operand, and the JR case compares     *)
(* the rt field (always $zero in a JR word) with $ra, so every JR is       *)
(* TYPE_1S.                                                                *)
(***************************************************************************)
TypeTable ==
    [addu |-> "1D_1S", addiu |-> "1D_1S", ori |-> "1D_1S", lw |-> "1D_1S",
     move |-> "1D_1S", sll |-> "1D_1S", mflo |-> "1D_1S",
     subu |-> "1D_2S", lui |-> "1D",
     bnez |-> "1S", jalr |-> "1S",
     beq |-> "2S", beql |-> "2S", sw |-> "2S",
     mult |-> "D_LO_HI_2S",
     b |-> "NOP", jal |-> "NOP", nop |-> "NOP"]

InsnType(ins) ==
    IF ins.op = "jr"
    THEN IF ins.rt = "ra" THEN "NOP" ELSE "1S"
    ELSE TypeTable[ins.op]

\* The JR case of r_insn_to_type packs index_reg into the rs field of a
\* jump-table JR; every later read of rs sees the index register.
RsOf(ins) == IF ins.op = "jr" /\ ins.cases # <<>> THEN ins.ireg ELSE ins.rs

\* get_dest_reg_mask
DestMask(ins) ==
    IF Descriptors[ins.op].modifiesRt THEN {ins.rt}
    ELSE IF Descriptors[ins.op].modifiesRd THEN {ins.rd}
    ELSE {}

\* get_single_source_reg_mask
Src1Mask(ins) ==
    IF Descriptors[ins.op].hasRs THEN {RsOf(ins)}
    ELSE IF Descriptors[ins.op].hasRt THEN {ins.rt}
    ELSE {}

\* get_all_source_reg_mask
SrcAllMask(ins) ==
    (IF Descriptors[ins.op].hasRs THEN {RsOf(ins)} ELSE {})
    \cup (IF Descriptors[ins.op].hasRt /\ ~Descriptors[ins.op].modifiesRt
          THEN {ins.rt} ELSE {})

=============================================================================
