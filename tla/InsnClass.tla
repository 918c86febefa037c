----------------------------- MODULE InsnClass ------------------------------
(***************************************************************************)
(* riscvInstruction.cc: the class getInsn gives an instruction word, and   *)
(* what the members of that class do with the integer registers.  Each     *)
(* class says four times which registers it touches: recUses and           *)
(* recDefines tell SSA construction where phis are needed, hookupRegs      *)
(* reads and writes the table of current values.                           *)
(*                                                                         *)
(* A word is its fields; immediates, and what an instruction computes, do  *)
(* not matter here.  The fields' values are few: registers 1 and 2 stand   *)
(* for any two registers, and f7 and rs2 take the values that tell the     *)
(* system instructions apart.                                              *)
(***************************************************************************)
EXTENDS Integers

Opcode == {"load", "fence", "opimm", "auipc", "opimm32", "store", "amo", "op",
           "lui", "op32", "branch", "jalr", "jal", "system"}
Reg == {0, 1, 2}
Word == [op : Opcode, rd : Reg, f3 : 0 .. 7, rs1 : Reg, rs2 : Reg \cup {5},
         f7 : {0, 8, 9, 16, 24}]

(* The encodings the base instruction set, its M and A extensions, the CSR *)
(* instructions and the privileged ones define: a processor retires no     *)
(* others.                                                                 *)
Legal(w) ==
  CASE w.op = "load"   -> w.f3 # 7
    [] w.op = "store"  -> w.f3 \in 0 .. 3
    [] w.op = "branch" -> w.f3 \notin {2, 3}
    [] w.op = "amo"    -> w.f3 \in {2, 3}
    [] w.op = "jalr"   -> w.f3 = 0
    [] w.op = "system" ->
         \/ w.f3 \in {1, 2, 3, 5, 6, 7}
         \/ w.f3 = 0 /\ w.rd = 0 /\ w.f7 = 9
         \/ w.f3 = 0 /\ w.rd = 0 /\ w.rs1 = 0 /\ <<w.f7, w.rs2>> \in
              {<<0, 0>>, <<0, 1>>, <<0, 2>>, <<8, 2>>, <<16, 2>>, <<24, 2>>, <<8, 5>>}
    [] OTHER -> TRUE
-----------------------------------------------------------------------------
(* getInsn *)

csr_id(w) == 32 * w.f7 + w.rs2
bits19to7z(w) == w.rd = 0 /\ w.f3 = 0 /\ w.rs1 = 0

DecodeSystem(w) ==
  CASE w.f7 = 9 /\ w.rd = 0 /\ w.f3 % 4 = 0   -> "sfence"
    [] bits19to7z(w) /\ csr_id(w) = 261       -> "wfi"       (* 0x105 *)
    [] bits19to7z(w) /\ csr_id(w) = 258       -> "sret"      (* 0x102 *)
    [] bits19to7z(w) /\ csr_id(w) = 770       -> "mret"      (* 0x302 *)
    [] bits19to7z(w) /\ csr_id(w) = 1         -> "ebreak"
    [] bits19to7z(w) /\ csr_id(w) \in {0, 2, 514} -> "die"   (* ecall, uret, hret *)
    [] w.f3 = 1        -> "csrrw"
    [] w.f3 = 2        -> "csrrs"
    [] w.f3 = 3        -> "csrrc"
    [] w.f3 \in 5 .. 7 -> "csri"
    [] OTHER           -> "die"

DecodeImm(w) == IF w.f3 = 0 /\ w.rd = 0 THEN "nop" ELSE "iType"
DecodeRtype(w) == IF w.rd = 0 THEN "nop" ELSE "rType"
DecodeJump(w, plain, linking) == IF w.rd = 0 THEN plain ELSE linking

(* "Insn" is the base class, which does nothing. *)
GetInsn(w) ==
  CASE w.op = "load"                -> IF w.f3 # 7 THEN "load" ELSE "Insn"
    [] w.op = "store"               -> IF w.f3 \in 0 .. 3 THEN "store" ELSE "Insn"
    [] w.op = "branch"              -> IF w.f3 \notin {2, 3} THEN "branch" ELSE "Insn"
    [] w.op \in {"opimm", "opimm32"} -> DecodeImm(w)
    [] w.op \in {"op", "op32"}      -> DecodeRtype(w)
    [] w.op = "jalr"                -> DecodeJump(w, "jr", "jalr")
    [] w.op = "jal"                 -> DecodeJump(w, "j", "jal")
    [] w.op = "system"              -> DecodeSystem(w)
    [] OTHER                        -> w.op   (* lui, auipc, fence, amo *)
-----------------------------------------------------------------------------
(* What the classes do, for a word w of class c. *)

NotX0(r) == {r} \ {0}

RecUses_NoRs2(c, w) ==
  CASE c \in {"load", "iType", "jalr", "jr", "csrrw", "amo"} -> {w.rs1}
    [] c \in {"rType", "store", "branch"}                    -> {w.rs1, w.rs2}
    [] c \in {"csrrs", "csrrc"}                              -> NotX0(w.rs1)
    [] OTHER                                                 -> {}
RecUses(c, w) ==
  CASE c \in {"load", "iType", "jalr", "jr", "csrrw"} -> {w.rs1}
    [] c \in {"amo", "rType", "store", "branch"}      -> {w.rs1, w.rs2}
    [] c \in {"csrrs", "csrrc"}                       -> NotX0(w.rs1)
    [] OTHER                                          -> {}

RecDefines_NoJal(c, w) ==
  CASE c \in {"load", "amo", "iType", "rType", "lui", "auipc", "jalr",
              "csrrw", "csrrs", "csrrc", "csri"} -> NotX0(w.rd)
    [] OTHER                                     -> {}
RecDefines(c, w) ==
  CASE c \in {"load", "amo", "iType", "rType", "lui", "auipc", "jal", "jalr",
              "csrrw", "csrrs", "csrrc", "csri"} -> NotX0(w.rd)
    [] OTHER                                     -> {}

HookupReads(c, w) ==
  CASE c \in {"load", "iType", "jalr", "jr", "csrrw"} -> {w.rs1}
    [] c \in {"amo", "rType", "store", "branch"}      -> {w.rs1, w.rs2}
    [] c \in {"csrrs", "csrrc"}                       -> NotX0(w.rs1)
    [] OTHER                                          -> {}

(* Some classes overwrite the table's entry for x0. *)
HookupWrites(c, w) ==
  CASE c \in {"load", "iType", "rType", "lui", "auipc", "jalr"}   -> {w.rd}
    [] c \in {"amo", "jal", "csrrw", "csrrs", "csrrc", "csri"}    -> NotX0(w.rd)
    [] OTHER                                                      -> {}
-----------------------------------------------------------------------------
(* What the processor does: the register an instruction changes.  Only     *)
(* stores, branches, fences and the privileged instructions have none.     *)
Changes(w) ==
  IF \/ w.op \in {"store", "branch", "fence"}
     \/ w.op = "system" /\ w.f3 = 0
  THEN {} ELSE NotX0(w.rd)

(* All there is to know of a word where only register r matters. *)
Effect(w, r) ==
  LET c == GetInsn(w)
  IN  [dies    |-> c = "die",
       uses    |-> r \in RecUses(c, w),
       defines |-> r \in RecDefines(c, w),
       reads   |-> r \in HookupReads(c, w),
       writes  |-> r \in HookupWrites(c, w),
       changes |-> r \in Changes(w)]

Effects(r) == {Effect(w, r) : w \in {x \in Word : Legal(x)}}
EffectsOnX0 == Effects(0)
EffectsOnOther == Effects(1)
=============================================================================
