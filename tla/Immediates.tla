----------------------------- MODULE Immediates -----------------------------
(***************************************************************************)
(* extend.sv bit by bit: the immediate that decode takes out of a 32-bit   *)
(* instruction, and the one that the instruction formats put in.  That the *)
(* two agree is proved in DatapathProofs; Rv32im takes these immediates as *)
(* the field imm of Decode.                                                *)
(*                                                                         *)
(* A word is a function on its bit numbers; in is Instr[31:7].             *)
(***************************************************************************)
EXTENDS Integers

Word32 == [0 .. 31 -> {0, 1}]
In     == [0 .. 24 -> {0, 1}]

\* The input of the extender: in = Instr_D[31:7].
ExtendInput(Instr) == [i \in 0 .. 24 |-> Instr[i + 7]]

\* Bit k of each concatenation in extend.sv.
IBit(in, k) == IF k > 11 THEN in[24] ELSE in[k + 13]

SBit(in, k) ==
  IF k > 11 THEN in[24] ELSE IF k > 4 THEN in[k + 13] ELSE in[k]

BBit(in, k) ==
  IF k > 11 THEN in[24]
  ELSE IF k = 11 THEN in[0]
  ELSE IF k > 4 THEN in[k + 13]
  ELSE IF k > 0 THEN in[k] ELSE 0

JBit(in, k) ==
  IF k > 19 THEN in[24]
  ELSE IF k > 11 THEN in[k - 7]
  ELSE IF k = 11 THEN in[13]
  ELSE IF k > 0 THEN in[k + 13] ELSE 0

UBit(in, k) == IF k > 11 THEN in[k - 7] ELSE 0

CsrBit(in, k) == IF k < 5 THEN in[k + 8] ELSE 0

Extend(ImmSrc, in) ==
  [k \in 0 .. 31 |-> IF ImmSrc = 0 THEN IBit(in, k)
                     ELSE IF ImmSrc = 1 THEN SBit(in, k)
                     ELSE IF ImmSrc = 2 THEN BBit(in, k)
                     ELSE IF ImmSrc = 3 THEN JBit(in, k)
                     ELSE IF ImmSrc = 4 THEN UBit(in, k)
                     ELSE IF ImmSrc = 5 THEN CsrBit(in, k)
                     ELSE 0]

-----------------------------------------------------------------------------
(* The formats of the instruction set.                                      *)

\* Bits hi .. lo of w are the bits of imm from from upwards.
Field(w, hi, lo, imm, from) == \A i \in lo .. hi : w[i] = imm[i - lo + from]

\* The instruction carries the immediate in this format.
Carries(ImmSrc, w, imm) ==
  \/ ImmSrc = 0 /\ Field(w, 31, 20, imm, 0)
  \/ ImmSrc = 1 /\ Field(w, 31, 25, imm, 5) /\ Field(w, 11, 7, imm, 0)
  \/ ImmSrc = 2 /\ w[31] = imm[12] /\ Field(w, 30, 25, imm, 5)
                /\ Field(w, 11, 8, imm, 1) /\ w[7] = imm[11]
  \/ ImmSrc = 3 /\ w[31] = imm[20] /\ Field(w, 30, 21, imm, 1)
                /\ w[20] = imm[11] /\ Field(w, 19, 12, imm, 12)
  \/ ImmSrc = 4 /\ Field(w, 31, 12, imm, 12)
  \/ ImmSrc = 5 /\ Field(w, 19, 15, imm, 0)

\* The range of the format: from bit n upwards all bits are the sign.
SignFrom(imm, n)  == \A k \in n .. 31 : imm[k] = imm[n]
ZeroBelow(imm, n) == \A k \in 0 .. n - 1 : imm[k] = 0

InRange(ImmSrc, imm) ==
  \/ ImmSrc \in {0, 1} /\ SignFrom(imm, 11)
  \/ ImmSrc = 2 /\ SignFrom(imm, 12) /\ ZeroBelow(imm, 1)
  \/ ImmSrc = 3 /\ SignFrom(imm, 20) /\ ZeroBelow(imm, 1)
  \/ ImmSrc = 4 /\ ZeroBelow(imm, 12)
  \/ ImmSrc = 5 /\ \A k \in 5 .. 31 : imm[k] = 0
=============================================================================
