------------------------------ MODULE AluCheck ------------------------------
(***************************************************************************)
(* The ALU and the branch logic against the arithmetic the RISC-V manual   *)
(* defines, for every pair of operands: the two operand inputs sweep all   *)
(* their values, and in each state every operation is compared.            *)
(***************************************************************************)
EXTENDS AluUnit, BranchLogic

VARIABLES a_in, b_in

vars == <<a_in, b_in>>

Init == a_in = 0 /\ b_in \in Word
Sweep == a_in < AllOnes /\ a_in' = a_in + 1 /\ UNCHANGED b_in
Spec == Init /\ [][Sweep]_vars

\* Every operation delivers a word.
TypeOK ==
  /\ a_in \in Word /\ b_in \in Word
  /\ \A c \in (ADD .. SLTU) \cup (MUL .. REMU) : Result(c, a_in, b_in) \in Word

Sa == Signed(a_in)
Sb == Signed(b_in)
Out(c) == Result(c, a_in, b_in)

-----------------------------------------------------------------------------
(* The base operations and the comparisons.                                 *)

\* Sums and differences wrap around, and SLTU is the unsigned order although
\* the adder only ever sees the negated operand.
UnsignedExact ==
  /\ Out(ADD) = (Sa + Sb) % WordSize
  /\ Out(SUB) = (Sa - Sb) % WordSize
  /\ Out(SLTU) = IF a_in < b_in THEN 1 ELSE 0

\* Branch decision for funct3, with the ALU code aludec gives it.
Decides(funct3) ==
  LET c == IF funct3 \in {0, 1, 4, 5} THEN SUB ELSE BRU
  IN  Btaken(funct3, ALUFlags(c, a_in, b_in), b_in)

\* beq, bne, bltu and bgeu decide by the value of the operands.
UnsignedBranchesExact ==
  /\ Decides(0) <=> a_in = b_in
  /\ Decides(1) <=> a_in # b_in
  /\ Decides(6) <=> a_in < b_in
  /\ Decides(7) <=> a_in >= b_in

\* slt, blt and bge decide by the signed order.
SignedCompareExact ==
  /\ Out(SLT) = IF Sa < Sb THEN 1 ELSE 0
  /\ Decides(4) <=> Sa < Sb
  /\ Decides(5) <=> Sa >= Sb

\* The same with the one second operand left out whose negation overflows.
SignedCompareExactButMin == b_in # MinInt => SignedCompareExact

\* For that operand the three still agree with each other: everything is
\* found to be less.
CompareConsistent ==
  LET less == Out(SLT) = 1 IN (Decides(4) <=> less) /\ (Decides(5) <=> ~less)

-----------------------------------------------------------------------------
(* Logic and shifts, bit by bit.                                            *)

\* and, or and xor combine equal positions; a shift by the low bits of rs2
\* moves every bit that far, and fills with zeros or, sra, with the sign.
BitsExact ==
  LET s == b_in % Two[ShiftWidth]
      Moved(k, fill) == IF k \in 0 .. Width - 1 THEN Bit(a_in, k) ELSE fill
  IN  \A k \in 0 .. Width - 1 :
        /\ Bit(Out(AND), k) = 1 <=> Bit(a_in, k) = 1 /\ Bit(b_in, k) = 1
        /\ Bit(Out(OR), k) = 1 <=> Bit(a_in, k) = 1 \/ Bit(b_in, k) = 1
        /\ Bit(Out(XOR), k) = 1 <=> Bit(a_in, k) # Bit(b_in, k)
        /\ Bit(Out(SLL), k) = Moved(k - s, 0)
        /\ Bit(Out(SRL), k) = Moved(k + s, 0)
        /\ Bit(Out(SRA), k) = Moved(k + s, Msb(a_in))

-----------------------------------------------------------------------------
(* RV32M.                                                                   *)

\* The halves delivered by mul and the three mulh operations are those of the
\* exact product of the operands read as signed or unsigned.
ProductsExact ==
  LET upper(p) == (p \div WordSize) % WordSize
  IN  /\ Out(MUL) = (Sa * Sb) % WordSize
      /\ Out(MULH) = upper(Sa * Sb)
      /\ Out(MULHSU) = upper(Sa * b_in)
      /\ Out(MULHU) = upper(a_in * b_in)

\* Division law of the manual: dividend = quotient * divisor + remainder, the
\* remainder smaller than the divisor and of the dividend's sign; division by
\* zero and the overflow MinInt / -1 have the results the manual fixes.
DivisionLaw ==
  LET q == Signed(Out(DIV))
      r == Signed(Out(REM))
  IN  IF b_in = 0
      THEN q = -1 /\ r = Sa /\ Out(DIVU) = AllOnes /\ Out(REMU) = a_in
      ELSE /\ (q * Sb + r) % WordSize = a_in
           /\ Magnitude(r) < Magnitude(Sb)
           /\ r # 0 => (r < 0) = (Sa < 0)
           /\ IF a_in = MinInt /\ b_in = AllOnes THEN Out(DIV) = MinInt
              ELSE q * Sb + r = Sa
           /\ Out(DIVU) * b_in + Out(REMU) = a_in /\ Out(REMU) < b_in
=============================================================================
