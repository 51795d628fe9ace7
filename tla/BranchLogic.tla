---------------------------- MODULE BranchLogic ----------------------------
(***************************************************************************)
(* Branch_Logic.sv: whether a conditional branch is taken, decided from    *)
(* the ALU flags and from whether the second operand is zero.              *)
(***************************************************************************)
EXTENDS Integers

\* Fault: BGEU forgets that the carry is what decides.
Btaken_NoCarry(funct3, f, SrcB) ==
  \/ funct3 = 0 /\ f.Z = 1
  \/ funct3 = 1 /\ f.Z # 1
  \/ funct3 = 4 /\ f.N # f.V
  \/ funct3 = 5 /\ f.N = f.V
  \/ funct3 = 6 /\ SrcB # 0 /\ f.N = 1
  \/ funct3 = 7 /\ (SrcB = 0 \/ f.N = 0)

\* Btaken, without its conjunct Branch = 1.
Btaken(funct3, f, SrcB) ==
  \/ funct3 = 0 /\ f.Z = 1
  \/ funct3 = 1 /\ f.Z # 1
  \/ funct3 = 4 /\ f.N # f.V
  \/ funct3 = 5 /\ f.N = f.V
  \/ funct3 = 6 /\ SrcB # 0 /\ f.C = 0
  \/ funct3 = 7 /\ (SrcB = 0 \/ f.C = 1)
=============================================================================
