---------------------------- MODULE MCPipeline -----------------------------
(***************************************************************************)
(* Instances of the pipeline for TLC: an 8-bit machine with four registers *)
(* and eight words of memory, running every program of a few instructions  *)
(* drawn from a table.  The ALU and the byte lanes are the bit-accurate     *)
(* ones at that width.                                                     *)
(*                                                                         *)
(* Addresses 32..63 are memory, 128..159 peripherals, the others nothing.   *)
(* The instructions are words 1..26; the words of data lie in between.      *)
(***************************************************************************)
EXTENDS PipelineIsa, Sequences, TLC

A == INSTANCE AluUnit WITH Width <- 8, ShiftWidth <- 3
L == INSTANCE ByteLanes WITH ByteSize <- 4

MCAlu(c, a, b)         == A!Result(c, a, b)
MCFlags(c, a, b)       == A!ALUFlags(c, a, b)
MCReadLanes(a, f, w)   == L!BE_RD(a, f, w)
MCBusWord(a, f, w)     == L!BE_WD(a, f, w)
MCEnabledLanes(a, f)   == L!ByteEnable(a, f)
MCMerge(old, lanes, d) == L!RamWrite(old, lanes, d)

MCMemRegion == 32 .. 63
MCDevRegion == 128 .. 159
MCDontCare  == {0, 56}

-----------------------------------------------------------------------------
(* The instruction table.                                                   *)

Format(op) == CASE op = "S" -> 1 [] op = "B" -> 2 [] op = "JAL" -> 3
                [] op \in {"LUI", "AUIPC"} -> 4 [] op = "CSR" -> 5 [] OTHER -> 0

\* The bits of the other formats read as some other number.
Encoded(op, rd, rs1, rs2, f3, f7, imm) ==
  [opcode |-> op, rd |-> rd, rs1 |-> rs1, rs2 |-> rs2, funct3 |-> f3,
   funct7 |-> f7,
   imm |-> [s \in 0 .. 5 |-> IF s = Format(op) THEN imm ELSE (imm + 17) % 256]]

Table == <<
  Encoded("R",     2, 2, 1, 0,  0,   0),  \*  1  add   x2,x2,x1
  Encoded("R",     1, 1, 2, 0, 32,   0),  \*  2  sub   x1,x1,x2
  Encoded("IALU",  2, 2, 3, 0, 32,   4),  \*  3  addi  x2,x2,4   (imm[10] set)
  Encoded("LOAD",  2, 1, 0, 2,  0,   0),  \*  4  lw    x2,0(x1)
  Encoded("LOAD",  1, 2, 1, 2,  0,   0),  \*  5  lw    x1,0(x2)
  Encoded("S",     0, 1, 2, 2,  0,   0),  \*  6  sw    x2,0(x1)
  Encoded("S",     1, 1, 2, 0,  0,   1),  \*  7  sb    x2,1(x1)
  Encoded("LOAD",  2, 1, 2, 0,  0,   1),  \*  8  lb    x2,1(x1)
  Encoded("B",     2, 2, 1, 0,  0,   8),  \*  9  beq   x2,x1,+8
  Encoded("B",     0, 1, 2, 6,  0,   8),  \* 10  bltu  x1,x2,+8
  Encoded("B",     2, 2, 0, 4,  0, 252),  \* 11  blt   x2,x0,-4
  Encoded("JAL",   2, 1, 2, 0,  0,   8),  \* 12  jal   x2,+8
  Encoded("JALR",  2, 2, 1, 0,  0,   0),  \* 13  jalr  x2,0(x2)
  Encoded("LUI",   2, 1, 2, 3,  0, 192),  \* 14  lui   x2,192
  Encoded("AUIPC", 1, 2, 1, 0,  0,  16),  \* 15  auipc x1,16
  Encoded("CSR",   2, 2, 1, 1, 40,   2),  \* 16  csrrw x2,tohost,x2
  Encoded("R",     2, 2, 1, 1,  1,   0),  \* 17  mulh  x2,x2,x1
  Encoded("LOAD",  2, 3, 1, 2,  0,   0),  \* 18  lw    x2,0(x3)  (peripheral)
  Encoded("S",     2, 3, 2, 2,  0,   0),  \* 19  sw    x2,0(x3)  (peripheral)
  Encoded("LOAD",  0, 1, 2, 2,  0,   0),  \* 20  lw    x0,0(x1)
  Encoded("OTHER", 1, 1, 2, 0,  0,   0),  \* 21  fence
  Encoded("IALU",  2, 1, 2, 5, 32,   1),  \* 22  srai  x2,x1,1
  Encoded("IALU",  0, 1, 2, 0,  0,   4),  \* 23  addi  x0,x1,4
  Encoded("JAL",   0, 0, 0, 0,  0,   0),  \* 24  jal   x0,0      (stay here)
  Encoded("CSR",   0, 1, 1, 5, 40,   1),  \* 25  csrwi tohost,1
  Encoded("CSR",   2, 0, 0, 2, 88,   0) >>\* 26  csrr  x2,mcycle

Nop == Encoded("R", 0, 0, 0, 0, 0, 0)
NoInstr == Encoded("OTHER", 0, 0, 0, 0, 0, 0)

MCDecode == [w \in Word |-> IF w \in DOMAIN Table THEN Table[w]
                            ELSE IF w = 51 THEN Nop ELSE NoInstr]

-----------------------------------------------------------------------------
(* Programs: some instructions, then a jump to itself; the two words behind *)
(* the jump are fetched and must be thrown away each time round.            *)

Program(s) ==
  [i \in 0 .. 7 |-> IF i < Len(s) THEN s[i + 1]
                    ELSE IF i = Len(s) THEN 24
                    ELSE IF i = Len(s) + 1 THEN 6
                    ELSE IF i = Len(s) + 2 THEN 25
                    ELSE 10 * i]

AllCodes  == (1 .. 23) \cup {25}
PairCodes == {1, 4, 6, 9, 13, 16, 18}

Triples    == {Program(s) : s \in [1 .. 3 -> AllCodes]}
Pairs      == {Program(s) : s \in [1 .. 2 -> AllCodes]}
ShortLoops == {Program(s) : s \in [1 .. 2 -> PairCodes]}

CsrReads   == {Program(<<16, 26>>)}
OddJumps   == {Program(<<13>>)}

\* x1 points at the data, x3 at a peripheral; the cell of x0 holds garbage.
MCInitRegs == {(0 :> 99 @@ 1 :> 56 @@ 2 :> 203 @@ 3 :> 128)}
=============================================================================
