------------------------------ MODULE MCSystem ------------------------------
(***************************************************************************)
(* Instances of the system for TLC: the 8-bit machine of MCPipeline with   *)
(* sixteen words of memory at 64..127, the timer at 128, 132 and 136 and   *)
(* the TBMAN at 160..191.  A character is one byte lane (two bits).        *)
(***************************************************************************)
EXTENDS SystemCheck, TLC

A == INSTANCE AluUnit WITH Width <- 8, ShiftWidth <- 3
L == INSTANCE ByteLanes WITH ByteSize <- 4

MCAlu(c, a, b)         == A!Result(c, a, b)
MCFlags(c, a, b)       == A!ALUFlags(c, a, b)
MCReadLanes(a, f, w)   == L!BE_RD(a, f, w)
MCBusWord(a, f, w)     == L!BE_WD(a, f, w)
MCEnabledLanes(a, f)   == L!ByteEnable(a, f)
MCMerge(old, lanes, d) == L!RamWrite(old, lanes, d)

MCMemRegion   == 64 .. 127
MCTimerRegion == 128 .. 143
MCTbmanRegion == 160 .. 191
MCDevRegion   == MCTimerRegion \cup MCTbmanRegion
MCDevValues   == 0 .. 255
MCTimerPort   == [a \in MCTimerRegion |->
                    CASE a = 128 -> "Compare" [] a = 132 -> "Counter"
                      [] a = 136 -> "Status"  [] OTHER   -> "None"]

-----------------------------------------------------------------------------
(* The instruction table; a word beyond it is data.                         *)

Format(op) == CASE op = "S" -> 1 [] op = "B" -> 2 [] op = "JAL" -> 3
                [] op = "LUI" -> 4 [] OTHER -> 0

Encoded(op, rd, rs1, rs2, f3, imm) ==
  [opcode |-> op, rd |-> rd, rs1 |-> rs1, rs2 |-> rs2, funct3 |-> f3, funct7 |-> 0,
   imm |-> [s \in 0 .. 5 |-> IF s = Format(op) THEN imm ELSE (imm + 17) % 256]]

Li(rd, n)       == Encoded("IALU", rd, 0, 0, 0, n)
Addi(rd, rs, n) == Encoded("IALU", rd, rs, 0, 0, n)
Sw(rs2, n)      == Encoded("S", 0, 3, rs2, 2, n)
Sb(rs2, n)      == Encoded("S", 1, 3, rs2, 0, n)
Lw(rd, n)       == Encoded("LOAD", rd, 3, 0, 2, n)

Table == <<
  Encoded("LUI", 3, 0, 0, 0, 128),   \*  1  lui  x3,TIMER
  Encoded("LUI", 3, 0, 0, 0, 160),   \*  2  lui  x3,TBMAN
  Sw(1, 0),                          \*  3  sw   x1,0(x3)    compare, print
  Li(2, 0),                          \*  4  li   x2,0
  Lw(1, 8),                          \*  5  lw   x1,8(x3)    status
  Encoded("R", 2, 2, 1, 0, 0),       \*  6  add  x2,x2,x1
  Li(1, 2),                          \*  7  li   x1,2
  Encoded("B", 3, 2, 1, 4, 244),     \*  8  blt  x2,x1,-12   to the lw
  Sw(2, 4),                          \*  9  sw   x2,4(x3)    putint
  Sw(1, 8),                          \* 10  sw   x1,8(x3)    exit
  Encoded("JAL", 0, 0, 0, 0, 0),     \* 11  jal  x0,0
  Li(1, 1),                          \* 12  li   x1,1
  Addi(1, 1, 2),                     \* 13  addi x1,x1,2
  Sb(1, 0),                          \* 14  sb   x1,0(x3)    print
  Sb(1, 1),                          \* 15  sb   x1,1(x3)    print, shifted
  Lw(2, 20),                         \* 16  lw   x2,20(x3)   irq_force
  Sw(1, 20),                         \* 17  sw   x1,20(x3)   irq_force
  Lw(2, 12),                         \* 18  lw   x2,12(x3)   defines
  Addi(3, 3, 8),                     \* 19  addi x3,x3,8     &status
  Encoded("LOAD", 1, 3, 0, 2, 0),    \* 20  lw   x1,0(x3)
  Li(1, 3), Li(1, 14), Li(1, 15), Li(1, 16), Li(1, 17), Li(1, 18), Li(1, 19), \* 21..27
  Encoded("JAL", 0, 0, 0, 0, 244),   \* 28  jal  x0,-12
  Lw(2, 4)                           \* 29  lw   x2,4(x3)    putint
>>

Nop == Encoded("R", 0, 0, 0, 0, 0)
NoInstr == Encoded("OTHER", 0, 0, 0, 0, 0)

MCDecode == [w \in Word |-> IF w \in DOMAIN Table THEN Table[w]
                            ELSE IF w = 51 THEN Nop ELSE NoInstr]

-----------------------------------------------------------------------------
(* Programs.                                                                *)

Program(s) == [i \in 0 .. 15 |-> IF i < Len(s) THEN s[i + 1] ELSE 11]

\* Set the compare register, count two matches, print the count, end a line
\* and exit; one program for each phase of the timer against the loop, one
\* (li x1,3) whose compare value the counter has passed already.
Polling == {Program(<<1, li, 3, 4, 5, 6, 7, 8, 2, 9, 12, 3, 7, 3, 10>>) : li \in 21 .. 27}

\* Lines longer than the buffer, byte stores, the other registers.
Printing == {Program(<<2, 12, 3, 13, 14, 3, 7, 14, 12, 15, 16, 17, 16, 9, 18, 10>>),
             Program(<<2, 12, 14, 13, 3, 7, 17, 3, 29, 3, 16, 9, 12, 3, 10>>)}

MCPrograms == Polling \cup Printing

\* A polling loop that computes the address of the status register before it
\* reads it.
Addressing == {Program(<<1, li, 3, 1, 19, 20, 28>>) : li \in 22 .. 27}

\* The registers power up with anything.
MCInitRegs == {(0 :> 99 @@ 1 :> 56 @@ 2 :> 203 @@ 3 :> 136)}
=============================================================================
