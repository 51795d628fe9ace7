-------------------------------- MODULE Isa --------------------------------
(***************************************************************************)
(* The sequential machine a program of this core believes it runs on: one  *)
(* instruction at a time, read from memory at pc, executed to completion.  *)
(* Each class of instructions is stated by what it does to the registers,  *)
(* the memory, the pc and the tohost register, not by control signals.     *)
(* This is what the pipeline promises; Pipeline shows that it keeps it.    *)
(*                                                                         *)
(* The choices of this core that a program can see are part of the         *)
(* promise: jalr does not clear the low bit of its target, every CSR       *)
(* instruction addresses tohost whatever CSR number it carries, and the    *)
(* register it names receives no defined value.                            *)
(***************************************************************************)
EXTENDS Rv32im

VARIABLES pc, regs, mem, tohost

vars == <<pc, regs, mem, tohost>>

Init ==
  /\ pc = ResetPC
  /\ regs \in [Reg -> Word] /\ regs[0] = 0
  /\ mem \in [0 .. Depth - 1 -> Word]
  /\ tohost = 0

-----------------------------------------------------------------------------
(* The instruction at pc.                                                   *)

I   == Decode[mem[Index(pc)]]
Rs1 == regs[I.rs1]
Rs2 == regs[I.rs2]

SetReg(r, v) == regs' = IF r = 0 THEN regs ELSE [regs EXCEPT ![r] = v]
Advance      == pc' = Plus(pc, 4)

\* The operation of an R-type or immediate instruction, by funct3.
Operation ==
  IF I.opcode = "R" /\ I.funct7 = 1 THEN MUL + I.funct3
  ELSE LET alternate == Funct7_5(I) = 1
       IN  CASE I.funct3 = 0 -> IF I.opcode = "R" /\ alternate THEN SUB ELSE ADD
             [] I.funct3 = 1 -> SLL
             [] I.funct3 = 2 -> SLT
             [] I.funct3 = 3 -> SLTU
             [] I.funct3 = 4 -> XOR
             [] I.funct3 = 5 -> IF alternate THEN SRA ELSE SRL
             [] I.funct3 = 6 -> OR
             [] I.funct3 = 7 -> AND

\* The branch condition, by funct3; signed order is what the SLT operation
\* of the ALU says it is.
Taken ==
  LET less == Alu(SLT, Rs1, Rs2) = 1
  IN  \/ I.funct3 = 0 /\ Rs1 = Rs2
      \/ I.funct3 = 1 /\ Rs1 # Rs2
      \/ I.funct3 = 4 /\ less
      \/ I.funct3 = 5 /\ ~less
      \/ I.funct3 = 6 /\ Rs1 < Rs2
      \/ I.funct3 = 7 /\ Rs1 >= Rs2

-----------------------------------------------------------------------------
(* One action per class of instructions.                                    *)

Compute ==
  /\ I.opcode \in {"R", "IALU"}
  /\ SetReg(I.rd, Alu(Operation, Rs1, IF I.opcode = "R" THEN Rs2 ELSE I.imm[0]))
  /\ Advance
  /\ UNCHANGED <<mem, tohost>>

Load ==
  /\ I.opcode = "LOAD"
  /\ LET a == Plus(Rs1, I.imm[0])
     IN  \E w \in IF a \in DevRegion THEN DevValues ELSE {mem[Index(a)]} :
           SetReg(I.rd, Loaded(a, I.funct3, w))
  /\ Advance
  /\ UNCHANGED <<mem, tohost>>

\* A store outside the memory region goes to a peripheral or to nobody.
Store ==
  /\ I.opcode = "S"
  /\ LET a == Plus(Rs1, I.imm[1])
     IN  mem' = IF a \in MemRegion
                THEN [mem EXCEPT ![Index(a)] =
                        Stored(mem[Index(a)], a, I.funct3, Rs2)]
                ELSE mem
  /\ Advance
  /\ UNCHANGED <<regs, tohost>>

Branch ==
  /\ I.opcode = "B"
  /\ pc' = IF Taken THEN Plus(pc, I.imm[2]) ELSE Plus(pc, 4)
  /\ UNCHANGED <<regs, mem, tohost>>

Jump ==
  /\ I.opcode \in {"JAL", "JALR"}
  /\ pc' = IF I.opcode = "JAL" THEN Plus(pc, I.imm[3]) ELSE Plus(Rs1, I.imm[0])
  /\ SetReg(I.rd, Plus(pc, 4))
  /\ UNCHANGED <<mem, tohost>>

UpperImmediate ==
  /\ I.opcode \in {"LUI", "AUIPC"}
  /\ SetReg(I.rd, IF I.opcode = "LUI" THEN I.imm[4] ELSE Plus(pc, I.imm[4]))
  /\ Advance
  /\ UNCHANGED <<mem, tohost>>

CsrWrite ==
  /\ I.opcode = "CSR"
  /\ tohost' = IF I.funct3 = 1 THEN Rs1
               ELSE IF I.funct3 = 5 THEN I.imm[5]
               ELSE 0
  /\ \E v \in Word : SetReg(I.rd, v)
  /\ Advance
  /\ UNCHANGED mem

\* fence, fence.i and every opcode the main decoder does not know.
Nop ==
  /\ I.opcode = "OTHER"
  /\ Advance
  /\ UNCHANGED <<regs, mem, tohost>>

Execute == Compute \/ Load \/ Store \/ Branch \/ Jump \/ UpperImmediate
           \/ CsrWrite \/ Nop

\* The reset button restarts the program at any moment.  Results that had
\* not reached the register file and the memory are lost: at most two
\* registers and one word differ from what the program had computed.
Reset ==
  /\ pc' = ResetPC
  /\ tohost' = 0
  /\ regs' \in [Reg -> Word] /\ mem' \in [0 .. Depth - 1 -> Word]
  /\ \E r, s \in Reg : \A q \in Reg \ {r, s} : regs'[q] = regs[q]
  /\ \E i \in 0 .. Depth - 1 : \A j \in (0 .. Depth - 1) \ {i} : mem'[j] = mem[j]

Step == Execute \/ Reset
Spec == Init /\ [][Step]_vars
=============================================================================
