------------------------------- MODULE Rv32im -------------------------------
(***************************************************************************)
(* The instruction set as the hardware sees it: words, registers, the      *)
(* fields of an instruction, the main and ALU decoders, the immediate      *)
(* generator and the branch decision.  Shared by the sequential machine    *)
(* (Isa) and by the five-stage pipeline (Pipeline).                        *)
(*                                                                         *)
(* Everything here is combinational.  A word is a number modulo Modulus    *)
(* (2^32 in the RTL); a one-bit signal is 0 or 1, as in the RTL.  What an  *)
(* instruction word contains is given by the constant Decode, so that the  *)
(* bit positions of the fields stay out of the pipeline's model; what the  *)
(* ALU and the byte lanes compute is given by constant operators, bound in *)
(* the checked instances to the modules AluUnit and ByteLanes.             *)
(***************************************************************************)
EXTENDS BranchLogic

CONSTANTS
  Modulus,        (* Number of words: 2^32.                                 *)
  NReg,           (* Number of registers: 32.                               *)
  Depth,          (* Words of memory: 2^AWIDTH.                             *)
  MemRegion,      (* Addresses the decoder sends to the memory.             *)
  DevRegion,      (* Addresses it sends to the timer or the TBMAN.          *)
  DevValues,      (* Words a peripheral may return when read.               *)
  ResetPC,        (* 32'h1000_0000.                                         *)
  NopWord,        (* 32'h0000_0033, add x0,x0,x0: reset value of Instr.     *)
  DontCare,       (* Words an undriven ('x) ALU result may turn out to be.  *)
  Decode,         (* The fields of each instruction word.                   *)
  Alu(_, _, _),   (* ALU result for (ALUControl, a_in, b_in).               *)
  Flags(_, _, _), (* ALU flags aN, aZ, aC, aV for the same.                 *)
  ReadLanes(_, _, _),   (* Loaded value: (AddrLast2, funct3, word read).     *)
  BusWord(_, _, _),     (* On the write bus: (AddrLast2, funct3, register).  *)
  EnabledLanes(_, _),   (* Lanes written: (AddrLast2, funct3).               *)
  Merge(_, _, _)        (* Word after writing: (old word, lanes, bus word).  *)

Word == 0 .. Modulus - 1
Reg  == 0 .. NReg - 1
Bit  == {0, 1}

Opcodes == {"R", "IALU", "LOAD", "S", "B", "JAL", "JALR", "LUI", "AUIPC",
            "CSR", "OTHER"}

\* imm[s] is the immediate the generator extracts when ImmSrc = s.
Instr == [opcode : Opcodes, rd : Reg, rs1 : Reg, rs2 : Reg,
          funct3 : 0 .. 7, funct7 : 0 .. 127, imm : [0 .. 5 -> Word]]

Plus(a, b) == (a + b) % Modulus

Mux3(sel, in0, in1, in2) == IF sel = 0 THEN in0
                            ELSE IF sel = 1 THEN in1
                            ELSE IF sel = 2 THEN in2
                            ELSE 0

\* The memory ignores the address bits above its index and the low two.
Index(a) == (a \div 4) % Depth

-----------------------------------------------------------------------------
(* Control signals.                                                         *)

ADD == 0
SUB == 1
AND == 2
OR == 3
XOR == 4
SLT == 5
SLL == 6
SRL == 7
SRA == 8
SLTU == 9
BRU == 10
MUL == 16
ALUCodes == (0 .. 10) \cup (16 .. 23)

\* ImmSrc of an R-type is 'xxx: no format is selected.
NoFormat == 7

Controls(RegWrite, ImmSrc, ALUSrcA, ALUSrcB, MemWrite, ResultSrc, Branch,
         ALUop, jal, jalr) ==
  [RegWrite |-> RegWrite, ImmSrc |-> ImmSrc, ALUSrcA |-> ALUSrcA,
   ALUSrcB |-> ALUSrcB, MemWrite |-> MemWrite, ResultSrc |-> ResultSrc,
   Branch |-> Branch, ALUop |-> ALUop, jal |-> jal, jalr |-> jalr]

\* One row per opcode, in the order of the concatenation in maindec.
MainDec(opcode) ==
  CASE opcode = "R"     -> Controls(1, NoFormat, 0, 0, 0, 0, 0, 2, 0, 0)
    [] opcode = "IALU"  -> Controls(1, 0, 0, 1, 0, 0, 0, 2, 0, 0)
    [] opcode = "LOAD"  -> Controls(1, 0, 0, 1, 0, 1, 0, 0, 0, 0)
    [] opcode = "S"     -> Controls(0, 1, 0, 1, 1, 0, 0, 0, 0, 0)
    [] opcode = "B"     -> Controls(0, 2, 0, 0, 0, 0, 1, 1, 0, 0)
    [] opcode = "JAL"   -> Controls(1, 3, 0, 0, 0, 2, 0, 0, 1, 0)
    [] opcode = "JALR"  -> Controls(1, 0, 0, 1, 0, 2, 0, 2, 0, 1)
    [] opcode = "LUI"   -> Controls(1, 4, 2, 1, 0, 0, 0, 0, 0, 0)
    [] opcode = "AUIPC" -> Controls(1, 4, 1, 1, 0, 0, 0, 0, 0, 0)
    [] opcode = "CSR"   -> Controls(1, 5, 0, 1, 0, 0, 0, 2, 0, 0)
    [] OTHER            -> Controls(0, 0, 0, 0, 0, 0, 0, 0, 0, 0)

CsrBit(opcode) == IF opcode = "CSR" THEN 1 ELSE 0

\* Among the opcodes with ALUop = 2: opcode[5] tells ADD/SUB from ADDI.
\* funct7[5] is bit 30 of the instruction.
Opcode5(opcode) == IF opcode \in {"R", "CSR"} THEN 1 ELSE 0
Funct7_5(i)     == (i.funct7 \div 32) % 2

AluDec(i, ALUop) ==
  IF ALUop = 0 THEN ADD
  ELSE IF ALUop = 1 THEN IF i.funct3 \in {0, 1, 4, 5} THEN SUB ELSE BRU
  ELSE IF i.opcode = "R" /\ i.funct7 = 1 THEN MUL + i.funct3
  ELSE IF i.opcode = "JALR" THEN ADD
  ELSE CASE i.funct3 = 0 -> IF Opcode5(i.opcode) = 1 /\ Funct7_5(i) = 1
                            THEN SUB ELSE ADD
         [] i.funct3 = 1 -> SLL
         [] i.funct3 = 2 -> SLT
         [] i.funct3 = 3 -> SLTU
         [] i.funct3 = 4 -> XOR
         [] i.funct3 = 5 -> IF Funct7_5(i) = 0 THEN SRL ELSE SRA
         [] i.funct3 = 6 -> OR
         [] OTHER        -> AND

Extend(ImmSrc, i) == IF ImmSrc \in 0 .. 5 THEN i.imm[ImmSrc] ELSE 0

\* The ALU drives no result for BLTU and BGEU (default : result = 32'hx).
AluResults(c, a, b) == IF c = BRU THEN DontCare ELSE {Alu(c, a, b)}

\* The word a store of d with this funct3 at address a leaves behind.
Stored(old, a, funct3, d) ==
  Merge(old, EnabledLanes(a % 4, funct3), BusWord(a % 4, funct3, d))

Loaded(a, funct3, w) == ReadLanes(a % 4, funct3, w)

-----------------------------------------------------------------------------
(* Assumptions on the constants.                                            *)

ASSUME SizeAssumption ==
  /\ Modulus \in Nat /\ Modulus > 4
  /\ NReg \in Nat \ {0}
  /\ Depth \in Nat \ {0}

ASSUME RegionAssumption ==
  /\ MemRegion \subseteq Word
  /\ DevRegion \subseteq Word
  /\ MemRegion \cap DevRegion = {}
  /\ DevValues \subseteq Word /\ DevValues # {}
  /\ DontCare \subseteq Word /\ DontCare # {}

\* The reset value of PC_Plus4 (0) is not the successor of the reset PC.
ASSUME ResetAssumption ==
  /\ ResetPC \in Word
  /\ Plus(ResetPC, 4) # 0

\* Word 0 has opcode 0000000, which maindec does not know; NopWord is an
\* R-type whose destination is x0.
ASSUME DecodeAssumption ==
  /\ Decode \in [Word -> Instr]
  /\ Decode[0].opcode = "OTHER"
  /\ NopWord \in Word
  /\ Decode[NopWord].opcode = "R" /\ Decode[NopWord].rd = 0

ASSUME AluAssumption ==
  \A a, b \in Word :
    /\ \A c \in ALUCodes \ {BRU} : Alu(c, a, b) \in Word
    /\ Alu(ADD, a, b) = Plus(a, b)

\* What Branch_Logic may rely on.  SLT and BLT read the same two flags.
ASSUME FlagsAssumption ==
  \A a, b \in Word :
    LET s == Flags(SUB, a, b)
        u == Flags(BRU, a, b)
    IN /\ s.Z = (IF a = b THEN 1 ELSE 0)
       /\ s.N # s.V <=> Alu(SLT, a, b) = 1
       /\ u.C = (IF a >= b THEN 1 ELSE 0)

ASSUME LanesAssumption ==
  \A a \in 0 .. 3, f \in 0 .. 7, w \in Word :
    /\ ReadLanes(a, f, w) \in Word /\ BusWord(a, f, w) \in Word
    /\ \A old \in Word : Merge(old, EnabledLanes(a, f), w) \in Word
=============================================================================
