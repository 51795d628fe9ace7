----------------------------- MODULE Rv32System -----------------------------
(***************************************************************************)
(* The system of the repository itself: words of 32 bits in the encoding   *)
(* of the instruction set, the ALU and byte lanes of the RTL, the memory   *)
(* map of Addr_Decoder.v.  Nothing is assumed here.  Every constant of     *)
(* SystemProofs has the value the RTL gives it, everything assumed there   *)
(* is proved of these values, and what remains are theorems without        *)
(* hypotheses about SMU_RV32IM_System.                                     *)
(*                                                                         *)
(* Open are only the contents that memory and registers power up with.     *)
(***************************************************************************)
EXTENDS Arithmetic

CONSTANT MaxPresses       (* Any bound on how often the button is pressed.   *)

VARIABLES
  PC, FD, DE, EM, MW, rf, tohost_csr, mem, devData,
  CompareR, CounterR, StatusR,
  print_str, irq_force, console, finished, reset_ff,
  presses, matches, written, polling

\* alu.sv, extend.sv, and be_logic.sv with the write port of the memory.  The
\* variables of these modules sweep operands; no operator used here has them.
D == INSTANCE DatapathProofs WITH Width <- 32, ShiftWidth <- 5, a_in <- 0, b_in <- 0
L == INSTANCE LanesProofs WITH ByteSize <- 256, word <- 0, bytes <- 0

Modulus == 4294967296
NReg    == 32
Word    == 0 .. Modulus - 1

Alu(c, a, b)         == D!Result(c, a, b)
Flags(c, a, b)       == D!ALUFlags(c, a, b)
ReadLanes(a, f, w)   == L!BE_RD(a, f, w)
BusWord(a, f, w)     == L!BE_WD(a, f, w)
EnabledLanes(a, f)   == L!ByteEnable(a, f)
Merge(old, lanes, d) == L!RamWrite(old, lanes, d)

-----------------------------------------------------------------------------
(* The encoding.                                                            *)

\* The number w[hi:lo].
Field(w, hi, lo) == (w \div D!Two[lo]) % D!Two[hi - lo + 1]

Opcode(w) ==
  LET op == Field(w, 6, 0)
  IN  CASE op = 51  -> "R"    [] op = 19  -> "IALU" [] op = 3   -> "LOAD"
        [] op = 35  -> "S"    [] op = 99  -> "B"    [] op = 111 -> "JAL"
        [] op = 103 -> "JALR" [] op = 55  -> "LUI"  [] op = 23  -> "AUIPC"
        [] op = 115 -> "CSR"  [] OTHER    -> "OTHER"

Bits(w) == [k \in 0 .. 31 |-> D!Bit(w, k)]

Immediate(ImmSrc, w) == D!FromBits(D!Extend(ImmSrc, D!ExtendInput(Bits(w))))

Decoded(w) ==
  [opcode |-> Opcode(w), rd |-> Field(w, 11, 7), rs1 |-> Field(w, 19, 15),
   rs2 |-> Field(w, 24, 20), funct3 |-> Field(w, 14, 12),
   funct7 |-> Field(w, 31, 25), imm |-> [s \in 0 .. 5 |-> Immediate(s, w)]]

Decode == [w \in Word |-> Decoded(w)]

NopWord == 51       (* 32'h0000_0033 *)

-----------------------------------------------------------------------------
(* The memory and the map.                                                  *)

Depth   == 131072       (* 2^AWIDTH         *)
ResetPC == 268435456    (* 32'h1000_0000    *)

MemPage   == 1         (* 4'h1      *)
TimerPage == 524289    (* 20'h80001 *)
TbmanPage == 524303    (* 20'h8000F *)

MemRegion   == {a \in Word : Field(a, 31, 28) = MemPage}
TimerRegion == {a \in Word : Field(a, 31, 12) = TimerPage}
TbmanRegion == {a \in Word : Field(a, 31, 12) = TbmanPage}
DevRegion   == TimerRegion \cup TbmanRegion

\* Addr[11:0] = 000, 100 and 200.
TimerPort ==
  [a \in TimerRegion |->
     CASE Field(a, 11, 0) = 0   -> "Compare"
       [] Field(a, 11, 0) = 256 -> "Counter"
       [] Field(a, 11, 0) = 512 -> "Status"
       [] OTHER                 -> "None"]

\* Characters are wdata[7:0], irq_force is wdata[15:0].
CharSize == 256
IrqSize  == 65536
Newline  == 10
LineMax  == 128

\* A program that polls, in the registers of its choice: these.
PollWord  == 537339779      (* 32'h2007_2783, lw  a5,512(a4) *)
AddWord   == 16057651       (* 32'h00F5_0533, add a0,a0,a5   *)
ClearWord == 1299           (* 32'h0000_0513, li  a0,0       *)
CountReg  == 10

S == INSTANCE SystemProofs WITH
       DontCare <- Word, DevValues <- Word, InitTimer <- Word,
       Programs <- [0 .. Depth - 1 -> Word], InitRegs <- [0 .. NReg - 1 -> Word]

-----------------------------------------------------------------------------
(* Numbers.                                                                 *)

\* The powers of two that the fields of an instruction are cut with.
LEMMA Powers ==
  /\ D!Two[0] = 1 /\ D!Two[3] = 8 /\ D!Two[4] = 16 /\ D!Two[5] = 32 /\ D!Two[7] = 128
  /\ D!Two[12] = 4096 /\ D!Two[15] = 32768 /\ D!Two[20] = 1048576
  /\ D!Two[25] = 33554432 /\ D!Two[28] = 268435456 /\ D!Two[32] = Modulus
<1>1. /\ D!Two \in [Nat -> Nat \ {0}] /\ D!Two[0] = 1
      /\ \A k \in Nat : D!Two[k + 1] = 2 * D!Two[k]
  BY D!TwoDef
<1>2. D!Two[1] = 2 /\ D!Two[2] = 4 /\ D!Two[3] = 8 /\ D!Two[4] = 16 /\ D!Two[5] = 32
  <2>1. D!Two[0 + 1] = 2 /\ D!Two[1 + 1] = 2 * D!Two[1] /\ D!Two[2 + 1] = 2 * D!Two[2]
        /\ D!Two[3 + 1] = 2 * D!Two[3] /\ D!Two[4 + 1] = 2 * D!Two[4]
    BY <1>1
  <2> QED BY <2>1
<1>3. ASSUME NEW m \in Nat, NEW n \in Nat PROVE D!Two[m + n] = D!Two[m] * D!Two[n]
  BY D!TwoSum
<1>4. /\ D!Two[5 + 2] = D!Two[5] * D!Two[2] /\ D!Two[7 + 5] = D!Two[7] * D!Two[5]
      /\ D!Two[12 + 3] = D!Two[12] * D!Two[3] /\ D!Two[15 + 5] = D!Two[15] * D!Two[5]
      /\ D!Two[20 + 5] = D!Two[20] * D!Two[5] /\ D!Two[25 + 3] = D!Two[25] * D!Two[3]
      /\ D!Two[25 + 7] = D!Two[25] * D!Two[7]
  BY <1>3, Zenon
<1>5. /\ D!Two[7] = D!Two[5] * D!Two[2] /\ D!Two[12] = D!Two[7] * D!Two[5]
      /\ D!Two[15] = D!Two[12] * D!Two[3] /\ D!Two[20] = D!Two[15] * D!Two[5]
      /\ D!Two[25] = D!Two[20] * D!Two[5] /\ D!Two[28] = D!Two[25] * D!Two[3]
      /\ D!Two[32] = D!Two[25] * D!Two[7]
  BY <1>4
<1>6. D!Two[7] = 128 /\ D!Two[12] = 4096 /\ D!Two[15] = 32768
  BY SMT, <1>2, <1>5
<1>7. /\ D!Two[20] = 1048576 /\ D!Two[25] = 33554432
      /\ D!Two[28] = 268435456 /\ D!Two[32] = Modulus
  BY SMT, <1>2, <1>5, <1>6 DEF Modulus
<1> QED BY <1>1, <1>2, <1>6, <1>7

\* The words of all parts are the same.
LEMMA Words ==
  /\ S!Word = Word /\ D!Word = Word /\ L!Word = Word
  /\ D!WordSize = Modulus /\ L!WordSize = Modulus
<1>1. D!WordSize = Modulus
  BY Powers DEF D!WordSize
<1>2. L!WordSize = Modulus
  BY SMT DEF L!WordSize, L!HalfSize, Modulus
<1> QED BY <1>1, <1>2 DEF S!Word, D!Word, L!Word, Word

-----------------------------------------------------------------------------
(* What the proofs about the system assume, of this system.                 *)

LEMMA SizeHolds == S!SizeAssumption
BY SMT DEF Modulus, NReg, Depth

\* A word is a number below the modulus.
LEMMA WordIs ==
  /\ Modulus = 4294967296
  /\ Word \subseteq Int
  /\ \A n \in Int : n \in Word <=> 0 <= n /\ n < Modulus
<1>1. Modulus = 4294967296
  BY SMT DEF Modulus
<1>2. Modulus \in Int
  BY SMT, <1>1
<1>3. Word \subseteq Int /\ \A n \in Int : n \in Word <=> 0 <= n /\ n < Modulus
  BY SMT, <1>2 DEF Word
<1> QED BY SMT, <1>1, <1>3

\* The fields of an instruction as quotients and remainders.
LEMMA FieldsOf ==
  ASSUME NEW w \in Word
  PROVE  /\ Field(w, 6, 0) = w % 128          /\ Field(w, 11, 7) = (w \div 128) % 32
         /\ Field(w, 14, 12) = (w \div 4096) % 8
         /\ Field(w, 19, 15) = (w \div 32768) % 32
         /\ Field(w, 24, 20) = (w \div 1048576) % 32
         /\ Field(w, 31, 25) = (w \div 33554432) % 128
<1>1. w \in Int /\ w \div 1 = w
  BY SMT, WordIs
<1>2. /\ Field(w, 6, 0) = (w \div D!Two[0]) % D!Two[7]
      /\ Field(w, 11, 7) = (w \div D!Two[7]) % D!Two[5]
      /\ Field(w, 14, 12) = (w \div D!Two[12]) % D!Two[3]
      /\ Field(w, 19, 15) = (w \div D!Two[15]) % D!Two[5]
      /\ Field(w, 24, 20) = (w \div D!Two[20]) % D!Two[5]
      /\ Field(w, 31, 25) = (w \div D!Two[25]) % D!Two[7]
  BY SMT DEF Field
<1> QED BY SMT, <1>1, <1>2, Powers

\* Memory, timer and TBMAN have addresses of their own.  (Addr_Decoder.v)
LEMMA RegionHolds == S!RegionAssumption
<1>1. MemRegion \subseteq Word /\ DevRegion \subseteq Word
  BY DEF MemRegion, DevRegion, TimerRegion, TbmanRegion
<1>2. MemRegion \cap DevRegion = {}
  <2> SUFFICES ASSUME NEW a \in Word, Field(a, 31, 28) = MemPage,
                      Field(a, 31, 12) = TimerPage \/ Field(a, 31, 12) = TbmanPage
               PROVE  FALSE
    BY Zenon DEF MemRegion, DevRegion, TimerRegion, TbmanRegion
  <2>1. a \in Int /\ 0 <= a /\ a < Modulus
    BY SMT, WordIs
  <2>2. Field(a, 31, 28) = (a \div D!Two[28]) % D!Two[4]
        /\ Field(a, 31, 12) = (a \div D!Two[12]) % D!Two[20]
    BY SMT DEF Field
  <2> QED BY SMT, <2>1, <2>2, Powers, WordIs DEF MemPage, TimerPage, TbmanPage
<1>3. 0 \in Word
  BY SMT, WordIs
<1> QED BY <1>1, <1>2, <1>3, Words

LEMMA ResetHolds == S!ResetAssumption
<1>1. ResetPC = 268435456
  BY SMT DEF ResetPC
<1>2. ResetPC \in Word /\ (ResetPC + 4) % Modulus = ResetPC + 4 /\ ResetPC + 4 # 0
  BY SMT, <1>1, WordIs
<1> QED BY <1>2, Words, Zenon DEF S!Plus

\* The immediate of each format is a word.
LEMMA ImmediateType ==
  ASSUME NEW w \in Word, NEW s \in 0 .. 5
  PROVE  Immediate(s, w) \in Word
<1>1. \A k \in 0 .. 31 : D!Bit(w, k) \in {0, 1}
  <2> SUFFICES ASSUME NEW k \in 0 .. 31 PROVE D!Bit(w, k) \in {0, 1}
    OBVIOUS
  <2>1. w \in Int /\ D!Two[k] \in Nat \ {0}
    BY WordIs, D!TwoType
  <2>2. w \div D!Two[k] \in Int
    BY <2>1, Division
  <2> QED BY <2>2 DEF D!Bit
<1> DEFINE in == D!ExtendInput(Bits(w))
<1>2. in \in [0 .. 24 -> {0, 1}]
  BY <1>1 DEF D!ExtendInput, Bits
<1> HIDE DEF in
<1>3. D!Extend(s, in) \in [0 .. 31 -> {0, 1}]
  BY <1>2 DEF D!Extend, D!IBit, D!SBit, D!BBit, D!JBit, D!UBit, D!CsrBit
<1>4. D!Extend(s, in) \in D!Bits
  BY <1>3 DEF D!Bits
<1>5. D!FromBits(D!Extend(s, in)) \in D!Word
  BY <1>4, D!BitsOfComposed
<1> QED BY <1>5, Words DEF Immediate, in

\* Every word decodes to an instruction.
LEMMA DecodedType ==
  ASSUME NEW w \in Word
  PROVE  /\ Decoded(w).opcode \in S!Opcodes
         /\ Decoded(w).rd \in 0 .. 31 /\ Decoded(w).rs1 \in 0 .. 31
         /\ Decoded(w).rs2 \in 0 .. 31 /\ Decoded(w).funct3 \in 0 .. 7
         /\ Decoded(w).funct7 \in 0 .. 127
         /\ Decoded(w).imm \in [0 .. 5 -> Word]
         /\ Decoded(w) \in S!Instr
<1>1. Opcode(w) \in S!Opcodes
  BY SMT DEF Opcode, S!Opcodes
<1>2. [s \in 0 .. 5 |-> Immediate(s, w)] \in [0 .. 5 -> Word]
  BY ImmediateType, Zenon
<1>3. w \in Int
  BY SMT, WordIs
<1>4. /\ Field(w, 11, 7) \in 0 .. 31 /\ Field(w, 19, 15) \in 0 .. 31
      /\ Field(w, 24, 20) \in 0 .. 31 /\ Field(w, 14, 12) \in 0 .. 7
      /\ Field(w, 31, 25) \in 0 .. 127
  BY SMT, <1>3, FieldsOf
<1>5. S!Reg = 0 .. 31
  BY SMT DEF S!Reg, NReg
<1>6. Decoded(w) \in S!Instr
  BY <1>1, <1>2, <1>4, <1>5, Words, Zenon DEF Decoded, S!Instr
<1> QED BY <1>1, <1>2, <1>4, <1>6, Zenon DEF Decoded

\* The words that the model knows by name.
LEMMA KnownWords ==
  /\ 0 \in Word /\ Decoded(0).opcode = "OTHER"
  /\ Decoded(0).rs1 = 0 /\ Decoded(0).rs2 = 0
  /\ NopWord \in Word /\ Decoded(NopWord).opcode = "R" /\ Decoded(NopWord).rd = 0
  /\ Decoded(NopWord).rs1 = 0 /\ Decoded(NopWord).rs2 = 0
  /\ Decoded(NopWord).funct3 = 0 /\ Decoded(NopWord).funct7 = 0
<1>1. NopWord = 51 /\ 51 \in Word /\ 0 \in Word
  BY SMT, WordIs DEF NopWord
<1>2. /\ Field(0, 6, 0) = 0 /\ Field(0, 19, 15) = 0 /\ Field(0, 24, 20) = 0
      /\ Field(51, 6, 0) = 51 /\ Field(51, 11, 7) = 0 /\ Field(51, 19, 15) = 0
      /\ Field(51, 24, 20) = 0 /\ Field(51, 14, 12) = 0 /\ Field(51, 31, 25) = 0
  BY SMT, <1>1, FieldsOf
<1>3. Opcode(0) = "OTHER" /\ Opcode(51) = "R"
  BY SMT, <1>2 DEF Opcode
<1> QED BY SMT, <1>1, <1>2, <1>3 DEF Decoded

LEMMA DecodeHolds == S!DecodeAssumption
<1>1. Decode \in [Word -> S!Instr]
  BY DecodedType, Zenon DEF Decode
<1>2. \A w \in Word : Decode[w] = Decoded(w)
  BY Zenon DEF Decode
<1> QED BY <1>1, <1>2, KnownWords, Words, Zenon

LEMMA AluHolds == S!AluAssumption
<1>1. S!ALUCodes \ {S!BRU} = (D!ADD .. D!SLTU) \cup (D!MUL .. D!REMU)
  BY SMT DEF S!ALUCodes, S!BRU, D!ADD, D!SLTU, D!MUL, D!REMU
<1>2. S!ADD = D!ADD
  BY DEF S!ADD, D!ADD
<1>3. ASSUME NEW a \in Word, NEW b \in Word
      PROVE  /\ \A c \in (D!ADD .. D!SLTU) \cup (D!MUL .. D!REMU) : Alu(c, a, b) \in Word
             /\ Alu(D!ADD, a, b) = (a + b) % Modulus
  BY SMT, Words, D!AluMeetsItsAssumptions DEF Alu
<1> QED BY <1>1, <1>2, <1>3, Words, Zenon DEF S!Plus

LEMMA FlagsHold == S!FlagsAssumption
<1>1. S!SUB = D!SUB /\ S!BRU = D!BRU /\ S!SLT = D!SLT
  BY DEF S!SUB, D!SUB, S!BRU, D!BRU, S!SLT, D!SLT
<1>2. ASSUME NEW a \in Word, NEW b \in Word
      PROVE  LET s == Flags(D!SUB, a, b)
                 u == Flags(D!BRU, a, b)
             IN  /\ s.Z = (IF a = b THEN 1 ELSE 0)
                 /\ s.N # s.V <=> Alu(D!SLT, a, b) = 1
                 /\ u.C = (IF a >= b THEN 1 ELSE 0)
  BY SMT, Words, D!AluMeetsItsAssumptions DEF Alu, Flags
<1> QED BY <1>1, <1>2, Words, Zenon

LEMMA LanesHold == S!LanesAssumption
<1>1. ASSUME NEW a \in 0 .. 3, NEW f \in 0 .. 7, NEW w \in Word
      PROVE  /\ ReadLanes(a, f, w) \in Word /\ BusWord(a, f, w) \in Word
             /\ \A old \in Word : Merge(old, EnabledLanes(a, f), w) \in Word
  BY SMT, Words, L!LanesMeetTheirAssumption
  DEF ReadLanes, BusWord, EnabledLanes, Merge
<1> QED BY <1>1, Words, Zenon

LEMMA InitHolds == S!InitAssumption
BY Words, Zenon DEF S!Reg

LEMMA BusHolds == S!BusAssumption
<1>1. TimerRegion \cap TbmanRegion = {}
  <2>1. TimerPage # TbmanPage
    BY SMT DEF TimerPage, TbmanPage
  <2> QED BY <2>1, Zenon DEF TimerRegion, TbmanRegion
<1>2. 0 \notin DevRegion
  <2>1. Field(0, 31, 12) = (0 \div D!Two[12]) % D!Two[20]
    BY SMT DEF Field
  <2>2. Field(0, 31, 12) = 0
    BY SMT, <2>1, Powers
  <2>3. TimerPage # 0 /\ TbmanPage # 0
    BY SMT DEF TimerPage, TbmanPage
  <2> QED BY <2>2, <2>3, Zenon DEF DevRegion, TimerRegion, TbmanRegion
<1>3. TimerPort \in [TimerRegion -> {"Compare", "Counter", "Status", "None"}]
  BY SMT DEF TimerPort
<1>4. CharSize \in Nat \ {0} /\ Newline \in 0 .. CharSize - 1 /\ LineMax \in Nat
  BY SMT DEF CharSize, Newline, LineMax
<1>5. IrqSize \in 1 .. Modulus
  <2>1. IrqSize \in Int /\ 1 <= IrqSize /\ Modulus \in Int /\ IrqSize <= Modulus
    BY SMT, WordIs DEF IrqSize
  <2> QED BY SMT, <2>1
<1> QED BY <1>1, <1>2, <1>3, <1>4, <1>5, Words, Zenon DEF DevRegion

\* The immediate of ClearWord is made of bits that are all zero.
LEMMA ClearsToZero == ClearWord \in Word /\ Immediate(0, ClearWord) = 0
<1> DEFINE bit == D!Extend(0, D!ExtendInput(Bits(ClearWord)))
           V   == D!LowBits(bit)
           T   == {k \in Nat : k <= 32 => V[k] = 0}
<1>1. ClearWord \in Word /\ ClearWord \in Nat /\ ClearWord < D!Two[20]
  BY SMT, WordIs, Powers DEF ClearWord
<1>2. ASSUME NEW k \in 20 .. 31 PROVE Bits(ClearWord)[k] = 0
  <2>1. D!Two[20 + (k - 20)] = D!Two[20] * D!Two[k - 20]
    BY D!TwoSum
  <2>2. D!Two[k] = D!Two[20] * D!Two[k - 20] /\ D!Two[k - 20] \in Nat \ {0}
        /\ D!Two[20] \in Nat \ {0} /\ D!Two[k] \in Nat \ {0}
    BY <2>1, D!TwoType
  <2>3. ClearWord < D!Two[k]
    <3>1. \A m, n \in Nat \ {0} : m <= m * n
      OBVIOUS
    <3> QED BY SMT, <1>1, <2>2, <3>1
  <2>4. ClearWord \div D!Two[k] = 0
    <3>1. ClearWord = D!Two[k] * 0 + ClearWord /\ ClearWord \in 0 .. D!Two[k] - 1
      BY SMT, <1>1, <2>2, <2>3
    <3> QED BY SMT, <2>2, <3>1, QuotientUnique
  <2> QED BY SMT, <2>4 DEF Bits, D!Bit
<1>3. bit = [k \in 0 .. 31 |-> 0]
  <2>1. ASSUME NEW k \in 13 .. 24 PROVE D!ExtendInput(Bits(ClearWord))[k] = 0
    BY SMT, <1>2 DEF D!ExtendInput
  <2> QED BY SMT, <2>1 DEF D!Extend, D!IBit
<1> HIDE DEF bit
<1>4. bit \in D!Bits
  BY SMT, <1>3 DEF D!Bits
<1>5. V[0] = 0 /\ \A k \in 0 .. 31 : V[k + 1] = V[k] + D!Two[k] * bit[k]
  BY SMT, <1>4, D!LowBitsDef
<1> HIDE DEF V
<1>6. 0 \in T
  BY <1>5
<1>7. ASSUME NEW k \in Nat, k \in T PROVE k + 1 \in T
  <2> SUFFICES ASSUME k + 1 <= 32 PROVE V[k + 1] = 0
    OBVIOUS
  <2>1. D!Two[k] \in Nat
    BY D!TwoType
  <2>2. V[k] = 0 /\ bit[k] = 0 /\ V[k + 1] = V[k] + D!Two[k] * bit[k]
    BY <1>3, <1>5, <1>7
  <2>3. D!Two[k] * 0 = 0
    BY <2>1
  <2> QED BY <2>2, <2>3
<1> HIDE DEF T
<1>8. 32 \in T
  <2>1. \A k \in Nat : k \in T
    BY <1>6, <1>7, SetInduction
  <2> QED BY <2>1
<1>9. V[32] = 0
  BY <1>8 DEF T
<1> QED BY <1>1, <1>9, Zenon DEF Immediate, D!FromBits, V, bit

LEMMA PollHolds == S!PollAssumption
<1>1. /\ PollWord \in Word /\ AddWord \in Word /\ ClearWord \in Word
  BY SMT, WordIs DEF PollWord, AddWord, ClearWord
<1>2. /\ Field(PollWord, 6, 0) = 3 /\ Field(PollWord, 11, 7) = 15
      /\ Field(PollWord, 14, 12) = 2
  BY SMT, <1>1, FieldsOf DEF PollWord
<1>3. /\ Field(AddWord, 6, 0) = 51 /\ Field(AddWord, 11, 7) = 10
      /\ Field(AddWord, 14, 12) = 0 /\ Field(AddWord, 19, 15) = 10
      /\ Field(AddWord, 24, 20) = 15 /\ Field(AddWord, 31, 25) = 0
  BY SMT, <1>1, FieldsOf DEF AddWord
<1>4. /\ Field(ClearWord, 6, 0) = 19 /\ Field(ClearWord, 11, 7) = 10
      /\ Field(ClearWord, 14, 12) = 0 /\ Field(ClearWord, 19, 15) = 0
  BY SMT, <1>1, FieldsOf DEF ClearWord
<1>5. ASSUME NEW w \in Word
      PROVE  /\ Decode[w] = Decoded(w)
             /\ Decode[w].opcode = Opcode(w) /\ Decode[w].rd = Field(w, 11, 7)
             /\ Decode[w].rs1 = Field(w, 19, 15) /\ Decode[w].rs2 = Field(w, 24, 20)
             /\ Decode[w].funct3 = Field(w, 14, 12)
             /\ Decode[w].funct7 = Field(w, 31, 25)
             /\ Decode[w].imm[0] = Immediate(0, w)
  <2>1. Decode[w] = Decoded(w)
    BY Zenon DEF Decode
  <2> QED BY SMT, <2>1 DEF Decoded
<1>6. /\ Decode[PollWord].opcode = "LOAD" /\ Decode[PollWord].rd = 15
      /\ Decode[PollWord].funct3 = 2
  <2>1. Opcode(PollWord) = "LOAD"
    BY SMT, <1>2 DEF Opcode
  <2> QED BY SMT, <1>1, <1>2, <1>5, <2>1
<1>7. /\ Decode[AddWord].opcode = "R" /\ Decode[AddWord].rd = 10
      /\ Decode[AddWord].rs1 = 10 /\ Decode[AddWord].rs2 = 15
      /\ Decode[AddWord].funct3 = 0 /\ Decode[AddWord].funct7 = 0
  <2>1. Opcode(AddWord) = "R"
    BY SMT, <1>3 DEF Opcode
  <2> QED BY SMT, <1>1, <1>3, <1>5, <2>1
<1>8. /\ Decode[ClearWord].opcode = "IALU" /\ Decode[ClearWord].rd = 10
      /\ Decode[ClearWord].rs1 = 0 /\ Decode[ClearWord].funct3 = 0
      /\ Decode[ClearWord].imm[0] = 0
  <2>1. Opcode(ClearWord) = "IALU"
    BY SMT, <1>4 DEF Opcode
  <2> QED BY SMT, <1>1, <1>4, <1>5, <2>1, ClearsToZero
<1>9. \A a \in S!StatusAddrs, s \in S!Bit : S!Loaded(a, 2, s) = s
  BY SMT, L!LoadTable DEF S!Loaded, ReadLanes
<1>10. \A w \in {0, NopWord} : Decode[w].rs1 = 0 /\ Decode[w].rs2 = 0
  BY <1>5, KnownWords, Zenon
<1>11. Decode[NopWord].funct3 = 0 /\ Decode[NopWord].funct7 = 0
  BY <1>5, KnownWords, Zenon
<1>12. CountReg = 10 /\ S!AnswerReg = 15
  BY <1>6, SMT DEF CountReg, S!AnswerReg
<1>13. CountReg \in S!Reg \ {0} /\ S!AnswerReg \in S!Reg \ {0, CountReg}
  BY SMT, <1>12 DEF S!Reg, NReg
<1> QED BY <1>1, <1>6, <1>7, <1>8, <1>9, <1>10, <1>11, <1>12, <1>13, Words, Zenon

-----------------------------------------------------------------------------
(* Theorems about this system.                                              *)

\* Everything that the other modules assume of their constants is true of this
\* system: nothing in the RTL falls outside what they prove.
THEOREM AssumptionsHold ==
  /\ S!SizeAssumption /\ S!RegionAssumption /\ S!ResetAssumption
  /\ S!DecodeAssumption /\ S!AluAssumption /\ S!FlagsAssumption
  /\ S!LanesAssumption /\ S!InitAssumption /\ S!BusAssumption /\ S!PollAssumption
BY SizeHolds, RegionHolds, ResetHolds, DecodeHolds, AluHolds, FlagsHold,
   LanesHold, InitHolds, BusHolds, PollHolds, Zenon

\* The five stages with timer, TBMAN and button execute the instruction set one
\* instruction at a time, for every program that does not change its own code
\* in flight.
THEOREM Rv32ImplementsIsa == S!StableSystemSpec => S!ISASpec
BY AssumptionsHold, S!SystemImplementsIsa, Zenon

\* Whatever the program and whenever the button is pressed, every instruction
\* reads its operands as all older ones leave them, and every store reaches its
\* word or its peripheral one cycle after execute, once.
THEOREM Rv32HazardsHandled == S!SystemSpec => []S!OperandsCurrent /\ S!StoresPosted
BY AssumptionsHold, S!SystemHazardsHandled, Zenon

\* No program locks the stages up: as long as the clock ticks, instruction after
\* instruction reaches execute.
THEOREM Rv32NeverLocksUp ==
  S!Init /\ [][S!Clock]_(S!vars) /\ []<><<S!Clock>>_(S!vars) => S!Progress
BY AssumptionsHold, S!NeverLocksUp, Zenon

\* The core leaves reset with empty stages, the timer stopped and no interrupt
\* forced.
THEOREM Rv32ReleasesClean == S!SystemSpec => S!ReleasedClean
BY AssumptionsHold, S!ReleasesClean, Zenon

\* The simulator prints what the program wrote, in the program's order.
THEOREM Rv32Console == S!CheckSpec => []S!ConsoleFaithful
BY AssumptionsHold, S!ConsoleIsFaithful, Zenon

\* A program that reads the status with lw a5,512(a4) and adds what it reads to
\* a0 has counted every match of the timer, except one it has yet to read.
\* (What bltu and bgeu leave on the bus is undriven, here any word: a program
\* that executes them can read the status by accident and is none of these.)
THEOREM Rv32MatchesCounted == S!CheckSpec /\ []S!Polls => []S!PolledOnce
BY AssumptionsHold, S!MatchesCounted, Zenon

\* The TBMAN takes the low byte of the bus whatever the byte enables say: a store
\* of any width to the address of the port itself prints the low byte of its
\* register, one of a byte or halfword to an address in a higher lane prints
\* character 0.  (be_logic.sv, and wdata[7:0] of tbman_regs.v)
THEOREM Rv32PrintsLowByte ==
  \A d \in Word :
    /\ \A funct3 \in 0 .. 2 : BusWord(0, funct3, d) % CharSize = d % CharSize
    /\ \A a \in 1 .. 3 : BusWord(a, 0, d) % CharSize = 0
    /\ \A a \in 2 .. 3 : BusWord(a, 1, d) % CharSize = 0
<1> SUFFICES ASSUME NEW d \in Word
             PROVE  /\ \A funct3 \in 0 .. 2 : BusWord(0, funct3, d) % CharSize = d % CharSize
                    /\ \A a \in 1 .. 3 : BusWord(a, 0, d) % CharSize = 0
                    /\ \A a \in 2 .. 3 : BusWord(a, 1, d) % CharSize = 0
  BY Zenon
<1>1. d \in Int /\ d % 256 \in Int /\ d % 65536 \in Int
  BY SMT, WordIs
<1>2. /\ L!LaneBase[1] = 1 /\ L!LaneBase[2] = 256 /\ L!LaneBase[3] = 65536
      /\ L!LaneBase[4] = 16777216 /\ L!HalfSize = 65536
  BY SMT DEF L!LaneBase, L!HalfSize
<1>3. /\ BusWord(0, 0, d) = d % 256 /\ BusWord(0, 1, d) = d % 65536 /\ BusWord(0, 2, d) = d
      /\ BusWord(1, 0, d) = (d % 256) * 256 /\ BusWord(2, 0, d) = (d % 256) * 65536
      /\ BusWord(3, 0, d) = (d % 256) * 16777216
      /\ BusWord(2, 1, d) = (d % 65536) * 65536 /\ BusWord(3, 1, d) = (d % 65536) * 65536
  <2>1. ASSUME NEW a \in 0 .. 3
        PROVE  /\ BusWord(a, 0, d) = (d % 256) * L!LaneBase[a + 1]
               /\ BusWord(a, 1, d) = (d % L!HalfSize) * L!LaneBase[2 * (a \div 2) + 1]
               /\ BusWord(a, 2, d) = d
    BY SMT, L!StoreTable DEF BusWord
  <2> QED BY SMT, <1>1, <1>2, <2>1
<1>4. (d % 65536) % 256 = d % 256 /\ (d % 256) % 256 = d % 256
  BY SMT, <1>1
<1>5. /\ ((d % 256) * 256) % 256 = 0 /\ ((d % 256) * 65536) % 256 = 0
      /\ ((d % 256) * 16777216) % 256 = 0 /\ ((d % 65536) * 65536) % 256 = 0
  BY SMT, <1>1
<1>6. \A funct3 \in 0 .. 2 : BusWord(0, funct3, d) % CharSize = d % CharSize
  BY SMT, <1>3, <1>4 DEF CharSize
<1>7. \A a \in 1 .. 3 : BusWord(a, 0, d) % CharSize = 0
  BY SMT, <1>3, <1>5 DEF CharSize
<1>8. \A a \in 2 .. 3 : BusWord(a, 1, d) % CharSize = 0
  BY SMT, <1>3, <1>5 DEF CharSize
<1> QED BY <1>6, <1>7, <1>8, Zenon

=============================================================================
