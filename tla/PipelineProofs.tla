-------------------------- MODULE PipelineProofs ---------------------------
(***************************************************************************)
(* Proofs about the pipeline for every memory size, word width, program,   *)
(* instruction encoding, ALU and peripheral behaviour that satisfies the   *)
(* assumptions of Rv32im and Pipeline.                                     *)
(***************************************************************************)
EXTENDS PipelineIsa, TLAPS

-----------------------------------------------------------------------------
(* The combinational operators.                                             *)

\* Words, addresses and immediates: sums stay within the word, the index
\* within the memory.  (adder.sv; address slice of SMU_RV32IM_System.v)
LEMMA WordFacts ==
  /\ 0 \in Word
  /\ \A a, b \in Word : Plus(a, b) \in Word /\ Plus(a, 4) \in Word
  /\ \A a \in Word : Index(a) \in 0 .. Depth - 1 /\ a % 4 \in 0 .. 3
  /\ Plus(0, 4) # 0
  /\ \A a \in Word : Plus(0, a) = a
<1>1. \A a \in Word : Index(a) \in 0 .. Depth - 1 /\ a % 4 \in 0 .. 3
  BY SizeAssumption DEF Word, Index
<1>2. \A a, b \in Word : Plus(a, b) \in Word /\ Plus(a, 4) \in Word
  BY SizeAssumption DEF Word, Plus
<1>3. 0 \in Word /\ Plus(0, 4) # 0 /\ \A a \in Word : Plus(0, a) = a
  BY SizeAssumption DEF Word, Plus
<1> QED BY <1>1, <1>2, <1>3

\* The control signals of each class of instructions.  (maindec.sv)
LEMMA ControllerType ==
  ASSUME NEW i \in Instr PROVE Controller(i) \in Control
<1>1. /\ MainDec(i.opcode).Branch \in Bit /\ MainDec(i.opcode).jal \in Bit
      /\ MainDec(i.opcode).jalr \in Bit /\ MainDec(i.opcode).ResultSrc \in 0 .. 2
      /\ MainDec(i.opcode).MemWrite \in Bit /\ MainDec(i.opcode).ALUSrcA \in 0 .. 2
      /\ MainDec(i.opcode).ALUSrcB \in Bit /\ MainDec(i.opcode).RegWrite \in Bit
      /\ MainDec(i.opcode).ALUop \in 0 .. 2
  BY DEF MainDec, Controls, Bit
<1>2. AluDec(i, MainDec(i.opcode).ALUop) \in ALUCodes
  BY DEF AluDec, ALUCodes, Instr, ADD, SUB, AND, OR, XOR, SLT, SLL, SRL, SRA, SLTU, BRU, MUL
<1>3. CsrBit(i.opcode) \in Bit
  BY DEF CsrBit, Bit
<1> QED BY <1>1, <1>2, <1>3 DEF Controller, Control

LEMMA ExtendType ==
  ASSUME NEW i \in Instr, NEW s PROVE Extend(s, i) \in Word
BY WordFacts DEF Extend, Instr

LEMMA DecodeType ==
  ASSUME NEW w \in Word PROVE Decode[w] \in Instr
BY DecodeAssumption

\* Whatever the byte lanes are asked for is a word.  (be_logic.sv)
LEMMA LanesType ==
  ASSUME NEW a \in Word, NEW f \in 0 .. 7, NEW w \in Word, NEW d \in Word
  PROVE  Loaded(a, f, w) \in Word /\ Stored(w, a, f, d) \in Word
<1>1. a % 4 \in 0 .. 3
  BY WordFacts
<1>2. BusWord(a % 4, f, d) \in Word /\ ReadLanes(a % 4, f, w) \in Word
  BY <1>1, LanesAssumption
<1>3. Merge(w, EnabledLanes(a % 4, f), BusWord(a % 4, f, d)) \in Word
  BY <1>1, <1>2, LanesAssumption
<1> QED BY <1>2, <1>3 DEF Loaded, Stored

LEMMA AluType ==
  ASSUME NEW c \in ALUCodes, NEW a \in Word, NEW b \in Word
  PROVE  AluResults(c, a, b) \subseteq Word
BY AluAssumption, RegionAssumption DEF AluResults

-----------------------------------------------------------------------------
(* The wires of a well-typed state.                                         *)

LEMMA WireTypes ==
  ASSUME TypeOK
  PROVE  /\ InstrD \in Instr /\ InstrE \in Instr /\ InstrM \in Instr /\ InstrW \in Instr
         /\ ReadData \in Word /\ Result \in Word /\ ResultM \in Word
         /\ RD1D_H \in Word /\ RD2D_H \in Word /\ RD1E_H \in Word /\ RD2E_H \in Word
         /\ SrcA \in Word /\ SrcB \in Word
         /\ MemNext \in [0 .. Depth - 1 -> Word]
<1>1. InstrD \in Instr /\ InstrE \in Instr /\ InstrM \in Instr /\ InstrW \in Instr
  BY DecodeType DEF TypeOK, FDType, DEType, EMType, MWType, InstrD, InstrE, InstrM, InstrW
<1>2. ReadData \in Word
  BY WordFacts, RegionAssumption DEF TypeOK, EMType, ReadData
<1>3. Result \in Word
  <2>1. Loaded(MW.ALUResult, InstrW.funct3, MW.ReadData) \in Word
    BY <1>1, LanesType DEF TypeOK, MWType, Instr
  <2> QED BY <2>1, WordFacts DEF TypeOK, MWType, Result, Mux3
<1>4. ResultM \in Word
  <2>1. Loaded(EM.ALUResult, InstrM.funct3, ReadData) \in Word
    BY <1>1, <1>2, LanesType DEF TypeOK, EMType, Instr
  <2> QED BY <2>1, WordFacts DEF TypeOK, EMType, ResultM, Mux3
<1>5. \A rs \in Reg, w \in Word : Forwarded(rs, w) \in Word
  BY <1>3, WordFacts DEF TypeOK, EMType, Forwarded, Mux3
<1>6. \A rs \in Reg : RegRead(rs) \in Word
  BY WordFacts DEF TypeOK, RegRead
<1>7. RD1D_H \in Word /\ RD2D_H \in Word /\ RD1E_H \in Word /\ RD2E_H \in Word
  BY <1>1, <1>5, <1>6 DEF TypeOK, DEType, Instr, RD1D_H, RD2D_H, RD1E_H, RD2E_H
<1>8. SrcA \in Word /\ SrcB \in Word
  BY <1>7, WordFacts DEF TypeOK, DEType, SrcA, SrcB, Mux3
<1>9. MemNext \in [0 .. Depth - 1 -> Word]
  <2>1. CASE EM.MemWrite = 1 /\ EM.ALUResult \in MemRegion
    <3>1. Index(EM.ALUResult) \in 0 .. Depth - 1
      BY WordFacts DEF TypeOK, EMType
    <3>2. Stored(mem[Index(EM.ALUResult)], EM.ALUResult, InstrM.funct3, EM.WriteData) \in Word
      BY <1>1, <3>1, LanesType DEF TypeOK, EMType, Instr
    <3> QED BY <2>1, <3>1, <3>2 DEF TypeOK, MemNext
  <2>2. CASE ~(EM.MemWrite = 1 /\ EM.ALUResult \in MemRegion)
    BY <2>2 DEF TypeOK, MemNext
  <2> QED BY <2>1, <2>2
<1> QED BY <1>1, <1>2, <1>3, <1>4, <1>7, <1>8, <1>9

-----------------------------------------------------------------------------
(* Type correctness.                                                        *)

LEMMA FlushTypes ==
  /\ NoControls \in Control
  /\ FlushedFD \in FDType /\ FlushedDE \in DEType
  /\ ResetFD \in FDType /\ ResetDE \in DEType /\ ResetEM \in EMType /\ ResetMW \in MWType
<1>1. NoControls \in Control
  BY DEF NoControls, Control, Bit, ALUCodes, ADD
<1> QED BY <1>1, WordFacts, DecodeAssumption, ResetAssumption
    DEF FlushedFD, FlushedDE, ResetFD, ResetDE, ResetEM, ResetMW,
        FDType, DEType, EMType, MWType, Bit

LEMMA TypeInit == Init => TypeOK
BY FlushTypes, WordFacts, InitAssumption, ResetAssumption DEF Init, AtReset, TypeOK

LEMMA TypeStep == TypeOK /\ [Next]_vars => TypeOK'
<1> SUFFICES ASSUME TypeOK, [Next]_vars PROVE TypeOK'
  OBVIOUS
<1>1. CASE Clock
  <2> PICK aluE \in AluResults(DE.ctl.ALUControl, SrcA, SrcB) :
        FetchStage(aluE) /\ ExecuteStage(aluE)
    BY <1>1 DEF Clock, CoreClock
  <2>1. aluE \in Word
    BY WireTypes, AluType DEF TypeOK, DEType, Control
  <2>2. PCNext(aluE) \in Word /\ Plus(PC, 4) \in Word /\ mem[Index(PC)] \in Word
    BY <2>1, WordFacts DEF TypeOK, DEType, PCNext, Mux3
  <2>3. PC' \in Word /\ FD' \in FDType
    BY <2>2, FlushTypes DEF FetchStage, TypeOK, FDType
  <2>4. DE' \in DEType
    BY <1>1, WireTypes, FlushTypes, ControllerType, ExtendType
    DEF Clock, CoreClock, DecodeStage, DecodedDE, TypeOK, FDType, DEType
  <2>5. EM' \in EMType
    BY <2>1, WireTypes DEF ExecuteStage, TypeOK, DEType, Control, EMType
  <2>6. tohost_csr' \in Word
    BY WireTypes, WordFacts DEF ExecuteStage, TohostNext, TypeOK, DEType
  <2>7. MW' \in MWType /\ mem' \in [0 .. Depth - 1 -> Word]
    BY <1>1, WireTypes DEF Clock, CoreClock, MemoryStage, TypeOK, EMType, MWType
  <2>8. rf' \in [Reg -> Word]
    BY <1>1, WireTypes DEF Clock, CoreClock, WritebackStage, TypeOK
  <2>9. devData' \in DevValues
    BY <1>1 DEF Clock, CoreClock
  <2> QED BY <2>3, <2>4, <2>5, <2>6, <2>7, <2>8, <2>9 DEF TypeOK
<1>2. CASE Reset
  BY <1>2, FlushTypes, WordFacts, ResetAssumption DEF Reset, CoreReset, TypeOK
<1>3. CASE UNCHANGED vars
  BY <1>3 DEF vars, TypeOK
<1> QED BY <1>1, <1>2, <1>3 DEF Next

\* Every register of the core holds a value of its width in every reachable
\* state, whatever the program does and whenever it is reset.
THEOREM TypeCorrect == Spec => []TypeOK
<1> QED BY TypeInit, TypeStep, PTL DEF Spec

-----------------------------------------------------------------------------
(* Control signals of the instruction classes.                              *)

\* The rows of the main decoder the hazard handling depends on: a load is no
\* jump, a link value comes from a jump, and neither an unknown opcode nor an
\* R-type touches memory, CSR or PC.  (maindec.sv)
LEMMA ControllerFacts ==
  ASSUME NEW i \in Instr
  PROVE  LET c == Controller(i)
         IN  /\ i.opcode = "OTHER" => c = NoControls
             /\ c.ResultSrc = 1 => c.Branch = 0 /\ c.jal = 0 /\ c.jalr = 0
             /\ c.ResultSrc = 2 => c.jal = 1 \/ c.jalr = 1
             /\ i.opcode = "R" => /\ c.MemWrite = 0 /\ c.Csr = 0 /\ c.Branch = 0
                                  /\ c.jal = 0 /\ c.jalr = 0 /\ c.ResultSrc = 0
             /\ c.Csr = 1 => c.MemWrite = 0
<1>1. MainDec(i.opcode).ResultSrc = 1 =>
        MainDec(i.opcode).Branch = 0 /\ MainDec(i.opcode).jal = 0 /\ MainDec(i.opcode).jalr = 0
  BY DEF MainDec, Controls
<1>2. MainDec(i.opcode).ResultSrc = 2 => MainDec(i.opcode).jal = 1 \/ MainDec(i.opcode).jalr = 1
  BY DEF MainDec, Controls
<1>3. i.opcode = "OTHER" =>
        /\ MainDec(i.opcode).RegWrite = 0 /\ MainDec(i.opcode).ALUSrcA = 0
        /\ MainDec(i.opcode).ALUSrcB = 0 /\ MainDec(i.opcode).MemWrite = 0
        /\ MainDec(i.opcode).ResultSrc = 0 /\ MainDec(i.opcode).Branch = 0
        /\ MainDec(i.opcode).ALUop = 0 /\ MainDec(i.opcode).jal = 0
        /\ MainDec(i.opcode).jalr = 0
  BY DEF MainDec, Controls
<1>4. i.opcode = "R" =>
        /\ MainDec(i.opcode).MemWrite = 0 /\ MainDec(i.opcode).Branch = 0
        /\ MainDec(i.opcode).jal = 0 /\ MainDec(i.opcode).jalr = 0
        /\ MainDec(i.opcode).ResultSrc = 0
  BY DEF MainDec, Controls
<1>5. i.opcode = "CSR" => MainDec(i.opcode).MemWrite = 0
  BY DEF MainDec, Controls
<1>6. AluDec(i, 0) = ADD
  BY DEF AluDec
<1> QED BY <1>1, <1>2, <1>3, <1>4, <1>5, <1>6 DEF Controller, CsrBit, NoControls

\* A flushed slot and a reset slot are recognised as empty.
LEMMA EmptySlots ==
  /\ ~Live(FlushedFD) /\ ~Live(FlushedDE) /\ ~Live(ResetFD) /\ ~Live(ResetDE)
  /\ \A w, p \in Word : Live([Instr |-> w, PC |-> p, PC_Plus4 |-> Plus(p, 4)])
BY WordFacts, ResetAssumption DEF Live, FlushedFD, FlushedDE, ResetFD, ResetDE

-----------------------------------------------------------------------------
(* The three things a clock edge can do to the front of the pipeline.       *)

LEMMA ForwardValues ==
  ASSUME NEW rs PROVE Forward(rs) \in {0, 1, 2}
BY DEF Forward

LEMMA PCSrcFacts ==
  ASSUME HazardInv
  PROVE  /\ PCSrc \in {0, 1, 2}
         /\ ~Live(DE) => PCSrc = 0 /\ ~lwStall
         /\ lwStall => Live(DE) /\ DE.ctl.ResultSrc = 1 /\ PCSrc = 0
         /\ DE.ctl.ResultSrc = 2 => PCSrc # 0
<1>1. PCSrc \in {0, 1, 2}
  BY DEF PCSrc
<1>2. ~Live(DE) => PCSrc = 0 /\ ~lwStall
  BY DEF HazardInv, BubbleSlots, PCSrc, lwStall
<1>3. lwStall => DE.ctl.ResultSrc = 1
  BY DEF HazardInv, TypeOK, DEType, Control, lwStall
<1>4. Live(DE) => /\ DE.ctl.ResultSrc = 1 => PCSrc = 0
                  /\ DE.ctl.ResultSrc = 2 => PCSrc # 0
  BY WireTypes, ControllerFacts DEF HazardInv, ControlsDecoded, PCSrc
<1>5. DE.ctl.ResultSrc = 2 => Live(DE)
  BY DEF HazardInv, BubbleSlots
<1> QED BY <1>1, <1>2, <1>3, <1>4, <1>5

LEMMA FrontEnd ==
  ASSUME HazardInv, Clock
  PROVE  \/ /\ lwStall /\ PCSrc = 0
            /\ PC' = PC /\ FD' = FD /\ DE' = FlushedDE
         \/ /\ ~lwStall /\ PCSrc # 0
            /\ FD' = FlushedFD /\ DE' = FlushedDE
         \/ /\ Latching
            /\ PC' = Plus(PC, 4) /\ DE' = DecodedDE
            /\ FD' = [Instr |-> mem[Index(PC)], PC |-> PC, PC_Plus4 |-> Plus(PC, 4)]
<1> PICK aluE \in AluResults(DE.ctl.ALUControl, SrcA, SrcB) :
      FetchStage(aluE) /\ ExecuteStage(aluE)
  BY DEF Clock, CoreClock
<1>1. DecodeStage
  BY DEF Clock, CoreClock
<1> QED BY <1>1, PCSrcFacts DEF FetchStage, DecodeStage, PCNext, Mux3, Latching

-----------------------------------------------------------------------------
(* Hazard handling.                                                         *)

LEMMA HazardInit == Init => HazardInv
<1> SUFFICES ASSUME Init PROVE HazardInv
  OBVIOUS
<1>1. TypeOK
  BY TypeInit
<1>2. ~Live(FD) /\ ~Live(DE)
  BY EmptySlots DEF Init, AtReset
<1>3. BubbleSlots
  BY <1>2 DEF Init, AtReset, BubbleSlots, ResetFD, ResetDE, NoControls
<1> QED BY <1>1, <1>2, <1>3
    DEF HazardInv, ControlsDecoded, OperandsLatched, LoadGap, InOrder

LEMMA HazardStep == HazardInv /\ [Next]_vars => HazardInv'
<1> SUFFICES ASSUME HazardInv, [Next]_vars PROVE HazardInv'
  OBVIOUS
<1> USE DEF HazardInv
<1>1. TypeOK'
  BY TypeStep
<1>2. CASE Clock
  <2>1. MW' = [ResultSrc |-> EM.ResultSrc, RegWrite |-> EM.RegWrite,
               ALUResult |-> EM.ALUResult, PC_Plus4 |-> EM.PC_Plus4,
               Instr |-> EM.Instr, ReadData |-> ReadData]
    BY <1>2 DEF Clock, CoreClock, MemoryStage
  <2>2. /\ EM'.ResultSrc = DE.ctl.ResultSrc /\ EM'.RegWrite = DE.ctl.RegWrite
        /\ EM'.Instr = DE.Instr
    BY <1>2 DEF Clock, CoreClock, ExecuteStage
  <2>3. CASE DE' = FlushedDE /\ ((FD' = FD /\ PC' = PC) \/ FD' = FlushedFD)
    <3>1. ~Live(DE)'
      BY <2>3, EmptySlots DEF Live
    <3>2. BubbleSlots'
      <4>1. DE'.ctl = NoControls
        BY <2>3 DEF FlushedDE
      <4>2. ~Live(FD)' => FD'.Instr \in {0, NopWord}
        BY <2>3 DEF BubbleSlots, Live, FlushedFD
      <4> QED BY <4>1, <4>2 DEF BubbleSlots, NoControls
    <3>3. InOrder'
      BY <2>3, <3>1, EmptySlots DEF InOrder, Live
    <3> QED BY <1>1, <3>1, <3>2, <3>3
        DEF ControlsDecoded, OperandsLatched, LoadGap
  <2>4. CASE /\ Latching
             /\ PC' = Plus(PC, 4) /\ DE' = DecodedDE
             /\ FD' = [Instr |-> mem[Index(PC)], PC |-> PC, PC_Plus4 |-> Plus(PC, 4)]
    <3>1. Live(DE)' <=> Live(FD)
      BY <2>4 DEF Live, DecodedDE
    <3>2. Live(FD)'
      BY <2>4 DEF Live
    <3>3. InstrE' = InstrD /\ DE'.ctl = Controller(InstrD)
      BY <2>4 DEF InstrE, InstrD, DecodedDE
    <3>4. InstrM' = InstrE /\ InstrW' = InstrM
      BY <2>1, <2>2 DEF InstrM, InstrE, InstrW
    <3>5. ControlsDecoded'
      BY <2>4, <3>3 DEF ControlsDecoded, DecodedDE
    <3>6. BubbleSlots'
      <4> SUFFICES ASSUME ~Live(DE)'
                   PROVE  /\ DE'.ctl.RegWrite = 1 => InstrE'.rd = 0
                          /\ DE'.ctl.MemWrite = 0 /\ DE'.ctl.Csr = 0 /\ DE'.ctl.Branch = 0
                          /\ DE'.ctl.jal = 0 /\ DE'.ctl.jalr = 0 /\ DE'.ctl.ResultSrc = 0
        BY <3>2 DEF BubbleSlots
      <4>1. FD.Instr \in {0, NopWord}
        BY <3>1 DEF BubbleSlots
      <4>2. CASE FD.Instr = 0
        BY <4>2, <3>3, WireTypes, DecodeAssumption, ControllerFacts DEF InstrD, NoControls
      <4>3. CASE FD.Instr = NopWord
        BY <4>3, <3>3, WireTypes, DecodeAssumption, ControllerFacts DEF InstrD
      <4> QED BY <4>1, <4>2, <4>3
    <3>7. OperandsLatched'
      <4>1. ASSUME NEW rs \in Reg, Forward(rs)' = 0
            PROVE  Forwarded(rs, RegRead(rs)) = RegRead(rs)'
        <5>1. CASE rs = 0
          BY <5>1 DEF Forwarded, Forward, RegRead, Mux3
        <5>2. CASE rs # 0
          <6>1. Forward(rs) # 2
            BY <4>1, <5>2, <2>1, <3>4 DEF Forward
          <6>2. CASE Forward(rs) = 1
            <7>1. MW.RegWrite = 1 /\ InstrW.rd = rs
              BY <6>2 DEF Forward
            <7>2. rf'[rs] = Result
              BY <1>2, <5>2, <7>1 DEF Clock, CoreClock, WritebackStage, TypeOK
            <7> QED BY <5>2, <6>2, <7>2 DEF Forwarded, Mux3, RegRead
          <6>3. CASE Forward(rs) = 0
            <7>1. ~(MW.RegWrite = 1 /\ InstrW.rd = rs)
              BY <5>2, <6>3 DEF Forward
            <7>2. rf'[rs] = rf[rs]
              BY <1>2, <5>2, <7>1 DEF Clock, CoreClock, WritebackStage, TypeOK
            <7> QED BY <5>2, <6>3, <7>2 DEF Forwarded, Mux3, RegRead
          <6> QED BY <6>1, <6>2, <6>3, ForwardValues
        <5> QED BY <5>1, <5>2
      <4>2. InstrD.rs1 \in Reg /\ InstrD.rs2 \in Reg
        BY WireTypes DEF Instr
      <4>3. DE'.RD1 = RD1D_H /\ DE'.RD2 = RD2D_H
        BY <2>4 DEF DecodedDE
      <4>4. Forward(InstrE.rs1)' = 0 => DE'.RD1 = RegRead(InstrE.rs1)'
        BY <3>3, <4>1, <4>2, <4>3 DEF RD1D_H, Forward, RegRead
      <4>5. Forward(InstrE.rs2)' = 0 => DE'.RD2 = RegRead(InstrE.rs2)'
        BY <3>3, <4>1, <4>2, <4>3 DEF RD2D_H, Forward, RegRead
      <4> QED BY <4>4, <4>5 DEF OperandsLatched
    <3>8. LoadGap'
      <4> SUFFICES ASSUME EM'.ResultSrc # 0
                   PROVE  InstrM'.rd \notin {InstrE'.rs1, InstrE'.rs2}
        BY DEF LoadGap
      <4>1. DE.ctl.ResultSrc = 1
        BY <2>2, <2>4, PCSrcFacts DEF Latching, TypeOK, DEType, Control
      <4> QED BY <4>1, <2>4, <3>3, <3>4 DEF Latching, lwStall
    <3>9. InOrder'
      BY <2>4, <3>1, <3>2 DEF InOrder, DecodedDE
    <3> QED BY <1>1, <3>5, <3>6, <3>7, <3>8, <3>9
  <2> QED BY <1>2, <2>3, <2>4, FrontEnd
<1>3. CASE Reset
  <2>1. ~Live(FD)' /\ ~Live(DE)'
    BY <1>3, EmptySlots DEF Reset, CoreReset, Live
  <2>2. BubbleSlots'
    BY <1>3 DEF Reset, CoreReset, BubbleSlots, ResetFD, ResetDE, NoControls
  <2> QED BY <1>1, <2>1, <2>2
      DEF ControlsDecoded, OperandsLatched, LoadGap, InOrder
<1>4. CASE UNCHANGED vars
  BY <1>1, <1>4 DEF vars, ControlsDecoded, BubbleSlots, OperandsLatched, LoadGap, InOrder,
     Live, InstrE, InstrM, InstrW, Forward, RegRead
<1> QED BY <1>2, <1>3, <1>4 DEF Next

LEMMA HazardInvariant == Spec => []HazardInv
<1> QED BY HazardInit, HazardStep, PTL DEF Spec

\* The forwarded value of a source register is its architectural value.
LEMMA ForwardedIsCurrent ==
  ASSUME HazardInv, NEW rs \in Reg, NEW RD,
         EM.RegWrite = 1 /\ EM.ResultSrc # 0 => InstrM.rd = 0 \/ InstrM.rd # rs,
         Forward(rs) = 0 => RD = RegRead(rs)
  PROVE  Forwarded(rs, RD) = ArchReg(rs)
<1>1. CASE rs = 0
  BY <1>1 DEF Forwarded, Forward, Mux3, RegRead, ArchReg
<1>2. CASE rs # 0 /\ EM.RegWrite = 1 /\ InstrM.rd = rs
  <2>1. ResultM = EM.ALUResult
    BY <1>2 DEF ResultM, Mux3
  <2> QED BY <1>2, <2>1 DEF Forwarded, Forward, Mux3, ArchReg
<1>3. CASE rs # 0 /\ ~(EM.RegWrite = 1 /\ InstrM.rd = rs) /\ MW.RegWrite = 1 /\ InstrW.rd = rs
  BY <1>3 DEF Forwarded, Forward, Mux3, ArchReg
<1>4. CASE /\ rs # 0
           /\ ~(EM.RegWrite = 1 /\ InstrM.rd = rs)
           /\ ~(MW.RegWrite = 1 /\ InstrW.rd = rs)
  BY <1>4 DEF Forwarded, Forward, Mux3, RegRead, ArchReg
<1> QED BY <1>1, <1>2, <1>3, <1>4

LEMMA OperandsFromInv == HazardInv => OperandsCurrent
<1> SUFFICES ASSUME HazardInv, Live(DE)
             PROVE  RD1E_H = ArchReg(InstrE.rs1) /\ RD2E_H = ArchReg(InstrE.rs2)
  BY DEF OperandsCurrent
<1>1. InstrE.rs1 \in Reg /\ InstrE.rs2 \in Reg
  BY WireTypes DEF HazardInv, Instr
<1>2. EM.RegWrite = 1 /\ EM.ResultSrc # 0 =>
        InstrM.rd = 0 \/ (InstrM.rd # InstrE.rs1 /\ InstrM.rd # InstrE.rs2)
  BY DEF HazardInv, LoadGap
<1>3. /\ Forward(InstrE.rs1) = 0 => DE.RD1 = RegRead(InstrE.rs1)
      /\ Forward(InstrE.rs2) = 0 => DE.RD2 = RegRead(InstrE.rs2)
  BY DEF HazardInv, OperandsLatched
<1>4. RD1E_H = ArchReg(InstrE.rs1)
  BY <1>1, <1>2, <1>3, ForwardedIsCurrent DEF RD1E_H
<1>5. RD2E_H = ArchReg(InstrE.rs2)
  BY <1>1, <1>2, <1>3, ForwardedIsCurrent DEF RD2E_H
<1> QED BY <1>4, <1>5

\* The inductive invariant holds in every reachable state.
THEOREM HazardsInvariant == Spec => []HazardInv
BY HazardInvariant

\* Forwarding is sufficient: the instruction in execute always sees what every
\* older one leaves in its source registers.
THEOREM OperandsAreCurrent == Spec => []OperandsCurrent
BY OperandsFromInv, HazardInvariant, PTL

\* Stalls and flushes neither lose nor repeat an instruction.
THEOREM SlotsInOrder == Spec => []InOrder
<1>1. HazardInv => InOrder
  BY DEF HazardInv
<1> QED BY <1>1, HazardInvariant, PTL

\* Flushed and reset slots do nothing.
THEOREM BubblesDoNothing == Spec => []BubblesHarmless
<1>1. HazardInv => BubblesHarmless
  BY PCSrcFacts DEF HazardInv, BubbleSlots, BubblesHarmless
<1> QED BY <1>1, HazardInvariant, PTL

\* No flush is lost to a stall.
THEOREM FlushesWin == Spec => []FlushNotLost
<1>1. HazardInv => FlushNotLost
  BY PCSrcFacts DEF FlushNotLost
<1> QED BY <1>1, HazardInvariant, PTL

\* The bubble that a stall leaves behind is no load.
LEMMA StallEnds ==
  ASSUME HazardInv, Clock, lwStall PROVE ~lwStall'
<1>1. DE' = FlushedDE
  BY FrontEnd DEF Latching
<1> QED BY <1>1 DEF FlushedDE, NoControls, lwStall

\* The core never stalls twice in a row: after a stall the execute slot holds
\* a bubble, which is no load.
THEOREM StallsLastOnce == Spec => StallOnce
<1>1. HazardInv /\ [Next]_vars => [lwStall => ~lwStall']_vars
  <2> SUFFICES ASSUME HazardInv, Next, lwStall PROVE ~lwStall'
    BY DEF vars, lwStall, InstrD, InstrE
  <2>1. CASE Clock
    BY <2>1, StallEnds
  <2>2. CASE Reset
    BY <2>2 DEF Reset, CoreReset, ResetDE, NoControls, lwStall
  <2> QED BY <2>1, <2>2 DEF Next
<1> QED BY <1>1, HazardInvariant, PTL DEF Spec, StallOnce

\* tohost, written in the execute stage and so ahead of everything older,
\* never overtakes a store: when it changes no store is left in flight.
THEOREM TohostOrdered == Spec => TohostAfterStores
<1>1. HazardInv /\ [Next]_vars => [tohost_csr' # tohost_csr => ArchMem' = mem']_vars
  <2> SUFFICES ASSUME HazardInv, Next, tohost_csr' # tohost_csr PROVE ArchMem' = mem'
    OBVIOUS
  <2>1. CASE Clock
    <3>1. DE.ctl.Csr = 1 /\ EM'.MemWrite = DE.ctl.MemWrite
      BY <2>1 DEF Clock, CoreClock, ExecuteStage
    <3>2. Live(DE)
      BY <3>1 DEF HazardInv, BubbleSlots
    <3>3. DE.ctl.MemWrite = 0
      BY <3>1, <3>2, WireTypes, ControllerFacts DEF HazardInv, ControlsDecoded
    <3> QED BY <3>1, <3>3 DEF ArchMem, MemNext
  <2>2. CASE Reset
    BY <2>2 DEF Reset, CoreReset, ResetEM, ArchMem, MemNext
  <2> QED BY <2>1, <2>2 DEF Next
<1> QED BY <1>1, HazardInvariant, PTL DEF Spec, TohostAfterStores

-----------------------------------------------------------------------------
(* Progress.                                                                *)

\* An empty execute slot takes what stands in decode, and decode is filled.
LEMMA SlotsFill ==
  ASSUME HazardInv, Clock, ~Live(DE)
  PROVE  Live(FD)' /\ (Live(DE)' <=> Live(FD))
<1>1. /\ DE' = DecodedDE
      /\ FD' = [Instr |-> mem[Index(PC)], PC |-> PC, PC_Plus4 |-> Plus(PC, 4)]
  BY FrontEnd, PCSrcFacts
<1> QED BY <1>1 DEF DecodedDE, Live

\* Whatever the program does, the core cannot lock up: as long as the clock
\* ticks again and again, an instruction is executed again and again and the
\* fetch is released again and again.  An empty slot is filled within two
\* edges, and a stall ends with the next edge.
THEOREM NeverLocksUp ==
  Init /\ [][Clock]_vars /\ []<><<Clock>>_vars => Progress
<1>1. Init /\ [][Clock]_vars => []HazardInv
  <2>1. [Clock]_vars => [Next]_vars
    BY DEF Next
  <2> QED BY <2>1, HazardInvariant, PTL DEF Spec
<1>2. HazardInv /\ <<Clock>>_vars /\ ~Live(DE) => Live(FD)' /\ (Live(DE)' <=> Live(FD))
  BY SlotsFill
<1>3. HazardInv /\ <<Clock>>_vars /\ lwStall => ~lwStall'
  BY StallEnds
<1>4. UNCHANGED vars => (Live(DE)' <=> Live(DE)) /\ (Live(FD)' <=> Live(FD))
  BY DEF vars, Live
<1> QED BY <1>1, <1>2, <1>3, <1>4, PTL DEF Progress

-----------------------------------------------------------------------------
(***************************************************************************)
(* The refinement: the pipeline implements the sequential machine Isa, for *)
(* every program that keeps its stores away from the code in flight.       *)
(*                                                                         *)
(* Each rising edge is one instruction of Isa, the one that leaves the     *)
(* execute stage, or a stuttering step when that slot is empty.            *)
(***************************************************************************)

(* What one rising edge does to the architectural state.                    *)

\* The memory: the store in the execute slot, if there is one, becomes the
\* store in flight; the one that was in flight is carried out.
LEMMA MemRetire ==
  ASSUME HazardInv, MemoryStage, NEW aluE \in Word, ExecuteStage(aluE)
  PROVE  /\ mem' = ArchMem
         /\ ArchMem' = IF DE.ctl.MemWrite = 1 /\ aluE \in MemRegion
                       THEN [ArchMem EXCEPT ![Index(aluE)] =
                               Stored(ArchMem[Index(aluE)], aluE, InstrE.funct3, RD2E_H)]
                       ELSE ArchMem
<1>1. mem' = ArchMem
  BY DEF MemoryStage, ArchMem
<1>2. /\ EM'.MemWrite = DE.ctl.MemWrite /\ EM'.ALUResult = aluE
      /\ EM'.WriteData = RD2E_H /\ InstrM' = InstrE
  BY DEF ExecuteStage, InstrM, InstrE
<1>3. ArchMem' = IF EM'.MemWrite = 1 /\ EM'.ALUResult \in MemRegion
                 THEN [mem' EXCEPT ![Index(EM'.ALUResult)] =
                         Stored(mem'[Index(EM'.ALUResult)], EM'.ALUResult,
                                InstrM'.funct3, EM'.WriteData)]
                 ELSE mem'
  BY DEF ArchMem, MemNext
<1> QED BY <1>1, <1>2, <1>3

\* The registers: only the destination of the instruction in execute changes.
LEMMA RegsRetire ==
  ASSUME HazardInv, HazardInv', MemoryStage, WritebackStage,
         NEW aluE \in Word, ExecuteStage(aluE)
  PROVE  ArchRegs' = IF DE.ctl.RegWrite = 1 /\ InstrE.rd # 0
                     THEN [ArchRegs EXCEPT ![InstrE.rd] = ResultM']
                     ELSE ArchRegs
<1>1. EM'.RegWrite = DE.ctl.RegWrite /\ InstrM' = InstrE
  BY DEF ExecuteStage, InstrM, InstrE
<1>2. MW'.RegWrite = EM.RegWrite /\ InstrW' = InstrM
  BY DEF MemoryStage, InstrM, InstrW
<1>3. Result' = ResultM
  BY DEF MemoryStage, Result, ResultM, InstrM, InstrW
<1>4. \A r \in Reg : rf'[r] = IF MW.RegWrite = 1 /\ InstrW.rd # 0 /\ InstrW.rd = r
                              THEN Result ELSE rf[r]
  BY DEF WritebackStage, HazardInv, TypeOK
<1>5. \A r \in Reg : ArchReg(r)' = IF r # 0 /\ DE.ctl.RegWrite = 1 /\ InstrE.rd = r
                                   THEN ResultM' ELSE ArchReg(r)
  <2> SUFFICES ASSUME NEW r \in Reg
               PROVE  ArchReg(r)' = IF r # 0 /\ DE.ctl.RegWrite = 1 /\ InstrE.rd = r
                                    THEN ResultM' ELSE ArchReg(r)
    OBVIOUS
  <2>1. CASE r = 0
    BY <2>1 DEF ArchReg
  <2>2. CASE r # 0
    <3>1. ArchReg(r)' = IF EM'.RegWrite = 1 /\ InstrM'.rd = r THEN ResultM'
                        ELSE IF MW'.RegWrite = 1 /\ InstrW'.rd = r THEN Result'
                        ELSE rf'[r]
      BY <2>2 DEF ArchReg
    <3>2. ArchReg(r) = IF EM.RegWrite = 1 /\ InstrM.rd = r THEN ResultM
                       ELSE IF MW.RegWrite = 1 /\ InstrW.rd = r THEN Result
                       ELSE rf[r]
      BY <2>2 DEF ArchReg
    <3> QED BY <2>2, <3>1, <3>2, <1>1, <1>2, <1>3, <1>4
  <2> QED BY <2>1, <2>2
<1>6. InstrE.rd \in Reg
  BY WireTypes DEF HazardInv, Instr
<1>7. ArchRegs = [r \in Reg |-> ArchReg(r)] /\ ArchRegs' = [r \in Reg |-> ArchReg(r)']
  BY DEF ArchRegs
<1> QED BY <1>5, <1>6, <1>7

\* The program counter: straight on, unless the branch logic redirects it.
LEMMA PcRetire ==
  ASSUME HazardInv, Clock, NEW aluE \in Word, FetchStage(aluE)
  PROVE  ArchPC' = IF ~Live(DE) THEN ArchPC
                   ELSE IF PCSrc = 1 THEN Plus(DE.PC, DE.ImmExt)
                   ELSE IF PCSrc = 2 THEN aluE
                   ELSE Plus(DE.PC, 4)
<1> USE DEF HazardInv
<1>1. Live(DE) => Live(FD) /\ FD.PC = Plus(DE.PC, 4)
  BY DEF InOrder, Live
<1>2. CASE /\ lwStall /\ PCSrc = 0
           /\ PC' = PC /\ FD' = FD /\ DE' = FlushedDE
  <2>1. Live(DE)
    BY <1>2, PCSrcFacts
  <2>2. ~Live(DE)' /\ Live(FD)'
    BY <1>1, <1>2, <2>1, EmptySlots DEF Live
  <2> QED BY <1>1, <1>2, <2>1, <2>2 DEF ArchPC
<1>3. CASE /\ ~lwStall /\ PCSrc # 0
           /\ FD' = FlushedFD /\ DE' = FlushedDE
  <2>1. Live(DE) /\ PCSrc \in {1, 2}
    BY <1>3, PCSrcFacts
  <2>2. ~Live(DE)' /\ ~Live(FD)'
    BY <1>3, EmptySlots DEF Live
  <2>3. PC' = IF PCSrc = 1 THEN Plus(DE.PC, DE.ImmExt) ELSE aluE
    BY <1>3, <2>1 DEF FetchStage, PCNext, Mux3
  <2> QED BY <2>1, <2>2, <2>3 DEF ArchPC
<1>4. CASE /\ Latching
           /\ PC' = Plus(PC, 4) /\ DE' = DecodedDE
           /\ FD' = [Instr |-> mem[Index(PC)], PC |-> PC, PC_Plus4 |-> Plus(PC, 4)]
  <2>1. /\ DE'.PC = FD.PC /\ FD'.PC = PC /\ PCSrc = 0
        /\ Live(DE)' <=> Live(FD)
        /\ Live(FD)'
    BY <1>4 DEF Live, DecodedDE, Latching
  <2> QED BY <1>1, <2>1 DEF ArchPC
<1> QED BY <1>2, <1>3, <1>4, FrontEnd

-----------------------------------------------------------------------------
(* The words in flight.                                                     *)

\* A store leaves execute with the address that CodeStable speaks of.
LEMMA StoreAddress ==
  ASSUME HazardInv, DE.ctl.MemWrite = 1,
         NEW aluE \in AluResults(DE.ctl.ALUControl, SrcA, SrcB)
  PROVE  aluE = StoreAddrE
<1> USE DEF HazardInv
<1>1. Live(DE)
  BY DEF BubbleSlots
<1>2. DE.ctl = Controller(InstrE) /\ InstrE \in Instr
  BY <1>1, WireTypes DEF ControlsDecoded
<1>3. MainDec(InstrE.opcode).MemWrite = 1 => MainDec(InstrE.opcode).ALUop = 0
  BY DEF MainDec, Controls
<1>4. AluDec(InstrE, 0) = ADD
  BY DEF AluDec
<1>5. DE.ctl.ALUControl = ADD
  BY <1>2, <1>3, <1>4 DEF Controller
<1>6. aluE = Alu(ADD, SrcA, SrcB)
  BY <1>5 DEF AluResults, ADD, BRU
<1> QED BY <1>6, WireTypes, AluAssumption DEF StoreAddrE

LEMMA CoherentStep ==
  HazardInv /\ HazardInv' /\ FetchCoherent /\ [CodeStable /\ Next]_vars => FetchCoherent'
<1> SUFFICES ASSUME HazardInv, HazardInv', FetchCoherent, [CodeStable /\ Next]_vars
             PROVE  FetchCoherent'
  OBVIOUS
<1> USE DEF HazardInv
<1>1. CASE CodeStable /\ Clock
  <2> PICK aluE \in AluResults(DE.ctl.ALUControl, SrcA, SrcB) :
        FetchStage(aluE) /\ ExecuteStage(aluE)
    BY <1>1 DEF Clock, CoreClock
  <2>1. aluE \in Word /\ MemoryStage
    BY <1>1, WireTypes, AluType DEF Clock, CoreClock, TypeOK, DEType, Control
  <2> DEFINE stores == DE.ctl.MemWrite = 1 /\ aluE \in MemRegion
  <2>2. ArchMem' = IF stores
                   THEN [ArchMem EXCEPT ![Index(aluE)] =
                           Stored(ArchMem[Index(aluE)], aluE, InstrE.funct3, RD2E_H)]
                   ELSE ArchMem
    BY <2>1, MemRetire
  <2>3. ArchMem \in [0 .. Depth - 1 -> Word]
    BY WireTypes DEF ArchMem
  <2>4. stores => /\ Live(FD) => Index(aluE) # Index(FD.PC)
                  /\ Index(aluE) # Index(PC)
    BY <1>1, StoreAddress DEF CodeStable
  <2>5. \A i \in 0 .. Depth - 1 : (stores => Index(aluE) # i) => ArchMem'[i] = ArchMem[i]
    BY <2>2, <2>3
  <2>6. Index(PC) \in 0 .. Depth - 1 /\ Index(FD.PC) \in 0 .. Depth - 1
    BY WordFacts DEF TypeOK, FDType
  <2>7. Live(FD) => FD.Instr = ArchMem'[Index(FD.PC)]
    BY <2>4, <2>5, <2>6 DEF FetchCoherent
  <2>8. CASE DE' = FlushedDE /\ (FD' = FD \/ FD' = FlushedFD)
    <3>1. ~Live(DE)'
      BY <2>8, EmptySlots DEF Live
    <3>2. Live(FD)' => FD' = FD
      BY <2>8, EmptySlots DEF Live
    <3> QED BY <2>7, <3>1, <3>2 DEF FetchCoherent, Live
  <2>9. CASE /\ Latching
             /\ PC' = Plus(PC, 4) /\ DE' = DecodedDE
             /\ FD' = [Instr |-> mem[Index(PC)], PC |-> PC, PC_Plus4 |-> Plus(PC, 4)]
    <3>1. mem[Index(PC)] = ArchMem[Index(PC)]
      BY <1>1, <2>6, <2>9, WordFacts DEF CodeStable, ArchMem, MemNext, TypeOK, EMType
    <3>2. FD'.Instr = ArchMem'[Index(FD'.PC)]
      BY <2>4, <2>5, <2>6, <2>9, <3>1
    <3>3. Live(DE)' => DE'.Instr = ArchMem'[Index(DE'.PC)]
      BY <2>7, <2>9 DEF Live, DecodedDE
    <3> QED BY <3>2, <3>3 DEF FetchCoherent
  <2> QED BY <1>1, <2>8, <2>9, FrontEnd
<1>2. CASE Reset
  BY <1>2, EmptySlots DEF Reset, CoreReset, Live, FetchCoherent
<1>3. CASE UNCHANGED vars
  BY <1>3 DEF vars, FetchCoherent, Live, ArchMem, MemNext, InstrM
<1> QED BY <1>1, <1>2, <1>3 DEF Next

\* Under CodeStable the instructions in fetch and execute are those the
\* program's memory holds.
THEOREM FetchIsCoherent == CodeStableSpec => [](HazardInv /\ FetchCoherent)
<1>1. Init => HazardInv /\ FetchCoherent
  BY HazardInit, EmptySlots DEF Init, AtReset, FetchCoherent, Live
<1>2. HazardInv /\ [CodeStable /\ Next]_vars => HazardInv'
  BY HazardStep
<1> QED BY <1>1, <1>2, CoherentStep, PTL DEF CodeStableSpec

-----------------------------------------------------------------------------
(* The instruction in execute, seen by both machines.                       *)

\* The controller passes on the row of the main decoder.  (controller.sv)
LEMMA ControllerFields ==
  ASSUME NEW i \in Instr
  PROVE  LET c == Controller(i)
             m == MainDec(i.opcode)
         IN  /\ c.RegWrite = m.RegWrite /\ c.MemWrite = m.MemWrite
             /\ c.ResultSrc = m.ResultSrc /\ c.Csr = CsrBit(i.opcode)
             /\ c.Branch = m.Branch /\ c.jal = m.jal /\ c.jalr = m.jalr
             /\ c.ALUSrcA = m.ALUSrcA /\ c.ALUSrcB = m.ALUSrcB
             /\ c.ALUControl = IF m.ALUop = 0 THEN ADD ELSE AluDec(i, m.ALUop)
<1>1. AluDec(i, 0) = ADD
  BY DEF AluDec
<1> QED BY <1>1 DEF Controller

\* The sequential machine executes the instruction in the execute slot, with
\* the operands that the forwarding multiplexers deliver.
LEMMA SameInstruction ==
  ASSUME HazardInv, FetchCoherent, Live(DE)
  PROVE  /\ ArchPC = DE.PC
         /\ ISA!I = InstrE
         /\ ISA!Rs1 = RD1E_H /\ ISA!Rs2 = RD2E_H
<1>1. ArchPC = DE.PC
  BY DEF ArchPC
<1>2. ISA!I = InstrE
  BY <1>1 DEF ISA!I, ISA!Index, Index, FetchCoherent, InstrE
<1>3. InstrE.rs1 \in Reg /\ InstrE.rs2 \in Reg
  BY WireTypes DEF HazardInv, Instr
<1>4. ISA!Rs1 = RD1E_H /\ ISA!Rs2 = RD2E_H
  BY <1>2, <1>3, OperandsFromInv DEF ISA!Rs1, ISA!Rs2, ArchRegs, OperandsCurrent
<1> QED BY <1>1, <1>2, <1>4

\* Both machines give an arithmetic instruction the same operation.  (aludec.sv)
LEMMA SameOperation ==
  ASSUME HazardInv, ISA!I = InstrE, InstrE.opcode \in {"R", "IALU"}
  PROVE  ISA!Operation = AluDec(InstrE, 2)
<1>1. InstrE.funct3 \in 0 .. 7 /\ InstrE.funct7 \in 0 .. 127
  BY WireTypes DEF HazardInv, Instr
<1>2. Funct7_5(InstrE) \in {0, 1}
  BY <1>1 DEF Funct7_5
<1>3. ISA!Funct7_5(InstrE) = Funct7_5(InstrE)
  BY DEF ISA!Funct7_5, Funct7_5
<1> USE DEF ISA!MUL, ISA!ADD, ISA!SUB, ISA!SLL, ISA!SLT, ISA!SLTU, ISA!XOR,
            ISA!SRL, ISA!SRA, ISA!OR, ISA!AND,
            MUL, ADD, SUB, SLL, SLT, SLTU, XOR, SRL, SRA, OR, AND
<1>4. CASE InstrE.opcode = "R" /\ InstrE.funct7 = 1
  BY <1>4 DEF ISA!Operation, AluDec
<1>5. CASE ~(InstrE.opcode = "R" /\ InstrE.funct7 = 1)
  <2>1. CASE InstrE.funct3 = 0
    BY <1>3, <1>5, <2>1 DEF ISA!Operation, AluDec, Opcode5
  <2>2. CASE InstrE.funct3 \in 1 .. 4
    BY <1>5, <2>2 DEF ISA!Operation, AluDec
  <2>3. CASE InstrE.funct3 = 5
    BY <1>2, <1>3, <1>5, <2>3 DEF ISA!Operation, AluDec
  <2>4. CASE InstrE.funct3 \in 6 .. 7
    BY <1>5, <2>4 DEF ISA!Operation, AluDec
  <2> QED BY <1>1, <2>1, <2>2, <2>3, <2>4
<1> QED BY <1>4, <1>5

\* Both machines take the same branches.  (Branch_Logic.sv)
LEMMA SameDecision ==
  ASSUME HazardInv, FetchCoherent, Live(DE), InstrE.opcode = "B"
  PROVE  ISA!Taken <=> Btaken(InstrE.funct3, ALUFlags, SrcB)
<1> DEFINE a == RD1E_H
           b == RD2E_H
<1>1. InstrE \in Instr /\ DE.ctl = Controller(InstrE) /\ a \in Word /\ b \in Word
  BY WireTypes DEF HazardInv, ControlsDecoded
<1>2. /\ DE.ctl.ALUSrcA = 0 /\ DE.ctl.ALUSrcB = 0
      /\ DE.ctl.ALUControl = AluDec(InstrE, 1)
  BY <1>1, ControllerFields DEF MainDec, Controls
<1>3. SrcA = a /\ SrcB = b
  BY <1>2 DEF SrcA, SrcB, Mux3
<1>4. ALUFlags = Flags(IF InstrE.funct3 \in {0, 1, 4, 5} THEN SUB ELSE BRU, a, b)
  BY <1>2, <1>3 DEF ALUFlags, AluDec
<1>5. /\ Flags(SUB, a, b).Z = (IF a = b THEN 1 ELSE 0)
      /\ Flags(SUB, a, b).N # Flags(SUB, a, b).V <=> Alu(SLT, a, b) = 1
      /\ Flags(BRU, a, b).C = (IF a >= b THEN 1 ELSE 0)
  BY <1>1, FlagsAssumption
<1>6. a >= 0 /\ a \in Int /\ b \in Int /\ b >= 0
  BY <1>1, SizeAssumption DEF Word
<1>7. InstrE.funct3 \in 0 .. 7
  BY <1>1 DEF Instr
<1>8. ISA!Taken <=> \/ InstrE.funct3 = 0 /\ a = b
                    \/ InstrE.funct3 = 1 /\ a # b
                    \/ InstrE.funct3 = 4 /\ Alu(SLT, a, b) = 1
                    \/ InstrE.funct3 = 5 /\ Alu(SLT, a, b) # 1
                    \/ InstrE.funct3 = 6 /\ a < b
                    \/ InstrE.funct3 = 7 /\ a >= b
  BY SameInstruction DEF ISA!Taken, ISA!SLT, SLT
<1> HIDE DEF a, b
<1> QED BY <1>3, <1>4, <1>5, <1>6, <1>7, <1>8 DEF Btaken

-----------------------------------------------------------------------------
(* Steps of the pipeline are steps of the sequential machine.               *)

\* A rising edge with an instruction in the execute slot executes it.
LEMMA ClockExecutes ==
  ASSUME HazardInv, HazardInv', FetchCoherent, Clock, Live(DE)
  PROVE  ISA!Execute
<1> USE DEF HazardInv
<1> PICK aluE \in AluResults(DE.ctl.ALUControl, SrcA, SrcB) :
      FetchStage(aluE) /\ ExecuteStage(aluE)
  BY DEF Clock, CoreClock
<1>1. aluE \in Word /\ MemoryStage /\ WritebackStage
  BY WireTypes, AluType DEF Clock, CoreClock, TypeOK, DEType, Control
<1>2. /\ InstrE \in Instr /\ DE.ctl = Controller(InstrE)
      /\ DE.ImmExt = Extend(MainDec(InstrE.opcode).ImmSrc, InstrE)
      /\ DE.PC_Plus4 = Plus(DE.PC, 4)
  BY WireTypes DEF ControlsDecoded, Live
<1>3. /\ ISA!I = InstrE /\ ISA!Rs1 = RD1E_H /\ ISA!Rs2 = RD2E_H /\ ArchPC = DE.PC
      /\ RD1E_H \in Word /\ RD2E_H \in Word /\ SrcA \in Word /\ SrcB \in Word
  BY SameInstruction, WireTypes
<1>4. ArchPC' = IF PCSrc = 1 THEN Plus(DE.PC, DE.ImmExt)
                ELSE IF PCSrc = 2 THEN aluE
                ELSE Plus(DE.PC, 4)
  BY <1>1, PcRetire
<1>5. ArchRegs' = IF DE.ctl.RegWrite = 1 /\ InstrE.rd # 0
                  THEN [ArchRegs EXCEPT ![InstrE.rd] = ResultM']
                  ELSE ArchRegs
  BY <1>1, RegsRetire
<1>6. ArchMem' = IF DE.ctl.MemWrite = 1 /\ aluE \in MemRegion
                 THEN [ArchMem EXCEPT ![Index(aluE)] =
                         Stored(ArchMem[Index(aluE)], aluE, InstrE.funct3, RD2E_H)]
                 ELSE ArchMem
  BY <1>1, MemRetire
<1>7. tohost_csr' = IF DE.ctl.Csr = 1 THEN TohostNext ELSE tohost_csr
  BY DEF ExecuteStage
<1>8. ResultM' = Mux3(DE.ctl.ResultSrc, aluE, Loaded(aluE, InstrE.funct3, ReadData'),
                      DE.PC_Plus4)
  BY DEF ExecuteStage, ResultM, InstrM, InstrE
<1>9. PCSrc = IF DE.ctl.Branch = 1 /\ Btaken(InstrE.funct3, ALUFlags, SrcB) THEN 1
              ELSE IF DE.ctl.jal = 1 THEN 1
              ELSE IF DE.ctl.jalr = 1 THEN 2
              ELSE 0
  BY DEF PCSrc
<1> USE DEF ISA!Execute, ISA!SetReg, ISA!Advance, ISA!Plus, Plus
<1>10. CASE InstrE.opcode \in {"R", "IALU"}
  <2>1. /\ DE.ctl.RegWrite = 1 /\ DE.ctl.MemWrite = 0 /\ DE.ctl.Csr = 0
        /\ DE.ctl.ResultSrc = 0 /\ DE.ctl.Branch = 0 /\ DE.ctl.jal = 0 /\ DE.ctl.jalr = 0
        /\ DE.ctl.ALUSrcA = 0 /\ DE.ctl.ALUSrcB = (IF InstrE.opcode = "R" THEN 0 ELSE 1)
        /\ DE.ctl.ALUControl = AluDec(InstrE, 2)
        /\ InstrE.opcode = "IALU" => DE.ImmExt = InstrE.imm[0]
    <3>1. CASE InstrE.opcode = "R"
      BY <1>2, <3>1, ControllerFields DEF MainDec, Controls, CsrBit
    <3>2. CASE InstrE.opcode = "IALU"
      BY <1>2, <3>2, ControllerFields DEF MainDec, Controls, CsrBit, Extend
    <3> QED BY <1>10, <3>1, <3>2
  <2>2. ISA!Operation = AluDec(InstrE, 2)
    BY <1>3, <1>10, SameOperation
  <2>3. AluDec(InstrE, 2) # BRU
    BY <1>2, <1>10 DEF AluDec, Instr, ADD, SUB, AND, OR, XOR, SLT, SLL, SRL, SRA, SLTU, BRU, MUL
  <2>4. /\ SrcA = ISA!Rs1
        /\ SrcB = IF InstrE.opcode = "R" THEN ISA!Rs2 ELSE InstrE.imm[0]
    BY <1>3, <1>10, <2>1 DEF SrcA, SrcB, Mux3
  <2>5. aluE = Alu(ISA!Operation, SrcA, SrcB)
    BY <2>1, <2>2, <2>3 DEF AluResults
  <2>6. ResultM' = aluE /\ PCSrc = 0
    BY <1>8, <1>9, <2>1 DEF Mux3
  <2> QED BY <1>3, <1>4, <1>5, <1>6, <1>7, <1>10, <2>1, <2>4, <2>5, <2>6 DEF ISA!Compute
<1>11. CASE InstrE.opcode = "LOAD"
  <2>1. /\ DE.ctl.RegWrite = 1 /\ DE.ctl.MemWrite = 0 /\ DE.ctl.Csr = 0
        /\ DE.ctl.ResultSrc = 1 /\ DE.ctl.Branch = 0 /\ DE.ctl.jal = 0 /\ DE.ctl.jalr = 0
        /\ DE.ctl.ALUSrcA = 0 /\ DE.ctl.ALUSrcB = 1 /\ DE.ctl.ALUControl = ADD
        /\ DE.ImmExt = InstrE.imm[0]
    BY <1>2, <1>11, ControllerFields DEF MainDec, Controls, CsrBit, Extend
  <2>2. SrcA = ISA!Rs1 /\ SrcB = InstrE.imm[0]
    BY <1>3, <2>1 DEF SrcA, SrcB, Mux3
  <2>3. aluE = Plus(SrcA, SrcB)
    BY <1>3, <2>1, AluAssumption DEF AluResults, ADD, BRU
  <2>4. ReadData' \in IF aluE \in DevRegion THEN DevValues ELSE {ArchMem[Index(aluE)]}
    <3>1. EM'.ALUResult = aluE /\ mem' = ArchMem /\ devData' \in DevValues
      BY <1>1, MemRetire DEF ExecuteStage, Clock, CoreClock
    <3> QED BY <3>1 DEF ReadData
  <2>5. ResultM' = Loaded(aluE, InstrE.funct3, ReadData') /\ PCSrc = 0
    BY <1>8, <1>9, <2>1 DEF Mux3
  <2> QED BY <1>3, <1>4, <1>5, <1>6, <1>7, <1>11, <2>1, <2>2, <2>3, <2>4, <2>5
      DEF ISA!Load, ISA!Index, Index, ISA!Loaded, Loaded
<1>12. CASE InstrE.opcode = "S"
  <2>1. /\ DE.ctl.RegWrite = 0 /\ DE.ctl.MemWrite = 1 /\ DE.ctl.Csr = 0
        /\ DE.ctl.Branch = 0 /\ DE.ctl.jal = 0 /\ DE.ctl.jalr = 0
        /\ DE.ctl.ALUSrcA = 0 /\ DE.ctl.ALUSrcB = 1
        /\ DE.ImmExt = InstrE.imm[1]
    BY <1>2, <1>12, ControllerFields DEF MainDec, Controls, CsrBit, Extend
  <2>2. SrcA = ISA!Rs1 /\ SrcB = InstrE.imm[1] /\ PCSrc = 0
    BY <1>3, <1>9, <2>1 DEF SrcA, SrcB, Mux3
  <2>3. aluE = Plus(SrcA, SrcB)
    BY <2>1, StoreAddress DEF StoreAddrE
  <2>4. ArchMem' = IF aluE \in MemRegion
                   THEN [ArchMem EXCEPT ![ISA!Index(aluE)] =
                           ISA!Stored(ArchMem[ISA!Index(aluE)], aluE, InstrE.funct3, ISA!Rs2)]
                   ELSE ArchMem
    BY <1>3, <1>6, <2>1 DEF ISA!Index, Index, ISA!Stored, Stored
  <2>5. ArchPC' = Plus(DE.PC, 4) /\ UNCHANGED <<ArchRegs, tohost_csr>>
    BY <1>4, <1>5, <1>7, <2>1, <2>2
  <2> QED BY <1>3, <1>12, <2>2, <2>3, <2>4, <2>5 DEF ISA!Store
<1>13. CASE InstrE.opcode = "B"
  <2>1. /\ DE.ctl.RegWrite = 0 /\ DE.ctl.MemWrite = 0 /\ DE.ctl.Csr = 0
        /\ DE.ctl.Branch = 1 /\ DE.ctl.jal = 0 /\ DE.ctl.jalr = 0
        /\ DE.ImmExt = InstrE.imm[2]
    BY <1>2, <1>13, ControllerFields DEF MainDec, Controls, CsrBit, Extend
  <2>2. PCSrc = IF ISA!Taken THEN 1 ELSE 0
    BY <1>9, <1>13, <2>1, SameDecision
  <2> QED BY <1>3, <1>4, <1>5, <1>6, <1>7, <1>13, <2>1, <2>2 DEF ISA!Branch
<1>14. CASE InstrE.opcode = "JAL"
  <2>1. /\ DE.ctl.RegWrite = 1 /\ DE.ctl.MemWrite = 0 /\ DE.ctl.Csr = 0
        /\ DE.ctl.ResultSrc = 2 /\ DE.ctl.Branch = 0 /\ DE.ctl.jal = 1
        /\ DE.ImmExt = InstrE.imm[3]
    BY <1>2, <1>14, ControllerFields DEF MainDec, Controls, CsrBit, Extend
  <2>2. ResultM' = Plus(DE.PC, 4) /\ PCSrc = 1
    BY <1>2, <1>8, <1>9, <2>1 DEF Mux3
  <2> QED BY <1>3, <1>4, <1>5, <1>6, <1>7, <1>14, <2>1, <2>2 DEF ISA!Jump
<1>15. CASE InstrE.opcode = "JALR"
  <2>1. /\ DE.ctl.RegWrite = 1 /\ DE.ctl.MemWrite = 0 /\ DE.ctl.Csr = 0
        /\ DE.ctl.ResultSrc = 2 /\ DE.ctl.Branch = 0 /\ DE.ctl.jal = 0 /\ DE.ctl.jalr = 1
        /\ DE.ctl.ALUSrcA = 0 /\ DE.ctl.ALUSrcB = 1
        /\ DE.ctl.ALUControl = AluDec(InstrE, 2) /\ DE.ImmExt = InstrE.imm[0]
    BY <1>2, <1>15, ControllerFields DEF MainDec, Controls, CsrBit, Extend
  <2>2. SrcA = ISA!Rs1 /\ SrcB = InstrE.imm[0]
    BY <1>3, <2>1 DEF SrcA, SrcB, Mux3
  <2>3. AluDec(InstrE, 2) = ADD
    BY <1>15 DEF AluDec
  <2>4. aluE = Plus(SrcA, SrcB)
    BY <1>3, <2>1, <2>3, AluAssumption DEF AluResults, ADD, BRU
  <2>5. ResultM' = Plus(DE.PC, 4) /\ PCSrc = 2
    BY <1>2, <1>8, <1>9, <2>1 DEF Mux3
  <2> QED BY <1>3, <1>4, <1>5, <1>6, <1>7, <1>15, <2>1, <2>2, <2>4, <2>5 DEF ISA!Jump
<1>16. CASE InstrE.opcode \in {"LUI", "AUIPC"}
  <2>1. /\ DE.ctl.RegWrite = 1 /\ DE.ctl.MemWrite = 0 /\ DE.ctl.Csr = 0
        /\ DE.ctl.ResultSrc = 0 /\ DE.ctl.Branch = 0 /\ DE.ctl.jal = 0 /\ DE.ctl.jalr = 0
        /\ DE.ctl.ALUSrcA = (IF InstrE.opcode = "LUI" THEN 2 ELSE 1)
        /\ DE.ctl.ALUSrcB = 1 /\ DE.ctl.ALUControl = ADD /\ DE.ImmExt = InstrE.imm[4]
    <3>1. CASE InstrE.opcode = "LUI"
      BY <1>2, <3>1, ControllerFields DEF MainDec, Controls, CsrBit, Extend
    <3>2. CASE InstrE.opcode = "AUIPC"
      BY <1>2, <3>2, ControllerFields DEF MainDec, Controls, CsrBit, Extend
    <3> QED BY <1>16, <3>1, <3>2
  <2>2. SrcA = (IF InstrE.opcode = "LUI" THEN 0 ELSE DE.PC) /\ SrcB = InstrE.imm[4]
    BY <1>16, <2>1 DEF SrcA, SrcB, Mux3
  <2>3. aluE = Plus(SrcA, SrcB)
    BY <1>3, <2>1, AluAssumption DEF AluResults, ADD, BRU
  <2>4. aluE = IF InstrE.opcode = "LUI" THEN InstrE.imm[4] ELSE Plus(DE.PC, InstrE.imm[4])
    BY <1>3, <1>16, <2>2, <2>3, WordFacts
  <2>5. ResultM' = aluE /\ PCSrc = 0
    BY <1>8, <1>9, <2>1 DEF Mux3
  <2> QED BY <1>3, <1>4, <1>5, <1>6, <1>7, <1>16, <2>1, <2>4, <2>5 DEF ISA!UpperImmediate
<1>17. CASE InstrE.opcode = "CSR"
  <2>1. /\ DE.ctl.RegWrite = 1 /\ DE.ctl.MemWrite = 0 /\ DE.ctl.Csr = 1
        /\ DE.ctl.ResultSrc = 0 /\ DE.ctl.Branch = 0 /\ DE.ctl.jal = 0 /\ DE.ctl.jalr = 0
        /\ DE.ImmExt = InstrE.imm[5]
    BY <1>2, <1>17, ControllerFields DEF MainDec, Controls, CsrBit, Extend
  <2>2. ResultM' = aluE /\ PCSrc = 0
    BY <1>8, <1>9, <2>1 DEF Mux3
  <2>3. aluE \in ISA!Word
    BY <1>1 DEF Word, ISA!Word
  <2> QED BY <1>3, <1>4, <1>5, <1>6, <1>7, <1>17, <2>1, <2>2, <2>3
      DEF ISA!CsrWrite, TohostNext
<1>18. CASE InstrE.opcode = "OTHER"
  <2>1. /\ DE.ctl.RegWrite = 0 /\ DE.ctl.MemWrite = 0 /\ DE.ctl.Csr = 0
        /\ DE.ctl.Branch = 0 /\ DE.ctl.jal = 0 /\ DE.ctl.jalr = 0
    BY <1>2, <1>18, ControllerFacts DEF NoControls
  <2>2. PCSrc = 0
    BY <1>9, <2>1
  <2> QED BY <1>3, <1>4, <1>5, <1>6, <1>7, <1>18, <2>1, <2>2 DEF ISA!Nop
<1>19. InstrE.opcode \in Opcodes
  BY <1>2 DEF Instr
<1> QED BY <1>10, <1>11, <1>12, <1>13, <1>14, <1>15, <1>16, <1>17, <1>18, <1>19
    DEF Opcodes

\* A rising edge with an empty execute slot changes nothing a program can see.
LEMMA ClockStutters ==
  ASSUME HazardInv, HazardInv', Clock, ~Live(DE)
  PROVE  UNCHANGED ISA!vars
<1> USE DEF HazardInv
<1> PICK aluE \in AluResults(DE.ctl.ALUControl, SrcA, SrcB) :
      FetchStage(aluE) /\ ExecuteStage(aluE)
  BY DEF Clock, CoreClock
<1>1. aluE \in Word /\ MemoryStage /\ WritebackStage
  BY WireTypes, AluType DEF Clock, CoreClock, TypeOK, DEType, Control
<1>2. /\ DE.ctl.RegWrite = 1 => InstrE.rd = 0
      /\ DE.ctl.MemWrite = 0 /\ DE.ctl.Csr = 0
  BY DEF BubbleSlots
<1>3. ArchPC' = ArchPC /\ ArchRegs' = ArchRegs /\ ArchMem' = ArchMem
  BY <1>1, <1>2, PcRetire, RegsRetire, MemRetire
<1>4. tohost_csr' = tohost_csr
  BY <1>2 DEF ExecuteStage
<1> QED BY <1>3, <1>4 DEF ISA!vars

LEMMA ArchTypes ==
  HazardInv => ArchRegs \in [Reg -> Word] /\ ArchMem \in [0 .. Depth - 1 -> Word]
<1> SUFFICES ASSUME HazardInv
             PROVE  ArchRegs \in [Reg -> Word] /\ ArchMem \in [0 .. Depth - 1 -> Word]
  OBVIOUS
<1>1. \A r \in Reg : ArchReg(r) \in Word
  BY WireTypes, WordFacts DEF HazardInv, TypeOK, ArchReg
<1> QED BY <1>1, WireTypes DEF HazardInv, ArchRegs, ArchMem

\* The reset button loses the two results and the store that are in flight,
\* and nothing else.
LEMMA ResetResets ==
  ASSUME HazardInv, HazardInv', Reset
  PROVE  ISA!Reset
<1> USE DEF HazardInv
<1>1. ArchPC' = ResetPC /\ tohost_csr' = 0
  BY EmptySlots DEF Reset, CoreReset, ArchPC, Live
<1>2. /\ ArchMem' = mem
      /\ \A q \in Reg : ArchReg(q)' = IF q = 0 THEN 0 ELSE rf[q]
  BY DEF Reset, CoreReset, ResetEM, ResetMW, ArchReg, ArchMem, MemNext
<1>3. InstrM.rd \in Reg /\ InstrW.rd \in Reg
  BY WireTypes DEF Instr
<1>4. ASSUME NEW q \in Reg \ {InstrM.rd, InstrW.rd}
      PROVE  ArchRegs'[q] = ArchRegs[q]
  <2>1. ArchReg(q) = IF q = 0 THEN 0 ELSE rf[q]
    BY <1>4 DEF ArchReg
  <2> QED BY <1>2, <2>1 DEF ArchRegs
<1>5. Index(EM.ALUResult) \in 0 .. Depth - 1
  BY WordFacts DEF TypeOK, EMType
<1>6. ASSUME NEW j \in (0 .. Depth - 1) \ {Index(EM.ALUResult)}
      PROVE  ArchMem'[j] = ArchMem[j]
  <2>1. ArchMem[j] = mem[j]
    BY <1>5, <1>6 DEF ArchMem, MemNext, TypeOK
  <2> QED BY <1>2, <2>1
<1>7. \E r, s \in Reg : \A q \in Reg \ {r, s} : ArchRegs'[q] = ArchRegs[q]
  BY <1>3, <1>4
<1>8. \E i \in 0 .. Depth - 1 : \A j \in (0 .. Depth - 1) \ {i} : ArchMem'[j] = ArchMem[j]
  BY <1>5, <1>6
<1>9. ArchRegs' \in [Reg -> Word] /\ ArchMem' \in [0 .. Depth - 1 -> Word]
  BY <1>2, WordFacts DEF TypeOK, ArchRegs
<1> QED BY <1>1, <1>7, <1>8, <1>9 DEF ISA!Reset, ISA!Reg, ISA!Word, Reg, Word

LEMMA InitMaps == Init => ISA!Init
<1> SUFFICES ASSUME Init PROVE ISA!Init
  OBVIOUS
<1>1. ArchPC = ResetPC
  BY EmptySlots DEF Init, AtReset, ArchPC
<1>2. ArchRegs \in [Reg -> Word] /\ ArchMem \in [0 .. Depth - 1 -> Word]
  BY HazardInit, ArchTypes
<1>3. ArchRegs[0] = 0
  BY SizeAssumption DEF ArchRegs, ArchReg, Reg
<1> QED BY <1>1, <1>2, <1>3 DEF Init, AtReset, ISA!Init, ISA!Reg, ISA!Word, Reg, Word

\* The pipeline implements the sequential machine: whatever the programs, the
\* word width, the memory, the peripherals and the moments of reset, as long
\* as stores stay away from the code in flight.
THEOREM PipelineImplementsIsa == CodeStableSpec => ISASpec
<1>1. HazardInv /\ HazardInv' /\ FetchCoherent /\ [CodeStable /\ Next]_vars
        => [ISA!Step]_(ISA!vars)
  <2> SUFFICES ASSUME HazardInv, HazardInv', FetchCoherent, [CodeStable /\ Next]_vars
               PROVE  [ISA!Step]_(ISA!vars)
    OBVIOUS
  <2>1. CASE Clock /\ Live(DE)
    BY <2>1, ClockExecutes DEF ISA!Step
  <2>2. CASE Clock /\ ~Live(DE)
    BY <2>2, ClockStutters
  <2>3. CASE Reset
    BY <2>3, ResetResets DEF ISA!Step
  <2>4. CASE UNCHANGED vars
    <3>1. ArchPC' = ArchPC /\ ArchMem' = ArchMem /\ tohost_csr' = tohost_csr
      BY <2>4 DEF vars, ArchPC, Live, ArchMem, MemNext, InstrM
    <3>2. ArchRegs' = ArchRegs
      BY <2>4 DEF vars, ArchRegs, ArchReg, InstrM, InstrW, Result, ResultM, ReadData
    <3> QED BY <3>1, <3>2 DEF ISA!vars
  <2> QED BY <2>1, <2>2, <2>3, <2>4 DEF Next
<1> QED BY <1>1, InitMaps, FetchIsCoherent, PTL DEF CodeStableSpec, ISASpec, ISA!Spec

\* The execute slot hands a store over with current operands, a bubble hands
\* over none.
LEMMA ClockPosts == HazardInv /\ CoreClock => Posted
<1> SUFFICES ASSUME HazardInv, CoreClock PROVE Posted
  OBVIOUS
<1> PICK aluE \in AluResults(DE.ctl.ALUControl, SrcA, SrcB) : ExecuteStage(aluE)
  BY DEF CoreClock
<1>1. /\ EM'.MemWrite = DE.ctl.MemWrite /\ EM'.ALUResult = aluE
      /\ EM'.WriteData = RD2E_H
  BY DEF ExecuteStage
<1>2. CASE ~Live(DE)
  BY <1>1, <1>2 DEF HazardInv, BubbleSlots, Posted
<1>3. CASE Live(DE)
  <2>1. /\ InstrE \in Instr /\ DE.ctl = Controller(InstrE)
        /\ DE.ImmExt = Extend(MainDec(InstrE.opcode).ImmSrc, InstrE)
    BY <1>3, WireTypes DEF HazardInv, ControlsDecoded
  <2>2. DE.ctl.MemWrite = (IF InstrE.opcode = "S" THEN 1 ELSE 0)
    BY <2>1, ControllerFields DEF MainDec, Controls
  <2>3. CASE InstrE.opcode = "S"
    <3>1. DE.ctl.ALUSrcA = 0 /\ DE.ctl.ALUSrcB = 1 /\ DE.ImmExt = InstrE.imm[1]
      BY <2>1, <2>3, ControllerFields DEF MainDec, Controls, Extend
    <3>2. SrcA = RD1E_H /\ SrcB = InstrE.imm[1]
      BY <3>1 DEF SrcA, SrcB, Mux3
    <3>3. aluE = Plus(SrcA, SrcB)
      BY <2>2, <2>3, <1>3, StoreAddress DEF StoreAddrE
    <3> QED BY <1>1, <1>3, <2>2, <2>3, <3>2, <3>3, OperandsFromInv
            DEF OperandsCurrent, Posted
  <2> QED BY <1>1, <1>3, <2>2, <2>3 DEF Posted
<1> QED BY <1>2, <1>3

\* Every store of the program, and nothing else, appears on the bus.
THEOREM StoresArePosted == Spec => StoresPosted
<1>1. HazardInv /\ [Next]_vars => [AtReset' \/ Posted]_vars
  <2>1. HazardInv /\ Next => AtReset' \/ Posted
    BY ClockPosts DEF Next, Clock, Reset, CoreReset, AtReset
  <2> QED BY <2>1
<1> QED BY <1>1, HazardInvariant, PTL DEF Spec, StoresPosted
=============================================================================
