----------------------------- MODULE Pipeline ------------------------------
(***************************************************************************)
(* The five-stage core (rv32im_cpu: controller, datapath, hazard unit) with *)
(* its memory, clock by clock.                                             *)
(*                                                                         *)
(* The variables are the registers of the RTL: PC, the four pipeline       *)
(* registers FD, DE, EM and MW, the register file rf, the tohost CSR and   *)
(* the memory array mem; devData is the word the peripherals drive on the  *)
(* read bus in the current cycle.  Wires are state functions named as in   *)
(* datapath.sv.  One Clock step is one rising edge: every register takes   *)
(* its next value at once.                                                 *)
(***************************************************************************)
EXTENDS Rv32im

CONSTANTS
  Programs,   (* Contents the memory may be loaded with.                    *)
  InitRegs    (* Contents the register file may power up with.              *)

ASSUME InitAssumption ==
  /\ Programs \subseteq [0 .. Depth - 1 -> Word]
  /\ InitRegs \subseteq [Reg -> Word]

VARIABLES PC, FD, DE, EM, MW, rf, tohost_csr, mem, devData

vars == <<PC, FD, DE, EM, MW, rf, tohost_csr, mem, devData>>

-----------------------------------------------------------------------------
(* Types of the pipeline registers.                                         *)

Control == [Branch : Bit, jal : Bit, jalr : Bit, ResultSrc : 0 .. 2,
            MemWrite : Bit, ALUControl : ALUCodes, ALUSrcA : 0 .. 2,
            ALUSrcB : Bit, RegWrite : Bit, Csr : Bit]

FDType == [Instr : Word, PC : Word, PC_Plus4 : Word]
DEType == [ctl : Control, Instr : Word, RD1 : Word, RD2 : Word, PC : Word,
           ImmExt : Word, PC_Plus4 : Word]
EMType == [ResultSrc : 0 .. 2, MemWrite : Bit, RegWrite : Bit, Instr : Word,
           ALUResult : Word, WriteData : Word, PC_Plus4 : Word]
MWType == [ResultSrc : 0 .. 2, RegWrite : Bit, ALUResult : Word,
           PC_Plus4 : Word, Instr : Word, ReadData : Word]

\* Every register has its reset value or holds a word of its width.
TypeOK ==
  /\ PC \in Word
  /\ FD \in FDType
  /\ DE \in DEType
  /\ EM \in EMType
  /\ MW \in MWType
  /\ rf \in [Reg -> Word]
  /\ tohost_csr \in Word
  /\ mem \in [0 .. Depth - 1 -> Word]
  /\ devData \in DevValues

-----------------------------------------------------------------------------
(* Values forced by a flush and by reset.                                   *)

NoControls == [Branch |-> 0, jal |-> 0, jalr |-> 0, ResultSrc |-> 0,
               MemWrite |-> 0, ALUControl |-> ADD, ALUSrcA |-> 0,
               ALUSrcB |-> 0, RegWrite |-> 0, Csr |-> 0]

FlushedFD == [Instr |-> 0, PC |-> 0, PC_Plus4 |-> 0]
FlushedDE == [ctl |-> NoControls, Instr |-> 0, RD1 |-> 0, RD2 |-> 0, PC |-> 0,
              ImmExt |-> 0, PC_Plus4 |-> 0]

\* Fault: the reset slot already carries the successor of the reset PC.
ResetFD_Plus4 == [Instr |-> NopWord, PC |-> ResetPC, PC_Plus4 |-> Plus(ResetPC, 4)]

ResetFD == [Instr |-> NopWord, PC |-> ResetPC, PC_Plus4 |-> 0]
ResetDE == [ctl |-> NoControls, Instr |-> NopWord, RD1 |-> 0, RD2 |-> 0,
            PC |-> ResetPC, ImmExt |-> 0, PC_Plus4 |-> 0]
ResetEM == [ResultSrc |-> 0, MemWrite |-> 0, RegWrite |-> 0, Instr |-> NopWord,
            ALUResult |-> 0, WriteData |-> 0, PC_Plus4 |-> 0]
ResetMW == [ResultSrc |-> 0, RegWrite |-> 0, ALUResult |-> 0, PC_Plus4 |-> 0,
            Instr |-> NopWord, ReadData |-> 0]

-----------------------------------------------------------------------------
(* Wires.  InstrX holds the fields of the instruction in stage X.           *)

InstrD == Decode[FD.Instr]
InstrE == Decode[DE.Instr]
InstrM == Decode[EM.Instr]
InstrW == Decode[MW.Instr]

\* Read bus in the memory stage: data_mux over the peripherals and the RAM.
ReadData == IF EM.ALUResult \in DevRegion THEN devData
            ELSE mem[Index(EM.ALUResult)]

\* Write-back multiplexer.
Result == Mux3(MW.ResultSrc, MW.ALUResult,
               Loaded(MW.ALUResult, InstrW.funct3, MW.ReadData), MW.PC_Plus4)

\* Fault: the older of two producers wins.
Forward_OlderFirst(rs) ==
  IF rs = InstrW.rd /\ MW.RegWrite = 1 /\ rs # 0 THEN 1
  ELSE IF rs = InstrM.rd /\ EM.RegWrite = 1 /\ rs # 0 THEN 2
  ELSE 0

\* Hazard unit: the selector for a source register, the memory stage first.
Forward(rs) ==
  IF rs = InstrM.rd /\ EM.RegWrite = 1 /\ rs # 0 THEN 2
  ELSE IF rs = InstrW.rd /\ MW.RegWrite = 1 /\ rs # 0 THEN 1
  ELSE 0

Forwarded(rs, RD) == Mux3(Forward(rs), RD, Result, EM.ALUResult)

RegRead(r) == IF r # 0 THEN rf[r] ELSE 0

RD1D_H == Forwarded(InstrD.rs1, RegRead(InstrD.rs1))
RD2D_H == Forwarded(InstrD.rs2, RegRead(InstrD.rs2))
RD1E_H == Forwarded(InstrE.rs1, DE.RD1)
RD2E_H == Forwarded(InstrE.rs2, DE.RD2)

SrcA == Mux3(DE.ctl.ALUSrcA, RD1E_H, DE.PC, 0)
SrcB == IF DE.ctl.ALUSrcB = 1 THEN DE.ImmExt ELSE RD2E_H

ALUFlags == Flags(DE.ctl.ALUControl, SrcA, SrcB)

\* Branch_Logic: 1 selects PC_target, 2 the ALU result.
PCSrc ==
  IF DE.ctl.Branch = 1 /\ Btaken(InstrE.funct3, ALUFlags, SrcB) THEN 1
  ELSE IF DE.ctl.jal = 1 THEN 1
  ELSE IF DE.ctl.jalr = 1 THEN 2
  ELSE 0

\* Fault: any non-zero ResultSrc is taken for a load.
lwStall_AnySource ==
  /\ InstrD.rs1 = InstrE.rd \/ InstrD.rs2 = InstrE.rd
  /\ DE.ctl.ResultSrc # 0

lwStall ==
  /\ InstrD.rs1 = InstrE.rd \/ InstrD.rs2 = InstrE.rd
  /\ DE.ctl.ResultSrc % 2 = 1

\* The controller's outputs for the instruction in decode.
Controller(i) ==
  LET m == MainDec(i.opcode)
  IN  [Branch |-> m.Branch, jal |-> m.jal, jalr |-> m.jalr,
       ResultSrc |-> m.ResultSrc, MemWrite |-> m.MemWrite,
       ALUControl |-> AluDec(i, m.ALUop), ALUSrcA |-> m.ALUSrcA,
       ALUSrcB |-> m.ALUSrcB, RegWrite |-> m.RegWrite,
       Csr |-> CsrBit(i.opcode)]

-----------------------------------------------------------------------------
(* What each stage latches at a rising edge; aluE is ALUResult_E.           *)

\* Fault: the fetch adder is one bit too wide.
PCNext_NoWrap(aluE) == Mux3(PCSrc, PC + 4, Plus(DE.PC, DE.ImmExt), aluE)

PCNext(aluE) == Mux3(PCSrc, Plus(PC, 4), Plus(DE.PC, DE.ImmExt), aluE)

\* Fault: the stall holds stage_F_D but not the PC.
FetchStage_PCRuns(aluE) ==
  /\ PC' = PCNext(aluE)
  /\ FD' = IF lwStall THEN FD
           ELSE IF PCSrc # 0 THEN FlushedFD
           ELSE [Instr |-> mem[Index(PC)], PC |-> PC, PC_Plus4 |-> Plus(PC, 4)]

\* Fault: the stall holds PC_D but not Instr_D.
FetchStage_InstrRuns(aluE) ==
  /\ PC' = IF lwStall THEN PC ELSE PCNext(aluE)
  /\ FD' = IF lwStall THEN [FD EXCEPT !.Instr = mem[Index(PC)]]
           ELSE IF PCSrc # 0 THEN FlushedFD
           ELSE [Instr |-> mem[Index(PC)], PC |-> PC, PC_Plus4 |-> Plus(PC, 4)]

\* The enable (no stall) has priority over the clear (flush) of stage_F_D.
FetchStage(aluE) ==
  /\ PC' = IF lwStall THEN PC ELSE PCNext(aluE)
  /\ FD' = IF lwStall THEN FD
           ELSE IF PCSrc # 0 THEN FlushedFD
           ELSE [Instr |-> mem[Index(PC)], PC |-> PC, PC_Plus4 |-> Plus(PC, 4)]

\* The instruction in decode moves on.
DecodedDE == [ctl |-> Controller(InstrD), Instr |-> FD.Instr,
              RD1 |-> RD1D_H, RD2 |-> RD2D_H, PC |-> FD.PC,
              ImmExt |-> Extend(MainDec(InstrD.opcode).ImmSrc, InstrD),
              PC_Plus4 |-> FD.PC_Plus4]

\* Fault: the flush clears the data but not the control signals.
DecodeStage_ControlsKept ==
  DE' = IF lwStall \/ PCSrc # 0
        THEN [FlushedDE EXCEPT !.ctl = Controller(InstrD)]
        ELSE DecodedDE

\* Fault: FlushE without lwStall.
DecodeStage_NoStallFlush ==
  DE' = IF PCSrc # 0 THEN FlushedDE ELSE DecodedDE

DecodeStage == DE' = IF lwStall \/ PCSrc # 0 THEN FlushedDE ELSE DecodedDE

TohostNext == IF InstrE.funct3 = 1 THEN RD1E_H
              ELSE IF InstrE.funct3 = 5 THEN DE.ImmExt
              ELSE 0

\* Fault: a store's data is not forwarded.
ExecuteStage_StaleStore(aluE) ==
  /\ EM' = [ResultSrc |-> DE.ctl.ResultSrc, MemWrite |-> DE.ctl.MemWrite,
            RegWrite |-> DE.ctl.RegWrite, Instr |-> DE.Instr,
            ALUResult |-> aluE, WriteData |-> DE.RD2, PC_Plus4 |-> DE.PC_Plus4]
  /\ tohost_csr' = IF DE.ctl.Csr = 1 THEN TohostNext ELSE tohost_csr

\* Fault: the CSR is written from the decode stage.
ExecuteStage_EarlyCsr(aluE) ==
  /\ EM' = [ResultSrc |-> DE.ctl.ResultSrc, MemWrite |-> DE.ctl.MemWrite,
            RegWrite |-> DE.ctl.RegWrite, Instr |-> DE.Instr,
            ALUResult |-> aluE, WriteData |-> RD2E_H, PC_Plus4 |-> DE.PC_Plus4]
  /\ tohost_csr' = IF CsrBit(InstrD.opcode) = 1 /\ InstrD.funct3 = 1
                   THEN RD1D_H ELSE tohost_csr

\* Fault: a slot that writes nothing leaves the address on the bus as it is.
ExecuteStage_KeepsAddress(aluE) ==
  /\ EM' = [ResultSrc |-> DE.ctl.ResultSrc, MemWrite |-> DE.ctl.MemWrite,
            RegWrite |-> DE.ctl.RegWrite, Instr |-> DE.Instr,
            ALUResult |-> IF DE.ctl.RegWrite = 0 /\ DE.ctl.MemWrite = 0
                          THEN EM.ALUResult ELSE aluE,
            WriteData |-> RD2E_H, PC_Plus4 |-> DE.PC_Plus4]
  /\ tohost_csr' = IF DE.ctl.Csr = 1 THEN TohostNext ELSE tohost_csr

ExecuteStage(aluE) ==
  /\ EM' = [ResultSrc |-> DE.ctl.ResultSrc, MemWrite |-> DE.ctl.MemWrite,
            RegWrite |-> DE.ctl.RegWrite, Instr |-> DE.Instr,
            ALUResult |-> aluE, WriteData |-> RD2E_H, PC_Plus4 |-> DE.PC_Plus4]
  /\ tohost_csr' = IF DE.ctl.Csr = 1 THEN TohostNext ELSE tohost_csr

\* The memory with the store of the memory stage carried out.
MemNext ==
  LET a == EM.ALUResult
  IN  IF EM.MemWrite = 1 /\ a \in MemRegion
      THEN [mem EXCEPT ![Index(a)] =
              Stored(mem[Index(a)], a, InstrM.funct3, EM.WriteData)]
      ELSE mem

MemoryStage ==
  /\ MW' = [ResultSrc |-> EM.ResultSrc, RegWrite |-> EM.RegWrite,
            ALUResult |-> EM.ALUResult, PC_Plus4 |-> EM.PC_Plus4,
            Instr |-> EM.Instr, ReadData |-> ReadData]
  /\ mem' = MemNext

WritebackStage ==
  rf' = IF MW.RegWrite = 1 /\ InstrW.rd # 0
        THEN [rf EXCEPT ![InstrW.rd] = Result]
        ELSE rf

\* One rising edge of the core and its memory.
CoreClock ==
  /\ \E aluE \in AluResults(DE.ctl.ALUControl, SrcA, SrcB) :
       FetchStage(aluE) /\ ExecuteStage(aluE)
  /\ DecodeStage
  /\ MemoryStage
  /\ WritebackStage

\* After it the address bus selects another register of a peripheral, or the
\* register has changed.
Clock == CoreClock /\ devData' \in DevValues

\* Fault: stage_D_E has no reset.
CoreReset_KeepsDE ==
  /\ PC' = ResetPC
  /\ FD' = ResetFD /\ DE' = DE /\ EM' = ResetEM /\ MW' = ResetMW
  /\ tohost_csr' = 0
  /\ UNCHANGED <<rf, mem>>

\* Fault: the control flops of stage_D_E have no reset.
CoreReset_KeepsControls ==
  /\ PC' = ResetPC
  /\ FD' = ResetFD /\ DE' = [ResetDE EXCEPT !.ctl = DE.ctl]
  /\ EM' = ResetEM /\ MW' = ResetMW
  /\ tohost_csr' = 0
  /\ UNCHANGED <<rf, mem>>

\* n_rst falls: the registers with a reset input take their reset values.
\* The register file and the memory have none.
CoreReset ==
  /\ PC' = ResetPC
  /\ FD' = ResetFD /\ DE' = ResetDE /\ EM' = ResetEM /\ MW' = ResetMW
  /\ tohost_csr' = 0
  /\ UNCHANGED <<rf, mem>>

Reset == CoreReset /\ devData' \in DevValues

\* The registers as reset leaves them.
AtReset ==
  /\ PC = ResetPC
  /\ FD = ResetFD /\ DE = ResetDE /\ EM = ResetEM /\ MW = ResetMW
  /\ tohost_csr = 0

Init ==
  /\ AtReset
  /\ rf \in InitRegs
  /\ mem \in Programs
  /\ devData \in DevValues

Next == Clock \/ Reset
Spec == Init /\ [][Next]_vars
=============================================================================
