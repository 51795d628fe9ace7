---------------------------- MODULE PipelineIsa ----------------------------
(***************************************************************************)
(* What makes the pipeline correct: the properties of its hazard handling, *)
(* and the refinement mapping under which it implements the sequential     *)
(* machine Isa.                                                            *)
(***************************************************************************)
EXTENDS Pipeline

\* A pipeline register holds an instruction of the program when its two
\* program counters agree; in a flushed slot both are 0, after reset the
\* second one is.
Live(r) == r.PC_Plus4 = Plus(r.PC, 4)

-----------------------------------------------------------------------------
(* The architectural state.  An instruction takes effect, as far as the     *)
(* program can tell, at the edge that moves it out of the execute stage;    *)
(* what the two older ones have not yet written back is read from the       *)
(* pipeline registers.                                                      *)

ResultM == Mux3(EM.ResultSrc, EM.ALUResult,
                Loaded(EM.ALUResult, InstrM.funct3, ReadData), EM.PC_Plus4)

ArchReg(r) == IF r = 0 THEN 0
              ELSE IF EM.RegWrite = 1 /\ InstrM.rd = r THEN ResultM
              ELSE IF MW.RegWrite = 1 /\ InstrW.rd = r THEN Result
              ELSE rf[r]

ArchRegs == [r \in Reg |-> ArchReg(r)]

ArchMem == MemNext

ArchPC == IF Live(DE) THEN DE.PC ELSE IF Live(FD) THEN FD.PC ELSE PC

ISA == INSTANCE Isa
         WITH pc <- ArchPC, regs <- ArchRegs, mem <- ArchMem, tohost <- tohost_csr

-----------------------------------------------------------------------------
(* The precondition under which fetching ahead is invisible.  There is no   *)
(* fence.i and no comparison of store and fetch addresses: a store must     *)
(* not hit a word that a younger instruction is being, or has been, fetched *)
(* from.                                                                    *)

StoreAddrE == Plus(SrcA, SrcB)
Latching   == ~lwStall /\ PCSrc = 0

CodeStable ==
  /\ DE.ctl.MemWrite = 1 /\ StoreAddrE \in MemRegion =>
       /\ Live(FD) => Index(StoreAddrE) # Index(FD.PC)
       /\ Index(StoreAddrE) # Index(PC)
  /\ EM.MemWrite = 1 /\ EM.ALUResult \in MemRegion /\ Latching =>
       Index(EM.ALUResult) # Index(PC)

CodeStableSpec == Init /\ [][CodeStable /\ Next]_vars

\* The same without the reset button.
ProgramSpec == Init /\ [][CodeStable /\ Clock]_vars

\* The free-running clock, reset released for good.
LiveSpec == Init /\ [][Clock]_vars /\ WF_vars(Clock)

-----------------------------------------------------------------------------
(* Safety.                                                                  *)

\* Forwarding delivers current operands: whatever mixture of register file,
\* write-back value and ALU result the hazard unit selects, an instruction
\* of the program in the execute stage sees the values that every older
\* instruction, up to the one just before it, leaves in its source registers.
OperandsCurrent ==
  Live(DE) => /\ RD1E_H = ArchReg(InstrE.rs1)
              /\ RD2E_H = ArchReg(InstrE.rs2)

\* Instructions are in program order without gaps or repetitions: behind an
\* instruction in execute stands its successor in memory order, and the next
\* fetch continues from there.
InOrder ==
  /\ Live(DE) => Live(FD) /\ FD.PC = DE.PC_Plus4
  /\ Live(FD) => PC = FD.PC_Plus4

\* A slot without an instruction of the program changes nothing: it writes no
\* register but x0, no memory word and no CSR, and neither redirects nor
\* stalls the fetch.
BubblesHarmless ==
  ~Live(DE) => /\ DE.ctl.RegWrite = 1 => InstrE.rd = 0
               /\ DE.ctl.MemWrite = 0 /\ DE.ctl.Csr = 0
               /\ PCSrc = 0 /\ ~lwStall

\* A taken branch is never dropped by a stall: stage_F_D ignores the clear
\* while the enable is low, so the two must never come together.
FlushNotLost == ~(lwStall /\ PCSrc # 0)

\* What is in flight is what the program's memory holds: neither a store nor
\* a flush leaves a stale word in the fetch or the execute slot.
FetchCoherent ==
  /\ Live(FD) => FD.Instr = ArchMem[Index(FD.PC)]
  /\ Live(DE) => DE.Instr = ArchMem[Index(DE.PC)]

-----------------------------------------------------------------------------
(* The inductive invariant behind these properties.                         *)

\* Control signals and immediate travel with their instruction.
ControlsDecoded ==
  Live(DE) => /\ DE.ctl = Controller(InstrE)
              /\ DE.ImmExt = Extend(MainDec(InstrE.opcode).ImmSrc, InstrE)

\* A slot is empty only because of a flush (word 0) or a reset (NopWord), and
\* an empty execute slot has nothing to do.
BubbleSlots ==
  /\ ~Live(FD) => FD.Instr \in {0, NopWord}
  /\ ~Live(DE) => /\ DE.ctl.RegWrite = 1 => InstrE.rd = 0
                  /\ DE.ctl.MemWrite = 0 /\ DE.ctl.Csr = 0 /\ DE.ctl.Branch = 0
                  /\ DE.ctl.jal = 0 /\ DE.ctl.jalr = 0 /\ DE.ctl.ResultSrc = 0

\* What decode read is still the value of the register, unless the memory or
\* the write-back stage is about to change it.
OperandsLatched ==
  Live(DE) => /\ Forward(InstrE.rs1) = 0 => DE.RD1 = RegRead(InstrE.rs1)
              /\ Forward(InstrE.rs2) = 0 => DE.RD2 = RegRead(InstrE.rs2)

\* A loaded or link value in the memory stage, which ALUResult_M is not, has
\* no reader in the execute stage.
LoadGap ==
  Live(DE) /\ EM.RegWrite = 1 /\ EM.ResultSrc # 0 =>
    InstrM.rd = 0 \/ InstrM.rd \notin {InstrE.rs1, InstrE.rs2}

\* The pipeline registers agree with each other on what is in flight: the
\* hazard unit's stalls, flushes and selectors keep this at every edge.
HazardInv == /\ TypeOK
             /\ ControlsDecoded
             /\ BubbleSlots
             /\ OperandsLatched
             /\ LoadGap
             /\ InOrder

-----------------------------------------------------------------------------
(* Properties of steps.                                                     *)

\* A load-use stall lasts one cycle.
StallOnce == [][lwStall => ~lwStall']_vars

\* When tohost changes, as the testbench observes it, every store that
\* precedes the CSR instruction has reached the memory.
TohostAfterStores == [][tohost_csr' # tohost_csr => ArchMem' = mem']_vars

\* The store that leaves the execute stage is on the bus, with the address and
\* the data the sequential machine gives it; without one nothing is.
Posted ==
  /\ EM'.MemWrite = 1 <=> Live(DE) /\ InstrE.opcode = "S"
  /\ EM'.MemWrite = 1 =>
       /\ EM'.ALUResult = Plus(ArchReg(InstrE.rs1), InstrE.imm[1])
       /\ EM'.WriteData = ArchReg(InstrE.rs2)

\* The memory stage, where the bus to the peripherals starts, holds the stores
\* of the program and no others, each once.
StoresPosted == [][AtReset' \/ Posted]_vars

\* The pipeline implements the sequential machine.
ISASpec == ISA!Spec

-----------------------------------------------------------------------------
(* Liveness.                                                                *)

\* Under a running clock the core never locks up, whatever the program does
\* to itself: instructions keep reaching the execute stage, and the stages in
\* front of it keep being released.
Progress == []<>Live(DE) /\ []<>~lwStall

-----------------------------------------------------------------------------
(* Statements of the documentation and of the vendored tests that the core   *)
(* does not keep; each is refuted by a run of its own.                       *)

\* The testbench's pass/fail register is the CSR 0x51e: only an instruction
\* that names it (csr[11:5] = 40) changes tohost_csr.
TohostIsCsr51e == [][tohost_csr' # tohost_csr => InstrE.funct7 = 40]_vars

\* jalr ignores the low bit of its target.
JalrClearsLowBit == [][PCSrc = 2 => PC' % 2 = 0]_vars
=============================================================================
