------------------------------- MODULE System -------------------------------
(***************************************************************************)
(* SMU_RV32IM_System: the core with its memory, the timer and the TBMAN on *)
(* one data bus, and the reset button behind one flip-flop.  To the core   *)
(* of Pipeline, whose devData is any word, this adds what the data         *)
(* multiplexer selects from the peripherals.                               *)
(*                                                                         *)
(* Clock and button meet here: reset_ff samples the button at every edge;  *)
(* core and TBMAN follow it at once (asynchronous reset), the timer at the *)
(* next edge.                                                              *)
(***************************************************************************)
EXTENDS PipelineIsa, Sequences

CONSTANTS
  TimerRegion, TbmanRegion,         (* Addr[31:12] = 80001 and 8000F.       *)
  TimerPort,                        (* The timer register at an address.    *)
  InitTimer,                        (* What its registers may power up with. *)
  CharSize, IrqSize, Newline, LineMax   (* As in Tbman.                     *)

\* Address 0, which the reset leaves on the bus, belongs to no peripheral.
ASSUME BusAssumption ==
  /\ TimerRegion \cup TbmanRegion = DevRegion
  /\ TimerRegion \cap TbmanRegion = {}
  /\ 0 \notin DevRegion
  /\ TimerPort \in [TimerRegion -> {"Compare", "Counter", "Status", "None"}]
  /\ InitTimer \subseteq Word
  /\ DevValues = Word
  /\ CharSize \in Nat \ {0} /\ IrqSize \in 1 .. Modulus
  /\ Newline \in 0 .. CharSize - 1
  /\ LineMax \in Nat

VARIABLES
  CompareR, CounterR, StatusR,                  (* timer                    *)
  print_str, irq_force, console, finished,      (* TBMAN                    *)
  reset_ff                                      (* 0: reset                 *)

timerVars  == <<CompareR, CounterR, StatusR>>
tbmanVars  == <<print_str, irq_force, console, finished>>
systemVars == <<vars, timerVars, tbmanVars, reset_ff>>

T == INSTANCE Timer
B == INSTANCE Tbman

-----------------------------------------------------------------------------
(* The data bus.                                                            *)

data_addr  == EM.ALUResult
data_we    == EM.MemWrite = 1
write_data == BusWord(data_addr % 4, InstrM.funct3, EM.WriteData)

\* data_re is the negation of data_we: any instruction whose ALU result is
\* an address of the timer reads it, be it a load or not.
TimerBus ==
  [cs |-> data_addr \in TimerRegion, write |-> data_we,
   addr |-> IF data_addr \in TimerRegion THEN TimerPort[data_addr] ELSE "None",
   data |-> write_data]

TbmanBus ==
  [sel |-> data_addr \in TbmanRegion, write |-> data_we,
   addr |-> data_addr, data |-> write_data]

\* data_mux without the memory, which is Pipeline's.
PeripheralRead ==
  IF data_addr \in TimerRegion THEN T!DataOut(TimerBus)
  ELSE IF data_addr \in TbmanRegion THEN B!DataOut(data_addr)
  ELSE 0

-----------------------------------------------------------------------------

\* Each component has its type, and devData is what the multiplexer selects.
SystemTypeOK ==
  /\ TypeOK /\ T!TypeOK /\ B!TypeOK
  /\ reset_ff \in Bit
  /\ devData = PeripheralRead

\* The reset has reached everything it reaches at once.
ResetArrived == AtReset /\ irq_force = 0

\* A rising edge in operation; button is the level of BUTTON[0].
Edge(button) ==
  /\ ~finished /\ reset_ff = 1
  /\ CoreClock /\ T!Tick(TimerBus) /\ B!Edge(TbmanBus)
  /\ reset_ff' = button
  /\ devData' = PeripheralRead'

\* reset_ff has fallen.
ResetFalls ==
  /\ ~finished /\ reset_ff = 0 /\ ~ResetArrived
  /\ CoreReset /\ B!Reset
  /\ UNCHANGED <<timerVars, reset_ff>>
  /\ devData' = PeripheralRead'

\* Fault: the timer is reset by the button itself.
HeldEdge_TimerByButton(button) ==
  /\ ~finished /\ reset_ff = 0 /\ ResetArrived
  /\ IF button = 0 THEN T!ResetTick ELSE T!Tick(TimerBus)
  /\ reset_ff' = button
  /\ UNCHANGED <<vars, tbmanVars>>

\* A rising edge under reset: the core stands still with nothing on its bus,
\* the timer is cleared.
HeldEdge(button) ==
  /\ ~finished /\ reset_ff = 0 /\ ResetArrived
  /\ T!ResetTick
  /\ reset_ff' = button
  /\ UNCHANGED <<vars, tbmanVars>>

\* The first edge has found the button pressed.
SystemInit ==
  /\ AtReset /\ rf \in InitRegs /\ mem \in Programs
  /\ CompareR \in InitTimer /\ CounterR \in InitTimer /\ StatusR \in Bit
  /\ B!Init
  /\ reset_ff = 0
  /\ devData = PeripheralRead

SystemNext == ResetFalls \/ \E button \in Bit : Edge(button) \/ HeldEdge(button)
SystemSpec == SystemInit /\ [][SystemNext]_systemVars

\* The same for a program that leaves the code in flight alone.
StableSystemSpec == SystemInit /\ [][CodeStable /\ SystemNext]_systemVars

-----------------------------------------------------------------------------
(* Correctness.                                                             *)

\* However short the button is pressed, core, timer and TBMAN leave the reset
\* together and clean, although the core is reset at once and the timer only
\* by a further edge.
ReleasedClean ==
  [][reset_ff = 0 /\ reset_ff' = 1 =>
       AtReset' /\ T!AtReset' /\ irq_force' = 0]_systemVars
=============================================================================
