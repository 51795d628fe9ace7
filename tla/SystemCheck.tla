---------------------------- MODULE SystemCheck ----------------------------
(***************************************************************************)
(* What a program running on the system can rely on, end to end: history   *)
(* variables record what the sequential program has asked for and what the *)
(* timer has counted, and the properties compare the peripherals with them.*)
(***************************************************************************)
EXTENDS System, SequencesExt

CONSTANTS
  MaxPresses,     (* Bound on how often the button is pressed.              *)
  PollWord,       (* The instruction a program reads the status with,       *)
  AddWord,        (* the one that adds the answer to the count,             *)
  ClearWord,      (* the one that clears the count,                         *)
  CountReg        (* and the register the count is in.                      *)

AnswerReg   == Decode[PollWord].rd
StatusAddrs == {a \in TimerRegion : TimerPort[a] = "Status"}

\* What these instructions are, and that a load of the status bit returns it.
\* The words of empty slots name no register but x0.
ASSUME PollAssumption ==
  /\ {PollWord, AddWord, ClearWord} \subseteq Word
  /\ CountReg \in Reg \ {0} /\ AnswerReg \in Reg \ {0, CountReg}
  /\ Decode[PollWord].opcode = "LOAD"
  /\ Decode[AddWord].opcode = "R"
  /\ Decode[AddWord].funct3 = 0 /\ Decode[AddWord].funct7 = 0
  /\ Decode[AddWord].rd = CountReg
  /\ Decode[AddWord].rs1 = CountReg /\ Decode[AddWord].rs2 = AnswerReg
  /\ Decode[ClearWord].opcode = "IALU"
  /\ Decode[ClearWord].funct3 = 0 /\ Decode[ClearWord].imm[0] = 0
  /\ Decode[ClearWord].rd = CountReg /\ Decode[ClearWord].rs1 = 0
  /\ \A a \in StatusAddrs, s \in Bit : Loaded(a, Decode[PollWord].funct3, s) = s
  /\ \A w \in {0, NopWord} : Decode[w].rs1 = 0 /\ Decode[w].rs2 = 0
  /\ Decode[NopWord].funct3 = 0 /\ Decode[NopWord].funct7 = 0

VARIABLES
  presses,
  matches,        (* Matches of the timer since the last reset.             *)
  written,        (* What the program has stored to the TBMAN, in order.    *)
  polling         (* How far it is: it counts nothing yet ("idle"), its     *)
                  (* count is up to date ("ready"), or there is an answer   *)
                  (* to add ("answered").                                   *)

history == <<presses, matches, written, polling>>

-----------------------------------------------------------------------------
(* History.                                                                 *)

\* The store that the sequential program executes at this edge, if it is one
\* to the TBMAN: its operands are the architectural registers.
Asked ==
  LET a == Plus(ArchReg(InstrE.rs1), InstrE.imm[1])
  IN  IF Live(DE) /\ InstrE.opcode = "S" /\ a \in TbmanRegion
      THEN <<[port |-> B!Port(a),
              data |-> BusWord(a % 4, InstrE.funct3, ArchReg(InstrE.rs2))]>>
      ELSE <<>>

\* How the instruction that the program executes moves it on.
PollingNext ==
  IF ~Live(DE) THEN polling
  ELSE CASE DE.Instr = PollWord               -> "answered"
         [] DE.Instr \in {AddWord, ClearWord} -> "ready"
         [] OTHER                             -> polling

\* The store on the bus has left the core and not yet reached the TBMAN.
OnItsWay == data_we /\ data_addr \in TbmanRegion

Operate(button) ==
  /\ Edge(button)
  /\ presses + 1 - button <= MaxPresses
  /\ presses' = presses + 1 - button
  /\ matches' = IF T!Match THEN matches + 1 ELSE matches
  /\ written' = written \o Asked
  /\ polling' = PollingNext

\* A store on its way is lost with the reset.
BeReset ==
  /\ ResetFalls
  /\ written' = IF OnItsWay THEN Front(written) ELSE written
  /\ matches' = 0 /\ polling' = "idle"
  /\ UNCHANGED presses

Hold(button) ==
  /\ HeldEdge(button)
  /\ matches' = 0 /\ polling' = "idle"
  /\ UNCHANGED <<presses, written>>

Steps == BeReset \/ \E button \in Bit : Operate(button) \/ Hold(button)

CheckInit ==
  SystemInit /\ presses = 0 /\ matches = 0 /\ written = <<>> /\ polling = "idle"

CheckSpec == CheckInit /\ [][Steps]_<<systemVars, history>>

\* The clock runs and nobody leans on the button.
Released == BeReset \/ Operate(1) \/ Hold(1)

ReleasedSpec == CheckSpec /\ WF_<<systemVars, history>>(Released)

-----------------------------------------------------------------------------
(* The console.                                                             *)

Char(w)     == w.data % CharSize
EndsLine(w) == w.port = "PRINT" /\ Char(w) = Newline

\* The stores that print the line open after the first n stores: those since
\* the last newline.
LineAt(ws, n) ==
  {i \in 1 .. n : ws[i].port = "PRINT" /\ \A k \in i .. n : ~EndsLine(ws[k])}

\* The stores among the first n that the console shows something for.
ShownAt(ws, n) ==
  {i \in 1 .. n : EndsLine(ws[i]) \/ ws[i].port \in {"PUTINT", "EXIT"}}

\* The place of i among the numbers of S.
Place(i, S) == Cardinality({j \in S : j <= i})

\* str holds the characters of that line in order, cut off at the size of the
\* buffer.
HoldsLine(str, ws, n) ==
  LET line == LineAt(ws, n)
  IN  /\ Len(str) = IF Cardinality(line) < LineMax THEN Cardinality(line) ELSE LineMax
      /\ \A i \in line : Place(i, line) <= LineMax => str[Place(i, line)] = Char(ws[i])

\* item is what store i shows.
Shows(item, ws, i) ==
  \/ EndsLine(ws[i]) /\ DOMAIN item = {"line"} /\ HoldsLine(item.line, ws, i - 1)
  \/ ws[i].port = "PUTINT" /\ item = [int |-> ws[i].data]
  \/ ws[i].port = "EXIT" /\ item = [exit |-> ws[i].data]

\* The first n stores, and no others, are in the open line str and in items.
OnConsole(str, items, ws, n) ==
  LET shown == ShownAt(ws, n)
  IN  /\ HoldsLine(str, ws, n)
      /\ Len(items) = Cardinality(shown)
      /\ \A i \in shown : Shows(items[Place(i, shown)], ws, i)

Delivered == IF OnItsWay THEN Len(written) - 1 ELSE Len(written)

\* Everything the sequential program has stored to the TBMAN, and nothing
\* else, has been shown once and in order, whatever was stalled, flushed and
\* forwarded on the way and wherever a reset cut in; of each line the first
\* LineMax characters.  A line that a reset interrupts goes on after it.
ConsoleFaithful == OnConsole(print_str, console, written, Delivered)

\* The inductive invariant behind it: the store on its way is the last one
\* the program has made.
PortNames  == {B!Ports[k] : k \in 1 .. 8}
StoreOnBus == [port |-> B!Port(data_addr), data |-> write_data]

ConsoleInv ==
  /\ written \in Seq([port : PortNames, data : Word])
  /\ console \in Seq([line : Seq(0 .. CharSize - 1)] \cup [int : Word] \cup [exit : Word])
  /\ OnItsWay => written # <<>> /\ written[Len(written)] = StoreOnBus
  /\ ConsoleFaithful

-----------------------------------------------------------------------------
(* The timer.                                                               *)

\* The instruction in execute computes the address of the status register
\* and is no store: behind it the bus reads the status, and clears it.
ReachesStatus ==
  /\ DE.ctl.MemWrite = 0
  /\ \E x \in AluResults(DE.ctl.ALUControl, SrcA, SrcB) : x \in StatusAddrs

\* A program that polls in turn: only PollWord reaches the status; behind each
\* poll, and before the next one, AddWord adds the answer to the count, which
\* has room for it; in between nothing else changes answer or count; and the
\* count is cleared before the first poll and not again.
PollsInTurn ==
  Live(DE) =>
    /\ DE.Instr = PollWord <=> ReachesStatus
    /\ DE.Instr = PollWord => polling = "ready"
    /\ DE.Instr = AddWord => polling = "answered" /\ ArchReg(CountReg) < Modulus - 1
    /\ DE.Instr = ClearWord => polling = "idle"
    /\ DE.ctl.RegWrite = 1 /\ DE.Instr # AddWord =>
         /\ polling = "answered" => InstrE.rd # AnswerReg
         /\ polling # "idle"     => InstrE.rd # CountReg

\* It sets the compare register to 0 never, and not to the very next count at
\* the edge of a match, which would be met while that match waits.
ComparesInTime ==
  T!Writes(TimerBus, "Compare") =>
    write_data > 0 /\ (T!Match => write_data # CounterR + 1)

Polls == PollsInTurn /\ ComparesInTime

\* Such a program counts every match once: when it polls again, what it has
\* counted and the match that waits to be read make up the matches there have
\* been.
PolledOnce ==
  Live(DE) /\ DE.Instr = PollWord =>
    ArchReg(CountReg) + StatusR = matches

\* The inductive invariant behind it.  A status that is being read counts as
\* read; what has been read is the count and the answer not yet added to it.
Answering   == T!Reads(TimerBus, "Status")
Accounts(n) == n + (IF Answering THEN 0 ELSE StatusR) = matches

PollInv ==
  /\ matches \in Nat /\ polling \in {"idle", "ready", "answered"}
  /\ \/ reset_ff = 0 /\ ResetArrived
     \/ /\ CompareR > 0 /\ (StatusR = 1 => ~T!Match)
        /\ polling = "idle"     => Accounts(0)
        /\ polling = "ready"    => Accounts(ArchReg(CountReg))
        /\ polling = "answered" => /\ ArchReg(AnswerReg) \in Bit
                                  /\ Accounts(ArchReg(CountReg) + ArchReg(AnswerReg))
        /\ Answering => polling = "answered" /\ EM.Instr = PollWord

\* An empty slot adds nothing to nothing: it reaches no peripheral.
QuietSlots ==
  /\ ~Live(DE) => DE.Instr \in {0, NopWord} /\ DE.RD1 = 0 /\ DE.RD2 = 0
  /\ ~Live(DE) => DE.ctl.ALUControl = ADD /\ DE.ctl.ALUSrcA = 0 /\ DE.ctl.ALUSrcB = 0

\* A match that waits to be read is taken away by an instruction that reads
\* memory and by no other.
MatchTakenByLoad ==
  [][StatusR = 1 /\ StatusR' = 0 /\ reset_ff = 1 =>
       InstrM.opcode = "LOAD"]_systemVars

-----------------------------------------------------------------------------

\* A program that waits for a number of matches and then prints gets there,
\* wherever in the timer's period it starts, and after a reset too.
Finishes == <>finished
=============================================================================
