------------------------------- MODULE Timer -------------------------------
(***************************************************************************)
(* TimerCounter: a free-running counter, a compare register and a status   *)
(* bit that a match sets and a read of the status register clears.  One    *)
(* Tick is one rising edge; the argument is what the bus asks of the timer *)
(* in that cycle.                                                          *)
(***************************************************************************)
EXTENDS Naturals

CONSTANT Modulus    (* Number of words: 2^32.                               *)

ASSUME ModulusAssumption == Modulus \in Nat /\ Modulus > 2

VARIABLES CompareR, CounterR, StatusR

vars == <<CompareR, CounterR, StatusR>>

Word == 0 .. Modulus - 1

\* Addr[11:0] = 000, 100, 200 and everything else.
Registers == {"Compare", "Counter", "Status", "None"}

\* RD_N is the negation of WR_N: a selected cycle without a write is a read.
Bus == [cs : BOOLEAN, write : BOOLEAN, addr : Registers, data : Word]

Reads(b, r)  == b.cs /\ ~b.write /\ b.addr = r
Writes(b, r) == b.cs /\ b.write /\ b.addr = r

\* Every register holds a word; of the status register only bit 0 ever moves.
TypeOK == CompareR \in Word /\ CounterR \in Word /\ StatusR \in {0, 1}

-----------------------------------------------------------------------------

Match == CompareR = CounterR

\* Fault: the increment does not wrap around.
CounterNext_NoWrap == IF StatusR = 1 THEN 0 ELSE CounterR + 1

\* Fault: the counter runs on while a match waits to be read.
CounterNext_RunsOn == IF CounterR = Modulus - 1 THEN 0 ELSE CounterR + 1

\* Fault: the counter stops at the largest word.
CounterNext_Saturates ==
  IF StatusR = 1 THEN 0
  ELSE IF CounterR = Modulus - 1 THEN CounterR
  ELSE CounterR + 1

\* The status bit, not the match, zeroes the counter: it is seen one beyond
\* the compare value before it returns to 0.
CounterNext ==
  IF StatusR = 1 \/ CounterR = Modulus - 1 THEN 0 ELSE CounterR + 1

\* Fault: a read has priority over a match.
StatusNext_ReadFirst(b) ==
  IF Reads(b, "Status") THEN 0 ELSE IF Match THEN 1 ELSE StatusR

\* Fault: the status register is cleared by a write.
StatusNext_WriteClears(b) ==
  IF Match THEN 1 ELSE IF Writes(b, "Status") THEN 0 ELSE StatusR

StatusNext(b) ==
  IF Match THEN 1 ELSE IF Reads(b, "Status") THEN 0 ELSE StatusR

CompareNext(b) == IF Writes(b, "Compare") THEN b.data ELSE CompareR

Tick(b) ==
  /\ CompareR' = CompareNext(b)
  /\ CounterR' = CounterNext
  /\ StatusR' = StatusNext(b)

\* The read port, combinational.
DataOut(b) ==
  IF ~(b.cs /\ ~b.write) THEN 0
  ELSE CASE b.addr = "Compare" -> CompareR
         [] b.addr = "Counter" -> CounterR
         [] b.addr = "Status"  -> StatusR
         [] OTHER              -> 0

AtReset == CompareR = Modulus - 1 /\ CounterR = 0 /\ StatusR = 0

\* A rising edge with the reset input high.
ResetTick == CompareR' = Modulus - 1 /\ CounterR' = 0 /\ StatusR' = 0

Init == AtReset
Next == ResetTick \/ \E b \in Bus : Tick(b)
Spec == Init /\ [][Next]_vars

-----------------------------------------------------------------------------
(* Programs that program the timer with care.                               *)

\* A new compare value is not 0, and it is either written while a match
\* waits to be read or lies beyond the next count.
Careful(b) ==
  Writes(b, "Compare") =>
    b.data > 0 /\ (StatusR = 1 \/ b.data > CounterR + 1)

CarefulTick == \E b \in Bus : Careful(b) /\ Tick(b)

CarefulSpec == Init /\ [][CarefulTick]_vars

\* The clock runs, and the program polls the status register again and again.
Poll == \E b \in Bus : Reads(b, "Status") /\ Tick(b)

PolledSpec == CarefulSpec /\ WF_vars(CarefulTick) /\ WF_vars(Poll)

-----------------------------------------------------------------------------
(* Correctness.                                                             *)

\* The next match is never behind the counter, so that it would be met only
\* after a wrap-around; and a match that waits to be read is not overrun by
\* a second one, which would undo the read.
MatchAhead ==
  IF StatusR = 0 THEN CounterR <= CompareR ELSE ~Match

\* To such a program the timer is an alarm with an exact period: no match is
\* lost to a read in the same cycle, none is reported twice, and the cycle
\* in which the counter shows one more than the compare value costs nothing.
A == INSTANCE Alarm
       WITH Horizon <- Modulus - 1,
            period  <- CompareR,
            left    <- IF StatusR = 1 THEN CompareR ELSE CompareR - CounterR,
            ringing <- StatusR = 1

AlarmSpec == A!Spec

\* The alarm keeps ringing and keeps being answered: the counter never stops
\* for good and no match waits for ever.
KeepsRinging == []<>(StatusR = 1) /\ []<>(StatusR = 0)
=============================================================================
