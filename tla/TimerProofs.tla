---------------------------- MODULE TimerProofs ----------------------------
(***************************************************************************)
(* Proofs about the timer for words of every width: a program that         *)
(* programs it with care sees an exact alarm.                              *)
(***************************************************************************)
EXTENDS Timer, TLAPS

\* Zero is a legal compare value for the hardware; the care taken by the
\* program keeps it out.
TimerInv == TypeOK /\ CompareR > 0 /\ MatchAhead

\* Words have their width and the match lies ahead at every edge: reset
\* leaves the largest compare value, and each careful edge keeps it so.
LEMMA TimerInvariant == CarefulSpec => []TimerInv
<1> USE ModulusAssumption DEF Word
<1>1. Init => TimerInv
  BY DEF Init, AtReset, TimerInv, TypeOK, MatchAhead
<1>2. TimerInv /\ [CarefulTick]_vars => TimerInv'
  <2> SUFFICES ASSUME TimerInv, [CarefulTick]_vars
               PROVE  TimerInv'
    OBVIOUS
  <2> USE DEF TimerInv, TypeOK, MatchAhead, Match
  <2>1. CASE CarefulTick
    <3> PICK b \in Bus : Careful(b) /\ Tick(b)
      BY <2>1 DEF CarefulTick
    <3>1. b.data \in Word
      BY DEF Bus
    <3> USE DEF Tick, CounterNext, StatusNext, CompareNext
    <3>2. CASE Writes(b, "Compare")
      <4>1. ~Reads(b, "Status") /\ b.data > 0
            /\ (StatusR = 1 \/ b.data > CounterR + 1)
        BY <3>2 DEF Writes, Reads, Careful
      <4> QED BY <3>1, <3>2, <4>1
    <3>3. CASE ~Writes(b, "Compare")
      BY <3>3
    <3> QED BY <3>2, <3>3
  <2>2. CASE UNCHANGED vars
    BY <2>2 DEF vars
  <2> QED BY <2>1, <2>2
<1> QED BY <1>1, <1>2, PTL DEF CarefulSpec

\* Every register of the timer holds a word in every reachable state.
THEOREM TimerTypeCorrect == CarefulSpec => []TypeOK
<1>1. TimerInv => TypeOK
  BY DEF TimerInv
<1> QED BY <1>1, TimerInvariant, PTL

\* The next match is ahead of the counter and never overruns one that waits.
THEOREM MatchStaysAhead == CarefulSpec => []MatchAhead
<1>1. TimerInv => MatchAhead
  BY DEF TimerInv
<1> QED BY <1>1, TimerInvariant, PTL

\* The timer implements the alarm: each careful edge counts, rings, answers
\* or sets, or changes nothing the program can tell.
THEOREM TimerImplementsAlarm == CarefulSpec => AlarmSpec
<1> USE ModulusAssumption DEF Word
<1>1. Init => A!Init
  BY DEF Init, AtReset, A!Init
<1>2. TimerInv /\ [CarefulTick]_vars => [A!Next]_(A!vars)
  <2> SUFFICES ASSUME TimerInv, [CarefulTick]_vars
               PROVE  [A!Next]_(A!vars)
    OBVIOUS
  <2> USE DEF TimerInv, TypeOK, MatchAhead, Match
  <2>1. CASE CarefulTick
    <3> PICK b \in Bus : Careful(b) /\ Tick(b)
      BY <2>1 DEF CarefulTick
    <3>1. b.data \in Word
      BY DEF Bus
    <3>2. Writes(b, "Compare") =>
            ~Reads(b, "Status") /\ b.data > 0
            /\ (StatusR = 1 \/ b.data > CounterR + 1)
      BY DEF Writes, Reads, Careful
    <3> USE DEF Tick, CounterNext, StatusNext, CompareNext
    <3>3. CASE StatusR = 0 /\ Match
      <4>1. A!Ring
        BY <3>1, <3>2, <3>3 DEF A!Ring
      <4> QED BY <4>1 DEF A!Next
    <3>4. CASE StatusR = 0 /\ ~Match /\ ~Writes(b, "Compare")
      <4>1. A!Count
        BY <3>4 DEF A!Count
      <4> QED BY <4>1 DEF A!Next
    <3>5. CASE StatusR = 0 /\ ~Match /\ Writes(b, "Compare")
      <4>1. A!Postpone(b.data) /\ b.data \in 1 .. Modulus - 1
        BY <3>1, <3>2, <3>5 DEF A!Postpone
      <4> QED BY <4>1 DEF A!Next
    <3>6. CASE StatusR = 1 /\ Reads(b, "Status")
      <4>1. A!Answer
        BY <3>2, <3>6 DEF A!Answer
      <4> QED BY <4>1 DEF A!Next
    <3>7. CASE StatusR = 1 /\ Writes(b, "Compare")
      <4>1. A!Set(b.data) /\ b.data \in 1 .. Modulus - 1
        BY <3>1, <3>2, <3>7 DEF A!Set
      <4> QED BY <4>1 DEF A!Next
    <3>8. CASE StatusR = 1 /\ ~Reads(b, "Status") /\ ~Writes(b, "Compare")
      BY <3>8 DEF A!vars
    <3> QED BY <3>3, <3>4, <3>5, <3>6, <3>7, <3>8
  <2>2. CASE UNCHANGED vars
    BY <2>2 DEF vars, A!vars
  <2> QED BY <2>1, <2>2
<1> QED BY <1>1, <1>2, TimerInvariant, PTL DEF CarefulSpec, AlarmSpec, A!Spec
=============================================================================
