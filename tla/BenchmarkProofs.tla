-------------------------- MODULE BenchmarkProofs --------------------------
(***************************************************************************)
(* Proofs about the measured benchmark for words of every width: what is   *)
(* reported is the time that passed, and the variables of the program have *)
(* the values the report expects.                                          *)
(***************************************************************************)
EXTENDS Benchmark, Arithmetic

Half == Modulus \div 2

\* Nobody sets the compare register or reads the status: one match, at the
\* largest word, freezes the counter at 0.
TimerInv ==
  /\ T!TypeOK
  /\ CompareR = Modulus - 1
  /\ StatusR = 1 => CounterR = 0

\* The counter is in the second half of its period, or beyond it.
Late == StatusR = 1 \/ CounterR >= Half

\* The counter since it was read into Begin_Time.
Measuring(counter) ==
  /\ elapsed >= 1
  /\ Begin_Time < 0 => Late
  /\ Begin_Time >= 0 =>
       \/ StatusR = 1 /\ counter = 0
       \/ Number_Of_Runs = NUMBER_OF_RUNS /\ counter = Begin_Time + elapsed

MeasureInv ==
  /\ TypeOK /\ TimerInv
  /\ Late \/ Number_Of_Runs = NUMBER_OF_RUNS
  /\ at \in {"Runs", "Stop_Timer"} => Measuring(CounterR)
  /\ at = "Check" => \E word \in 0 .. Modulus - 1 :
                       /\ Measuring(word) /\ End_Time = Signed(word)
                       /\ word >= Half => Late
  /\ at \in {"Report", "Done"} =>
       /\ User_Time >= 1
       /\ Begin_Time >= 0 => User_Time = elapsed /\ Number_Of_Runs = NUMBER_OF_RUNS
  /\ MeasurementExact

-----------------------------------------------------------------------------
(* Words as C sees them.                                                    *)

\* The sizes of words and of their signed halves.
LEMMA Halves ==
  /\ Modulus \in Nat /\ Modulus = 2 * Half /\ Half \in Nat /\ Half >= 2
  /\ Long = -Half .. Half - 1
  /\ \A w \in 0 .. Modulus - 1 :
       Signed(w) \in Long /\ Signed(w) = IF w < Half THEN w ELSE w - Modulus
BY BenchmarkAssumption DEF Half, Long, Signed

\* An int is kept if it fits, and comes back from the other end if not.
LEMMA Wraps ==
  ASSUME NEW n \in Int
  PROVE  /\ Wrap(n) \in Long
         /\ n \in Long => Wrap(n) = n
         /\ n \in -Modulus .. -Half - 1 => Wrap(n) = n + Modulus
<1>1. n % Modulus \in 0 .. Modulus - 1
  BY Halves
<1>2. n >= 0 /\ n < Modulus => n % Modulus = n
  BY Halves
<1>3. n < 0 /\ n >= -Modulus => n % Modulus = n + Modulus
  <2> SUFFICES ASSUME n < 0, n >= -Modulus PROVE n % Modulus = n + Modulus
    OBVIOUS
  <2>1. Modulus \in Nat \ {0} /\ -1 \in Int /\ n + Modulus \in 0 .. Modulus - 1
    BY Halves
  <2>2. (Modulus * (-1) + (n + Modulus)) % Modulus = n + Modulus
    BY <2>1, QuotientUnique
  <2> QED BY <2>1, <2>2
<1> QED BY <1>1, <1>2, <1>3, Halves DEF Wrap

\* A quotient is no larger than the dividend.
LEMMA DividedType ==
  ASSUME NEW m \in Long, NEW n \in Nat \ {0}
  PROVE  /\ Divided(m, n) \in Long
         /\ m >= 0 => Divided(m, n) = m \div n
<1>1. \A x \in Nat : x \div n \in 0 .. x
  <2> SUFFICES ASSUME NEW x \in Nat PROVE x \div n \in 0 .. x
    OBVIOUS
  <2> DEFINE q == x \div n
             r == x % n
  <2>1. q \in Int /\ r \in 0 .. n - 1 /\ x = n * q + r
    BY Division
  <2> HIDE DEF q, r
  <2>2. q >= 0
    <3>1. SUFFICES ASSUME q <= -1 PROVE FALSE
      BY <2>1
    <3>2. n * q <= n * (-1)
      BY <2>1, <3>1
    <3> QED BY <2>1, <3>2
  <2>3. n * q >= q
    BY <2>1, <2>2
  <2> QED BY <2>1, <2>2, <2>3 DEF q
<1>2. m \in Int /\ (m < 0 => -m \in 0 .. Half) /\ (m >= 0 => m \in 0 .. Half - 1) /\ Half \in Nat
  BY Halves
<1>3. CASE m < 0
  <2>1. Divided(m, n) = -((-m) \div n)
    BY <1>3 DEF Divided
  <2>2. (-m) \div n \in 0 .. -m
    BY <1>1, <1>2, <1>3
  <2> QED BY <1>2, <1>3, <2>1, <2>2, Halves
<1>4. CASE m >= 0
  <2>1. Divided(m, n) = m \div n
    BY <1>2, <1>4 DEF Divided
  <2>2. m \div n \in 0 .. m
    BY <1>1, <1>2, <1>4
  <2> QED BY <1>2, <1>4, <2>1, <2>2, Halves
<1> QED BY <1>2, <1>3, <1>4

-----------------------------------------------------------------------------
(* The steps.                                                               *)

\* A tick of the timer: whatever the program does, it moves as if alone.
LEMMA Ticks ==
  ASSUME TimerInv, NEW b \in {Idle, ReadCounter}, T!Tick(b)
  PROVE  /\ TimerInv' /\ (Late => Late')
         /\ \/ StatusR' = 1 /\ CounterR' = 0
            \/ StatusR = 0 /\ CounterR' = CounterR + 1
<1>1. ~T!Reads(b, "Status") /\ ~T!Writes(b, "Compare")
  BY DEF Idle, ReadCounter, T!Reads, T!Writes
<1>2. /\ CompareR' = CompareR
      /\ CounterR' = IF StatusR = 1 \/ CounterR = Modulus - 1 THEN 0 ELSE CounterR + 1
      /\ StatusR' = IF CompareR = CounterR THEN 1 ELSE StatusR
  BY <1>1 DEF T!Tick, T!CompareNext, T!CounterNext, T!StatusNext, T!Match
<1>3. /\ CompareR = Modulus - 1 /\ CounterR \in 0 .. Modulus - 1 /\ StatusR \in {0, 1}
      /\ (StatusR = 1 => CounterR = 0)
  BY DEF TimerInv, T!TypeOK, T!Word
<1>4. /\ CompareR' = Modulus - 1 /\ CounterR' \in 0 .. Modulus - 1 /\ StatusR' \in {0, 1}
      /\ (StatusR' = 1 => CounterR' = 0)
  BY <1>2, <1>3, Halves
<1>5. TimerInv'
  BY <1>4 DEF TimerInv, T!TypeOK, T!Word
<1>6. Late => Late'
  BY <1>2, <1>3, Halves DEF Late
<1> QED BY <1>2, <1>3, <1>5, <1>6

\* The read that Start_Timer and Stop_Timer make returns the counter.
LEMMA CounterRead == T!DataOut(ReadCounter) = CounterR
<1>1. ReadCounter.cs /\ ~ReadCounter.write /\ ReadCounter.addr = "Counter"
  BY DEF ReadCounter
<1> QED BY <1>1 DEF T!DataOut

\* main begins with the timer as reset leaves it.
LEMMA BenchmarkStart == Init => MeasureInv
<1> SUFFICES ASSUME Init PROVE MeasureInv
  OBVIOUS
<1> USE DEF Init, T!AtReset
<1>1. TimerInv
  BY Halves DEF TimerInv, T!TypeOK, T!Word
<1>2. 0 \in Long /\ NUMBER_OF_RUNS \in Long
  <2>1. NUMBER_OF_RUNS <= HZ * NUMBER_OF_RUNS
    BY BenchmarkAssumption
  <2> QED BY <2>1, BenchmarkAssumption, Halves DEF Half
<1>3. 0 \in 0 .. ElapsedMax
  BY BenchmarkAssumption
<1>4. TypeOK
  BY <1>1, <1>2, <1>3 DEF TypeOK, TimerInv, Statements
<1> QED BY <1>1, <1>4 DEF MeasureInv, MeasurementExact

\* No statement of main and no tick in between breaks the measurement.
LEMMA BenchmarkStep == MeasureInv /\ [Next]_vars => MeasureInv'
<1> SUFFICES ASSUME MeasureInv, [Next]_vars PROVE MeasureInv'
  OBVIOUS
<1>0. /\ T!TypeOK /\ at \in Statements
      /\ Number_Of_Runs \in Long /\ Begin_Time \in Long /\ End_Time \in Long
      /\ User_Time \in Long /\ Microseconds \in Long /\ Dhrystones_Per_Second \in Long
      /\ elapsed \in 0 .. ElapsedMax
  BY DEF MeasureInv, TypeOK
<1>a. /\ CounterR \in 0 .. Modulus - 1 /\ StatusR \in {0, 1} /\ ElapsedMax \in Nat
      /\ ElapsedMax >= Modulus
  BY <1>0, BenchmarkAssumption DEF T!TypeOK, T!Word
<1>1. CASE Elsewhere
  <2>1. /\ at # "Done" /\ at' = at
        /\ elapsed' = IF at \in {"Runs", "Stop_Timer"} THEN Longer ELSE elapsed
        /\ UNCHANGED <<Number_Of_Runs, Begin_Time, End_Time, User_Time,
                       Microseconds, Dhrystones_Per_Second>>
    BY <1>1 DEF Elsewhere, times, report
  <2>2. /\ TimerInv' /\ (Late => Late')
        /\ \/ StatusR' = 1 /\ CounterR' = 0
           \/ StatusR = 0 /\ CounterR' = CounterR + 1
    BY <1>1, Ticks DEF Elsewhere, MeasureInv
  <2>3. elapsed' \in 0 .. ElapsedMax
    BY <1>0, <1>a, <2>1 DEF Longer
  <2>4. TypeOK'
    BY <1>0, <2>1, <2>2, <2>3 DEF TypeOK, TimerInv
  <2>5. (Late \/ Number_Of_Runs = NUMBER_OF_RUNS)'
    BY <2>1, <2>2 DEF MeasureInv
  <2>6. at' \in {"Runs", "Stop_Timer"} => Measuring(CounterR)'
    <3> SUFFICES ASSUME at \in {"Runs", "Stop_Timer"} PROVE Measuring(CounterR)'
      BY <2>1
    <3>1. Measuring(CounterR) /\ elapsed' = Longer
      BY <2>1 DEF MeasureInv
    <3>2. elapsed' >= 1
      BY <1>0, <1>a, <3>1 DEF Measuring, Longer
    <3>3. Begin_Time' < 0 => Late'
      BY <2>1, <2>2, <3>1 DEF Measuring
    <3>4. ASSUME Begin_Time >= 0, StatusR' # 1
          PROVE  Number_Of_Runs = NUMBER_OF_RUNS /\ CounterR' = Begin_Time + elapsed'
      <4>1. StatusR = 0 /\ CounterR' = CounterR + 1
        BY <2>2, <3>4
      <4>2. Number_Of_Runs = NUMBER_OF_RUNS /\ CounterR = Begin_Time + elapsed
        BY <3>1, <3>4, <4>1 DEF Measuring
      <4>3. elapsed < ElapsedMax
        BY <1>0, <1>a, <3>4, <4>2, Halves
      <4> QED BY <1>0, <3>1, <4>1, <4>2, <4>3, Halves DEF Longer
    <3>5. StatusR' = 1 => CounterR' = 0
      BY <2>2 DEF TimerInv
    <3> QED BY <2>1, <3>2, <3>3, <3>4, <3>5 DEF Measuring
  <2>7. ASSUME at' = "Check"
        PROVE  \E word \in 0 .. Modulus - 1 :
                 Measuring(word)' /\ End_Time' = Signed(word) /\ (word >= Half => Late')
    <3>1. at = "Check" /\ elapsed' = elapsed
      BY <2>1, <2>7
    <3>2. PICK word \in 0 .. Modulus - 1 :
            Measuring(word) /\ End_Time = Signed(word) /\ (word >= Half => Late)
      BY <3>1 DEF MeasureInv
    <3>3. StatusR = 1 => StatusR' = 1
      BY <2>2
    <3>4. Measuring(word)'
      BY <2>1, <2>2, <3>1, <3>2, <3>3 DEF Measuring
    <3> QED BY <2>1, <2>2, <3>2, <3>4
  <2>8. at' \in {"Report", "Done"} =>
          User_Time' >= 1 /\ (Begin_Time' >= 0 =>
             User_Time' = elapsed' /\ Number_Of_Runs' = NUMBER_OF_RUNS)
    BY <2>1 DEF MeasureInv
  <2> QED BY <2>1, <2>2, <2>4, <2>5, <2>6, <2>7, <2>8 DEF MeasureInv, MeasurementExact
<1>2. CASE Start_Timer
  <2>1. /\ at = "Start_Timer" /\ at' = "Runs" /\ elapsed' = 1
        /\ Begin_Time' = Signed(CounterR)
        /\ UNCHANGED <<Number_Of_Runs, End_Time, User_Time, Microseconds, Dhrystones_Per_Second>>
    BY <1>2, CounterRead DEF Start_Timer, report
  <2>2. /\ TimerInv' /\ (Late => Late')
        /\ \/ StatusR' = 1 /\ CounterR' = 0
           \/ StatusR = 0 /\ CounterR' = CounterR + 1
    BY <1>2, Ticks DEF Start_Timer, MeasureInv
  <2>3. Begin_Time' \in Long /\ Begin_Time' = IF CounterR < Half THEN CounterR ELSE CounterR - Modulus
    BY <1>a, <2>1, Halves
  <2>4. TypeOK'
    BY <1>0, <1>a, <2>1, <2>2, <2>3, Halves DEF TypeOK, TimerInv, Statements
  <2>5. (Late \/ Number_Of_Runs = NUMBER_OF_RUNS)'
    BY <2>1, <2>2 DEF MeasureInv
  <2>6. Measuring(CounterR)'
    <3>1. Begin_Time' < 0 => Late'
      BY <1>a, <2>2, <2>3, Halves DEF Late
    <3>2. ASSUME Begin_Time' >= 0, StatusR' # 1
          PROVE  Number_Of_Runs' = NUMBER_OF_RUNS /\ CounterR' = Begin_Time' + elapsed'
      <4>1. Begin_Time' = CounterR /\ CounterR < Half
        BY <1>a, <2>3, <3>2, Halves
      <4>2. StatusR = 0 /\ CounterR' = CounterR + 1
        BY <2>2, <3>2
      <4>3. ~Late
        BY <1>a, <4>1, <4>2, Halves DEF Late
      <4> QED BY <2>1, <4>1, <4>2, <4>3 DEF MeasureInv
    <3>3. StatusR' = 1 => CounterR' = 0
      BY <2>2 DEF TimerInv
    <3> QED BY <2>1, <3>1, <3>2, <3>3 DEF Measuring
  <2> QED BY <2>1, <2>2, <2>4, <2>5, <2>6 DEF MeasureInv, MeasurementExact
<1>3. CASE RunsMade
  <2>1. /\ at = "Runs" /\ at' = "Stop_Timer"
        /\ UNCHANGED <<timerVars, Number_Of_Runs, times, report, elapsed>>
    BY <1>3 DEF RunsMade
  <2> QED BY <2>1 DEF MeasureInv, MeasurementExact, TypeOK, TimerInv, T!TypeOK, Measuring,
                  Late, Statements, timerVars, times, report
<1>4. CASE Stop_Timer
  <2>1. /\ at = "Stop_Timer" /\ at' = "Check" /\ elapsed' = elapsed
        /\ End_Time' = Signed(CounterR)
        /\ UNCHANGED <<Number_Of_Runs, Begin_Time, User_Time, Microseconds, Dhrystones_Per_Second>>
    BY <1>4, CounterRead DEF Stop_Timer, report
  <2>2. /\ TimerInv' /\ (Late => Late')
        /\ \/ StatusR' = 1 /\ CounterR' = 0
           \/ StatusR = 0 /\ CounterR' = CounterR + 1
    BY <1>4, Ticks DEF Stop_Timer, MeasureInv
  <2>3. End_Time' \in Long
    BY <1>a, <2>1, Halves
  <2>4. TypeOK'
    BY <1>0, <2>1, <2>2, <2>3 DEF TypeOK, TimerInv, Statements
  <2>5. (Late \/ Number_Of_Runs = NUMBER_OF_RUNS)'
    BY <2>1, <2>2 DEF MeasureInv
  <2>6. \E word \in 0 .. Modulus - 1 :
          Measuring(word)' /\ End_Time' = Signed(word) /\ (word >= Half => Late')
    <3> DEFINE word == CounterR
    <3>1. Measuring(word)
      BY <2>1 DEF MeasureInv
    <3>2. StatusR = 1 => StatusR' = 1
      BY <2>2
    <3>3. /\ elapsed' >= 1 /\ (Begin_Time' < 0 => Late')
          /\ (Begin_Time' >= 0 =>
                \/ StatusR' = 1 /\ word = 0
                \/ Number_Of_Runs' = NUMBER_OF_RUNS /\ word = Begin_Time' + elapsed')
      BY <2>1, <2>2, <3>1, <3>2 DEF Measuring
    <3>4. word >= Half => Late'
      BY <2>2 DEF Late
    <3> HIDE DEF word
    <3>5. word \in 0 .. Modulus - 1 /\ End_Time' = Signed(word)
      BY <1>a, <2>1 DEF word
    <3> QED BY <3>3, <3>4, <3>5 DEF Measuring
  <2> QED BY <2>1, <2>2, <2>4, <2>5, <2>6 DEF MeasureInv, MeasurementExact
<1>5. CASE Check
  <2> DEFINE difference == Wrap(End_Time - Begin_Time)
  <2>1. /\ at = "Check" /\ User_Time' = difference
        /\ IF difference < 1
           THEN Number_Of_Runs' = Wrap(Number_Of_Runs * 10) /\ at' = "Start_Timer"
           ELSE at' = "Report" /\ Number_Of_Runs' = Number_Of_Runs
        /\ UNCHANGED <<timerVars, Begin_Time, End_Time, report, elapsed>>
    BY <1>5, BenchmarkAssumption DEF Check
  <2>2. PICK word \in 0 .. Modulus - 1 :
          Measuring(word) /\ End_Time = Signed(word) /\ (word >= Half => Late)
    BY <2>1 DEF MeasureInv
  <2>3. End_Time \in Int /\ Begin_Time \in Int
        /\ End_Time = IF word < Half THEN word ELSE word - Modulus
    BY <1>0, <2>2, Halves
  <2>4. difference \in Long
        /\ (End_Time - Begin_Time \in Long => difference = End_Time - Begin_Time)
        /\ (End_Time - Begin_Time \in -Modulus .. -Half - 1 =>
              difference = End_Time - Begin_Time + Modulus)
    BY <2>3, Wraps
  <2>5. ASSUME Begin_Time >= 0, difference >= 1
        PROVE  difference = elapsed /\ Number_Of_Runs = NUMBER_OF_RUNS
    <3> HIDE DEF difference
    <3>1. CASE word = 0
      <4>1. End_Time - Begin_Time \in Long /\ End_Time - Begin_Time <= 0
        BY <1>0, <2>3, <2>5, <3>1, Halves
      <4> QED BY <2>4, <2>5, <4>1, <2>3
    <3>2. CASE word # 0
      <4>1. Number_Of_Runs = NUMBER_OF_RUNS /\ word = Begin_Time + elapsed
        BY <2>2, <2>5, <3>2 DEF Measuring
      <4>2. CASE word < Half
        <5>1. End_Time - Begin_Time = elapsed /\ elapsed \in Long
          BY <1>0, <2>3, <2>5, <4>1, <4>2, Halves
        <5> QED BY <2>4, <4>1, <5>1
      <4>3. CASE word >= Half
        <5>1. End_Time - Begin_Time = elapsed - Modulus /\ elapsed >= 1
          BY <1>0, <2>2, <2>3, <2>5, <4>1, <4>3, Halves DEF Measuring
        <5>2. CASE elapsed < Half
          <6>1. End_Time - Begin_Time \in -Modulus .. -Half - 1
            BY <1>0, <5>1, <5>2, Halves
          <6> QED BY <1>0, <2>4, <4>1, <5>1, <6>1, Halves
        <5>3. CASE elapsed >= Half
          <6>1. End_Time - Begin_Time \in Long /\ End_Time - Begin_Time < 0
            BY <1>0, <2>5, <2>2, <4>1, <5>1, <5>3, Halves
          <6> QED BY <2>3, <2>4, <2>5, <6>1
        <5> QED BY <1>0, <5>2, <5>3, Halves
      <4> QED BY <2>2, <4>2, <4>3, Halves
    <3> QED BY <3>1, <3>2
  <2>6. ASSUME difference < 1 PROVE Late
    <3> HIDE DEF difference
    <3> SUFFICES ASSUME ~Late PROVE FALSE
      OBVIOUS
    <3>1. word < Half /\ End_Time = word
      BY <2>2, <2>3, Halves
    <3>2. Begin_Time >= 0 /\ elapsed >= 1 /\ word = Begin_Time + elapsed
      BY <1>0, <2>2, Halves DEF Measuring, Late
    <3>3. End_Time - Begin_Time = elapsed /\ elapsed \in Long
      BY <1>0, <2>3, <3>1, <3>2, Halves
    <3> QED BY <1>0, <2>4, <2>6, <3>2, <3>3
  <2> HIDE DEF difference
  <2>7. UNCHANGED <<timerVars, Begin_Time, End_Time, Microseconds, Dhrystones_Per_Second, elapsed>>
    BY <2>1 DEF report
  <2>8. Number_Of_Runs' \in Long /\ at' \in Statements
    <3>1. Number_Of_Runs * 10 \in Int
      BY <1>0, Halves
    <3> QED BY <1>0, <2>1, <3>1, Wraps DEF Statements
  <2>9. TypeOK' /\ TimerInv' /\ (Late => Late')
    BY <1>0, <2>1, <2>4, <2>7, <2>8
       DEF TypeOK, TimerInv, T!TypeOK, timerVars, Late, MeasureInv
  <2>10. (Late \/ Number_Of_Runs = NUMBER_OF_RUNS)'
    BY <2>1, <2>6, <2>9 DEF MeasureInv
  <2>11. CASE difference < 1
    BY <2>1, <2>9, <2>10, <2>11 DEF MeasureInv, MeasurementExact
  <2>12. CASE ~(difference < 1)
    <3>1. difference >= 1
      BY <2>4, <2>12, Halves
    <3> QED BY <2>1, <2>5, <2>7, <2>9, <2>10, <3>1 DEF MeasureInv, MeasurementExact
  <2> QED BY <2>11, <2>12
<1>6. CASE Report
  <2>1. /\ at = "Report" /\ at' = "Done"
        /\ Microseconds' =
             Divided(Wrap(Divided(User_Time, Number_Of_Runs) * Mic_secs_Per_Second), HZ)
        /\ Dhrystones_Per_Second' = Divided(Wrap(HZ * Number_Of_Runs), User_Time)
        /\ UNCHANGED <<timerVars, Number_Of_Runs, Begin_Time, End_Time, User_Time, elapsed>>
    BY <1>6 DEF Report, times
  <2>2. /\ User_Time >= 1
        /\ Begin_Time >= 0 => User_Time = elapsed /\ Number_Of_Runs = NUMBER_OF_RUNS
    BY <2>1 DEF MeasureInv
  <2>3. User_Time \in Nat \ {0} /\ HZ \in Nat \ {0} /\ Number_Of_Runs \in Int
    BY <1>0, <2>2, Halves, BenchmarkAssumption
  <2>4. Wrap(HZ * Number_Of_Runs) \in Long
    <3>1. HZ * Number_Of_Runs \in Int
      BY <2>3
    <3> QED BY <3>1, Wraps
  <2>5. Dhrystones_Per_Second' \in Long
    BY <2>1, <2>3, <2>4, DividedType
  <2>6. Microseconds' \in Long
    <3>1. Divided(User_Time, Number_Of_Runs) \in Int
      BY <2>3 DEF Divided
    <3>2. Divided(User_Time, Number_Of_Runs) * Mic_secs_Per_Second \in Int
      BY <3>1, BenchmarkAssumption
    <3> QED BY <2>1, <2>3, <3>2, Wraps, DividedType
  <2>7. Begin_Time' >= 0 =>
          /\ User_Time' = elapsed' /\ Number_Of_Runs' = NUMBER_OF_RUNS
          /\ Dhrystones_Per_Second' = (HZ * NUMBER_OF_RUNS) \div elapsed'
    <3> SUFFICES ASSUME Begin_Time >= 0
                 PROVE  Dhrystones_Per_Second' = (HZ * NUMBER_OF_RUNS) \div elapsed
      BY <2>1, <2>2
    <3> DEFINE rate == HZ * NUMBER_OF_RUNS
    <3>1. rate \in Long /\ rate >= 0
      <4>1. rate \in Nat /\ rate < Half
        BY BenchmarkAssumption DEF Half
      <4> HIDE DEF rate
      <4> QED BY <4>1, Halves
    <3>2. User_Time = elapsed /\ HZ * Number_Of_Runs = rate
      BY <2>2
    <3> HIDE DEF rate
    <3>3. Wrap(rate) = rate
      BY <3>1, Wraps, Halves
    <3> QED BY <2>1, <2>3, <3>1, <3>2, <3>3, DividedType DEF rate
  <2>8. TypeOK' /\ TimerInv' /\ (Late => Late')
    BY <1>0, <2>1, <2>5, <2>6
       DEF TypeOK, TimerInv, T!TypeOK, timerVars, Late, MeasureInv, Statements
  <2> QED BY <2>1, <2>2, <2>7, <2>8 DEF MeasureInv, MeasurementExact
<1>7. CASE UNCHANGED vars
  BY <1>7 DEF MeasureInv, MeasurementExact, TypeOK, TimerInv, T!TypeOK, Measuring,
              Late, vars, timerVars, times, report
<1> QED BY <1>1, <1>2, <1>3, <1>4, <1>5, <1>6, <1>7 DEF Next, Main

\* So it holds throughout.
LEMMA MeasureInvariant == Spec => []MeasureInv
BY BenchmarkStart, BenchmarkStep, PTL DEF Spec

\* No variable of the measurement overflows unnoticed: each is a long.
THEOREM BenchmarkTyped == Spec => []TypeOK
<1>1. MeasureInv => TypeOK
  BY DEF MeasureInv
<1> QED BY <1>1, MeasureInvariant, PTL

\* What is reported is exact to the cycle, whatever the frequency, the number
\* of runs and the width of the counter.
THEOREM MeasurementIsExact == Spec => []MeasurementExact
<1>1. MeasureInv => MeasurementExact
  BY DEF MeasureInv
<1> QED BY <1>1, MeasureInvariant, PTL

-----------------------------------------------------------------------------
(* The variables of the benchmark, run by run.                              *)

\* The variables of the program, the fields of a record, and what they hold.
Names == {"Int_Glob", "Bool_Glob", "Ch_1_Glob", "Ch_2_Glob", "Arr_1_Glob", "Arr_2_Glob",
          "rec", "Int_1_Loc", "Int_2_Loc", "Int_3_Loc", "Enum_Loc", "Str_1_Loc", "Str_2_Loc"}
Fields == {"Ptr_Comp", "Discr", "Enum_Comp", "Int_Comp", "Str_Comp"}

Array_1    == [One_Fifty -> Int]
Array_2    == [One_Fifty -> Array_1]
Contents   == Records \cup Int
Structures == [Records -> [Fields -> Contents]]

Values     == Int \cup Array_1 \cup Array_2 \cup Structures

\* Some of the variables of the benchmark are scalars, some are not.
Variables ==
  {s \in [Names -> Values] :
     s.Arr_1_Glob \in Array_1 /\ s.Arr_2_Glob \in Array_2 /\ s.rec \in Structures}

\* What a run relies on: the pointers and the discriminant that main sets up,
\* and the text in Str_1_Loc.
Ready ==
  {s \in Variables :
     /\ s.Str_1_Loc = 1
     /\ s.rec["Ptr"].Ptr_Comp = "Next" /\ s.rec["Ptr"].Discr = 0
     /\ s.rec["Ptr"].Enum_Comp = 2 /\ s.rec["Ptr"].Str_Comp = 0}

\* The records after a run.
LastRecords ==
  [r \in Records |->
     [Ptr_Comp |-> "Next", Discr |-> 0, Str_Comp |-> 0,
      Enum_Comp |-> IF r = "Ptr" THEN 2 ELSE 1,
      Int_Comp |-> IF r = "Ptr" THEN 17 ELSE 18]]

\* An int is an integer, whatever overflowed.
LEMMA WrapType == ASSUME NEW n \in Int PROVE Wrap(n) \in Int
BY BenchmarkAssumption DEF Wrap, Signed

\* What every step below needs to know of its variables.
LEMMA ReadyFacts ==
  /\ \A s \in Ready : s \in [Names -> Values] /\ s.Str_1_Loc = 1
  /\ \A x \in Int : x \in Values
BY DEF Ready, Variables, Values

\* Nothing but the pointers, the arrays and Str_1_Loc matters to Ready.
LEMMA StaysReady ==
  ASSUME NEW s \in Ready, NEW t \in [Names -> Values],
         t.Arr_1_Glob = s.Arr_1_Glob, t.Arr_2_Glob = s.Arr_2_Glob, t.rec = s.rec,
         t.Str_1_Loc = s.Str_1_Loc
  PROVE  t \in Ready
<1>1. t \in Variables
  BY DEF Variables, Ready
<1> QED BY <1>1 DEF Ready

\* The letters and Bool_Glob.  (Proc_5 and Proc_4)
LEMMA FirstPart ==
  ASSUME NEW s \in Ready
  PROVE  LET t == Proc_4(Proc_5(s))
         IN  /\ t \in Ready /\ t.Ch_1_Glob = 65 /\ t.Ch_2_Glob = 66 /\ t.Bool_Glob = 1
             /\ t.Arr_2_Glob = s.Arr_2_Glob
<1> DEFINE a == Proc_5(s)
           t == Proc_4(a)
<1>1. s \in [Names -> Values] /\ 65 \in Values /\ 66 \in Values /\ 0 \in Values /\ 1 \in Values
  BY ReadyFacts
<1>2. /\ a \in [Names -> Values] /\ a.Ch_1_Glob = 65
      /\ a.Arr_1_Glob = s.Arr_1_Glob /\ a.Arr_2_Glob = s.Arr_2_Glob /\ a.rec = s.rec
      /\ a.Str_1_Loc = s.Str_1_Loc
  BY <1>1 DEF Proc_5, Names
<1> HIDE DEF a
<1>3. /\ t \in [Names -> Values] /\ t.Ch_1_Glob = 65 /\ t.Ch_2_Glob = 66 /\ t.Bool_Glob = 1
      /\ t.Arr_1_Glob = a.Arr_1_Glob /\ t.Arr_2_Glob = a.Arr_2_Glob /\ t.rec = a.rec
      /\ t.Str_1_Loc = a.Str_1_Loc
  BY <1>1, <1>2 DEF Proc_4, Names
<1> HIDE DEF t
<1>4. t \in Ready
  BY <1>2, <1>3, StaysReady
<1> QED BY <1>2, <1>3, <1>4 DEF a, t

\* The locals, up to the call of Proc_8.  (Func_2 and Proc_7)
LEMMA UpToEighth ==
  ASSUME NEW s \in Ready, s.Ch_1_Glob = 65, s.Ch_2_Glob = 66
  PROVE  LET u == [Func_2_Globals(s, s.Str_1_Loc, 2) EXCEPT
                     !.Bool_Glob = IF Func_2(s.Str_1_Loc, 2) THEN 0 ELSE 1, !.Str_2_Loc = 2,
                     !.Enum_Loc = Ident_2, !.Int_1_Loc = 3, !.Int_2_Loc = 3,
                     !.Int_3_Loc = Proc_7(2, 3)]
         IN  /\ u \in Ready /\ u.Bool_Glob = 1 /\ u.Ch_1_Glob = 65 /\ u.Ch_2_Glob = 66
             /\ u.Str_2_Loc = 2 /\ u.Enum_Loc = 1
             /\ u.Int_1_Loc = 3 /\ u.Int_2_Loc = 3 /\ u.Int_3_Loc = 7
             /\ u.Arr_2_Glob = s.Arr_2_Glob
<1>1. /\ s \in [Names -> Values] /\ 0 \in Values /\ 1 \in Values /\ 2 \in Values
      /\ 3 \in Values /\ 7 \in Values
  BY ReadyFacts
<1>2. /\ ~Func_2(s.Str_1_Loc, 2) /\ Func_2_Globals(s, s.Str_1_Loc, 2) = s
      /\ Ident_2 = 1 /\ Proc_7(2, 3) = 7
  BY ReadyFacts DEF Func_2, Func_2_Globals, Ident_2, Proc_7
<1> DEFINE u == [s EXCEPT !.Bool_Glob = 1, !.Str_2_Loc = 2, !.Enum_Loc = 1,
                          !.Int_1_Loc = 3, !.Int_2_Loc = 3, !.Int_3_Loc = 7]
<1>3. /\ u \in [Names -> Values]
      /\ u.Bool_Glob = 1 /\ u.Ch_1_Glob = 65 /\ u.Ch_2_Glob = 66
      /\ u.Str_2_Loc = 2 /\ u.Enum_Loc = 1
      /\ u.Int_1_Loc = 3 /\ u.Int_2_Loc = 3 /\ u.Int_3_Loc = 7
      /\ u.Arr_1_Glob = s.Arr_1_Glob /\ u.Arr_2_Glob = s.Arr_2_Glob /\ u.rec = s.rec
      /\ u.Str_1_Loc = s.Str_1_Loc
  BY <1>1 DEF Names
<1>4. [Func_2_Globals(s, s.Str_1_Loc, 2) EXCEPT
          !.Bool_Glob = IF Func_2(s.Str_1_Loc, 2) THEN 0 ELSE 1, !.Str_2_Loc = 2,
          !.Enum_Loc = Ident_2, !.Int_1_Loc = 3, !.Int_2_Loc = 3,
          !.Int_3_Loc = Proc_7(2, 3)] = u
  BY <1>2
<1> HIDE DEF u
<1>5. u \in Ready
  BY <1>3, StaysReady
<1> QED BY <1>3, <1>4, <1>5

\* The arrays.  (Proc_8)
LEMMA Eighth ==
  ASSUME NEW s \in Ready
  PROVE  LET t == Proc_8(s, 3, 7)
         IN  /\ t \in Ready /\ t.Int_Glob = 5 /\ t.Arr_1_Glob[8] = 7
             /\ t.Arr_2_Glob[8][7] = Wrap(s.Arr_2_Glob[8][7] + 1)
             /\ \A f \in Names \ {"Int_Glob", "Arr_1_Glob", "Arr_2_Glob"} : t[f] = s[f]
<1> DEFINE w == Wrap(s.Arr_2_Glob[8][7] + 1)
           Arr == s.Arr_2_Glob
           one == [s.Arr_1_Glob EXCEPT ![8] = 7, ![9] = 7, ![38] = 8]
           row == [Arr[8] EXCEPT ![8] = 8, ![9] = 8, ![7] = w]
           other == [Arr[28] EXCEPT ![8] = 7]
           two == [Arr EXCEPT ![8] = row, ![28] = other]
           t == [s EXCEPT !.Arr_1_Glob = one, !.Arr_2_Glob = two, !.Int_Glob = 5]
<1>1. Proc_8(s, 3, 7) = t
  <2>1. 3 + 5 = 8 /\ 8 + 1 = 9 /\ 8 + 30 = 38 /\ 8 - 1 = 7 /\ 8 + 20 = 28
    OBVIOUS
  <2> QED BY <2>1 DEF Proc_8
<1>2. /\ s \in [Names -> Values] /\ s.Arr_1_Glob \in Array_1 /\ Arr \in Array_2
      /\ s.rec \in Structures /\ 5 \in Values
  BY ReadyFacts DEF Ready, Variables
<1>3. {7, 8, 9, 28, 38} \subseteq One_Fifty
  BY DEF One_Fifty
<1>4. w \in Int
  BY <1>2, <1>3, WrapType DEF Array_2, Array_1
<1> HIDE DEF w
<1>5. one \in Array_1 /\ one[8] = 7
  BY <1>2, <1>3 DEF Array_1
<1>6. row \in Array_1 /\ other \in Array_1 /\ row[7] = w
  BY <1>2, <1>3, <1>4 DEF Array_2, Array_1
<1> HIDE DEF row, other
<1>7. two \in Array_2 /\ two[8] = row
  BY <1>2, <1>3, <1>6 DEF Array_2
<1> HIDE DEF one, two
<1>8. one \in Values /\ two \in Values
  BY <1>5, <1>7 DEF Values
<1>9. /\ t \in [Names -> Values]
      /\ t.Int_Glob = 5 /\ t.Arr_1_Glob = one /\ t.Arr_2_Glob = two
      /\ \A f \in Names \ {"Int_Glob", "Arr_1_Glob", "Arr_2_Glob"} : t[f] = s[f]
  BY <1>2, <1>8 DEF Names
<1>10. t.rec = s.rec /\ t.Str_1_Loc = s.Str_1_Loc
  BY <1>9 DEF Names
<1> HIDE DEF t
<1>11. t \in Ready
  BY <1>5, <1>7, <1>9, <1>10 DEF Ready, Variables
<1> QED BY <1>1, <1>5, <1>6, <1>7, <1>9, <1>11 DEF w

\* The records.  (Proc_1, with Proc_3, Proc_6 and Proc_7)
LEMMA First ==
  ASSUME NEW s \in Ready, s.Int_Glob = 5
  PROVE  LET t == Proc_1(s)
         IN  /\ t \in Ready /\ t.rec = LastRecords
             /\ \A f \in Names \ {"rec"} : t[f] = s[f]
<1> DEFINE p == s.rec["Ptr"]
           r1 == [s.rec EXCEPT !["Next"] = [p EXCEPT !.Int_Comp = 5], !["Ptr"].Int_Comp = 5]
           copied == [s EXCEPT !.rec = r1]
           r3 == [r1 EXCEPT !["Next"].Ptr_Comp = "Next", !["Ptr"].Int_Comp = 17]
           t == [s EXCEPT !.rec = r3]
           old == r3["Next"]
           other == [old EXCEPT !.Int_Comp = 18, !.Enum_Comp = 1, !.Ptr_Comp = "Next"]
           last == [r3 EXCEPT !["Next"] = other]
           u == [s EXCEPT !.rec = last]
<1>1. /\ s \in [Names -> Values] /\ s.rec \in Structures /\ p.Ptr_Comp = "Next"
      /\ p.Discr = 0 /\ p.Enum_Comp = 2 /\ p.Str_Comp = 0
      /\ s.Arr_1_Glob \in Array_1 /\ s.Arr_2_Glob \in Array_2 /\ s.Str_1_Loc = 1
  BY ReadyFacts DEF Ready, Variables
<1>2. /\ r1 \in Structures
      /\ \A r \in Records : /\ r1[r].Ptr_Comp = "Next" /\ r1[r].Discr = 0
                            /\ r1[r].Enum_Comp = 2 /\ r1[r].Str_Comp = 0
  BY <1>1 DEF Structures, Records, Fields, Contents
<1>3. /\ r3 \in Structures /\ r3["Ptr"].Int_Comp = 17
      /\ \A r \in Records : /\ r3[r].Ptr_Comp = "Next" /\ r3[r].Discr = 0
                            /\ r3[r].Enum_Comp = 2 /\ r3[r].Str_Comp = 0
  <2> HIDE DEF r1
  <2> QED BY <1>2 DEF Structures, Records, Fields, Contents
<1>4. /\ last \in Structures
      /\ last["Ptr"].Int_Comp = 17 /\ last["Next"].Int_Comp = 18
      /\ last["Ptr"].Enum_Comp = 2 /\ last["Next"].Enum_Comp = 1
      /\ \A r \in Records : last[r].Ptr_Comp = "Next" /\ last[r].Discr = 0 /\ last[r].Str_Comp = 0
  <2> HIDE DEF r3
  <2>1. /\ other \in [Fields -> Contents]
        /\ other.Int_Comp = 18 /\ other.Enum_Comp = 1 /\ other.Ptr_Comp = "Next"
        /\ other.Discr = 0 /\ other.Str_Comp = 0
    <3>1. /\ old \in [Fields -> Contents]
          /\ old.Discr = 0 /\ old.Str_Comp = 0
      BY <1>3 DEF Structures, Records
    <3>2. 18 \in Contents /\ 1 \in Contents /\ "Next" \in Contents
      BY DEF Contents, Records
    <3> HIDE DEF old
    <3> QED BY <3>1, <3>2 DEF Fields
  <2> HIDE DEF other
  <2> QED BY <1>3, <2>1 DEF Structures, Records, Fields, Contents
<1>5. last = LastRecords
  <2> HIDE DEF last
  <2>1. LastRecords \in Structures
    BY DEF LastRecords, Structures, Records, Fields, Contents
  <2>2. ASSUME NEW r \in Records, NEW f \in Fields PROVE last[r][f] = LastRecords[r][f]
    BY <1>4 DEF LastRecords, Records, Fields
  <2> QED BY <1>4, <2>1, <2>2 DEF Structures
<1>6. Proc_1(s) = u
  <2> USE <1>1
  <2>1. [s EXCEPT !.rec["Next"] = [p EXCEPT !.Int_Comp = 5], !.rec["Ptr"].Int_Comp = 5] = copied
    BY DEF Names, Structures, Records
  <2>2. /\ copied \in [Names -> Values] /\ copied.rec = r1 /\ copied.Int_Glob = 5
    <3>1. r1 \in Values
      BY <1>2 DEF Values
    <3> HIDE DEF r1
    <3> QED BY <3>1 DEF Names
  <2>3. Proc_3(copied, "Next") = t
    <3>1. Proc_7(10, 5) = 17
      BY DEF Proc_7
    <3>2. Proc_3(copied, "Next") =
            [copied EXCEPT !.rec["Next"].Ptr_Comp = "Next", !.rec["Ptr"].Int_Comp = 17]
      <4> HIDE DEF copied, r1
      <4> QED BY <1>2, <2>2, <3>1 DEF Proc_3, Records
    <3>3. @ = [copied EXCEPT !.rec = r3]
      <4> HIDE DEF copied, r1
      <4> QED BY <1>2, <2>2 DEF Names, Structures, Records, Fields
    <3>4. @ = t
      <4> HIDE DEF r1, r3
      <4> QED BY DEF Names
    <3> QED BY <3>2, <3>3, <3>4
  <2>4. t \in [Names -> Values] /\ t.rec = r3
    <3>1. r3 \in Values
      BY <1>3 DEF Values
    <3> HIDE DEF r3
    <3> QED BY <3>1 DEF Names
  <2>5. /\ t.rec["Next"].Discr = Ident_1 /\ Proc_7(6, 10) = 18
        /\ Proc_6(t, t.rec["Ptr"].Enum_Comp) = 1 /\ t.rec["Ptr"].Ptr_Comp = "Next"
    BY <1>3, <2>4 DEF Records, Proc_7, Proc_6, Ident_1, Ident_2, Ident_3, Ident_4, Ident_5
  <2>6. Proc_1(s) = [t EXCEPT !.rec["Next"].Int_Comp = 18, !.rec["Next"].Enum_Comp = 1,
                              !.rec["Next"].Ptr_Comp = "Next"]
    <3> HIDE DEF t, copied
    <3> QED BY <2>1, <2>3, <2>5 DEF Proc_1
  <2>7. @ = [t EXCEPT !.rec = last]
    <3> HIDE DEF t, r3
    <3> QED BY <1>3, <2>4 DEF Names, Structures, Records, Fields
  <2>8. @ = u
    <3> HIDE DEF r3, last
    <3> QED BY DEF Names
  <2> QED BY <2>6, <2>7, <2>8
<1>7. u \in Ready /\ u.rec = last /\ \A f \in Names \ {"rec"} : u[f] = s[f]
  <2> HIDE DEF last
  <2>1. last \in Values
    BY <1>4 DEF Values
  <2>2. /\ u \in [Names -> Values] /\ u.rec = last
        /\ \A f \in Names \ {"rec"} : u[f] = s[f]
    BY <1>1, <2>1 DEF Names
  <2>3. /\ u.Arr_1_Glob = s.Arr_1_Glob /\ u.Arr_2_Glob = s.Arr_2_Glob
        /\ u.Str_1_Loc = s.Str_1_Loc
    BY <2>2 DEF Names
  <2> HIDE DEF u
  <2>4. u \in Variables
    BY <1>1, <1>4, <2>2, <2>3 DEF Variables
  <2> QED BY <1>1, <1>4, <2>2, <2>3, <2>4 DEF Ready, Records
<1> QED BY <1>5, <1>6, <1>7

\* What the report expects, but for the number of runs.
Expected(s) ==
  /\ s.Int_Glob = 5 /\ s.Bool_Glob = 1 /\ s.Ch_1_Glob = 65 /\ s.Ch_2_Glob = 66
  /\ s.Arr_1_Glob[8] = 7
  /\ s.rec = LastRecords
  /\ s.Int_1_Loc = 5 /\ s.Int_2_Loc = 13 /\ s.Int_3_Loc = 7 /\ s.Enum_Loc = 1
  /\ s.Str_1_Loc = 1 /\ s.Str_2_Loc = 2

\* The element that counts the runs.
Count(s) == s.Arr_2_Glob[8][7]

\* It is an integer.
LEMMA CountType == \A s \in Ready : Count(s) \in Int
<1> SUFFICES ASSUME NEW s \in Ready PROVE Count(s) \in Int
  OBVIOUS
<1>1. s.Arr_2_Glob \in Array_2 /\ 8 \in One_Fifty /\ 7 \in One_Fifty
  BY DEF Ready, Variables, One_Fifty
<1> QED BY <1>1 DEF Count, Array_2, Array_1

\* Up to the loop over the letters.
LEMMA FirstHalves ==
  ASSUME NEW s \in Ready
  PROVE  LET t == FirstHalf(s)
         IN  /\ t \in Ready /\ Count(t) = Wrap(Count(s) + 1)
             /\ t.Int_Glob = 5 /\ t.Bool_Glob = 1 /\ t.Ch_1_Glob = 65 /\ t.Ch_2_Glob = 66
             /\ t.Arr_1_Glob[8] = 7 /\ t.rec = LastRecords
             /\ t.Int_1_Loc = 3 /\ t.Int_2_Loc = 3 /\ t.Int_3_Loc = 7 /\ t.Enum_Loc = 1
             /\ t.Str_1_Loc = 1 /\ t.Str_2_Loc = 2
<1> DEFINE a == Proc_4(Proc_5(s))
           b == [Func_2_Globals(a, a.Str_1_Loc, 2) EXCEPT
                  !.Bool_Glob = IF Func_2(a.Str_1_Loc, 2) THEN 0 ELSE 1, !.Str_2_Loc = 2,
                  !.Enum_Loc = Ident_2, !.Int_1_Loc = 3, !.Int_2_Loc = 3,
                  !.Int_3_Loc = Proc_7(2, 3)]
           c == Proc_8(b, 3, 7)
           d == Proc_1(c)
<1>1. /\ a \in Ready /\ a.Ch_1_Glob = 65 /\ a.Ch_2_Glob = 66
      /\ a.Arr_2_Glob = s.Arr_2_Glob
  BY FirstPart
<1> HIDE DEF a
<1>2. /\ b \in Ready /\ b.Bool_Glob = 1 /\ b.Ch_1_Glob = 65 /\ b.Ch_2_Glob = 66
      /\ b.Str_2_Loc = 2 /\ b.Enum_Loc = 1
      /\ b.Int_1_Loc = 3 /\ b.Int_2_Loc = 3 /\ b.Int_3_Loc = 7
      /\ b.Arr_2_Glob = a.Arr_2_Glob
  BY <1>1, UpToEighth
<1>3. FirstHalf(s) = Proc_1(Proc_8(b, b.Int_1_Loc, b.Int_3_Loc))
  BY DEF FirstHalf, a
<1> HIDE DEF b
<1>4. FirstHalf(s) = d
  BY <1>2, <1>3
<1>5. /\ c \in Ready /\ c.Int_Glob = 5 /\ c.Arr_1_Glob[8] = 7
      /\ Count(c) = Wrap(Count(b) + 1)
      /\ \A f \in Names \ {"Int_Glob", "Arr_1_Glob", "Arr_2_Glob"} : c[f] = b[f]
  BY <1>2, Eighth DEF Count
<1>6. /\ c.Bool_Glob = 1 /\ c.Ch_1_Glob = 65 /\ c.Ch_2_Glob = 66
      /\ c.Str_2_Loc = 2 /\ c.Enum_Loc = 1
      /\ c.Int_1_Loc = 3 /\ c.Int_2_Loc = 3 /\ c.Int_3_Loc = 7
  BY <1>2, <1>5 DEF Names
<1> HIDE DEF c
<1>7. d \in Ready /\ d.rec = LastRecords /\ \A f \in Names \ {"rec"} : d[f] = c[f]
  BY <1>5, First
<1> HIDE DEF d
<1>8. /\ d.Int_Glob = 5 /\ d.Bool_Glob = 1 /\ d.Ch_1_Glob = 65 /\ d.Ch_2_Glob = 66
      /\ d.Arr_1_Glob = c.Arr_1_Glob /\ d.Arr_2_Glob = c.Arr_2_Glob
      /\ d.Int_1_Loc = 3 /\ d.Int_2_Loc = 3 /\ d.Int_3_Loc = 7 /\ d.Enum_Loc = 1
      /\ d.Str_2_Loc = 2
  BY <1>5, <1>6, <1>7 DEF Names
<1>9. Count(d) = Wrap(Count(s) + 1)
  BY <1>1, <1>2, <1>5, <1>8 DEF Count
<1> QED BY <1>4, <1>5, <1>7, <1>8, <1>9, ReadyFacts

\* The loop over the letters changes nothing.
LEMMA LettersPass ==
  ASSUME NEW s, s.Enum_Loc = 1, NEW c \in {65, 66}, NEW k
  PROVE  Letter(s, c, k) = s
<1>1. Func_1_Globals(s, c, 67) = s /\ Func_1(c, 67) = 0
  BY DEF Func_1_Globals, Func_1, Ident_1
<1> QED BY <1>1 DEF Letter

\* A run leaves what the report expects and counts itself.
LEMMA OneRunIsExpected ==
  ASSUME NEW s \in Ready, NEW k
  PROVE  LET t == OneRun(s, k)
         IN  t \in Ready /\ Expected(t) /\ Count(t) = Wrap(Count(s) + 1)
<1> DEFINE a == FirstHalf(s)
           t == [a EXCEPT !.Int_2_Loc = 13, !.Int_1_Loc = 5]
<1>1. /\ a \in Ready /\ Count(a) = Wrap(Count(s) + 1)
      /\ a.Int_Glob = 5 /\ a.Bool_Glob = 1 /\ a.Ch_1_Glob = 65 /\ a.Ch_2_Glob = 66
      /\ a.Arr_1_Glob[8] = 7 /\ a.rec = LastRecords
      /\ a.Int_1_Loc = 3 /\ a.Int_2_Loc = 3 /\ a.Int_3_Loc = 7 /\ a.Enum_Loc = 1
      /\ a.Str_1_Loc = 1 /\ a.Str_2_Loc = 2
  BY FirstHalves
<1> HIDE DEF a
<1>2. OneRun(s, k) = t
  <2>1. Letter(Letter(a, 65, k), 66, k) = a
    BY <1>1, LettersPass
  <2>2. /\ a.Int_2_Loc * a.Int_1_Loc = 9 /\ 9 \div a.Int_3_Loc = 1
        /\ 7 * (9 - a.Int_3_Loc) - 1 = 13
    BY <1>1
  <2>3. Proc_2(a, 1) = 5
    BY <1>1 DEF Proc_2
  <2>4. OneRun(s, k) = SecondHalf(a, k)
    BY DEF OneRun, a
  <2> QED BY <2>1, <2>2, <2>3, <2>4, Zenon DEF SecondHalf
<1>3. a \in [Names -> Values] /\ 13 \in Values /\ 5 \in Values
  BY <1>1, ReadyFacts
<1>4. /\ t \in [Names -> Values] /\ t.Int_1_Loc = 5 /\ t.Int_2_Loc = 13
      /\ \A f \in Names \ {"Int_1_Loc", "Int_2_Loc"} : t[f] = a[f]
  BY <1>3 DEF Names
<1> HIDE DEF t
<1>5. /\ t.Int_Glob = 5 /\ t.Bool_Glob = 1 /\ t.Ch_1_Glob = 65 /\ t.Ch_2_Glob = 66
      /\ t.Arr_1_Glob = a.Arr_1_Glob /\ t.Arr_2_Glob = a.Arr_2_Glob /\ t.rec = a.rec
      /\ t.Int_3_Loc = 7 /\ t.Enum_Loc = 1 /\ t.Str_1_Loc = 1 /\ t.Str_2_Loc = 2
  BY <1>1, <1>4 DEF Names
<1>6. t \in Ready
  BY <1>1, <1>4, <1>5, StaysReady
<1>7. Expected(t) /\ Count(t) = Count(a)
  BY <1>1, <1>4, <1>5 DEF Expected, Count
<1> QED BY <1>1, <1>2, <1>6, <1>7

\* An overflow may be taken at once or at the end.
LEMMA WrapPlus ==
  ASSUME NEW m \in Int, NEW n \in Int PROVE Wrap(Wrap(m) + n) = Wrap(m + n)
<1> DEFINE q == m \div Modulus
           r == m % Modulus
<1>1. Modulus \in Nat \ {0} /\ q \in Int /\ r \in 0 .. Modulus - 1 /\ m = Modulus * q + r
  <2>1. Modulus \in Nat \ {0}
    BY Halves
  <2> QED BY <2>1, Division
<1>2. PICK j \in Int : Wrap(m) = r + Modulus * j
  <2> HIDE DEF r
  <2>1. Signed(r) \in {r, r - Modulus}
    BY <1>1 DEF Signed
  <2>2. Modulus * 0 = 0 /\ Modulus * (-1) = -Modulus
    BY <1>1
  <2>3. r = r + Modulus * 0 /\ r - Modulus = r + Modulus * (-1) /\ 0 \in Int /\ -1 \in Int
    BY <1>1, <2>2
  <2>4. Wrap(m) = Signed(r)
    BY DEF Wrap, r
  <2> QED BY <2>1, <2>3, <2>4
<1> HIDE DEF q, r
<1>3. Wrap(m) + n = (m + n) + Modulus * (j - q)
  <2>1. Modulus * (j - q) = Modulus * j - Modulus * q
    BY <1>1, <1>2
  <2>2. Modulus * j \in Int /\ Modulus * q \in Int
    BY <1>1, <1>2
  <2> QED BY <1>1, <1>2, <2>1, <2>2
<1>4. ((m + n) + Modulus * (j - q)) % Modulus = (m + n) % Modulus
  <2>1. m + n \in Int /\ j - q \in Int
    BY <1>1, <1>2
  <2> HIDE <1>2
  <2> QED BY <1>1, <2>1, ModPlus
<1> QED BY <1>3, <1>4 DEF Wrap

\* The recursion of Runs has a solution, and what holds of one run holds of
\* them all.
LEMMA RunsAreExpected ==
  ASSUME NEW s \in Ready, NEW n \in Nat \ {0}
  PROVE  LET t == Runs(s, n)
         IN  t \in Ready /\ Expected(t) /\ Count(t) = Wrap(Count(s) + n)
<1> DEFINE step == [k \in Nat |-> [t \in Ready |-> OneRun(t, k)]]
<1>1. PICK f \in [Nat -> Ready] : Recursion(f, s, step)
  <2>1. step \in [Nat -> [Ready -> Ready]]
    BY OneRunIsExpected
  <2> HIDE DEF step
  <2> QED BY <2>1, RecursionExists, Zenon
<1>2. ASSUME NEW k \in Nat PROVE f[k + 1] = OneRun(f[k], k + 1)
  <2> HIDE DEF step
  <2>1. f[k] \in Ready /\ f[k + 1] = step[k + 1][f[k]] /\ k + 1 \in Nat
    BY <1>1 DEF Recursion
  <2> USE DEF step
  <2> QED BY <2>1
<1> HIDE DEF step
<1>3. f[0] = s
  BY <1>1 DEF Recursion
<1> DEFINE g == [k \in 0 .. n |-> f[k]]
<1>4. g = [k \in 0 .. n |-> IF k = 0 THEN s ELSE OneRun(g[k - 1], k)]
  <2>1. ASSUME NEW k \in 0 .. n, k # 0 PROVE f[k] = OneRun(g[k - 1], k)
    <3>1. k - 1 \in Nat /\ k - 1 \in 0 .. n /\ (k - 1) + 1 = k
      BY <2>1
    <3> QED BY <3>1, <1>2
  <2> QED BY <1>3, <2>1
<1> HIDE DEF g
<1> DEFINE after[k \in 0 .. n] == IF k = 0 THEN s ELSE OneRun(after[k - 1], k)
<1>5. after = [k \in 0 .. n |-> IF k = 0 THEN s ELSE OneRun(after[k - 1], k)]
  BY <1>4, Zenon DEF after
<1>6. Runs(s, n) = after[n]
  <2>1. ~(n < 1)
    OBVIOUS
  <2> QED BY <2>1, Zenon DEF Runs
<1> HIDE DEF after
<1> DEFINE Made(k) == /\ after[k] \in Ready
                      /\ Wrap(Count(after[k])) = Wrap(Count(s) + k)
                      /\ k # 0 => /\ Expected(after[k])
                                  /\ Count(after[k]) = Wrap(Count(s) + k)
           Ks == {k \in Nat : k <= n => Made(k)}
<1>7. \A k \in 0 .. n : after[k] = IF k = 0 THEN s ELSE OneRun(after[k - 1], k)
  BY <1>5, Zenon
<1>8. 0 \in Ks
  <2>1. after[0] = s
    BY <1>7
  <2>2. Count(s) + 0 = Count(s)
    BY CountType
  <2> QED BY <2>1, <2>2
<1>9. ASSUME NEW k \in Nat, k \in Ks PROVE k + 1 \in Ks
  <2> SUFFICES ASSUME k + 1 <= n PROVE Made(k + 1)
    OBVIOUS
  <2>1. after[k] \in Ready /\ Wrap(Count(after[k])) = Wrap(Count(s) + k)
    BY <1>9
  <2>2. after[k + 1] = OneRun(after[k], k + 1)
    <3>1. k + 1 \in 0 .. n /\ k + 1 # 0 /\ (k + 1) - 1 = k
      OBVIOUS
    <3> QED BY <1>7, <3>1
  <2> DEFINE t == after[k + 1]
  <2>3. t \in Ready /\ Expected(t) /\ Count(t) = Wrap(Count(after[k]) + 1)
    BY <2>1, <2>2, OneRunIsExpected
  <2>4. Count(s) \in Int /\ Count(after[k]) \in Int /\ Count(t) \in Int
    BY <2>1, <2>3, CountType
  <2> DEFINE c == Count(s)
             m == Count(after[k])
             d == Count(t)
  <2>5. Wrap(m + 1) = Wrap(c + (k + 1))
    <3> HIDE DEF c, m
    <3>1. Wrap(m + 1) = Wrap(Wrap(m) + 1)
      BY <2>4, WrapPlus DEF c, m
    <3>2. Wrap(Wrap(c + k) + 1) = Wrap((c + k) + 1)
      <4>1. c + k \in Int
        BY <2>4 DEF c
      <4> QED BY <4>1, WrapPlus
    <3>3. (c + k) + 1 = c + (k + 1)
      BY <2>4 DEF c
    <3>4. Wrap(m) = Wrap(c + k)
      BY <2>1 DEF m, c
    <3> QED BY <3>1, <3>2, <3>3, <3>4
  <2>6. d = Wrap(c + (k + 1))
    BY <2>3, <2>5
  <2>7. Wrap(d) = Wrap(c + (k + 1))
    <3> HIDE DEF c, d
    <3>1. c + (k + 1) \in Int
      BY <2>4 DEF c
    <3>2. Wrap(Wrap(c + (k + 1)) + 0) = Wrap((c + (k + 1)) + 0)
      BY <3>1, WrapPlus
    <3>3. (c + (k + 1)) + 0 = c + (k + 1) /\ Wrap(c + (k + 1)) + 0 = Wrap(c + (k + 1))
      BY <3>1, Wraps, Halves
    <3> QED BY <2>6, <3>2, <3>3
  <2> QED BY <2>3, <2>6, <2>7
<1> HIDE DEF Ks
<1>10. Nat \subseteq Ks
  BY <1>8, <1>9, SetInduction
<1>11. Made(n)
  BY <1>10 DEF Ks
<1> HIDE DEF after
<1> QED BY <1>6, <1>11

\* The variables between the statements of main: the runs of all tries have
\* left what the report expects, and the array has counted them.
FinalInv ==
  /\ v \in Ready /\ total \in Int
  /\ Wrap(Count(v)) = Wrap(total + 10)
  /\ total # 0 => Expected(v) /\ Count(v) = Wrap(total + 10)

\* What main sets up before the first run.
LEMMA StartsReady == Initial \in Ready /\ Count(Initial) = 10
<1> DEFINE Row(k) == [l \in One_Fifty |-> IF k = 8 /\ l = 7 THEN 10 ELSE 0]
           one == [k \in One_Fifty |-> 0]
           two == [k \in One_Fifty |-> Row(k)]
           recs == [r \in Records |->
                     [Ptr_Comp |-> "Next", Discr |-> Ident_1,
                      Enum_Comp |-> IF r = "Ptr" THEN Ident_3 ELSE Ident_1,
                      Int_Comp |-> IF r = "Ptr" THEN 40 ELSE 0, Str_Comp |-> 0]]
<1>1. one \in Array_1
  BY DEF Array_1
<1>2. two \in Array_2 /\ two[8][7] = 10
  <2>1. \A k \in One_Fifty : Row(k) \in Array_1
    BY DEF Array_1
  <2>2. 8 \in One_Fifty /\ 7 \in One_Fifty
    BY DEF One_Fifty
  <2>3. Row(8)[7] = 10
    BY <2>2
  <2> HIDE DEF Row
  <2> QED BY <2>1, <2>2, <2>3 DEF Array_2
<1>3. recs \in Structures
  BY DEF Structures, Records, Fields, Contents, Ident_1, Ident_3
<1>4. /\ recs["Ptr"].Ptr_Comp = "Next" /\ recs["Ptr"].Discr = 0
      /\ recs["Ptr"].Enum_Comp = 2 /\ recs["Ptr"].Str_Comp = 0
  BY DEF Records, Ident_1, Ident_3
<1> HIDE DEF one, two, recs
<1>5. one \in Values /\ two \in Values /\ recs \in Values /\ 0 \in Values /\ 1 \in Values
  BY <1>1, <1>2, <1>3 DEF Values
<1>6. Initial = [Int_Glob |-> 0, Bool_Glob |-> 0, Ch_1_Glob |-> 0, Ch_2_Glob |-> 0,
                 Arr_1_Glob |-> one, Arr_2_Glob |-> two, rec |-> recs,
                 Int_1_Loc |-> 0, Int_2_Loc |-> 0, Int_3_Loc |-> 0, Enum_Loc |-> 0,
                 Str_1_Loc |-> 1, Str_2_Loc |-> 0]
  BY DEF Initial, one, two, recs, Ident_1
<1>7. /\ Initial \in [Names -> Values]
      /\ Initial.Arr_1_Glob = one /\ Initial.Arr_2_Glob = two /\ Initial.rec = recs
      /\ Initial.Str_1_Loc = 1
  BY <1>5, <1>6 DEF Names
<1> QED BY <1>1, <1>2, <1>3, <1>4, <1>7 DEF Ready, Variables, Count

\* Whatever the number of runs and of tries, Dhrystone's variables end with
\* the values the report expects, and the array has counted the runs.
\* (dhrystone_main.c and dhrystone.c)
THEOREM FinalValuesAreExpected == Spec => []FinalValues
<1>1. Init => FinalInv
  <2> SUFFICES ASSUME Init PROVE FinalInv
    OBVIOUS
  <2>1. v = Initial /\ total = 0 /\ 0 + 10 = 10
    BY DEF Init
  <2> QED BY <2>1, StartsReady DEF FinalInv
<1>2. TypeOK /\ FinalInv /\ [Next]_vars => FinalInv'
  <2> SUFFICES ASSUME TypeOK, FinalInv, [Next]_vars PROVE FinalInv'
    OBVIOUS
  <2>1. CASE RunsMade /\ Number_Of_Runs > 0
    <3> DEFINE n == Number_Of_Runs
               c == Count(v)
    <3>1. n \in Nat \ {0}
      BY <2>1, Halves DEF TypeOK
    <3>2. v' = Runs(v, n) /\ total' = Wrap(total + n)
      BY <2>1 DEF RunsMade
    <3>3. v \in Ready /\ total \in Int /\ Wrap(c) = Wrap(total + 10) /\ c \in Int
      BY CountType DEF FinalInv
    <3>4. v' \in Ready /\ Expected(v') /\ Count(v') = Wrap(c + n)
      BY <3>1, <3>2, <3>3, RunsAreExpected
    <3> HIDE DEF n, c
    <3>5. total' \in Int
      BY <3>1, <3>2, <3>3, Wraps, Halves
    <3>6. Wrap(c + n) = Wrap((total + n) + 10)
      <4>1. total + 10 \in Int /\ (total + 10) + n = (total + n) + 10
        BY <3>1, <3>3
      <4>2. Wrap(c + n) = Wrap(Wrap(c) + n)
        BY <3>1, <3>3, WrapPlus
      <4>3. Wrap(Wrap(total + 10) + n) = Wrap((total + 10) + n)
        BY <3>1, <4>1, WrapPlus
      <4> QED BY <3>3, <4>1, <4>2, <4>3
    <3>7. Wrap(total' + 10) = Wrap((total + n) + 10)
      <4>1. total + n \in Int
        BY <3>1, <3>3
      <4> QED BY <3>2, <4>1, WrapPlus
    <3>8. Count(v') = Wrap(total' + 10)
      BY <3>4, <3>6, <3>7
    <3>9. Wrap(Count(v')) = Wrap(total' + 10)
      <4> DEFINE m == total' + 10
      <4>1. m \in Int
        BY <3>5
      <4> HIDE DEF m
      <4>2. Wrap(Wrap(m) + 0) = Wrap(m + 0)
        BY <4>1, WrapPlus
      <4>3. m + 0 = m /\ Wrap(m) + 0 = Wrap(m)
        BY <4>1, Wraps, Halves
      <4>4. Count(v') = Wrap(m)
        BY <3>8 DEF m
      <4> QED BY <4>2, <4>3, <4>4 DEF m
    <3> QED BY <3>4, <3>5, <3>8, <3>9 DEF FinalInv
  <2>2. CASE RunsMade /\ ~(Number_Of_Runs > 0)
    <3>1. Number_Of_Runs < 1
      BY <2>2, Halves DEF TypeOK
    <3>2. v' = v /\ total' = total
      BY <2>2, <3>1 DEF RunsMade, Runs
    <3> QED BY <3>2 DEF FinalInv
  <2>3. CASE UNCHANGED <<v, total>>
    BY <2>3 DEF FinalInv
  <2>4. Next => RunsMade \/ UNCHANGED <<v, total>>
    BY DEF Next, Main, Elsewhere, Start_Timer, Stop_Timer, Check, Report
  <2>5. UNCHANGED vars => UNCHANGED <<v, total>>
    BY DEF vars
  <2> QED BY <2>1, <2>2, <2>3, <2>4, <2>5
<1>3. FinalInv => FinalValues
  BY DEF FinalInv, FinalValues, Expected, Count, LastRecords
<1> QED BY <1>1, <1>2, <1>3, BenchmarkTyped, PTL DEF Spec
=============================================================================
