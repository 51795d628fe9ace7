---------------------------- MODULE SystemProofs ----------------------------
(***************************************************************************)
(* Proofs about the composed system: it is an instance of the pipeline, so *)
(* the theorems about the core hold in it.                                 *)
(***************************************************************************)
EXTENDS SystemCheck, PipelineProofs, FiniteSetTheorems

\* What the buses carry.  (SMU_RV32IM_System.v)
LEMMA BusTypes ==
  ASSUME TypeOK
  PROVE  TimerBus \in T!Bus /\ TbmanBus \in B!Bus
<1>1. data_addr \in Word /\ EM.WriteData \in Word /\ InstrM.funct3 \in 0 .. 7
  BY WireTypes DEF TypeOK, EMType, data_addr, Instr
<1>2. data_addr % 4 \in 0 .. 3
  BY <1>1, WordFacts
<1>3. write_data \in Word
  BY <1>1, <1>2, LanesAssumption DEF write_data
<1>4. data_we \in BOOLEAN
  BY DEF data_we
<1>5. TimerBus \in T!Bus
  BY <1>3, <1>4, BusAssumption DEF TimerBus, T!Bus, T!Registers, T!Word, Word
<1>6. TbmanBus \in B!Bus
  BY <1>1, <1>3, <1>4 DEF TbmanBus, B!Bus, Word
<1> QED BY <1>5, <1>6

\* Whatever a peripheral answers is a word.
LEMMA ReadType ==
  T!TypeOK /\ B!TypeOK => PeripheralRead \in Word
<1> SUFFICES ASSUME T!TypeOK, B!TypeOK PROVE PeripheralRead \in Word
  OBVIOUS
<1>1. CompareR \in Word /\ CounterR \in Word /\ StatusR \in Word /\ irq_force \in Word
      /\ 0 \in Word /\ 1 \in Word
  BY SizeAssumption, BusAssumption DEF T!TypeOK, T!Word, B!TypeOK, Word
<1>2. T!DataOut(TimerBus) \in Word
  BY <1>1 DEF T!DataOut
<1>3. B!DataOut(data_addr) \in Word
  BY <1>1 DEF B!DataOut
<1> QED BY <1>1, <1>2, <1>3 DEF PeripheralRead

\* At reset no peripheral is addressed.
LEMMA NothingRead == AtReset => PeripheralRead = 0
BY BusAssumption DEF AtReset, ResetEM, PeripheralRead, data_addr

\* An edge of the timer or the TBMAN keeps its registers within their width.
LEMMA TimerTick ==
  ASSUME TypeOK, T!TypeOK, T!Tick(TimerBus) PROVE T!TypeOK'
<1>1. TimerBus.data \in T!Word
  BY BusTypes DEF T!Bus
<1> QED BY <1>1, SizeAssumption
        DEF T!Tick, T!TypeOK, T!Word, T!CompareNext, T!CounterNext, T!StatusNext

\* The TBMAN's edge keeps its types.
LEMMA TbmanEdge ==
  ASSUME TypeOK, B!TypeOK, B!Edge(TbmanBus) PROVE B!TypeOK'
<1>1. TbmanBus.data \in Nat
  BY BusTypes, SizeAssumption DEF B!Bus
<1>2. B!Char(TbmanBus) \in 0 .. CharSize - 1 /\ TbmanBus.data % IrqSize \in 0 .. IrqSize - 1
  BY <1>1, BusAssumption, SizeAssumption DEF B!Char
<1>3. print_str' \in Seq(0 .. CharSize - 1) /\ Len(print_str') <= LineMax
  <2> DEFINE c == B!Char(TbmanBus)
  <2>1. print_str' \in {print_str, <<>>} \/ (Len(print_str) < LineMax /\ print_str' = Append(print_str, c))
    BY DEF B!Edge, B!PrintNext
  <2>2. print_str \in Seq(0 .. CharSize - 1) /\ Len(print_str) <= LineMax
    BY DEF B!TypeOK
  <2>3. <<>> \in Seq(0 .. CharSize - 1) /\ Len(<<>>) <= LineMax
    BY BusAssumption
  <2>4. c \in 0 .. CharSize - 1
    BY <1>2
  <2> HIDE DEF c
  <2>5. ASSUME Len(print_str) < LineMax
        PROVE  /\ Append(print_str, c) \in Seq(0 .. CharSize - 1)
               /\ Len(Append(print_str, c)) <= LineMax
    BY <2>2, <2>4, <2>5, BusAssumption
  <2> QED BY <2>1, <2>2, <2>3, <2>5
<1>4. irq_force' \in 0 .. IrqSize - 1
  BY <1>2 DEF B!TypeOK, B!Edge
<1>5. finished' \in BOOLEAN
  BY DEF B!TypeOK, B!Edge, B!Writes
<1> QED BY <1>3, <1>4, <1>5 DEF B!TypeOK

-----------------------------------------------------------------------------

\* Every step of the system is a step of the core, or none.
LEMMA StepOfCore ==
  ASSUME SystemTypeOK, SystemNext
  PROVE  /\ [Next]_vars
         /\ T!TypeOK' /\ B!TypeOK' /\ reset_ff' \in Bit /\ devData' = PeripheralRead'
<1> USE DEF SystemTypeOK
<1>1. CASE ResetFalls
  <2>1. T!TypeOK' /\ reset_ff' \in Bit
    BY <1>1 DEF ResetFalls, timerVars, T!TypeOK
  <2>2. B!TypeOK'
    BY <1>1, BusAssumption DEF ResetFalls, B!Reset, B!TypeOK
  <2>3. PeripheralRead' \in Word
    <3>1. (T!TypeOK /\ B!TypeOK => PeripheralRead \in Word)'
      BY ReadType, PTL
    <3> QED BY <2>1, <2>2, <3>1
  <2> QED BY <1>1, <2>1, <2>2, <2>3, BusAssumption DEF ResetFalls, Next, Reset
<1>2. ASSUME NEW button \in Bit, Edge(button)
      PROVE  /\ [Next]_vars
             /\ T!TypeOK' /\ B!TypeOK' /\ reset_ff' \in Bit
             /\ devData' = PeripheralRead'
  <2>1. T!TypeOK' /\ B!TypeOK' /\ reset_ff' \in Bit
    BY <1>2, TimerTick, TbmanEdge DEF Edge
  <2>2. PeripheralRead' \in Word
    <3>1. (T!TypeOK /\ B!TypeOK => PeripheralRead \in Word)'
      BY ReadType, PTL
    <3> QED BY <2>1, <3>1
  <2> QED BY <1>2, <2>1, <2>2, BusAssumption DEF Edge, Next, Clock
<1>3. ASSUME NEW button \in Bit, HeldEdge(button)
      PROVE  /\ [Next]_vars
             /\ T!TypeOK' /\ B!TypeOK' /\ reset_ff' \in Bit
             /\ devData' = PeripheralRead'
  <2>1. T!TypeOK' /\ reset_ff' \in Bit
    BY <1>3, SizeAssumption DEF HeldEdge, T!ResetTick, T!TypeOK, T!Word
  <2>2. B!TypeOK'
    BY <1>3 DEF HeldEdge, tbmanVars, B!TypeOK
  <2>3. AtReset /\ AtReset' /\ devData' = devData
    BY <1>3 DEF HeldEdge, ResetArrived, vars, AtReset
  <2>4. PeripheralRead = 0 /\ PeripheralRead' = 0
    <3>1. (AtReset => PeripheralRead = 0)'
      BY NothingRead, PTL
    <3> QED BY <2>3, <3>1, NothingRead
  <2> QED BY <1>3, <2>1, <2>2, <2>3, <2>4 DEF HeldEdge
<1> QED BY <1>1, <1>2, <1>3 DEF SystemNext

\* The system starts as its core does.
LEMMA SystemInitTypes == SystemInit => SystemTypeOK /\ Init
<1> SUFFICES ASSUME SystemInit PROVE SystemTypeOK /\ Init
  OBVIOUS
<1>1. T!TypeOK
  BY BusAssumption DEF SystemInit, T!TypeOK, T!Word, Word, Bit
<1>2. B!TypeOK
  <2>1. <<>> \in Seq(0 .. CharSize - 1) /\ Len(<<>>) <= LineMax
    BY BusAssumption
  <2>2. print_str = <<>> /\ irq_force = 0 /\ finished = FALSE
    BY DEF SystemInit, B!Init
  <2>3. 0 \in 0 .. IrqSize - 1
    BY BusAssumption, SizeAssumption
  <2> QED BY <2>1, <2>2, <2>3 DEF B!TypeOK
<1>3. PeripheralRead \in DevValues
  BY <1>1, <1>2, ReadType, BusAssumption
<1>4. Init
  BY <1>3 DEF SystemInit, Init
<1> QED BY <1>1, <1>2, <1>4, TypeInit DEF SystemTypeOK, SystemInit, Bit

\* A step that changes nothing.
LEMMA SystemStutters == SystemTypeOK /\ UNCHANGED systemVars => SystemTypeOK'
<1> SUFFICES ASSUME SystemTypeOK, UNCHANGED systemVars PROVE SystemTypeOK'
  OBVIOUS
<1> USE DEF systemVars, SystemTypeOK
<1>1. TypeOK'
  BY TypeStep
<1>2. T!TypeOK' /\ B!TypeOK'
  BY DEF timerVars, tbmanVars, T!TypeOK, B!TypeOK
<1>3. PeripheralRead' = PeripheralRead
  BY DEF vars, timerVars, tbmanVars, PeripheralRead, data_addr, TimerBus, data_we,
         write_data, InstrM, T!DataOut, B!DataOut
<1> QED BY <1>1, <1>2, <1>3 DEF vars

\* Core, timer and TBMAN keep their registers within their width, and the core
\* reads what the addressed peripheral answers.
THEOREM SystemTyped == SystemSpec => []SystemTypeOK
<1>1. SystemTypeOK /\ [SystemNext]_systemVars => SystemTypeOK'
  <2> SUFFICES ASSUME SystemTypeOK, SystemNext PROVE SystemTypeOK'
    BY SystemStutters
  <2>1. TypeOK'
    BY StepOfCore, TypeStep DEF SystemTypeOK
  <2> QED BY <2>1, StepOfCore DEF SystemTypeOK
<1> QED BY <1>1, SystemInitTypes, PTL DEF SystemSpec

\* The system's core is the core of Pipeline: with the peripherals on its bus
\* and its reset behind a flip-flop, every step is one of the core's or none.
LEMMA SystemRunsCore == SystemSpec => Spec
<1>1. SystemTypeOK /\ [SystemNext]_systemVars => [Next]_vars
  BY StepOfCore DEF systemVars
<1> QED BY <1>1, SystemInitTypes, SystemTyped, PTL DEF SystemSpec, Spec

\* In the system too, operands are current and every store of the program is
\* on the bus once.
THEOREM SystemHazardsHandled == SystemSpec => []OperandsCurrent /\ StoresPosted
BY SystemRunsCore, OperandsAreCurrent, StoresArePosted, PTL

\* A program that leaves the code in flight alone sees the sequential machine,
\* with timer and TBMAN on its bus and the button pressed at any time.
THEOREM SystemImplementsIsa == StableSystemSpec => ISASpec
<1>1. StableSystemSpec => SystemSpec
  <2>1. [CodeStable /\ SystemNext]_systemVars => [SystemNext]_systemVars
    OBVIOUS
  <2> QED BY <2>1, PTL DEF StableSystemSpec, SystemSpec
<1>2. SystemTypeOK /\ [CodeStable /\ SystemNext]_systemVars => [CodeStable /\ Next]_vars
  BY StepOfCore DEF systemVars
<1>3. StableSystemSpec => CodeStableSpec
  BY <1>1, <1>2, SystemInitTypes, SystemTyped, PTL DEF StableSystemSpec, CodeStableSpec
<1> QED BY <1>3, PipelineImplementsIsa

\* Everything leaves the reset together: the edge that releases it is one at
\* which the timer is reset and the core and the TBMAN still are.
THEOREM ReleasesClean == SystemSpec => ReleasedClean
<1>1. [SystemNext]_systemVars =>
        [reset_ff = 0 /\ reset_ff' = 1 =>
           AtReset' /\ T!AtReset' /\ irq_force' = 0]_systemVars
  <2> SUFFICES ASSUME SystemNext, reset_ff = 0, reset_ff' = 1
               PROVE  AtReset' /\ T!AtReset' /\ irq_force' = 0
    OBVIOUS
  <2>1. PICK button \in Bit : HeldEdge(button)
    BY DEF SystemNext, ResetFalls, Edge
  <2>2. AtReset' /\ irq_force' = 0
    BY <2>1 DEF HeldEdge, ResetArrived, vars, tbmanVars, AtReset
  <2>3. T!AtReset'
    BY <2>1 DEF HeldEdge, T!ResetTick, T!AtReset
  <2> QED BY <2>2, <2>3
<1> QED BY <1>1, PTL DEF SystemSpec, ReleasedClean
-----------------------------------------------------------------------------
(* Numbered sets.                                                           *)

\* Places are numbers from 1 to the size of the set, and a new largest number
\* takes the next one and moves no other.
LEMMA Places ==
  ASSUME NEW n \in Nat, NEW S \in SUBSET (1 .. n)
  PROVE  /\ Cardinality(S) \in Nat
         /\ Cardinality(S \cup {n + 1}) = Cardinality(S) + 1
         /\ \A i \in S : Place(i, S) \in 1 .. Cardinality(S)
         /\ \A i \in S : Place(i, S \cup {n + 1}) = Place(i, S)
         /\ Place(n + 1, S \cup {n + 1}) = Cardinality(S) + 1
<1>1. IsFiniteSet(S)
  <2>1. IsFiniteSet(1 .. n)
    BY FS_Interval
  <2> QED BY <2>1, FS_Subset
<1>2. Cardinality(S) \in Nat
  BY <1>1, FS_CardinalityType
<1>3. n + 1 \notin S
  OBVIOUS
<1>4. Cardinality(S \cup {n + 1}) = Cardinality(S) + 1
  BY <1>1, <1>3, FS_AddElement
<1>5. ASSUME NEW i \in S
      PROVE  Place(i, S) \in 1 .. Cardinality(S) /\ Place(i, S \cup {n + 1}) = Place(i, S)
  <2> DEFINE upto == {j \in S : j <= i}
  <2>1. IsFiniteSet(upto) /\ Cardinality(upto) <= Cardinality(S)
    BY <1>1, FS_Subset
  <2>2. Cardinality(upto) \in Nat /\ (Cardinality(upto) = 0 => upto = {})
    BY <2>1, FS_CardinalityType, FS_EmptySet
  <2>3. i \in upto
    OBVIOUS
  <2>4. {j \in S \cup {n + 1} : j <= i} = upto
    OBVIOUS
  <2>5. Place(i, S) = Cardinality(upto) /\ Place(i, S \cup {n + 1}) = Cardinality(upto)
    BY <2>4 DEF Place
  <2>6. Cardinality(upto) # 0
    BY <2>2, <2>3
  <2> HIDE DEF upto
  <2> QED BY <1>2, <2>1, <2>2, <2>5, <2>6
<1>6. {j \in S \cup {n + 1} : j <= n + 1} = S \cup {n + 1}
  <2>1. \A j \in S \cup {n + 1} : j <= n + 1
    OBVIOUS
  <2> QED BY <2>1
<1> QED BY <1>2, <1>4, <1>5, <1>6 DEF Place

-----------------------------------------------------------------------------
(* The console.                                                             *)

\* What the first n stores have printed depends on no other.
LEMMA FirstStores ==
  ASSUME NEW vs, NEW ws, NEW n \in Nat, \A i \in 1 .. n : vs[i] = ws[i],
         NEW str, NEW items
  PROVE  OnConsole(str, items, vs, n) <=> OnConsole(str, items, ws, n)
<1>1. \A i \in 1 .. n : EndsLine(vs[i]) = EndsLine(ws[i]) /\ Char(vs[i]) = Char(ws[i])
  BY DEF EndsLine, Char
<1>2. ASSUME NEW m \in 0 .. n PROVE LineAt(vs, m) = LineAt(ws, m)
  BY <1>1 DEF LineAt
<1>3. ASSUME NEW m \in 0 .. n, NEW s PROVE HoldsLine(s, vs, m) <=> HoldsLine(s, ws, m)
  <2>1. \A i \in LineAt(ws, m) : Char(vs[i]) = Char(ws[i])
    BY <1>1 DEF LineAt
  <2> QED BY <1>2, <2>1 DEF HoldsLine
<1>4. ShownAt(vs, n) = ShownAt(ws, n)
  BY <1>1 DEF ShownAt
<1>5. ASSUME NEW i \in ShownAt(ws, n), NEW item
      PROVE  Shows(item, vs, i) <=> Shows(item, ws, i)
  <2>1. i \in 1 .. n /\ i - 1 \in 0 .. n /\ vs[i] = ws[i]
    BY DEF ShownAt
  <2>2. HoldsLine(item.line, vs, i - 1) <=> HoldsLine(item.line, ws, i - 1)
    BY <1>3, <2>1
  <2> QED BY <1>1, <2>1, <2>2 DEF Shows
<1>6. n \in 0 .. n
  OBVIOUS
<1>7. HoldsLine(str, vs, n) <=> HoldsLine(str, ws, n)
  BY <1>3, <1>6
<1> QED BY <1>4, <1>5, <1>7 DEF OnConsole

\* The buffer after the store w.
NextLine(str, w) ==
  IF w.port # "PRINT" THEN str
  ELSE IF Char(w) = Newline THEN <<>>
  ELSE IF Len(str) < LineMax THEN Append(str, Char(w))
  ELSE str

\* What the store w adds to the console.
NextItems(str, w) ==
  IF EndsLine(w) THEN <<[line |-> str]>>
  ELSE IF w.port = "PUTINT" THEN <<[int |-> w.data]>>
  ELSE IF w.port = "EXIT" THEN <<[exit |-> w.data]>>
  ELSE <<>>

\* The buffer follows the line.
LEMMA LineAdvances ==
  ASSUME NEW ws, NEW n \in Nat, NEW str \in Seq(0 .. CharSize - 1),
         Char(ws[n + 1]) \in 0 .. CharSize - 1,
         HoldsLine(str, ws, n)
  PROVE  HoldsLine(NextLine(str, ws[n + 1]), ws, n + 1)
<1> DEFINE w == ws[n + 1]
           line == LineAt(ws, n)
           c == Char(w)
<1>0. line \in SUBSET (1 .. n)
  BY DEF LineAt
<1>1. CASE w.port # "PRINT"
  <2>1. LineAt(ws, n + 1) = line
    BY <1>1 DEF LineAt, EndsLine
  <2>2. NextLine(str, w) = str
    BY <1>1 DEF NextLine
  <2> QED BY <2>1, <2>2 DEF HoldsLine
<1>2. CASE EndsLine(w)
  <2>1. LineAt(ws, n + 1) = {}
    BY <1>2 DEF LineAt
  <2>2. NextLine(str, w) = <<>>
    BY <1>2 DEF NextLine, EndsLine
  <2>3. Len(<<>>) = IF 0 < LineMax THEN 0 ELSE LineMax
    BY BusAssumption
  <2> QED BY <2>1, <2>2, <2>3, FS_EmptySet DEF HoldsLine
<1>3. CASE w.port = "PRINT" /\ ~EndsLine(w)
  <2>1. LineAt(ws, n + 1) = line \cup {n + 1}
    BY <1>3 DEF LineAt
  <2>2. NextLine(str, w) = IF Len(str) < LineMax THEN Append(str, c) ELSE str
    BY <1>3 DEF NextLine, EndsLine
  <2>3. /\ Len(str) = IF Cardinality(line) < LineMax THEN Cardinality(line) ELSE LineMax
        /\ \A i \in line : Place(i, line) <= LineMax => str[Place(i, line)] = Char(ws[i])
    BY DEF HoldsLine
  <2> DEFINE card == Cardinality(line)
             new  == line \cup {n + 1}
  <2>4. /\ card \in Nat
        /\ Cardinality(new) = card + 1
        /\ \A i \in line : Place(i, line) \in 1 .. card
        /\ \A i \in line : Place(i, new) = Place(i, line)
        /\ Place(n + 1, new) = card + 1
    BY <1>0, Places
  <2>5. LineMax \in Nat
    BY BusAssumption
  <2>6. c = Char(ws[n + 1]) /\ c \in 0 .. CharSize - 1
    OBVIOUS
  <2>7. \A i \in new : i \in line \/ i = n + 1
    OBVIOUS
  <2> HIDE DEF card, new, line, c, w
  <2>8. CASE card < LineMax
    <3>1. Len(str) = card
      BY <2>3, <2>8 DEF card
    <3>2. NextLine(str, w) = Append(str, c) /\ Len(Append(str, c)) = card + 1
      BY <2>2, <2>6, <2>8, <3>1
    <3>3. Len(Append(str, c)) = IF Cardinality(new) < LineMax THEN Cardinality(new) ELSE LineMax
      <4>1. card + 1 = IF card + 1 < LineMax THEN card + 1 ELSE LineMax
        BY <2>4, <2>5, <2>8
      <4> QED BY <2>4, <3>2, <4>1, Zenon
    <3>4. ASSUME NEW i \in new, Place(i, new) <= LineMax
          PROVE  Append(str, c)[Place(i, new)] = Char(ws[i])
      <4>1. CASE i = n + 1
        BY <2>4, <2>6, <3>1, <4>1
      <4>2. CASE i \in line
        <5>1. Place(i, new) = Place(i, line) /\ Place(i, line) \in 1 .. card
          BY <2>4, <4>2
        <5>2. str[Place(i, line)] = Char(ws[i])
          BY <2>3, <2>5, <2>8, <4>2, <5>1, <2>4
        <5>3. Append(str, c)[Place(i, line)] = str[Place(i, line)]
          BY <2>4, <2>6, <3>1, <5>1
        <5> QED BY <5>1, <5>2, <5>3
      <4> QED BY <2>7, <4>1, <4>2
    <3> QED BY <2>1, <3>2, <3>3, <3>4 DEF HoldsLine, new, line, w
  <2>9. CASE ~(card < LineMax)
    <3>1. Len(str) = LineMax
      BY <2>3, <2>9 DEF card
    <3>2. NextLine(str, w) = str
      BY <2>2, <2>5, <3>1
    <3>3. Len(str) = IF Cardinality(new) < LineMax THEN Cardinality(new) ELSE LineMax
      BY <2>4, <2>5, <2>9, <3>1
    <3>4. ASSUME NEW i \in new, Place(i, new) <= LineMax
          PROVE  str[Place(i, new)] = Char(ws[i])
      <4>1. i \in line
        BY <2>4, <2>5, <2>7, <2>9, <3>4
      <4> QED BY <2>3, <2>4, <3>4, <4>1
    <3> QED BY <2>1, <3>2, <3>3, <3>4 DEF HoldsLine, new, line, w
  <2> QED BY <2>8, <2>9
<1> QED BY <1>1, <1>2, <1>3 DEF EndsLine

\* The console follows the stores: one more of them shows what it shows.
LEMMA ConsoleAdvances ==
  ASSUME NEW ws, NEW n \in Nat, NEW str \in Seq(0 .. CharSize - 1),
         NEW Item, NEW items \in Seq(Item),
         NextItems(str, ws[n + 1]) \in Seq(Item),
         Char(ws[n + 1]) \in 0 .. CharSize - 1,
         OnConsole(str, items, ws, n)
  PROVE  OnConsole(NextLine(str, ws[n + 1]), items \o NextItems(str, ws[n + 1]), ws, n + 1)
<1> DEFINE w == ws[n + 1]
           shown == ShownAt(ws, n)
           add == NextItems(str, w)
           shows == EndsLine(w) \/ w.port \in {"PUTINT", "EXIT"}
           new == shown \cup {n + 1}
<1>0. shown \in SUBSET (1 .. n)
  BY DEF ShownAt
<1>1. /\ HoldsLine(str, ws, n)
      /\ Len(items) = Cardinality(shown)
      /\ \A i \in shown : Shows(items[Place(i, shown)], ws, i)
  BY DEF OnConsole
<1>2. HoldsLine(NextLine(str, w), ws, n + 1)
  BY <1>1, LineAdvances
<1>3. CASE ~shows
  <2>1. ShownAt(ws, n + 1) = shown
    BY <1>3 DEF ShownAt
  <2>2. add = <<>>
    BY <1>3 DEF NextItems
  <2>3. items \o add = items
    BY <2>2
  <2> QED BY <1>1, <1>2, <2>1, <2>3 DEF OnConsole
<1>4. CASE shows
  <2>1. ShownAt(ws, n + 1) = new
    BY <1>4 DEF ShownAt
  <2>2. Len(add) = 1 /\ Shows(add[1], ws, n + 1)
    <3>1. (n + 1) - 1 = n
      OBVIOUS
    <3>2. CASE EndsLine(w)
      <4>1. add = <<[line |-> str]>> /\ DOMAIN [line |-> str] = {"line"}
        BY <3>2 DEF NextItems
      <4>2. add[1] = [line |-> str] /\ Len(add) = 1 /\ add[1].line = str
        BY <4>1
      <4> QED BY <1>1, <3>1, <3>2, <4>1, <4>2 DEF Shows
    <3>3. CASE ~EndsLine(w) /\ w.port = "PUTINT"
      <4>1. add = <<[int |-> w.data]>>
        BY <3>3 DEF NextItems
      <4> QED BY <3>3, <4>1 DEF Shows
    <3>4. CASE ~EndsLine(w) /\ w.port = "EXIT"
      <4>1. add = <<[exit |-> w.data]>>
        BY <3>4 DEF NextItems
      <4> QED BY <3>4, <4>1 DEF Shows
    <3> QED BY <1>4, <3>2, <3>3, <3>4
  <2> DEFINE card == Cardinality(shown)
  <2>3. /\ card \in Nat
        /\ Cardinality(new) = card + 1
        /\ \A i \in shown : Place(i, shown) \in 1 .. card
        /\ \A i \in shown : Place(i, new) = Place(i, shown)
        /\ Place(n + 1, new) = card + 1
    BY <1>0, Places
  <2>4. \A i \in new : i \in shown \/ i = n + 1
    OBVIOUS
  <2>5. Len(items) = card
    BY <1>1
  <2>6. add \in Seq(Item)
    OBVIOUS
  <2> HIDE DEF card, new, shown, add, w
  <2>7. /\ Len(items \o add) = card + 1
        /\ (items \o add)[card + 1] = add[1]
        /\ \A k \in 1 .. card : (items \o add)[k] = items[k]
    <3>1. Len(items \o add) = Len(items) + Len(add)
      BY <2>6
    <3>2. \A k \in 1 .. Len(items) + Len(add) :
            (items \o add)[k] = IF k <= Len(items) THEN items[k] ELSE add[k - Len(items)]
      BY <2>6
    <3>3. Len(add) = 1 /\ (card + 1) - card = 1
      BY <2>2, <2>3
    <3> HIDE <2>2
    <3> QED BY <2>3, <2>5, <3>1, <3>2, <3>3
  <2>8. ASSUME NEW i \in new PROVE Shows((items \o add)[Place(i, new)], ws, i)
    <3>1. CASE i = n + 1
      BY <2>2, <2>3, <2>7, <3>1
    <3>2. CASE i \in shown
      <4>1. (items \o add)[Place(i, new)] = items[Place(i, shown)]
        BY <2>3, <2>7, <3>2
      <4> QED BY <1>1, <3>2, <4>1
    <3> QED BY <2>4, <3>1, <3>2
  <2> QED BY <1>2, <2>1, <2>3, <2>7, <2>8 DEF OnConsole, add, w
<1> QED BY <1>3, <1>4

\* An edge of the TBMAN is that step for the store on the bus.  (tbman_regs.v)
LEMMA TbmanShows ==
  ASSUME B!Edge(TbmanBus), OnItsWay
  PROVE  /\ print_str' = NextLine(print_str, StoreOnBus)
         /\ console' = console \o NextItems(print_str, StoreOnBus)
<1>1. /\ TbmanBus.sel /\ TbmanBus.write
      /\ TbmanBus.addr = data_addr /\ TbmanBus.data = write_data
  BY DEF OnItsWay, TbmanBus
<1>2. StoreOnBus.port = B!Port(data_addr) /\ StoreOnBus.data = write_data
  BY DEF StoreOnBus
<1>3. \A port : B!Writes(TbmanBus, port) <=> StoreOnBus.port = port
  BY <1>1, <1>2 DEF B!Writes
<1>4. B!Char(TbmanBus) = Char(StoreOnBus) /\ TbmanBus.data = StoreOnBus.data
  BY <1>1, <1>2 DEF B!Char, Char
<1> HIDE DEF StoreOnBus
<1>5. print_str' = NextLine(print_str, StoreOnBus)
  BY <1>3, <1>4 DEF B!Edge, B!PrintNext, NextLine
<1>6. console' = console \o NextItems(print_str, StoreOnBus)
  BY <1>3, <1>4 DEF B!Edge, B!Displayed, NextItems, EndsLine
<1> QED BY <1>5, <1>6

\* An access that is no store to the TBMAN shows nothing and prints nothing.
LEMMA TbmanSilent ==
  ASSUME B!Edge(TbmanBus), ~OnItsWay
  PROVE  print_str' = print_str /\ console' = console \o <<>>
<1>1. \A port : ~B!Writes(TbmanBus, port)
  BY DEF OnItsWay, TbmanBus, B!Writes
<1> QED BY <1>1 DEF B!Edge, B!PrintNext, B!Displayed

\* What the program asks for at an edge is what the bus carries after it.
LEMMA AskedIsPosted ==
  ASSUME HazardInv, CoreClock
  PROVE  /\ OnItsWay' => Asked = <<StoreOnBus'>>
         /\ ~OnItsWay' => Asked = <<>>
<1> DEFINE a == Plus(ArchReg(InstrE.rs1), InstrE.imm[1])
<1>1. Posted
  BY ClockPosts
<1>2. InstrM' = InstrE
  BY DEF CoreClock, ExecuteStage, InstrM, InstrE
<1>3. OnItsWay' <=> EM'.MemWrite = 1 /\ EM'.ALUResult \in TbmanRegion
  BY DEF OnItsWay, data_we, data_addr
<1>4. StoreOnBus' = [port |-> B!Port(EM'.ALUResult),
                     data |-> BusWord(EM'.ALUResult % 4, InstrE.funct3, EM'.WriteData)]
  BY <1>2 DEF StoreOnBus, data_addr, write_data
<1>5. CASE Live(DE) /\ InstrE.opcode = "S"
  <2>1. EM'.MemWrite = 1 /\ EM'.ALUResult = a /\ EM'.WriteData = ArchReg(InstrE.rs2)
    BY <1>1, <1>5 DEF Posted
  <2>2. OnItsWay' <=> a \in TbmanRegion
    BY <1>3, <2>1
  <2>3. StoreOnBus' = [port |-> B!Port(a),
                       data |-> BusWord(a % 4, InstrE.funct3, ArchReg(InstrE.rs2))]
    BY <1>4, <2>1
  <2> QED BY <1>5, <2>2, <2>3 DEF Asked
<1>6. CASE ~(Live(DE) /\ InstrE.opcode = "S")
  <2>1. EM'.MemWrite # 1
    BY <1>1, <1>6 DEF Posted
  <2> QED BY <1>3, <1>6, <2>1 DEF Asked
<1> QED BY <1>5, <1>6

\* The store on the bus is a store to a register of the TBMAN.
LEMMA StoreOnBusType ==
  TypeOK => StoreOnBus \in [port : PortNames, data : Word]
<1> SUFFICES ASSUME TypeOK PROVE StoreOnBus \in [port : PortNames, data : Word]
  OBVIOUS
<1>1. data_addr \in Word /\ write_data \in Word
  BY BusTypes DEF TbmanBus, B!Bus, Word
<1>2. 1 + ((data_addr \div 4) % 8) \in 1 .. 8
  BY <1>1, SizeAssumption DEF Word
<1>3. B!Port(data_addr) \in PortNames
  BY <1>2 DEF B!Port, PortNames
<1> QED BY <1>1, <1>3 DEF StoreOnBus

Entries == [port : PortNames, data : Word]
Items   == [line : Seq(0 .. CharSize - 1)] \cup [int : Word] \cup [exit : Word]

\* A character of a store fits the buffer.
LEMMA CharType ==
  ASSUME NEW w \in Entries PROVE Char(w) \in 0 .. CharSize - 1
<1>1. w.data \in Nat
  BY SizeAssumption DEF Entries, Word
<1> QED BY <1>1, BusAssumption DEF Char

\* What a store shows is an item of the console.
LEMMA ItemsType ==
  ASSUME NEW w \in Entries, NEW str \in Seq(0 .. CharSize - 1)
  PROVE  NextItems(str, w) \in Seq(Items)
<1>1. /\ [line |-> str] \in Items /\ [int |-> w.data] \in Items
      /\ [exit |-> w.data] \in Items
  BY DEF Items, Entries
<1>2. \A x \in Items : <<x>> \in Seq(Items)
  OBVIOUS
<1>3. <<>> \in Seq(Items)
  OBVIOUS
<1> HIDE DEF Items
<1> QED BY <1>1, <1>2, <1>3 DEF NextItems

\* The step of the invariant that delivers the store on the bus, when there is
\* one, and puts the next one there.
LEMMA ConsoleEdge ==
  ASSUME HazardInv, HazardInv', SystemTypeOK, ConsoleInv, CoreClock, B!Edge(TbmanBus),
         written' = written \o Asked
  PROVE  ConsoleInv'
<1> DEFINE n == Len(written)
<1>1. /\ written \in Seq(Entries) /\ console \in Seq(Items)
      /\ OnItsWay => written # <<>> /\ written[n] = StoreOnBus
      /\ OnConsole(print_str, console, written, Delivered)
      /\ print_str \in Seq(0 .. CharSize - 1)
  BY DEF ConsoleInv, ConsoleFaithful, Entries, Items, SystemTypeOK, B!TypeOK
<1>2. n \in Nat
  BY <1>1
<1>3. StoreOnBus \in Entries /\ StoreOnBus' \in Entries
  <2>1. (TypeOK => StoreOnBus \in [port : PortNames, data : Word])'
    BY StoreOnBusType, PTL
  <2>2. Word' = Word /\ PortNames' = PortNames
    BY DEF Word, PortNames, B!Ports
  <2> QED BY <2>1, <2>2, StoreOnBusType DEF HazardInv, Entries
<1>4. Asked \in Seq(Entries) /\ Len(Asked) = IF OnItsWay' THEN 1 ELSE 0
  <2>1. <<StoreOnBus'>> \in Seq(Entries) /\ Len(<<StoreOnBus'>>) = 1
    BY <1>3
  <2>2. <<>> \in Seq(Entries) /\ Len(<<>>) = 0
    OBVIOUS
  <2>3. /\ OnItsWay' => Asked = <<StoreOnBus'>>
        /\ ~OnItsWay' => Asked = <<>>
    BY AskedIsPosted
  <2>4. CASE OnItsWay'
    BY <2>1, <2>3, <2>4
  <2>5. CASE ~OnItsWay'
    BY <2>2, <2>3, <2>5
  <2> QED BY <2>4, <2>5
<1>5. /\ written' \in Seq(Entries)
      /\ Len(written') = n + Len(Asked)
      /\ \A i \in 1 .. n : written'[i] = written[i]
  <2> HIDE DEF Entries
  <2>1. written \in Seq(Entries) /\ Asked \in Seq(Entries)
    BY <1>1, <1>4
  <2>2. /\ written \o Asked \in Seq(Entries)
        /\ Len(written \o Asked) = n + Len(Asked)
        /\ \A i \in 1 .. n : (written \o Asked)[i] = written[i]
    BY <2>1
  <2> QED BY <2>2
<1>6. Delivered' = n
  BY <1>2, <1>4, <1>5 DEF Delivered
<1>7. OnItsWay' => written' # <<>> /\ written'[Len(written')] = StoreOnBus'
  <2> SUFFICES ASSUME OnItsWay' PROVE written' # <<>> /\ written'[Len(written')] = StoreOnBus'
    OBVIOUS
  <2>1. Asked = <<StoreOnBus'>>
    BY AskedIsPosted
  <2>2. written' = written \o <<StoreOnBus'>>
    BY <2>1
  <2> HIDE DEF StoreOnBus
  <2> QED BY <1>1, <1>3, <2>2
<1>8. console' \in Seq(Items) /\ OnConsole(print_str', console', written, n)
  <2>1. CASE OnItsWay
    <3>1. Delivered = n - 1 /\ n - 1 \in Nat /\ (n - 1) + 1 = n
      BY <1>1, <1>2, <2>1 DEF Delivered
    <3>2. written[n] = StoreOnBus
      BY <1>1, <2>1
    <3>3. NextItems(print_str, StoreOnBus) \in Seq(Items) /\ Char(StoreOnBus) \in 0 .. CharSize - 1
      BY <1>1, <1>3, ItemsType, CharType
    <3>4. OnConsole(print_str, console, written, n - 1)
      BY <1>1, <3>1
    <3>5. OnConsole(NextLine(print_str, written[n]),
                    console \o NextItems(print_str, written[n]), written, n)
      <4> DEFINE m == n - 1
      <4>1. m \in Nat /\ m + 1 = n /\ written[m + 1] = StoreOnBus
        BY <3>1, <3>2
      <4> HIDE DEF m
      <4>2. /\ NextItems(print_str, written[m + 1]) \in Seq(Items)
            /\ Char(written[m + 1]) \in 0 .. CharSize - 1
        BY <4>1, <3>3
      <4>3. OnConsole(print_str, console, written, m)
        BY <3>4 DEF m
      <4>4. OnConsole(NextLine(print_str, written[m + 1]),
                      console \o NextItems(print_str, written[m + 1]), written, m + 1)
        BY <1>1, <4>1, <4>2, <4>3, ConsoleAdvances
      <4> QED BY <4>1, <4>4
    <3>6. /\ print_str' = NextLine(print_str, StoreOnBus)
          /\ console' = console \o NextItems(print_str, StoreOnBus)
      BY <2>1, TbmanShows
    <3>7. console' \in Seq(Items)
      BY <1>1, <3>3, <3>6
    <3> QED BY <3>2, <3>5, <3>6, <3>7, Zenon
  <2>2. CASE ~OnItsWay
    <3>1. print_str' = print_str /\ console' = console
      BY <1>1, <2>2, TbmanSilent
    <3>2. Delivered = n
      BY <2>2 DEF Delivered
    <3> QED BY <1>1, <3>1, <3>2
  <2> QED BY <2>1, <2>2
<1>9. OnConsole(print_str', console', written', n)
  BY <1>2, <1>5, <1>8, FirstStores
<1>10. Word' = Word
  BY DEF Word
<1> QED BY <1>5, <1>6, <1>7, <1>8, <1>9, <1>10
        DEF ConsoleInv, ConsoleFaithful, Entries, Items

\* A reset takes the store on the bus away from bus and program alike.
LEMMA ConsoleReset ==
  ASSUME ConsoleInv, CoreReset, B!Reset,
         written' = IF OnItsWay THEN Front(written) ELSE written
  PROVE  ConsoleInv'
<1>1. /\ written \in Seq(Entries) /\ console \in Seq(Items)
      /\ OnItsWay => written # <<>>
      /\ OnConsole(print_str, console, written, Delivered)
  BY DEF ConsoleInv, ConsoleFaithful, Entries, Items
<1>2. ~OnItsWay'
  BY DEF CoreReset, ResetEM, OnItsWay, data_we
<1>3. print_str' = print_str /\ console' = console
  BY DEF B!Reset
<1>4. /\ written' \in Seq(Entries) /\ Len(written') = Delivered /\ Delivered \in Nat
      /\ \A i \in 1 .. Delivered : written'[i] = written[i]
  <2>1. CASE OnItsWay
    <3>1. Delivered = Len(written) - 1 /\ Len(written) \in Nat /\ Len(written) # 0
      BY <1>1, <2>1 DEF Delivered
    <3>2. written' = SubSeq(written, 1, Delivered)
      BY <2>1, <3>1 DEF Front
    <3>3. 1 \in Nat /\ Delivered \in Nat /\ Delivered <= Len(written)
      BY <3>1
    <3>4. /\ \A i \in 1 .. Delivered : SubSeq(written, 1, Delivered)[i] = written[i]
          /\ Len(SubSeq(written, 1, Delivered)) = Delivered
      BY <1>1, <3>3
    <3>5. SubSeq(written, 1, Delivered) \in Seq(Entries)
      BY <1>1, <3>3
    <3> QED BY <3>2, <3>3, <3>4, <3>5, Zenon
  <2>2. CASE ~OnItsWay
    BY <1>1, <2>2 DEF Delivered
  <2> QED BY <2>1, <2>2
<1>5. Delivered' = Delivered
  BY <1>2, <1>4 DEF Delivered
<1>6. OnConsole(print_str', console', written', Delivered')
  BY <1>1, <1>3, <1>4, <1>5, FirstStores
<1>7. Word' = Word
  BY DEF Word
<1> QED BY <1>1, <1>2, <1>3, <1>4, <1>6, <1>7 DEF ConsoleInv, ConsoleFaithful, Entries, Items

\* Under reset, and in a step that changes nothing, all of it stands still.
LEMMA ConsoleRests ==
  ASSUME ConsoleInv, UNCHANGED <<vars, tbmanVars, written>>
  PROVE  ConsoleInv'
<1>1. OnItsWay' = OnItsWay /\ StoreOnBus' = StoreOnBus
  BY DEF vars, OnItsWay, StoreOnBus, data_we, data_addr, write_data, InstrM
<1>2. Delivered' = Delivered
  BY <1>1 DEF Delivered
<1> QED BY <1>1, <1>2 DEF ConsoleInv, ConsoleFaithful, tbmanVars, Word

\* A program with the history of its stores is a run of the system.
LEMMA CheckRunsSystem == CheckSpec => SystemSpec
<1>1. [Steps]_<<systemVars, history>> => [SystemNext]_systemVars
  BY DEF Steps, BeReset, Operate, Hold, SystemNext
<1> QED BY <1>1, PTL DEF CheckSpec, CheckInit, SystemSpec

\* The simulation console shows what the program has asked for: all of it,
\* once, in order, and nothing else, whatever hazards there were on the way
\* and wherever a reset cut in.  (tbman_regs.v, SMU_RV32IM_System.v and the
\* pipeline between the program and them)
THEOREM ConsoleIsFaithful == CheckSpec => []ConsoleFaithful
<1>1. CheckInit => ConsoleInv
  <2> SUFFICES ASSUME CheckInit PROVE ConsoleInv
    OBVIOUS
  <2>1. written = <<>> /\ console = <<>> /\ print_str = <<>>
    BY DEF CheckInit, SystemInit, B!Init
  <2>2. ~OnItsWay
    BY DEF CheckInit, SystemInit, AtReset, ResetEM, OnItsWay, data_we
  <2>3. Delivered = 0
    BY <2>1, <2>2 DEF Delivered
  <2>4. LineAt(written, 0) = {} /\ ShownAt(written, 0) = {}
    BY DEF LineAt, ShownAt
  <2>5. 0 = IF 0 < LineMax THEN 0 ELSE LineMax
    BY BusAssumption
  <2>6. OnConsole(<<>>, <<>>, written, 0)
    BY <2>4, <2>5, FS_EmptySet DEF OnConsole, HoldsLine
  <2> QED BY <2>1, <2>2, <2>3, <2>6 DEF ConsoleInv, ConsoleFaithful
<1>2. SystemTypeOK /\ HazardInv /\ HazardInv' /\ ConsoleInv /\ [Steps]_<<systemVars, history>>
        => ConsoleInv'
  <2> SUFFICES ASSUME SystemTypeOK, HazardInv, HazardInv', ConsoleInv,
                      [Steps]_<<systemVars, history>>
               PROVE  ConsoleInv'
    OBVIOUS
  <2>1. CASE BeReset
    BY <2>1, ConsoleReset DEF BeReset, ResetFalls
  <2>2. ASSUME NEW button \in Bit, Operate(button) PROVE ConsoleInv'
    BY <2>2, ConsoleEdge DEF Operate, Edge
  <2>3. ASSUME NEW button \in Bit, Hold(button) PROVE ConsoleInv'
    BY <2>3, ConsoleRests DEF Hold, HeldEdge
  <2>4. CASE UNCHANGED <<systemVars, history>>
    BY <2>4, ConsoleRests DEF systemVars, history
  <2> QED BY <2>1, <2>2, <2>3, <2>4 DEF Steps
<1>3. ConsoleInv => ConsoleFaithful
  BY DEF ConsoleInv
<1>4. CheckSpec => []SystemTypeOK /\ []HazardInv
  BY CheckRunsSystem, SystemTyped, SystemRunsCore, HazardsInvariant, PTL
<1> QED BY <1>1, <1>2, <1>3, <1>4, PTL DEF CheckSpec

-----------------------------------------------------------------------------
(* Polling.                                                                 *)

\* One edge of the timer: what has been read of its matches, a status being
\* read included, and the match that waits are again all the matches.
LEMMA TimerAccounts ==
  ASSUME T!TypeOK, NEW b \in T!Bus, T!Tick(b),
         CompareR > 0, StatusR = 1 => ~T!Match,
         T!Writes(b, "Compare") => b.data > 0 /\ (T!Match => b.data # CounterR + 1),
         matches \in Nat, matches' = IF T!Match THEN matches + 1 ELSE matches
  PROVE  /\ CompareR' > 0 /\ (StatusR' = 1 => CompareR' # CounterR')
         /\ \A n \in Nat : n + (IF T!Reads(b, "Status") THEN 0 ELSE StatusR) = matches
                          => n + StatusR' = matches'
<1>1. /\ CompareR \in 0 .. Modulus - 1 /\ CounterR \in 0 .. Modulus - 1
      /\ StatusR \in {0, 1} /\ b.data \in 0 .. Modulus - 1 /\ Modulus \in Nat
  BY SizeAssumption DEF T!TypeOK, T!Word, T!Bus
<1>2. /\ CompareR' = CompareR \/ (T!Writes(b, "Compare") /\ CompareR' = b.data)
      /\ CounterR' = IF StatusR = 1 \/ CounterR = Modulus - 1 THEN 0 ELSE CounterR + 1
      /\ StatusR' = IF CompareR = CounterR THEN 1
                    ELSE IF T!Reads(b, "Status") THEN 0 ELSE StatusR
  BY DEF T!Tick, T!CompareNext, T!CounterNext, T!StatusNext, T!Match
<1>3. CompareR' > 0
  BY <1>2
<1>4. ASSUME StatusR' = 1 PROVE CompareR' # CounterR'
  <2>1. CASE StatusR = 1
    BY <1>2, <1>3, <2>1
  <2>2. CASE StatusR # 1
    <3>1. CompareR = CounterR
      BY <1>1, <1>2, <1>4, <2>2
    <3>2. CASE CompareR' = CompareR
      BY <1>1, <1>2, <1>3, <2>2, <3>1, <3>2
    <3>3. CASE T!Writes(b, "Compare") /\ CompareR' = b.data
      BY <1>1, <1>2, <1>3, <2>2, <3>1, <3>3 DEF T!Match
    <3> QED BY <1>2, <3>2, <3>3
  <2> QED BY <2>1, <2>2
<1>5. ASSUME NEW n \in Nat, n + (IF T!Reads(b, "Status") THEN 0 ELSE StatusR) = matches
      PROVE  n + StatusR' = matches'
  <2>1. CASE CompareR = CounterR
    <3>1. StatusR = 0 /\ StatusR' = 1 /\ matches' = matches + 1
      BY <1>1, <1>2, <2>1 DEF T!Match
    <3> QED BY <1>5, <3>1
  <2>2. CASE CompareR # CounterR
    <3>1. matches' = matches
      BY <2>2 DEF T!Match
    <3>2. StatusR' = IF T!Reads(b, "Status") THEN 0 ELSE StatusR
      BY <1>2, <2>2
    <3> QED BY <1>5, <3>1, <3>2
  <2> QED BY <2>1, <2>2
<1> QED BY <1>3, <1>4, <1>5

\* When a status is read.
LEMMA AnsweringIs ==
  Answering <=> data_addr \in StatusAddrs /\ EM.MemWrite # 1
<1>1. data_addr \in TimerRegion => TimerBus.addr = TimerPort[data_addr]
  BY DEF TimerBus
<1>2. TimerBus.cs = (data_addr \in TimerRegion)
  BY DEF TimerBus
<1>3. TimerBus.write = data_we
  BY DEF TimerBus
<1> QED BY <1>1, <1>2, <1>3 DEF Answering, T!Reads, StatusAddrs, data_we

\* The controls of word 0 and of NopWord add two registers.
LEMMA EmptyControls ==
  ASSUME NEW w \in {0, NopWord}
  PROVE  LET c == Controller(Decode[w])
         IN  c.ALUControl = ADD /\ c.ALUSrcA = 0 /\ c.ALUSrcB = 0
<1>1. CASE Decode[w].opcode = "OTHER"
  <2>1. Decode[w] \in Instr
    BY DecodeAssumption, WordFacts
  <2> QED BY <1>1, <2>1, ControllerFacts DEF NoControls
<1>2. CASE w = NopWord
  <2>1. /\ Decode[w].opcode = "R" /\ Decode[w].funct3 = 0 /\ Decode[w].funct7 = 0
    BY <1>2, DecodeAssumption, PollAssumption
  <2>2. MainDec(Decode[w].opcode).ALUop = 2 /\ MainDec(Decode[w].opcode).ALUSrcA = 0
        /\ MainDec(Decode[w].opcode).ALUSrcB = 0
    BY <2>1 DEF MainDec, Controls
  <2>3. Funct7_5(Decode[w]) = 0
    BY <2>1 DEF Funct7_5
  <2>4. AluDec(Decode[w], 2) = ADD
    BY <2>1, <2>3 DEF AluDec
  <2> QED BY <2>2, <2>4 DEF Controller
<1> QED BY <1>1, <1>2, DecodeAssumption

\* Slots are empty at reset.
LEMMA QuietAtReset == AtReset => QuietSlots
BY EmptySlots DEF AtReset, QuietSlots, ResetDE, NoControls

\* An edge of the clock puts into an empty slot what adds nothing to nothing.
LEMMA QuietClock ==
  ASSUME HazardInv, QuietSlots, Clock PROVE QuietSlots'
<1>1. CASE DE' = FlushedDE
  BY <1>1 DEF QuietSlots, FlushedDE, NoControls
<1>2. CASE DE' = DecodedDE
  <2>1. /\ Live(DE)' <=> Live(FD)
        /\ DE'.Instr = FD.Instr /\ DE'.RD1 = RD1D_H /\ DE'.RD2 = RD2D_H
        /\ DE'.ctl = Controller(InstrD)
    BY <1>2 DEF DecodedDE, Live
  <2>2. SUFFICES ASSUME ~Live(FD) PROVE QuietSlots'
    BY <2>1 DEF QuietSlots
  <2>3. FD.Instr \in {0, NopWord}
    BY <2>2 DEF HazardInv, BubbleSlots
  <2>4. InstrD.rs1 = 0 /\ InstrD.rs2 = 0
    BY <2>3, PollAssumption DEF InstrD
  <2>5. RD1D_H = 0 /\ RD2D_H = 0
    BY <2>4 DEF RD1D_H, RD2D_H, Forwarded, Forward, RegRead, Mux3
  <2> QED BY <2>1, <2>3, <2>5, EmptyControls DEF QuietSlots, InstrD
<1> QED BY <1>1, <1>2, FrontEnd

\* Empty slots stay quiet, whatever the program.
LEMMA QuietInvariant == Spec => []QuietSlots
<1>1. Init => QuietSlots
  BY QuietAtReset DEF Init
<1>2. HazardInv /\ QuietSlots /\ [Next]_vars => QuietSlots'
  <2>1. (AtReset => QuietSlots)'
    BY QuietAtReset, PTL
  <2>2. Reset => AtReset'
    BY DEF Reset, CoreReset, AtReset
  <2>3. UNCHANGED vars /\ QuietSlots => QuietSlots'
    BY DEF vars, QuietSlots, Live
  <2> QED BY <2>1, <2>2, <2>3, QuietClock DEF Next
<1> QED BY <1>1, <1>2, HazardInvariant, PTL DEF Spec

\* What an empty slot sends to the memory stage addresses nothing.
LEMMA QuietSlotsReachNothing ==
  ASSUME HazardInv, QuietSlots, ~Live(DE),
         NEW aluE \in AluResults(DE.ctl.ALUControl, SrcA, SrcB)
  PROVE  aluE = 0
<1>1. InstrE.rs1 = 0 /\ InstrE.rs2 = 0
  BY PollAssumption DEF QuietSlots, InstrE
<1>2. RD1E_H = 0 /\ RD2E_H = 0
  BY <1>1 DEF QuietSlots, RD1E_H, RD2E_H, Forwarded, Forward, Mux3
<1>3. SrcA = 0 /\ SrcB = 0
  BY <1>2 DEF QuietSlots, SrcA, SrcB, Mux3
<1>4. aluE = Alu(ADD, 0, 0)
  BY <1>3 DEF QuietSlots, AluResults, ADD, BRU
<1>5. 0 \in Word /\ Plus(0, 0) = 0
  BY WordFacts, SizeAssumption DEF Plus, Word
<1> QED BY <1>4, <1>5, AluAssumption

\* In a program that polls in turn the status is read behind PollWord only.
LEMMA StatusReached ==
  ASSUME HazardInv, QuietSlots, PollsInTurn, CoreClock
  PROVE  Answering' <=> Live(DE) /\ DE.Instr = PollWord
<1> PICK aluE \in AluResults(DE.ctl.ALUControl, SrcA, SrcB) : ExecuteStage(aluE)
  BY DEF CoreClock
<1>1. EM'.ALUResult = aluE /\ EM'.MemWrite = DE.ctl.MemWrite
  BY DEF ExecuteStage
<1>2. Answering' <=> aluE \in StatusAddrs /\ DE.ctl.MemWrite # 1
  <2>1. (Answering <=> data_addr \in StatusAddrs /\ EM.MemWrite # 1)'
    BY AnsweringIs, PTL
  <2> QED BY <1>1, <2>1 DEF data_addr, StatusAddrs
<1>3. DE.ctl.MemWrite \in Bit
  BY DEF HazardInv, TypeOK, DEType, Control
<1>4. CASE ~Live(DE)
  <2>1. aluE = 0
    BY <1>4, QuietSlotsReachNothing
  <2>2. aluE \notin StatusAddrs
    BY <2>1, BusAssumption DEF StatusAddrs
  <2> QED BY <1>2, <1>4, <2>2
<1>5. CASE Live(DE) /\ DE.Instr # PollWord
  BY <1>2, <1>3, <1>5 DEF PollsInTurn, ReachesStatus, Bit
<1>6. CASE Live(DE) /\ DE.Instr = PollWord
  <2>1. DE.ctl = Controller(InstrE) /\ InstrE.opcode = "LOAD"
    BY <1>6, PollAssumption DEF HazardInv, ControlsDecoded, InstrE
  <2>2. DE.ctl.ALUControl = ADD
    BY <2>1 DEF Controller, MainDec, Controls, AluDec
  <2>3. AluResults(DE.ctl.ALUControl, SrcA, SrcB) = {Alu(ADD, SrcA, SrcB)}
    BY <2>2 DEF AluResults, ADD, BRU
  <2> QED BY <1>2, <1>6, <2>3 DEF PollsInTurn, ReachesStatus
<1> QED BY <1>4, <1>5, <1>6

\* A register changes only at the edge at which an instruction that names it
\* leaves execute.
LEMMA RegisterAfterEdge ==
  ASSUME HazardInv, HazardInv', CoreClock, NEW r \in Reg \ {0}
  PROVE  ArchReg(r)' = IF Live(DE) /\ DE.ctl.RegWrite = 1 /\ InstrE.rd = r
                       THEN ResultM' ELSE ArchReg(r)
<1> PICK aluE \in AluResults(DE.ctl.ALUControl, SrcA, SrcB) : ExecuteStage(aluE)
  BY DEF CoreClock
<1>1. aluE \in Word
  BY WireTypes, AluType DEF HazardInv, TypeOK, DEType, Control
<1>2. ArchRegs' = IF DE.ctl.RegWrite = 1 /\ InstrE.rd # 0
                  THEN [ArchRegs EXCEPT ![InstrE.rd] = ResultM']
                  ELSE ArchRegs
  BY <1>1, RegsRetire DEF CoreClock
<1>3. ArchRegs[r] = ArchReg(r) /\ ArchRegs'[r] = ArchReg(r)'
  BY DEF ArchRegs
<1>4. DOMAIN ArchRegs = Reg
  BY DEF ArchRegs
<1>5. ~Live(DE) /\ DE.ctl.RegWrite = 1 => InstrE.rd = 0
  BY DEF HazardInv, BubbleSlots
<1> HIDE DEF ArchRegs
<1> QED BY <1>2, <1>3, <1>4, <1>5

\* A read of the status returns the status.
LEMMA StatusRead ==
  Answering => PeripheralRead = StatusR /\ data_addr \in StatusAddrs /\ data_addr \in DevRegion
<1> SUFFICES ASSUME Answering
             PROVE  /\ PeripheralRead = StatusR /\ data_addr \in StatusAddrs
                    /\ data_addr \in DevRegion
  OBVIOUS
<1>1. data_addr \in StatusAddrs /\ data_addr \in TimerRegion
  BY AnsweringIs DEF StatusAddrs
<1>2. TimerBus.cs /\ ~TimerBus.write /\ TimerBus.addr = "Status"
  BY DEF Answering, T!Reads
<1>3. T!DataOut(TimerBus) = StatusR
  BY <1>2 DEF T!DataOut
<1> QED BY <1>1, <1>3, BusAssumption DEF PeripheralRead

\* PollWord delivers the status of the cycle behind the edge.
LEMMA PollDelivers ==
  ASSUME HazardInv, CoreClock, Live(DE), DE.Instr = PollWord,
         Answering', StatusR' \in Bit, devData' = PeripheralRead'
  PROVE  DE.ctl.RegWrite = 1 /\ InstrE.rd = AnswerReg /\ ResultM' = StatusR'
<1> PICK aluE \in AluResults(DE.ctl.ALUControl, SrcA, SrcB) : ExecuteStage(aluE)
  BY DEF CoreClock
<1>1. InstrE = Decode[PollWord] /\ InstrE.opcode = "LOAD" /\ DE.ctl = Controller(InstrE)
  BY PollAssumption DEF HazardInv, ControlsDecoded, InstrE
<1>2. DE.ctl.RegWrite = 1 /\ DE.ctl.ResultSrc = 1
  BY <1>1 DEF Controller, MainDec, Controls
<1>3. EM'.ResultSrc = 1 /\ InstrM' = Decode[PollWord]
  BY <1>1, <1>2 DEF ExecuteStage, InstrM, InstrE
<1>4. (Answering => /\ PeripheralRead = StatusR /\ data_addr \in StatusAddrs
                    /\ data_addr \in DevRegion)'
  BY StatusRead, PTL
<1>5. /\ devData' = StatusR' /\ EM'.ALUResult \in StatusAddrs
      /\ EM'.ALUResult \in DevRegion
  BY <1>4 DEF data_addr, StatusAddrs
<1>6. ReadData' = StatusR'
  BY <1>5 DEF ReadData
<1>7. Loaded(EM'.ALUResult, InstrM'.funct3, ReadData') = StatusR'
  BY <1>3, <1>5, <1>6, PollAssumption
<1>8. ResultM' = Loaded(EM'.ALUResult, InstrM'.funct3, ReadData')
  BY <1>3 DEF ResultM, Mux3
<1> QED BY <1>1, <1>2, <1>7, <1>8 DEF AnswerReg

\* The count, cleared or increased by the answer.
LEMMA CountDelivers ==
  ASSUME HazardInv, CoreClock, Live(DE), DE.Instr \in {AddWord, ClearWord}
  PROVE  /\ DE.ctl.RegWrite = 1 /\ InstrE.rd = CountReg
         /\ DE.Instr = AddWord => ResultM' = Plus(ArchReg(CountReg), ArchReg(AnswerReg))
         /\ DE.Instr = ClearWord => ResultM' = 0
<1> PICK aluE \in AluResults(DE.ctl.ALUControl, SrcA, SrcB) : ExecuteStage(aluE)
  BY DEF CoreClock
<1> DEFINE row == MainDec(InstrE.opcode)
<1>1. /\ DE.ctl = Controller(InstrE) /\ DE.ImmExt = Extend(row.ImmSrc, InstrE)
      /\ SrcA \in Word /\ SrcB \in Word
  BY WireTypes DEF HazardInv, ControlsDecoded
<1>2. /\ InstrE.opcode \in {"R", "IALU"} /\ InstrE.rd = CountReg
      /\ InstrE.funct3 = 0
      /\ InstrE.opcode = "R" => InstrE.funct7 = 0
  BY PollAssumption DEF InstrE
<1>3. /\ row.RegWrite = 1 /\ row.ALUSrcA = 0 /\ row.ResultSrc = 0 /\ row.ALUop = 2
      /\ row.ALUSrcB = (IF InstrE.opcode = "R" THEN 0 ELSE 1)
      /\ InstrE.opcode = "IALU" => row.ImmSrc = 0
  BY <1>2 DEF MainDec, Controls
<1>4. AluDec(InstrE, 2) = ADD
  <2>1. InstrE.opcode = "R" => Funct7_5(InstrE) = 0
    BY <1>2 DEF Funct7_5
  <2> QED BY <1>2, <2>1 DEF AluDec, Opcode5
<1> HIDE DEF row
<1>5. /\ DE.ctl.RegWrite = 1 /\ DE.ctl.ALUSrcA = 0 /\ DE.ctl.ResultSrc = 0
      /\ DE.ctl.ALUControl = ADD /\ DE.ctl.ALUSrcB = row.ALUSrcB
  BY <1>1, <1>3, <1>4 DEF Controller, row
<1>6. aluE = Plus(SrcA, SrcB)
  BY <1>1, <1>5, AluAssumption DEF AluResults, ADD, BRU
<1>7. ResultM' = Plus(SrcA, SrcB)
  BY <1>5, <1>6 DEF ExecuteStage, ResultM, Mux3
<1>8. SrcA = ArchReg(InstrE.rs1)
  BY <1>5, OperandsFromInv DEF SrcA, Mux3, OperandsCurrent
<1>9. CASE DE.Instr = AddWord
  <2>1. InstrE.opcode = "R" /\ InstrE.rs1 = CountReg /\ InstrE.rs2 = AnswerReg
    BY <1>9, PollAssumption DEF InstrE
  <2>2. SrcB = ArchReg(AnswerReg)
    BY <1>3, <1>5, <2>1, OperandsFromInv DEF SrcB, OperandsCurrent
  <2>3. DE.Instr # ClearWord
    BY <1>9, PollAssumption
  <2> QED BY <1>2, <1>5, <1>7, <1>8, <2>1, <2>2, <2>3
<1>10. CASE DE.Instr = ClearWord
  <2>1. InstrE.opcode = "IALU" /\ InstrE.rs1 = 0 /\ InstrE.imm[0] = 0
    BY <1>10, PollAssumption DEF InstrE
  <2>2. SrcA = 0
    BY <1>8, <2>1 DEF ArchReg
  <2>3. DE.ImmExt = 0
    BY <1>1, <1>3, <2>1 DEF Extend
  <2>4. SrcB = 0
    BY <1>3, <1>5, <2>1, <2>3 DEF SrcB
  <2>5. Plus(0, 0) = 0
    BY SizeAssumption DEF Plus
  <2>6. DE.Instr # AddWord
    BY <1>10, PollAssumption
  <2> QED BY <1>2, <1>5, <1>7, <2>2, <2>4, <2>5, <2>6
<1> QED BY <1>9, <1>10

\* The step of the invariant: the timer counts, an instruction moves the
\* program on.
LEMMA PollEdge ==
  ASSUME HazardInv, HazardInv', SystemTypeOK, SystemTypeOK', QuietSlots,
         PollInv, Polls, reset_ff = 1, CoreClock, T!Tick(TimerBus),
         matches' = IF T!Match THEN matches + 1 ELSE matches, polling' = PollingNext
  PROVE  PollInv'
<1> DEFINE count  == ArchReg(CountReg)
           answer == ArchReg(AnswerReg)
           taken(n) == n + (IF Answering THEN 0 ELSE StatusR) = matches
<1>1. /\ matches \in Nat /\ polling \in {"idle", "ready", "answered"}
      /\ CompareR > 0 /\ (StatusR = 1 => ~T!Match)
      /\ polling = "idle"     => taken(0)
      /\ polling = "ready"    => taken(count)
      /\ polling = "answered" => answer \in {0, 1} /\ taken(count + answer)
      /\ Answering => polling = "answered" /\ EM.Instr = PollWord
  BY DEF PollInv, Accounts, Bit
<1>2. /\ CompareR' > 0 /\ (StatusR' = 1 => CompareR' # CounterR')
      /\ \A n \in Nat : taken(n) => n + StatusR' = matches'
  <2>1. TimerBus \in T!Bus /\ TimerBus.data = write_data /\ T!TypeOK
    BY BusTypes DEF SystemTypeOK, TimerBus
  <2>2. T!Writes(TimerBus, "Compare") =>
          TimerBus.data > 0 /\ (T!Match => TimerBus.data # CounterR + 1)
    BY <2>1 DEF Polls, ComparesInTime
  <2> QED BY <1>1, <2>1, <2>2, TimerAccounts DEF Answering
<1>3. /\ count \in 0 .. Modulus - 1 /\ answer \in 0 .. Modulus - 1
      /\ Modulus \in Nat /\ StatusR' \in Bit /\ matches' \in Nat
      /\ devData' = PeripheralRead'
  <2>1. \A r \in Reg : ArchReg(r) \in Word
    BY ArchTypes DEF HazardInv, ArchRegs
  <2> QED BY <1>1, <2>1, PollAssumption, SizeAssumption
          DEF Word, SystemTypeOK, T!TypeOK, Bit
<1>4. Answering' <=> Live(DE) /\ DE.Instr = PollWord
  BY StatusReached DEF Polls
<1>5. /\ count' = IF Live(DE) /\ DE.ctl.RegWrite = 1 /\ InstrE.rd = CountReg
                  THEN ResultM' ELSE count
      /\ answer' = IF Live(DE) /\ DE.ctl.RegWrite = 1 /\ InstrE.rd = AnswerReg
                   THEN ResultM' ELSE answer
  <2>1. CountReg \in Reg \ {0} /\ AnswerReg \in Reg \ {0} /\ CountReg # AnswerReg
    BY PollAssumption
  <2>2. (ArchReg(CountReg))' = IF Live(DE) /\ DE.ctl.RegWrite = 1 /\ InstrE.rd = CountReg
                               THEN ResultM' ELSE ArchReg(CountReg)
    BY <2>1, RegisterAfterEdge
  <2>3. (ArchReg(AnswerReg))' = IF Live(DE) /\ DE.ctl.RegWrite = 1 /\ InstrE.rd = AnswerReg
                                THEN ResultM' ELSE ArchReg(AnswerReg)
    BY <2>1, RegisterAfterEdge
  <2> QED BY <2>2, <2>3
<1>6. /\ EM'.Instr = DE.Instr
      /\ {PollWord} \cap {AddWord, ClearWord} = {} /\ AddWord # ClearWord
      /\ CountReg # AnswerReg
  BY PollAssumption DEF CoreClock, ExecuteStage
<1>7. SUFFICES /\ polling' \in {"idle", "ready", "answered"}
               /\ polling' = "idle"     => taken(0)'
               /\ polling' = "ready"    => taken(count)'
               /\ polling' = "answered" => answer' \in {0, 1} /\ taken(count + answer)'
               /\ Answering' => polling' = "answered" /\ EM'.Instr = PollWord
  BY <1>2, <1>3 DEF PollInv, Accounts, T!Match, Bit
<1>8. CASE ~Live(DE)
  BY <1>1, <1>2, <1>3, <1>4, <1>5, <1>8 DEF PollingNext
<1>9. CASE Live(DE) /\ DE.Instr = PollWord
  <2>1. polling = "ready" /\ polling' = "answered"
    BY <1>9 DEF Polls, PollsInTurn, PollingNext
  <2>2. Answering' /\ EM'.Instr = PollWord
    BY <1>4, <1>6, <1>9
  <2>3. answer' = StatusR' /\ count' = count
    BY <1>3, <1>5, <1>6, <1>9, <2>2, PollDelivers
  <2>4. StatusR' \in {0, 1}
    BY <1>3 DEF Bit
  <2>5. taken(count + answer)' <=> count' + answer' = matches'
    BY <1>3, <2>2, <2>3, <2>4
  <2>6. count + StatusR' = matches'
    BY <1>1, <1>2, <1>3, <2>1
  <2>7. taken(count + answer)'
    BY <2>3, <2>5, <2>6
  <2> HIDE DEF taken, answer, count
  <2> QED BY <2>1, <2>2, <2>3, <2>4, <2>7
<1>10. CASE Live(DE) /\ DE.Instr = AddWord
  <2>1. polling = "answered" /\ polling' = "ready" /\ count < Modulus - 1
    BY <1>6, <1>10 DEF Polls, PollsInTurn, PollingNext
  <2>2. count' = Plus(count, answer) /\ ~Answering'
    BY <1>4, <1>5, <1>6, <1>10, CountDelivers
  <2>3. count + answer \in Nat /\ (count + answer) + StatusR' = matches'
    BY <1>1, <1>2, <1>3, <2>1
  <2>4. answer < 2
    BY <1>1, <2>1
  <2>5. count' = count + answer
    BY <1>3, <2>1, <2>2, <2>4 DEF Plus
  <2> QED BY <2>1, <2>2, <2>3, <2>5
<1>11. CASE Live(DE) /\ DE.Instr = ClearWord
  <2>1. polling = "idle" /\ polling' = "ready"
    BY <1>6, <1>11 DEF Polls, PollsInTurn, PollingNext
  <2>2. count' = 0 /\ ~Answering'
    BY <1>4, <1>5, <1>6, <1>11, CountDelivers
  <2> QED BY <1>1, <1>2, <1>3, <2>1, <2>2
<1>12. CASE Live(DE) /\ DE.Instr \notin {PollWord, AddWord, ClearWord}
  <2>1. polling' = polling /\ ~Answering'
    BY <1>4, <1>12 DEF PollingNext
  <2>2. /\ polling = "answered" => answer' = answer
        /\ polling # "idle" => count' = count
    BY <1>5, <1>12 DEF Polls, PollsInTurn
  <2> QED BY <1>1, <1>2, <1>3, <2>1, <2>2
<1> QED BY <1>8, <1>9, <1>10, <1>11, <1>12

\* Every step of a program that polls in turn keeps the account.
LEMMA PollStep ==
  ASSUME HazardInv, HazardInv', SystemTypeOK, SystemTypeOK', QuietSlots,
         PollInv, Polls, [Steps]_<<systemVars, history>>
  PROVE  PollInv'
<1>1. CASE BeReset
  <2>1. reset_ff' = 0 /\ AtReset' /\ irq_force' = 0
    BY <1>1 DEF BeReset, ResetFalls, CoreReset, AtReset, B!Reset
  <2> QED BY <1>1, <2>1 DEF BeReset, PollInv, ResetArrived
<1>2. ASSUME NEW button \in Bit, Operate(button) PROVE PollInv'
  BY <1>2, PollEdge DEF Operate, Edge
<1>3. ASSUME NEW button \in Bit, Hold(button) PROVE PollInv'
  <2>1. /\ matches' = 0 /\ polling' = "idle"
        /\ CompareR' = Modulus - 1 /\ CounterR' = 0 /\ StatusR' = 0
        /\ AtReset'
    BY <1>3 DEF Hold, HeldEdge, T!ResetTick, ResetArrived, vars, AtReset
  <2>2. ~Answering'
    <3>1. (Answering <=> data_addr \in StatusAddrs /\ EM.MemWrite # 1)'
      BY AnsweringIs, PTL
    <3>2. data_addr' = 0
      BY <2>1 DEF AtReset, ResetEM, data_addr
    <3> QED BY <3>1, <3>2, BusAssumption DEF StatusAddrs
  <2>3. Accounts(0)'
    BY <2>1, <2>2 DEF Accounts
  <2>4. CompareR' > 0
    BY <2>1, SizeAssumption
  <2>5. PollInv' <=>
          /\ matches' \in Nat /\ polling' \in {"idle", "ready", "answered"}
          /\ \/ reset_ff' = 0 /\ ResetArrived'
             \/ /\ CompareR' > 0 /\ (StatusR' = 1 => ~T!Match')
                /\ polling' = "idle"     => Accounts(0)'
                /\ polling' = "ready"    => Accounts(ArchReg(CountReg))'
                /\ polling' = "answered" =>
                     /\ ArchReg(AnswerReg)' \in Bit
                     /\ Accounts(ArchReg(CountReg) + ArchReg(AnswerReg))'
                /\ Answering' => polling' = "answered" /\ EM'.Instr = PollWord
    BY DEF PollInv
  <2> QED BY <2>1, <2>2, <2>3, <2>4, <2>5
<1>4. CASE UNCHANGED <<systemVars, history>>
  <2>1. /\ UNCHANGED <<vars, tbmanVars, CompareR, CounterR, StatusR, reset_ff>>
        /\ matches' = matches /\ polling' = polling
    BY <1>4 DEF systemVars, history, timerVars
  <2>2. TimerBus' = TimerBus /\ Answering' = Answering
    BY <2>1 DEF vars, TimerBus, data_addr, data_we, write_data, InstrM, Answering, T!Reads
  <2>3. ArchReg(CountReg)' = ArchReg(CountReg) /\ ArchReg(AnswerReg)' = ArchReg(AnswerReg)
    BY <2>1 DEF vars, ArchReg, ResultM, Result, ReadData, InstrM, InstrW
  <2>4. ResetArrived' = ResetArrived
    BY <2>1 DEF ResetArrived, AtReset, vars, tbmanVars
  <2> QED BY <2>1, <2>2, <2>3, <2>4 DEF PollInv, Accounts, T!Match, vars
<1> QED BY <1>1, <1>2, <1>3, <1>4 DEF Steps

\* It is kept from the start.
LEMMA PollInvariant ==
  CheckSpec /\ []Polls => [](PollInv /\ SystemTypeOK /\ HazardInv /\ QuietSlots)
<1>1. CheckInit => PollInv
  BY DEF CheckInit, SystemInit, B!Init, PollInv, ResetArrived
<1>2. /\ SystemTypeOK /\ SystemTypeOK' /\ HazardInv /\ HazardInv' /\ QuietSlots /\ Polls
      /\ PollInv /\ [Steps]_<<systemVars, history>>
      => PollInv'
  BY PollStep
<1>3. CheckSpec => []SystemTypeOK /\ []HazardInv /\ []QuietSlots
  BY CheckRunsSystem, SystemTyped, SystemRunsCore, HazardsInvariant, QuietInvariant, PTL
<1> QED BY <1>1, <1>2, <1>3, PTL DEF CheckSpec

\* A program that polls in turn counts every match of the timer once, although
\* a match, the read that clears it, a load-use stall and a reset can meet in
\* any cycle.  (TimerCounter.v, Addr_Decoder.v and the pipeline in front)
THEOREM MatchesCounted == CheckSpec /\ []Polls => []PolledOnce
<1>1. PollInv /\ HazardInv /\ Polls => PolledOnce
  <2> SUFFICES ASSUME PollInv, Polls, Live(DE), DE.Instr = PollWord
               PROVE  ArchReg(CountReg) + StatusR = matches
    BY DEF PolledOnce
  <2>1. polling = "ready"
    BY DEF Polls, PollsInTurn
  <2>2. ~(reset_ff = 0 /\ ResetArrived)
    BY EmptySlots DEF ResetArrived, AtReset
  <2> QED BY <2>1, <2>2 DEF PollInv, Accounts
<1> QED BY <1>1, PollInvariant, PTL

\* In such a program no instruction but a load takes a match away.
THEOREM LoadsTakeMatches == CheckSpec /\ []Polls => MatchTakenByLoad
<1>1. PollInv /\ [Steps]_<<systemVars, history>> =>
        [StatusR = 1 /\ StatusR' = 0 /\ reset_ff = 1 => InstrM.opcode = "LOAD"]_systemVars
  <2> SUFFICES ASSUME PollInv, Steps, StatusR = 1, StatusR' = 0, reset_ff = 1
               PROVE  InstrM.opcode = "LOAD"
    BY DEF systemVars, timerVars
  <2>1. T!Tick(TimerBus)
    BY DEF Steps, BeReset, Operate, Hold, ResetFalls, HeldEdge, Edge
  <2>2. Answering
    BY <2>1 DEF T!Tick, T!StatusNext, Answering
  <2>3. EM.Instr = PollWord
    BY <2>2 DEF PollInv
  <2> QED BY <2>3, PollAssumption DEF InstrM
<1> QED BY <1>1, PollInvariant, PTL DEF CheckSpec, MatchTakenByLoad
=============================================================================
