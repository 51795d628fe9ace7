---------------------------- MODULE LanesProofs -----------------------------
(***************************************************************************)
(* Proofs about the byte lanes for bytes of every size: whatever is stored *)
(* at whatever width and offset, the word of the RAM holds the bytes the   *)
(* program stored, and loads return them.                                  *)
(***************************************************************************)
EXTENDS LanesCheck, Arithmetic

Composed(d) == d[0] + ByteSize * d[1] + HalfSize * d[2] + HalfSize * ByteSize * d[3]

\* The sizes of the units of memory.
LEMMA Sizes ==
  /\ ByteSize \in Nat \ {0} /\ HalfSize \in Nat \ {0}
  /\ HalfSize * ByteSize \in Nat \ {0} /\ WordSize \in Nat \ {0}
  /\ WordSize = (HalfSize * ByteSize) * ByteSize
BY ByteSizeAssumption DEF HalfSize, WordSize

\* A lane or a half of a word, without the table of the lanes' weights.
LEMMA LaneIs ==
  ASSUME NEW w \in Nat
  PROVE  /\ Lane(w, 0) = w % ByteSize
         /\ Lane(w, 1) = (w \div ByteSize) % ByteSize
         /\ Lane(w, 2) = (w \div HalfSize) % ByteSize
         /\ Lane(w, 3) = (w \div (HalfSize * ByteSize)) % ByteSize
         /\ Half(w, 0) = w % HalfSize
         /\ Half(w, 1) = (w \div HalfSize) % HalfSize
<1>1. w \div 1 = w
  OBVIOUS
<1>2. /\ LaneBase[1] = 1 /\ LaneBase[2] = ByteSize /\ LaneBase[3] = HalfSize
      /\ LaneBase[4] = HalfSize * ByteSize
  BY DEF LaneBase
<1>3. 0 + 1 = 1 /\ 1 + 1 = 2 /\ 2 + 1 = 3 /\ 3 + 1 = 4 /\ 2 * 0 + 1 = 1 /\ 2 * 1 + 1 = 3
  OBVIOUS
<1> QED BY <1>1, <1>2, <1>3 DEF Lane, Half

\* A word put together from four bytes has these bytes in its lanes.
LEMMA LanesOfComposed ==
  ASSUME NEW d \in [0 .. 3 -> Byte]
  PROVE  /\ Composed(d) \in Word
         /\ \A i \in 0 .. 3 : Lane(Composed(d), i) = d[i]
         /\ Half(Composed(d), 0) = d[0] + ByteSize * d[1]
         /\ Half(Composed(d), 1) = d[2] + ByteSize * d[3]
<1> DEFINE B == ByteSize
<1>1. /\ B \in Nat \ {0} /\ HalfSize = B * B /\ HalfSize \in Nat \ {0}
      /\ WordSize = HalfSize * HalfSize
  BY Sizes DEF HalfSize, WordSize
<1>2. d[0] \in 0 .. B - 1 /\ d[1] \in 0 .. B - 1 /\ d[2] \in 0 .. B - 1 /\ d[3] \in 0 .. B - 1
  BY DEF Byte
<1> HIDE DEF B
<1> DEFINE h0 == B * d[1] + d[0]
           h1 == B * d[3] + d[2]
           w  == HalfSize * h1 + h0
<1>3. h0 \in 0 .. HalfSize - 1 /\ h1 \in 0 .. HalfSize - 1
  <2>1. ASSUME NEW x \in 0 .. B - 1, NEW y \in 0 .. B - 1
        PROVE  B * x + y \in 0 .. HalfSize - 1
    <3>1. B * x <= B * (B - 1) /\ B * x \in Nat
      BY <1>1
    <3>2. B * (B - 1) = B * B - B
      BY <1>1
    <3> QED BY <1>1, <3>1, <3>2
  <2> QED BY <1>2, <2>1
<1>4. Composed(d) = w
  BY <1>1, <1>2 DEF Composed, B
<1>5. w \in Word
  <2>1. HalfSize * h1 <= HalfSize * (HalfSize - 1) /\ HalfSize * h1 \in Nat
    BY <1>1, <1>3
  <2>2. HalfSize * (HalfSize - 1) = HalfSize * HalfSize - HalfSize
    BY <1>1
  <2> HIDE DEF h0, h1
  <2> QED BY <1>1, <1>3, <2>1, <2>2 DEF Word
<1>6. w \div HalfSize = h1 /\ w % HalfSize = h0
  <2> HIDE DEF h0, h1
  <2> QED BY <1>1, <1>3, QuotientUnique
<1>7. /\ h0 \div B = d[1] /\ h0 % B = d[0]
      /\ h1 \div B = d[3] /\ h1 % B = d[2]
  <2>1. ASSUME NEW x \in 0 .. B - 1, NEW y \in 0 .. B - 1
        PROVE  (B * x + y) \div B = x /\ (B * x + y) % B = y
    <3>1. B \in Nat \ {0} /\ x \in Int
      BY <1>1
    <3> QED BY <3>1, QuotientUnique
  <2> QED BY <1>2, <2>1
<1> HIDE DEF h0, h1, w
<1>8. w \in Nat /\ h0 \in Nat /\ h1 \in Nat
  BY <1>1, <1>3, <1>5 DEF Word
<1>9. /\ w % B = d[0] /\ (w \div B) % B = d[1]
  <2>1. w \in Int /\ B \in Nat \ {0}
    BY <1>1, <1>8
  <2>2. (w % (B * B)) % B = w % B /\ (w % (B * B)) \div B = (w \div B) % B
    BY <2>1, DivDiv
  <2> QED BY <2>2, <1>1, <1>6, <1>7
<1>10. (w \div (HalfSize * B)) % B = d[3]
  <2>1. w \div (HalfSize * B) = (w \div HalfSize) \div B
    <3>1. w \in Int /\ B \in Nat \ {0} /\ HalfSize \in Nat \ {0}
      BY <1>1, <1>8
    <3> QED BY <3>1, DivDiv
  <2>2. d[3] % B = d[3]
    BY <1>1, <1>2
  <2> QED BY <2>1, <2>2, <1>6, <1>7
<1>11. h1 % HalfSize = h1
  BY <1>1, <1>3
<1>12. /\ Lane(w, 0) = d[0] /\ Lane(w, 1) = d[1] /\ Lane(w, 2) = d[2] /\ Lane(w, 3) = d[3]
       /\ Half(w, 0) = h0 /\ Half(w, 1) = h1
  BY <1>6, <1>7, <1>8, <1>9, <1>10, <1>11, LaneIs DEF B
<1>13. h0 = d[0] + ByteSize * d[1] /\ h1 = d[2] + ByteSize * d[3]
  BY <1>1, <1>2 DEF h0, h1, B
<1> QED BY <1>4, <1>5, <1>12, <1>13

\* Every word is put together from its lanes.
LEMMA ComposedOfLanes ==
  ASSUME NEW w \in Word
  PROVE  /\ [i \in 0 .. 3 |-> Lane(w, i)] \in [0 .. 3 -> Byte]
         /\ Composed([i \in 0 .. 3 |-> Lane(w, i)]) = w
<1> DEFINE B == ByteSize
           l == [i \in 0 .. 3 |-> Lane(w, i)]
<1>1. /\ B \in Nat \ {0} /\ HalfSize = B * B /\ HalfSize \in Nat \ {0}
      /\ WordSize = HalfSize * HalfSize /\ w \in Nat /\ w < WordSize
  BY Sizes DEF HalfSize, WordSize, Word
<1>2. /\ l[0] = w % B /\ l[1] = (w \div B) % B /\ l[2] = (w \div HalfSize) % B
      /\ l[3] = (w \div (HalfSize * B)) % B
  <2>1. w \in Nat
    BY <1>1
  <2>2. l[0] = Lane(w, 0) /\ l[1] = Lane(w, 1) /\ l[2] = Lane(w, 2) /\ l[3] = Lane(w, 3)
    OBVIOUS
  <2> HIDE DEF l
  <2> QED BY <2>1, <2>2, LaneIs
<1> HIDE DEF B, l
<1>3. l[0] \in 0 .. B - 1 /\ l[1] \in 0 .. B - 1 /\ l[2] \in 0 .. B - 1 /\ l[3] \in 0 .. B - 1
  <2>1. w \div B \in Int /\ w \div HalfSize \in Int /\ w \div (HalfSize * B) \in Int
    BY <1>1
  <2>2. \A n \in Int : n % B \in 0 .. B - 1
    BY <1>1, Division
  <2> HIDE DEF B
  <2>3. /\ w % B \in 0 .. B - 1 /\ (w \div B) % B \in 0 .. B - 1
        /\ (w \div HalfSize) % B \in 0 .. B - 1
        /\ (w \div (HalfSize * B)) % B \in 0 .. B - 1
    <3>1. w \in Int
      BY <1>1
    <3> QED BY <2>1, <2>2, <3>1
  <2> QED BY <1>2, <2>3
<1>4. w % HalfSize = B * l[1] + l[0]
  <2>1. w \in Int /\ B \in Nat \ {0}
    BY <1>1
  <2>2. w % (B * B) = B * ((w \div B) % B) + (w % B)
    BY <2>1, DivDiv
  <2> QED BY <1>1, <1>2, <2>2
<1> DEFINE h == w \div HalfSize
<1>5. h \in 0 .. HalfSize - 1 /\ w = HalfSize * h + (w % HalfSize)
      /\ w % HalfSize \in 0 .. HalfSize - 1
  <2>1. h \in Int /\ w = HalfSize * h + (w % HalfSize) /\ w % HalfSize \in 0 .. HalfSize - 1
    <3>1. w \in Int /\ HalfSize \in Nat \ {0}
      BY <1>1
    <3> QED BY <3>1, Division
  <2> HIDE DEF h
  <2>2. h >= 0
    <3>1. SUFFICES ASSUME h <= -1 PROVE FALSE
      BY <2>1
    <3>2. HalfSize * h <= HalfSize * (-1)
      BY <1>1, <2>1, <3>1
    <3> QED BY <1>1, <2>1, <3>2
  <2>3. h < HalfSize
    <3>1. SUFFICES ASSUME h >= HalfSize PROVE FALSE
      BY <1>1, <2>1
    <3>2. HalfSize * h >= HalfSize * HalfSize
      BY <1>1, <2>1, <3>1
    <3> QED BY <1>1, <2>1, <3>2
  <2> QED BY <1>1, <2>1, <2>2, <2>3
<1>6. h = B * l[3] + l[2]
  <2>1. h \in Int /\ w \in Int /\ B \in Nat \ {0} /\ HalfSize \in Nat \ {0}
    BY <1>1, <1>5
  <2>2. h % (B * B) = B * ((h \div B) % B) + (h % B)
    <3> HIDE DEF h
    <3> QED BY <2>1, DivDiv
  <2>3. h \div B = w \div (HalfSize * B)
    BY <2>1, DivDiv
  <2>4. h % HalfSize = h
    <3> HIDE DEF h
    <3> QED BY <1>1, <1>5
  <2> QED BY <1>1, <1>2, <2>2, <2>3, <2>4
<1>7. Composed(l) = w
  <2> HIDE DEF h
  <2>1. HalfSize * (B * l[3]) = (HalfSize * B) * l[3]
    BY <1>1, <1>3
  <2>2. w = HalfSize * (B * l[3] + l[2]) + (B * l[1] + l[0])
    BY <1>4, <1>5, <1>6
  <2>3. HalfSize * (B * l[3] + l[2]) = HalfSize * (B * l[3]) + HalfSize * l[2]
    BY <1>1, <1>3
  <2> QED BY <1>1, <1>3, <2>1, <2>2, <2>3 DEF Composed, B
<1>8. l \in [0 .. 3 -> Byte]
  <2>1. \A i \in 0 .. 3 : l[i] \in Byte
    BY <1>3 DEF Byte, B
  <2> QED BY <2>1 DEF l
<1> QED BY <1>7, <1>8 DEF l

\* The lower half of a word.
LEMMA LowHalf ==
  ASSUME NEW w \in Word
  PROVE  w % HalfSize = Lane(w, 0) + ByteSize * Lane(w, 1)
<1>1. w % HalfSize = Half(w, 0)
  <2>1. w \in Nat
    BY Sizes DEF Word
  <2> QED BY <2>1, LaneIs
<1> DEFINE l == [i \in 0 .. 3 |-> Lane(w, i)]
<1>2. Half(Composed(l), 0) = l[0] + ByteSize * l[1]
  <2>1. l \in [0 .. 3 -> Byte]
    BY ComposedOfLanes
  <2> HIDE DEF l
  <2> QED BY <2>1, LanesOfComposed
<1> QED BY <1>1, <1>2, ComposedOfLanes

-----------------------------------------------------------------------------
(* Stores.                                                                  *)

\* be_logic, row by row.
LEMMA StoreTable ==
  ASSUME NEW a, NEW d
  PROVE  /\ BE_WD(a, 0, d) = (d % ByteSize) * LaneBase[a + 1]
         /\ BE_WD(a, 1, d) = (d % HalfSize) * LaneBase[2 * (a \div 2) + 1]
         /\ BE_WD(a, 2, d) = d
         /\ ByteEnable(a, 0) = {a}
         /\ ByteEnable(a, 1) = IF a < 2 THEN {0, 1} ELSE {2, 3}
         /\ ByteEnable(a, 2) = 0 .. 3
<1>1. BE_WD(a, 0, d) = (d % ByteSize) * LaneBase[a + 1]
  BY DEF BE_WD
<1>2. BE_WD(a, 1, d) = (d % HalfSize) * LaneBase[2 * (a \div 2) + 1]
  BY DEF BE_WD
<1>3. BE_WD(a, 2, d) = d
  BY DEF BE_WD
<1>4. ByteEnable(a, 0) = {a}
  BY DEF ByteEnable
<1>5. ByteEnable(a, 1) = IF a < 2 THEN {0, 1} ELSE {2, 3}
  BY DEF ByteEnable
<1>6. ByteEnable(a, 2) = 0 .. 3
  BY DEF ByteEnable
<1> QED BY <1>1, <1>2, <1>3, <1>4, <1>5, <1>6

\* What be_logic puts on the bus and the lanes it enables: the bytes a store
\* owns, each with its own byte of the register.
LEMMA StoreLanes ==
  ASSUME NEW a \in 0 .. 3, NEW funct3 \in 0 .. 2, NEW d \in Word, Aligned(a, funct3),
         NEW i \in 0 .. 3
  PROVE  /\ i \in ByteEnable(a, funct3) <=> i \in a .. a + 2 ^ funct3 - 1
         /\ i \in ByteEnable(a, funct3) =>
              Lane(BE_WD(a, funct3, d), i) = Lane(d, i - a)
         /\ BE_WD(a, funct3, d) \in Word
<1> DEFINE l == [k \in 0 .. 3 |-> Lane(d, k)]
<1>1. l \in [0 .. 3 -> Byte] /\ 0 \in Byte
  <2>1. l \in [0 .. 3 -> Byte]
    BY ComposedOfLanes
  <2>2. 0 \in Byte
    BY Sizes DEF Byte
  <2> QED BY <2>1, <2>2
<1>2. CASE funct3 = 0
  <2>1. ByteEnable(a, funct3) = {a} /\ 2 ^ funct3 = 1
    <3>1. 2 ^ 0 = 1
      OBVIOUS
    <3>2. ByteEnable(a, 0) = {a}
      BY StoreTable
    <3> QED BY <1>2, <3>1, <3>2
  <2>2. BE_WD(a, funct3, d) = (d % ByteSize) * LaneBase[a + 1]
    BY <1>2, StoreTable
  <2> DEFINE e == [k \in 0 .. 3 |-> IF k = a THEN l[0] ELSE 0]
  <2>3. d % ByteSize = l[0]
    <3>1. d \in Nat
      BY Sizes DEF Word
    <3> QED BY <3>1, LaneIs
  <2>4. Composed(e) = BE_WD(a, funct3, d)
    <3> HIDE DEF l
    <3>1. l[0] \in Int
      BY <1>1, Sizes DEF Byte
    <3> QED BY <2>2, <2>3, <3>1, Sizes DEF Composed, LaneBase
  <2>5. Lane(Composed(e), i) = e[i] /\ Composed(e) \in Word
    <3>1. e \in [0 .. 3 -> Byte]
      BY <1>1
    <3> HIDE DEF e
    <3> QED BY <3>1, LanesOfComposed
  <2> QED BY <2>1, <2>4, <2>5
<1>3. CASE funct3 = 1
  <2>1. 2 ^ funct3 = 2 /\ a \in {0, 2}
    <3>1. 1 % 4 = 1 /\ 2 ^ 1 = 2
      OBVIOUS
    <3>2. a % 2 = 0
      BY <1>3, <3>1 DEF Aligned
    <3> QED BY <1>3, <3>1, <3>2
  <2>2. ByteEnable(a, funct3) = {a, a + 1}
    <3>1. ByteEnable(a, 1) = IF a < 2 THEN {0, 1} ELSE {2, 3}
      BY StoreTable
    <3> QED BY <1>3, <2>1, <3>1
  <2>3. BE_WD(a, funct3, d) = (d % HalfSize) * LaneBase[a + 1]
    <3>1. 2 * (a \div 2) + 1 = a + 1
      BY <2>1
    <3> QED BY <1>3, <3>1, StoreTable
  <2> DEFINE e == [k \in 0 .. 3 |-> IF k = a THEN l[0] ELSE IF k = a + 1 THEN l[1] ELSE 0]
  <2>4. d % HalfSize = l[0] + ByteSize * l[1]
    BY LowHalf
  <2>5. Composed(e) = BE_WD(a, funct3, d)
    <3> HIDE DEF l
    <3>1. l[0] \in Int /\ l[1] \in Int
      BY <1>1, Sizes DEF Byte
    <3>2. CASE a = 0
      BY <2>3, <2>4, <3>1, <3>2, Sizes DEF Composed, LaneBase
    <3>3. CASE a = 2
      <4>1. BE_WD(a, funct3, d) = (l[0] + ByteSize * l[1]) * HalfSize
        BY <2>3, <2>4, <3>3 DEF LaneBase
      <4>2. Composed(e) = HalfSize * l[0] + HalfSize * ByteSize * l[1]
        BY <3>1, <3>3, Sizes DEF Composed
      <4> QED BY <3>1, <4>1, <4>2, Sizes
    <3> QED BY <2>1, <3>2, <3>3
  <2>6. Lane(Composed(e), i) = e[i] /\ Composed(e) \in Word
    <3>1. e \in [0 .. 3 -> Byte]
      BY <1>1
    <3> HIDE DEF e
    <3> QED BY <3>1, LanesOfComposed
  <2> QED BY <2>1, <2>2, <2>5, <2>6
<1>4. CASE funct3 = 2
  <2>1. 2 ^ funct3 = 4 /\ a = 0
    <3>1. 2 % 4 = 2 /\ 2 ^ 2 = 4
      OBVIOUS
    <3>2. a % 4 = 0
      BY <1>4, <3>1 DEF Aligned
    <3> QED BY <1>4, <3>1, <3>2
  <2>2. ByteEnable(a, funct3) = 0 .. 3 /\ BE_WD(a, funct3, d) = d
    BY <1>4, StoreTable
  <2> QED BY <2>1, <2>2
<1> QED BY <1>2, <1>3, <1>4

\* The RAM takes the enabled lanes from the bus and keeps the others.
LEMMA RamLanes ==
  ASSUME NEW old \in Word, NEW d \in Word, NEW wbe
  PROVE  /\ RamWrite(old, wbe, d) \in Word
         /\ \A i \in 0 .. 3 :
              Lane(RamWrite(old, wbe, d), i) = Lane(IF i \in wbe THEN d ELSE old, i)
<1> DEFINE l == [i \in 0 .. 3 |-> Lane(IF i \in wbe THEN d ELSE old, i)]
<1>1. l \in [0 .. 3 -> Byte]
  <2>1. ASSUME NEW i \in 0 .. 3, NEW w \in Word PROVE Lane(w, i) \in Byte
    <3>1. [k \in 0 .. 3 |-> Lane(w, k)] \in [0 .. 3 -> Byte]
      BY ComposedOfLanes
    <3> QED BY <3>1
  <2> QED BY <2>1
<1>2. RamWrite(old, wbe, d) = Composed(l)
  <2>1. /\ LaneBase[0 + 1] = 1 /\ LaneBase[1 + 1] = ByteSize
        /\ LaneBase[2 + 1] = HalfSize /\ LaneBase[3 + 1] = HalfSize * ByteSize
    BY DEF LaneBase
  <2>2. RamWrite(old, wbe, d) = 1 * l[0] + ByteSize * l[1] + HalfSize * l[2]
                                + HalfSize * ByteSize * l[3]
    BY <2>1 DEF RamWrite
  <2> HIDE DEF l
  <2>3. l[0] \in Int
    BY <1>1, Sizes DEF Byte
  <2> QED BY <2>2, <2>3 DEF Composed
<1> HIDE DEF l
<1>3. Composed(l) \in Word /\ \A i \in 0 .. 3 : Lane(Composed(l), i) = l[i]
  BY <1>1, LanesOfComposed
<1> QED BY <1>2, <1>3 DEF l

-----------------------------------------------------------------------------

LanesInv == TypeOK /\ StoresHitTheirBytes

\* Every store leaves the word and the bytes in step.
LEMMA LanesStep == LanesInv /\ [Next]_vars => LanesInv'
<1> SUFFICES ASSUME LanesInv, [Next]_vars PROVE LanesInv'
  OBVIOUS
<1> USE DEF LanesInv, TypeOK, StoresHitTheirBytes
<1>1. ASSUME NEW a \in 0 .. 3, NEW funct3 \in 0 .. 2, NEW d \in Word,
             StoreTo(a, funct3, d)
      PROVE  LanesInv'
  <2> DEFINE wbe == ByteEnable(a, funct3)
             wd  == BE_WD(a, funct3, d)
  <2>1. /\ Aligned(a, funct3) /\ word' = RamWrite(word, wbe, wd)
        /\ bytes' = [i \in 0 .. 3 |-> IF i \in a .. a + 2 ^ funct3 - 1
                                      THEN Lane(d, i - a) ELSE bytes[i]]
    BY <1>1 DEF StoreTo
  <2>2. wd \in Word
    BY <2>1, StoreLanes
  <2>3. ASSUME NEW i \in 0 .. 3
        PROVE  bytes'[i] = IF i \in wbe THEN Lane(wd, i) ELSE bytes[i]
    <3>1. /\ i \in wbe <=> i \in a .. a + 2 ^ funct3 - 1
          /\ i \in wbe => Lane(wd, i) = Lane(d, i - a)
      BY <2>1, StoreLanes
    <3> QED BY <2>1, <3>1
  <2>4. word' \in Word /\ \A i \in 0 .. 3 : Lane(word', i) = Lane(IF i \in wbe THEN wd ELSE word, i)
    BY <2>1, <2>2, RamLanes
  <2> HIDE DEF wd, wbe
  <2>5. \A i \in 0 .. 3 : Lane(word', i) = bytes'[i]
    BY <2>3, <2>4
  <2>6. bytes' \in [0 .. 3 -> Byte]
    <3>1. \A i \in 0 .. 3 : Lane(word', i) \in Byte
      <4>1. [i \in 0 .. 3 |-> Lane(word', i)] \in [0 .. 3 -> Byte]
        BY <2>4, ComposedOfLanes
      <4> QED BY <4>1
    <3> QED BY <2>1, <2>5, <3>1
  <2> QED BY <2>4, <2>5, <2>6
<1>2. CASE UNCHANGED vars
  BY <1>2 DEF vars
<1> QED BY <1>1, <1>2 DEF Next

\* The bytes start as those of the word.
LEMMA LanesStart == Init => LanesInv
<1> SUFFICES ASSUME Init PROVE LanesInv
  OBVIOUS
<1> DEFINE l == [i \in 0 .. 3 |-> 0]
<1>1. l \in [0 .. 3 -> Byte] /\ 0 \in Word
  BY Sizes DEF Byte, Word
<1>2. Composed(l) = 0
  BY Sizes DEF Composed
<1>3. \A i \in 0 .. 3 : Lane(Composed(l), i) = l[i]
  <2> HIDE DEF l
  <2> QED BY <1>1, LanesOfComposed
<1> QED BY <1>1, <1>2, <1>3 DEF Init, LanesInv, TypeOK, StoresHitTheirBytes

\* The word of the RAM stays a word, whatever is stored.
THEOREM LanesTyped == Spec => []TypeOK
<1>1. LanesInv => TypeOK
  BY DEF LanesInv
<1> QED BY <1>1, LanesStart, LanesStep, PTL DEF Spec

\* No sequence of stores touches a byte it does not own.
THEOREM StoresAreExact == Spec => []StoresHitTheirBytes
<1>1. LanesInv => StoresHitTheirBytes
  BY DEF LanesInv
<1> QED BY <1>1, LanesStart, LanesStep, PTL DEF Spec

-----------------------------------------------------------------------------
(* Loads.                                                                   *)

\* be_logic, row by row.
LEMMA LoadTable ==
  ASSUME NEW a, NEW w
  PROVE  /\ BE_RD(a, 0, w) = SignExtend(Lane(w, a), ByteSize)
         /\ BE_RD(a, 1, w) = SignExtend(Half(w, a \div 2), HalfSize)
         /\ BE_RD(a, 2, w) = w
         /\ BE_RD(a, 4, w) = Lane(w, a)
         /\ BE_RD(a, 5, w) = Half(w, a \div 2)
<1>1. BE_RD(a, 0, w) = SignExtend(Lane(w, a), ByteSize)
  BY DEF BE_RD
<1>2. BE_RD(a, 1, w) = SignExtend(Half(w, a \div 2), HalfSize)
  BY DEF BE_RD
<1>3. BE_RD(a, 2, w) = w
  BY DEF BE_RD
<1>4. BE_RD(a, 4, w) = Lane(w, a)
  BY DEF BE_RD
<1>5. BE_RD(a, 5, w) = Half(w, a \div 2)
  BY DEF BE_RD
<1> QED BY <1>1, <1>2, <1>3, <1>4, <1>5

\* The sign bit is set in the upper half of the values.
LEMMA SignIsUpperHalf ==
  ASSUME NEW v \in Int, NEW size \in {ByteSize, HalfSize}
  PROVE  SignExtend(v, size) = IF 2 * v >= size THEN v - size + WordSize ELSE v
<1>1. size \in Int /\ size = 2 * (size \div 2) /\ WordSize \in Int
  <2> DEFINE b == ByteSize \div 2
  <2>1. b \in Int /\ ByteSize = 2 * b /\ ByteSize \in Nat
    BY ByteSizeAssumption
  <2> HIDE DEF b
  <2>2. HalfSize = 2 * (b * ByteSize) /\ b * ByteSize \in Int
    BY <2>1 DEF HalfSize
  <2> QED BY <2>1, <2>2, Sizes
<1> QED BY <1>1 DEF SignExtend

\* A load of each width and offset.
LEMMA LoadStep == LanesInv => LoadsReturnStored
<1> SUFFICES ASSUME LanesInv,
                    NEW a \in 0 .. 3, NEW funct3 \in {0, 1, 2, 4, 5}, Aligned(a, funct3)
             PROVE  LET v    == Value(a, funct3)
                        size == IF funct3 % 4 = 0 THEN ByteSize ELSE HalfSize
                        negative == funct3 \in {0, 1} /\ 2 * v >= size
                    IN  BE_RD(a, funct3, word) = IF negative THEN v - size + WordSize ELSE v
  BY DEF LoadsReturnStored
<1>1. bytes \in [0 .. 3 -> Byte] /\ word = Composed(bytes)
  <2>1. bytes \in [0 .. 3 -> Byte] /\ word \in Word
        /\ bytes = [i \in 0 .. 3 |-> Lane(word, i)]
    BY DEF LanesInv, TypeOK, StoresHitTheirBytes
  <2> QED BY <2>1, ComposedOfLanes
<1>2. /\ \A i \in 0 .. 3 : Lane(word, i) = bytes[i] /\ bytes[i] \in Int
      /\ Half(word, 0) = bytes[0] + ByteSize * bytes[1]
      /\ Half(word, 1) = bytes[2] + ByteSize * bytes[3]
  BY <1>1, LanesOfComposed, Sizes DEF Byte
<1>3. ASSUME funct3 \in {0, 4}
      PROVE  Value(a, funct3) = Lane(word, a) /\ Lane(word, a) \in Int
  BY <1>2, <1>3 DEF Value
<1>4. ASSUME funct3 \in {1, 5}
      PROVE  Value(a, funct3) = Half(word, a \div 2) /\ Half(word, a \div 2) \in Int
  <2>1. a \in {0, 2}
    <3>1. 2 ^ 1 = 2
      OBVIOUS
    <3>2. funct3 % 4 = 1
      BY <1>4
    <3>3. a % 2 = 0
      BY <3>1, <3>2 DEF Aligned
    <3> QED BY <3>3
  <2>2. Value(a, funct3) = bytes[a] + ByteSize * bytes[a + 1]
    BY <1>4 DEF Value
  <2>3. CASE a = 0
    BY <1>2, <2>2, <2>3, Sizes
  <2>4. CASE a = 2
    BY <1>2, <2>2, <2>4, Sizes
  <2> QED BY <2>1, <2>3, <2>4
<1>5. ASSUME funct3 = 2
      PROVE  Value(a, funct3) = word
  <2>1. Value(a, funct3) =
          bytes[0] + ByteSize * (bytes[1] + ByteSize * (bytes[2] + ByteSize * bytes[3]))
    BY <1>5 DEF Value
  <2> QED BY <1>1, <1>2, <2>1, Sizes DEF Composed, HalfSize
<1>6. CASE funct3 = 0
  BY <1>3, <1>6, LoadTable, SignIsUpperHalf
<1>7. CASE funct3 = 1
  BY <1>4, <1>7, LoadTable, SignIsUpperHalf
<1>8. CASE funct3 = 2
  BY <1>5, <1>8, LoadTable
<1>9. CASE funct3 = 4
  BY <1>3, <1>9, LoadTable
<1>10. CASE funct3 = 5
  BY <1>4, <1>10, LoadTable
<1> QED BY <1>6, <1>7, <1>8, <1>9, <1>10

\* Every aligned load returns the stored bytes, extended as its width asks.
THEOREM LoadsAreExact == Spec => []LoadsReturnStored
BY LanesStart, LanesStep, LoadStep, PTL DEF Spec
-----------------------------------------------------------------------------
(* The lanes as a part of the core.                                         *)

\* What the pipeline assumes of its byte lanes: whatever the address and the
\* width, reserved ones included, they turn words into words.
\* (LanesAssumption of Rv32im, for be_logic.sv and ASYNC_RAM_DP_WBE.v)
THEOREM LanesMeetTheirAssumption ==
  \A a \in 0 .. 3, f \in 0 .. 7, w \in Word :
    /\ BE_RD(a, f, w) \in Word /\ BE_WD(a, f, w) \in Word
    /\ \A old \in Word : RamWrite(old, ByteEnable(a, f), w) \in Word
<1>1. ASSUME NEW size \in {ByteSize, HalfSize}, NEW v \in 0 .. size - 1
      PROVE  v \in Word /\ SignExtend(v, size) \in Word
  <2>1. size \in Nat \ {0} /\ WordSize \in Nat /\ size <= WordSize
    <3>1. ByteSize <= HalfSize /\ HalfSize <= HalfSize * ByteSize
          /\ HalfSize * ByteSize <= WordSize
      <4>1. \A m, n \in Nat \ {0} : m <= m * n
        OBVIOUS
      <4> QED BY <4>1, Sizes DEF HalfSize
    <3> QED BY <3>1, Sizes
  <2>2. SignExtend(v, size) = IF 2 * v >= size THEN v - size + WordSize ELSE v
    <3>1. v \in Int
      BY <2>1
    <3> QED BY <3>1, SignIsUpperHalf
  <2> QED BY <2>1, <2>2 DEF Word
<1>2. ASSUME NEW w \in Word, NEW a \in 0 .. 3 PROVE Lane(w, a) \in 0 .. ByteSize - 1
  <2>1. [i \in 0 .. 3 |-> Lane(w, i)] \in [0 .. 3 -> Byte]
    BY ComposedOfLanes
  <2> QED BY <2>1 DEF Byte
<1>3. ASSUME NEW w \in Word, NEW h \in {0, 1} PROVE Half(w, h) \in 0 .. HalfSize - 1
  <2> DEFINE x == w \div LaneBase[2 * h + 1]
  <2>1. x \in Int
    <3>1. w \in Int /\ LaneBase[2 * h + 1] \in Nat \ {0}
      BY Sizes DEF Word, LaneBase
    <3> QED BY <3>1, Division
  <2> HIDE DEF x
  <2>2. x % HalfSize \in 0 .. HalfSize - 1
    BY <2>1, Sizes, Division
  <2> QED BY <2>2 DEF Half, x
<1>4. ASSUME NEW a \in 0 .. 3, NEW f \in 0 .. 7, NEW w \in Word
      PROVE  BE_RD(a, f, w) \in Word
  <2>1. a \div 2 \in {0, 1}
    OBVIOUS
  <2>2. Lane(w, a) \in Word /\ SignExtend(Lane(w, a), ByteSize) \in Word
    BY <1>1, <1>2
  <2>3. Half(w, a \div 2) \in Word /\ SignExtend(Half(w, a \div 2), HalfSize) \in Word
    BY <1>1, <1>3, <2>1
  <2>4. f \in {3, 6, 7} => BE_RD(a, f, w) = 0
    BY DEF BE_RD
  <2>5. 0 \in Word
    BY Sizes DEF Word
  <2> QED BY <2>2, <2>3, <2>4, <2>5, LoadTable
<1>5. ASSUME NEW a \in 0 .. 3, NEW f \in 0 .. 7, NEW w \in Word
      PROVE  BE_WD(a, f, w) \in Word
  <2>1. CASE f = 0
    <3>1. Aligned(a, 0)
      BY DEF Aligned
    <3> QED BY <2>1, <3>1, StoreLanes
  <2>2. CASE f = 1
    <3> DEFINE even == 2 * (a \div 2)
    <3>1. even \in {0, 2} /\ 2 * (even \div 2) = even
      OBVIOUS
    <3>2. BE_WD(a, 1, w) = BE_WD(even, 1, w)
      BY <3>1, StoreTable
    <3>3. Aligned(even, 1)
      BY <3>1 DEF Aligned
    <3> HIDE DEF even
    <3>4. BE_WD(even, 1, w) \in Word
      BY <3>1, <3>3, StoreLanes
    <3> QED BY <2>2, <3>2, <3>4
  <2>3. CASE f = 2
    BY <2>3, StoreTable
  <2>4. CASE f \notin {0, 1, 2}
    <3>1. BE_WD(a, f, w) = 0
      BY <2>4 DEF BE_WD
    <3> QED BY <3>1, Sizes DEF Word
  <2> QED BY <2>1, <2>2, <2>3, <2>4
<1> QED BY <1>4, <1>5, RamLanes
=============================================================================
