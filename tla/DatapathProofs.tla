--------------------------- MODULE DatapathProofs ---------------------------
(***************************************************************************)
(* Proofs about the combinational units.  For words of every width the ALU *)
(* and the branch logic compute what the instruction set defines; for      *)
(* 32-bit instructions of every format decode recovers the immediate.      *)
(***************************************************************************)
EXTENDS AluCheck, Immediates, Arithmetic

-----------------------------------------------------------------------------
(* Powers of two.                                                           *)

\* The recursion of Two has a solution.
LEMMA TwoDef ==
  /\ Two \in [Nat -> Nat \ {0}] /\ Two[0] = 1
  /\ \A k \in Nat : Two[k + 1] = 2 * Two[k]
<1> DEFINE V    == Nat \ {0}
           step == [k \in Nat |-> [n \in V |-> 2 * n]]
<1>1. PICK f \in [Nat -> V] : Recursion(f, 1, step)
  <2>1. 1 \in V /\ step \in [Nat -> [V -> V]]
    OBVIOUS
  <2> HIDE DEF step, V
  <2> QED BY <2>1, RecursionExists, Zenon
<1>2. ASSUME NEW k \in Nat PROVE f[k + 1] = 2 * f[k]
  <2> HIDE DEF step
  <2>1. f[k] \in V /\ f[k + 1] = step[k + 1][f[k]] /\ k + 1 \in Nat
    BY <1>1 DEF Recursion
  <2> USE DEF step
  <2> QED BY <2>1
<1> HIDE DEF step
<1>3. f[0] = 1
  BY <1>1 DEF Recursion
<1>4. f = [k \in Nat |-> IF k = 0 THEN 1 ELSE 2 * f[k - 1]]
  <2>1. ASSUME NEW k \in Nat, k # 0 PROVE f[k] = 2 * f[k - 1]
    <3>1. k - 1 \in Nat /\ (k - 1) + 1 = k
      BY <2>1
    <3> QED BY <3>1, <1>2
  <2> QED BY <1>3, <2>1
<1>5. Two = [k \in Nat |-> IF k = 0 THEN 1 ELSE 2 * Two[k - 1]]
  BY <1>4, Zenon DEF Two
<1>6. Two[0] = 1 /\ \A k \in Nat : Two[k + 1] = 2 * Two[k]
  <2>1. \A k \in Nat : k + 1 \in Nat /\ k + 1 # 0 /\ (k + 1) - 1 = k
    OBVIOUS
  <2>2. \A k \in Nat : Two[k] = IF k = 0 THEN 1 ELSE 2 * Two[k - 1]
    BY <1>5, Zenon
  <2> QED BY <2>1, <2>2
<1>7. \A k \in Nat : Two[k] = f[k]
  <2> DEFINE T == {k \in Nat : Two[k] = f[k]}
  <2>1. 0 \in T
    BY <1>3, <1>6
  <2>2. ASSUME NEW k \in Nat, k \in T PROVE k + 1 \in T
    BY <1>2, <1>6, <2>2
  <2> HIDE DEF T
  <2>3. Nat \subseteq T
    BY <2>1, <2>2, SetInduction
  <2> QED BY <2>3 DEF T
<1>8. Two \in [Nat -> Nat \ {0}]
  <2>1. DOMAIN Two = Nat
    BY <1>5, Zenon
  <2> QED BY <1>5, <1>7, <2>1
<1> QED BY <1>6, <1>8

\* A power of two is positive.
LEMMA TwoType == \A k \in Nat : Two[k] \in Nat \ {0}
BY TwoDef

\* Shifting twice is shifting by the sum.
LEMMA TwoSum ==
  ASSUME NEW m \in Nat, NEW n \in Nat PROVE Two[m + n] = Two[m] * Two[n]
<1> DEFINE T == {k \in Nat : Two[m + k] = Two[m] * Two[k]}
<1>1. 0 \in T
  BY TwoDef
<1>2. ASSUME NEW k \in Nat, k \in T PROVE k + 1 \in T
  <2>1. Two[m + (k + 1)] = 2 * Two[m + k] /\ Two[k + 1] = 2 * Two[k]
    <3>1. m + k \in Nat /\ m + (k + 1) = (m + k) + 1
      OBVIOUS
    <3> QED BY <3>1, TwoDef
  <2>2. Two[m] * (2 * Two[k]) = 2 * (Two[m] * Two[k])
    BY TwoType
  <2> QED BY <1>2, <2>1, <2>2
<1> HIDE DEF T
<1>3. Nat \subseteq T
  BY <1>1, <1>2, SetInduction
<1> QED BY <1>3 DEF T

\* The sizes of the words.
LEMMA Sizes ==
  /\ WordSize \in Nat \ {0} /\ MinInt \in Nat \ {0} /\ WordSize = 2 * MinInt
  /\ MinInt >= 2
  /\ Word = 0 .. WordSize - 1 /\ AllOnes = WordSize - 1
  /\ Width \in Nat /\ Width - 1 \in Nat
<1>1. Width - 1 \in Nat /\ Width - 2 \in Nat /\ Width \in Nat
      /\ (Width - 1) + 1 = Width /\ (Width - 2) + 1 = Width - 1
  BY WidthAssumption
<1>2. Two[Width] = 2 * Two[Width - 1] /\ Two[Width - 1] = 2 * Two[Width - 2]
  BY <1>1, TwoDef
<1> QED BY <1>1, <1>2, TwoType DEF WordSize, MinInt, Word, AllOnes

\* The sign bit and the signed value.
LEMMA Signs ==
  ASSUME NEW x \in Word
  PROVE  /\ Msb(x) = IF x >= MinInt THEN 1 ELSE 0
         /\ Signed(x) = IF x >= MinInt THEN x - WordSize ELSE x
         /\ Signed(x) \in -MinInt .. MinInt - 1
         /\ Signed(x) % WordSize = x
<1>1. Msb(x) = IF x >= MinInt THEN 1 ELSE 0
  <2>1. x \in Nat /\ x < 2 * MinInt /\ MinInt \in Nat \ {0}
    BY Sizes
  <2>2. CASE x >= MinInt
    <3>1. x - MinInt \in 0 .. MinInt - 1 /\ 1 \in Int /\ x = MinInt * 1 + (x - MinInt)
      BY <2>1, <2>2
    <3>2. (MinInt * 1 + (x - MinInt)) \div MinInt = 1
      BY <2>1, <3>1, QuotientUnique
    <3> QED BY <2>2, <3>1, <3>2 DEF Msb
  <2>3. CASE x < MinInt
    <3>1. x \in 0 .. MinInt - 1 /\ 0 \in Int /\ x = MinInt * 0 + x
      BY <2>1, <2>3
    <3>2. (MinInt * 0 + x) \div MinInt = 0
      BY <2>1, <3>1, QuotientUnique
    <3> QED BY <2>1, <2>3, <3>1, <3>2 DEF Msb
  <2> QED BY <2>1, <2>2, <2>3
<1>2. Signed(x) = IF x >= MinInt THEN x - WordSize ELSE x
  BY <1>1 DEF Signed
<1>3. Signed(x) \in -MinInt .. MinInt - 1
  BY <1>2, Sizes
<1>4. x % WordSize = x /\ (x + WordSize * (-1)) % WordSize = x % WordSize
  <2>1. WordSize \in Nat \ {0} /\ x \in Int /\ -1 \in Int /\ x \in 0 .. WordSize - 1
    BY Sizes
  <2> QED BY <2>1, ModPlus
<1>5. x + WordSize * (-1) = x - WordSize
  BY Sizes
<1> QED BY <1>1, <1>2, <1>3, <1>4, <1>5

-----------------------------------------------------------------------------
(* The result of every code, row by row of the table in alu.sv.             *)

\* The base operations.
LEMMA Table ==
  ASSUME NEW a, NEW b
  PROVE  /\ Result(ADD, a, b) = Adder(a, b).sum
         /\ Result(SUB, a, b) = Adder(a, (Not(b) + 1) % WordSize).sum
         /\ Result(AND, a, b) = And(a, b)
         /\ Result(OR, a, b) = Or(a, b)
         /\ Result(XOR, a, b) = Xor(a, b)
         /\ Result(SLT, a, b) = SltResult(a, b)
         /\ Result(SLL, a, b) = Sll(a, b)
         /\ Result(SRL, a, b) = Srl(a, b)
         /\ Result(SRA, a, b) = Sra(a, b)
         /\ Result(SLTU, a, b) = SltuResult(a, b)
<1> USE DEF ADD, SUB, AND, OR, XOR, SLT, SLL, SRL, SRA, SLTU, BRU, MUL, MULH,
            MULHSU, MULHU, DIV, DIVU, REM, REMU
<1>1. Result(ADD, a, b) = Adder(a, b).sum
  <2>1. AddSubB(ADD, b) = b
    BY DEF AddSubB
  <2>2. Result(ADD, a, b) = Adder(a, AddSubB(ADD, b)).sum
    BY DEF Result
  <2> QED BY <2>1, <2>2
<1>2. Result(SUB, a, b) = Adder(a, (Not(b) + 1) % WordSize).sum
  <2>1. AddSubB(SUB, b) = (Not(b) + 1) % WordSize
    BY DEF AddSubB
  <2>2. Result(SUB, a, b) = Adder(a, AddSubB(SUB, b)).sum
    BY DEF Result
  <2> QED BY <2>1, <2>2
<1>3. Result(AND, a, b) = And(a, b)
  BY DEF Result
<1>4. Result(OR, a, b) = Or(a, b)
  BY DEF Result
<1>5. Result(XOR, a, b) = Xor(a, b)
  BY DEF Result
<1>6. Result(SLT, a, b) = SltResult(a, b)
  BY DEF Result
<1>7. Result(SLL, a, b) = Sll(a, b)
  BY DEF Result
<1>8. Result(SRL, a, b) = Srl(a, b)
  BY DEF Result
<1>9. Result(SRA, a, b) = Sra(a, b)
  BY DEF Result
<1>10. Result(SLTU, a, b) = SltuResult(a, b)
  BY DEF Result
<1> QED BY <1>1, <1>2, <1>3, <1>4, <1>5, <1>6, <1>7, <1>8, <1>9, <1>10

\* The operations of the M extension.
LEMMA TableM ==
  ASSUME NEW a, NEW b
  PROVE  /\ Result(MUL, a, b) = Low(MulSS(a, b))
         /\ Result(MULH, a, b) = High(MulSS(a, b))
         /\ Result(MULHSU, a, b) = High(MulSU(a, b))
         /\ Result(MULHU, a, b) = High(MulUU(a, b))
         /\ Result(DIV, a, b) = DivS(a, b)
         /\ Result(DIVU, a, b) = DivU(a, b)
         /\ Result(REM, a, b) = RemS(a, b)
         /\ Result(REMU, a, b) = RemU(a, b)
<1> USE DEF ADD, SUB, AND, OR, XOR, SLT, SLL, SRL, SRA, SLTU, BRU, MUL, MULH,
            MULHSU, MULHU, DIV, DIVU, REM, REMU
<1>1. Result(MUL, a, b) = Low(MulSS(a, b))
  BY DEF Result
<1>2. Result(MULH, a, b) = High(MulSS(a, b))
  BY DEF Result
<1>3. Result(MULHSU, a, b) = High(MulSU(a, b))
  BY DEF Result
<1>4. Result(MULHU, a, b) = High(MulUU(a, b))
  BY DEF Result
<1>5. Result(DIV, a, b) = DivS(a, b)
  BY DEF Result
<1>6. Result(DIVU, a, b) = DivU(a, b)
  BY DEF Result
<1>7. Result(REM, a, b) = RemS(a, b)
  BY DEF Result
<1>8. Result(REMU, a, b) = RemU(a, b)
  BY DEF Result
<1> QED BY <1>1, <1>2, <1>3, <1>4, <1>5, <1>6, <1>7, <1>8

\* The flags a branch sees: those of the subtraction, the carry of an
\* unsigned comparison from the adder's own complement.
LEMMA FlagTable ==
  ASSUME NEW a, NEW b
  PROVE  LET s == Adder(a, (Not(b) + 1) % WordSize)
         IN  /\ ALUFlags(SUB, a, b) = [N |-> s.N, Z |-> s.Z, C |-> s.C, V |-> s.V]
             /\ ALUFlags(BRU, a, b) =
                  [N |-> s.N, Z |-> s.Z, C |-> CoutSub(a, b), V |-> s.V]
<1> USE DEF ADD, SUB, SLT, SLTU, BRU
<1> DEFINE S(c) == Adder(a, AddSubB(c, b))
<1>1. AddSubB(SUB, b) = (Not(b) + 1) % WordSize /\ AddSubB(BRU, b) = (Not(b) + 1) % WordSize
  BY DEF AddSubB
<1>2. ALUFlags(SUB, a, b) = [N |-> S(SUB).N, Z |-> S(SUB).Z, C |-> S(SUB).C, V |-> S(SUB).V]
  BY DEF ALUFlags
<1>3. ALUFlags(BRU, a, b) =
        [N |-> S(BRU).N, Z |-> S(BRU).Z, C |-> CoutSub(a, b), V |-> S(BRU).V]
  BY DEF ALUFlags
<1> QED BY <1>1, <1>2, <1>3

-----------------------------------------------------------------------------
(* The adder.                                                               *)

\* A number below twice the divisor is divided by comparing.
LEMMA HalfDivision ==
  ASSUME NEW d \in Nat \ {0}, NEW n \in 0 .. 2 * d - 1
  PROVE  /\ n \div d = IF n >= d THEN 1 ELSE 0
         /\ n % d = IF n >= d THEN n - d ELSE n
<1>1. CASE n >= d
  <2>1. n - d \in 0 .. d - 1 /\ 1 \in Int /\ n = d * 1 + (n - d)
    BY <1>1
  <2>2. (d * 1 + (n - d)) \div d = 1 /\ (d * 1 + (n - d)) % d = n - d
    BY <2>1, QuotientUnique
  <2> QED BY <1>1, <2>1, <2>2
<1>2. CASE n < d
  <2>1. n \in 0 .. d - 1 /\ 0 \in Int /\ n = d * 0 + n
    BY <1>2
  <2>2. (d * 0 + n) \div d = 0 /\ (d * 0 + n) % d = n
    BY <2>1, QuotientUnique
  <2> QED BY <1>2, <2>1, <2>2
<1> QED BY <1>1, <1>2

LowPart(x) == IF x >= MinInt THEN x - MinInt ELSE x

\* The sum and the flags, by comparing.
LEMMA AdderIs ==
  ASSUME NEW x \in Word, NEW y \in Word
  PROVE  LET sum == IF x + y >= WordSize THEN (x + y) - WordSize ELSE x + y
             c   == x + y >= WordSize
             c30 == LowPart(x) + LowPart(y) >= MinInt
         IN  /\ sum \in Word /\ (x + y) % WordSize = sum
             /\ Adder(x, y) = [sum |-> sum, N |-> IF sum >= MinInt THEN 1 ELSE 0,
                               Z |-> IF sum = 0 THEN 1 ELSE 0,
                               C |-> IF c THEN 1 ELSE 0,
                               V |-> IF c = c30 THEN 0 ELSE 1]
<1> DEFINE sum == IF x + y >= WordSize THEN (x + y) - WordSize ELSE x + y
           c   == x + y >= WordSize
           c30 == LowPart(x) + LowPart(y) >= MinInt
<1>1. /\ x \in 0 .. 2 * MinInt - 1 /\ y \in 0 .. 2 * MinInt - 1
      /\ x + y \in 0 .. 2 * WordSize - 1 /\ sum \in Word
  BY Sizes
<1>2. (x + y) % WordSize = sum /\ (x + y) \div WordSize = IF c THEN 1 ELSE 0
  <2> DEFINE n == x + y
  <2>1. WordSize \in Nat \ {0} /\ n \in 0 .. 2 * WordSize - 1
    BY <1>1, Sizes
  <2> HIDE DEF n
  <2>2. /\ n \div WordSize = IF n >= WordSize THEN 1 ELSE 0
        /\ n % WordSize = IF n >= WordSize THEN n - WordSize ELSE n
    BY <2>1, HalfDivision
  <2>3. sum = (IF n >= WordSize THEN n - WordSize ELSE n) /\ (c <=> n >= WordSize)
    <3>1. sum = IF n >= WordSize THEN n - WordSize ELSE n
      BY Zenon DEF n
    <3>2. c <=> n >= WordSize
      BY Zenon DEF n
    <3> QED BY <3>1, <3>2, Zenon
  <2> HIDE DEF sum, c
  <2>4. n % WordSize = sum /\ n \div WordSize = IF c THEN 1 ELSE 0
    BY <2>2, <2>3
  <2> QED BY <2>4, Zenon DEF n
<1>3. x % MinInt = LowPart(x) /\ y % MinInt = LowPart(y)
  <2>1. MinInt \in Nat \ {0}
    BY Sizes
  <2> QED BY <1>1, <2>1, HalfDivision DEF LowPart
<1>4. ((x % MinInt) + (y % MinInt)) \div MinInt = IF c30 THEN 1 ELSE 0
  <2>1. MinInt \in Nat \ {0}
    BY Sizes
  <2>2. LowPart(x) + LowPart(y) \in 0 .. 2 * MinInt - 1
    BY <1>1, <2>1 DEF LowPart
  <2> QED BY <1>3, <2>1, <2>2, HalfDivision
<1>5. Msb(sum) = IF sum >= MinInt THEN 1 ELSE 0
  <2> HIDE DEF sum
  <2> QED BY <1>1, Signs
<1>6. ((IF c THEN 1 ELSE 0) + (IF c30 THEN 1 ELSE 0)) % 2 = IF c = c30 THEN 0 ELSE 1
  <2>1. c \in BOOLEAN /\ c30 \in BOOLEAN
    OBVIOUS
  <2> HIDE DEF c, c30
  <2> QED BY <2>1
<1>7. Adder(x, y) = [sum |-> sum, N |-> Msb(sum), Z |-> IF sum = 0 THEN 1 ELSE 0,
                     C |-> IF c THEN 1 ELSE 0,
                     V |-> ((IF c THEN 1 ELSE 0) + (IF c30 THEN 1 ELSE 0)) % 2]
  <2> DEFINE sum0  == (x + y) % WordSize
             c_msb == (x + y) \div WordSize
             c_30  == ((x % MinInt) + (y % MinInt)) \div MinInt
  <2>1. Adder(x, y) = [sum |-> sum0, N |-> Msb(sum0), Z |-> IF sum0 = 0 THEN 1 ELSE 0,
                       C |-> c_msb, V |-> (c_msb + c_30) % 2]
    BY DEF Adder
  <2>2. sum0 = sum /\ c_msb = (IF c THEN 1 ELSE 0) /\ c_30 = (IF c30 THEN 1 ELSE 0)
    BY <1>2, <1>4
  <2> HIDE DEF sum0, c_msb, c_30, sum, c, c30
  <2> QED BY <2>1, <2>2
<1>8. Adder(x, y) = [sum |-> sum, N |-> IF sum >= MinInt THEN 1 ELSE 0,
                     Z |-> IF sum = 0 THEN 1 ELSE 0,
                     C |-> IF c THEN 1 ELSE 0,
                     V |-> IF c = c30 THEN 0 ELSE 1]
  <2> HIDE DEF sum, c, c30
  <2> QED BY <1>5, <1>6, <1>7
<1>9. sum \in Word /\ (x + y) % WordSize = sum
  BY <1>1, <1>2
<1> HIDE DEF c, c30
<1> QED BY <1>8, <1>9 DEF c, c30

\* The negated operand.
LEMMA NegatedIs ==
  ASSUME NEW b \in Word
  PROVE  /\ (Not(b) + 1) % WordSize = IF b = 0 THEN 0 ELSE WordSize - b
         /\ (Not(b) + 1) % WordSize \in Word
<1>1. WordSize \in Nat \ {0} /\ b \in 0 .. WordSize - 1 /\ Not(b) + 1 = WordSize - b
  BY Sizes DEF Not
<1>2. CASE b = 0
  <2>1. WordSize - b \in 0 .. 2 * WordSize - 1 /\ WordSize - b >= WordSize
    BY <1>1, <1>2
  <2>2. (WordSize - b) % WordSize = 0
    <3> DEFINE n == WordSize - b
    <3>1. n \in 0 .. 2 * WordSize - 1 /\ n >= WordSize /\ n - WordSize = 0
      BY <1>1, <1>2, <2>1
    <3> HIDE DEF n
    <3>2. n % WordSize = n - WordSize
      BY <1>1, <3>1, HalfDivision
    <3> QED BY <3>1, <3>2 DEF n
  <2> QED BY <1>1, <1>2, <2>2, Sizes
<1>3. CASE b # 0
  <2>1. WordSize - b \in 0 .. 2 * WordSize - 1 /\ WordSize - b < WordSize
    BY <1>1, <1>3
  <2>2. (WordSize - b) % WordSize = WordSize - b
    <3> DEFINE n == WordSize - b
    <3>1. n \in 0 .. 2 * WordSize - 1 /\ ~(n >= WordSize)
      BY <1>1, <2>1
    <3> HIDE DEF n
    <3>2. n % WordSize = n
      BY <1>1, <3>1, HalfDivision
    <3> QED BY <3>2 DEF n
  <2> QED BY <1>1, <1>3, <2>1, <2>2, Sizes
<1> QED BY <1>2, <1>3

\* The subtraction and its flags: N # V is the signed order but for the
\* operand whose negation overflows.
LEMMA SubtractionIs ==
  ASSUME NEW a \in Word, NEW b \in Word
  PROVE  LET s == Adder(a, (Not(b) + 1) % WordSize)
         IN  /\ s.sum = (IF a >= b THEN a - b ELSE a - b + WordSize)
             /\ s.Z = IF a = b THEN 1 ELSE 0
             /\ s.N \in {0, 1} /\ s.V \in {0, 1}
             /\ b # MinInt => (s.N # s.V <=> Signed(a) < Signed(b))
<1> DEFINE d == (Not(b) + 1) % WordSize
           s == Adder(a, d)
           t == IF a >= b THEN a - b ELSE a - b + WordSize
<1>1. d = (IF b = 0 THEN 0 ELSE WordSize - b) /\ d \in Word
  BY NegatedIs
<1> HIDE DEF d
<1>2. /\ s.sum = t /\ s.N = (IF t >= MinInt THEN 1 ELSE 0)
      /\ s.Z = (IF t = 0 THEN 1 ELSE 0)
      /\ s.V = (IF (a + d >= WordSize) = (LowPart(a) + LowPart(d) >= MinInt)
                THEN 0 ELSE 1)
  <2>1. t = IF a + d >= WordSize THEN (a + d) - WordSize ELSE a + d
    BY <1>1, Sizes
  <2> HIDE DEF t
  <2> QED BY <1>1, <2>1, AdderIs
<1>3. /\ Signed(a) = (IF a >= MinInt THEN a - WordSize ELSE a)
      /\ Signed(b) = (IF b >= MinInt THEN b - WordSize ELSE b)
  BY Signs
<1>4. s.Z = IF a = b THEN 1 ELSE 0
  BY <1>2, Sizes
<1>5. s.N \in {0, 1} /\ s.V \in {0, 1}
  BY <1>2
<1>6. b # MinInt => (s.N # s.V <=> Signed(a) < Signed(b))
  <2> HIDE DEF s
  <2> QED BY <1>1, <1>2, <1>3, Sizes DEF LowPart
<1> QED BY <1>2, <1>4, <1>5, <1>6 DEF d

\* The carry of a subtraction says that it does not borrow.
LEMMA CarryIs ==
  ASSUME NEW a \in Word, NEW b \in Word
  PROVE  CoutSub(a, b) = IF a >= b THEN 1 ELSE 0
<1>1. /\ WordSize \in Nat \ {0} /\ a + Not(b) + 1 \in 0 .. 2 * WordSize - 1
      /\ (a + Not(b) + 1 >= WordSize <=> a >= b)
  BY Sizes DEF Not
<1> DEFINE n == a + Not(b) + 1
<1>2. CoutSub(a, b) = n \div WordSize
  BY DEF CoutSub
<1> HIDE DEF n
<1>3. n \div WordSize = IF n >= WordSize THEN 1 ELSE 0
  BY <1>1, HalfDivision DEF n
<1> QED BY <1>1, <1>2, <1>3 DEF n

-----------------------------------------------------------------------------
(* The comparisons.                                                         *)

AluInv == a_in \in Word /\ b_in \in Word

\* The sweep visits words only.
LEMMA OperandsStay == Spec => []AluInv
<1>1. Init => AluInv
  BY Sizes DEF Init, AluInv
<1>2. AluInv /\ [Sweep]_vars => AluInv'
  BY Sizes DEF AluInv, Sweep, vars
<1> QED BY <1>1, <1>2, PTL DEF Spec

\* A difference of signed values, modulo the word, is that of the words.
LEMMA SignedModulo ==
  ASSUME NEW a \in Word, NEW b \in Word
  PROVE  /\ (Signed(a) + Signed(b)) % WordSize = (a + b) % WordSize
         /\ (Signed(a) - Signed(b)) % WordSize = (a - b) % WordSize
<1> DEFINE S == Signed(a)
           T == Signed(b)
<1>1. WordSize \in Nat \ {0} /\ a \in Int /\ b \in Int
  BY Sizes
<1>2. /\ \E p \in {0, -1} : S = a + WordSize * p
      /\ \E q \in {0, -1} : T = b + WordSize * q
  <2>1. S = (IF a >= MinInt THEN a - WordSize ELSE a)
        /\ T = (IF b >= MinInt THEN b - WordSize ELSE b)
    BY Signs
  <2> HIDE DEF S, T
  <2> QED BY <1>1, <2>1
<1> HIDE DEF S, T
<1>3. PICK p \in {0, -1}, q \in {0, -1} : S = a + WordSize * p /\ T = b + WordSize * q
  BY <1>2
<1>4. /\ S + T = (a + b) + WordSize * (p + q)
      /\ S - T = (a - b) + WordSize * (p - q)
      /\ p + q \in Int /\ p - q \in Int /\ a + b \in Int /\ a - b \in Int
  BY <1>1, <1>3
<1>5. /\ ((a + b) + WordSize * (p + q)) % WordSize = (a + b) % WordSize
      /\ ((a - b) + WordSize * (p - q)) % WordSize = (a - b) % WordSize
  BY <1>1, <1>4, ModPlus
<1> QED BY <1>4, <1>5 DEF S, T

\* The adder against sums and differences.
LEMMA UnsignedStep == AluInv => UnsignedExact
<1> SUFFICES ASSUME AluInv PROVE UnsignedExact
  OBVIOUS
<1> DEFINE t == IF a_in >= b_in THEN a_in - b_in ELSE a_in - b_in + WordSize
<1>1. a_in \in Word /\ b_in \in Word
  BY DEF AluInv
<1>2. Out(ADD) = (Sa + Sb) % WordSize
  <2>1. Adder(a_in, b_in).sum = (a_in + b_in) % WordSize
    BY DEF Adder
  <2> QED BY <1>1, <2>1, Table, SignedModulo DEF Out, Sa, Sb
<1>3. Out(SUB) = (Sa - Sb) % WordSize
  <2>1. Out(SUB) = t
    BY <1>1, Table, SubtractionIs DEF Out
  <2>2. t = (a_in - b_in) % WordSize
    <3>1. WordSize \in Nat \ {0} /\ a_in - b_in \in Int /\ t \in 0 .. WordSize - 1 /\ 1 \in Int
          /\ a_in - b_in + WordSize * 1 = a_in - b_in + WordSize
      BY <1>1, Sizes
    <3>2. t % WordSize = t
      <4> HIDE DEF t
      <4> QED BY <3>1
    <3>3. (a_in - b_in + WordSize * 1) % WordSize = (a_in - b_in) % WordSize
      BY <3>1, ModPlus
    <3> QED BY <3>1, <3>2, <3>3
  <2>3. (Sa - Sb) % WordSize = (a_in - b_in) % WordSize
    BY <1>1, SignedModulo DEF Sa, Sb
  <2> QED BY <2>1, <2>2, <2>3
<1>4. Out(SLTU) = IF a_in < b_in THEN 1 ELSE 0
  <2>1. Out(SLTU) = SltuResult(a_in, b_in)
    BY Table DEF Out
  <2>2. CoutSub(a_in, b_in) = IF a_in >= b_in THEN 1 ELSE 0
    BY <1>1, CarryIs
  <2>3. a_in >= b_in <=> ~(a_in < b_in)
    BY <1>1, Sizes
  <2> QED BY <2>1, <2>2, <2>3 DEF SltuResult
<1> QED BY <1>2, <1>3, <1>4 DEF UnsignedExact

\* Sums and differences wrap, and SLTU is the unsigned order, at every width.
THEOREM UnsignedCorrect == Spec => []UnsignedExact
BY OperandsStay, UnsignedStep, PTL

\* What each conditional branch decides by.
LEMMA DecidesTable ==
  LET s == Adder(a_in, (Not(b_in) + 1) % WordSize)
  IN  /\ Decides(0) <=> s.Z = 1
      /\ Decides(1) <=> s.Z # 1
      /\ Decides(4) <=> s.N # s.V
      /\ Decides(5) <=> s.N = s.V
      /\ Decides(6) <=> b_in # 0 /\ CoutSub(a_in, b_in) = 0
      /\ Decides(7) <=> b_in = 0 \/ CoutSub(a_in, b_in) = 1
<1> DEFINE s == Adder(a_in, (Not(b_in) + 1) % WordSize)
           fs == [N |-> s.N, Z |-> s.Z, C |-> s.C, V |-> s.V]
           fu == [N |-> s.N, Z |-> s.Z, C |-> CoutSub(a_in, b_in), V |-> s.V]
<1>1. ALUFlags(SUB, a_in, b_in) = fs /\ ALUFlags(BRU, a_in, b_in) = fu
  BY FlagTable
<1>2. /\ fs.N = s.N /\ fs.Z = s.Z /\ fs.V = s.V
      /\ fu.C = CoutSub(a_in, b_in)
  OBVIOUS
<1>3. /\ Decides(0) <=> Btaken(0, fs, b_in)
      /\ Decides(1) <=> Btaken(1, fs, b_in)
      /\ Decides(4) <=> Btaken(4, fs, b_in)
      /\ Decides(5) <=> Btaken(5, fs, b_in)
      /\ Decides(6) <=> Btaken(6, fu, b_in)
      /\ Decides(7) <=> Btaken(7, fu, b_in)
  <2> HIDE DEF s, fs, fu
  <2> QED BY <1>1 DEF Decides
<1> HIDE DEF s, fs, fu
<1>4. /\ Btaken(0, fs, b_in) <=> fs.Z = 1
      /\ Btaken(1, fs, b_in) <=> fs.Z # 1
      /\ Btaken(4, fs, b_in) <=> fs.N # fs.V
      /\ Btaken(5, fs, b_in) <=> fs.N = fs.V
      /\ Btaken(6, fu, b_in) <=> b_in # 0 /\ fu.C = 0
      /\ Btaken(7, fu, b_in) <=> b_in = 0 \/ fu.C = 1
  BY DEF Btaken
<1> QED BY <1>2, <1>3, <1>4 DEF s

\* Zero and carry decide the unsigned branches.
LEMMA UnsignedBranchesStep == AluInv => UnsignedBranchesExact
<1> SUFFICES ASSUME AluInv PROVE UnsignedBranchesExact
  OBVIOUS
<1> DEFINE s == Adder(a_in, (Not(b_in) + 1) % WordSize)
<1>1. a_in \in Word /\ b_in \in Word
  BY DEF AluInv
<1>2. s.Z = IF a_in = b_in THEN 1 ELSE 0
  BY <1>1, SubtractionIs
<1>3. CoutSub(a_in, b_in) = IF a_in >= b_in THEN 1 ELSE 0
  BY <1>1, CarryIs
<1>4. /\ Decides(0) <=> s.Z = 1
      /\ Decides(1) <=> s.Z # 1
      /\ Decides(6) <=> b_in # 0 /\ CoutSub(a_in, b_in) = 0
      /\ Decides(7) <=> b_in = 0 \/ CoutSub(a_in, b_in) = 1
  BY DecidesTable
<1> HIDE DEF s
<1>5. a_in \in Nat /\ b_in \in Nat
  BY <1>1, Sizes
<1> QED BY <1>2, <1>3, <1>4, <1>5 DEF UnsignedBranchesExact

\* beq, bne, bltu and bgeu decide by the value of the operands.
THEOREM UnsignedBranchesCorrect == Spec => []UnsignedBranchesExact
BY OperandsStay, UnsignedBranchesStep, PTL

\* The overflow of a + (-b) is that of a - b unless -b overflows itself.
LEMMA SignedStep == AluInv => SignedCompareExactButMin /\ CompareConsistent
<1> SUFFICES ASSUME AluInv PROVE SignedCompareExactButMin /\ CompareConsistent
  OBVIOUS
<1> DEFINE s == Adder(a_in, (Not(b_in) + 1) % WordSize)
<1>1. a_in \in Word /\ b_in \in Word
  BY DEF AluInv
<1>2. /\ s.N \in {0, 1} /\ s.V \in {0, 1}
      /\ b_in # MinInt => (s.N # s.V <=> Sa < Sb)
  BY <1>1, SubtractionIs DEF Sa, Sb
<1>3. (Decides(4) <=> s.N # s.V) /\ (Decides(5) <=> s.N = s.V)
  BY DecidesTable
<1>4. Out(SLT) = (s.N + s.V) % 2
  <2>1. AddSubB(SLT, b_in) = (Not(b_in) + 1) % WordSize
    BY DEF AddSubB
  <2>2. Out(SLT) = SltResult(a_in, b_in)
    BY Table DEF Out
  <2> QED BY <2>1, <2>2 DEF SltResult
<1> HIDE DEF s
<1>5. Out(SLT) = IF s.N # s.V THEN 1 ELSE 0
  BY <1>2, <1>4
<1>6. Sa \in Int /\ Sb \in Int
  <2>1. Sa \in -MinInt .. MinInt - 1 /\ Sb \in -MinInt .. MinInt - 1
    BY <1>1, Signs DEF Sa, Sb
  <2> QED BY <2>1, Sizes
<1>7. CompareConsistent
  BY <1>3, <1>5 DEF CompareConsistent
<1>8. ASSUME b_in # MinInt PROVE SignedCompareExact
  <2>1. s.N # s.V <=> Sa < Sb
    BY <1>2, <1>8
  <2>2. Sa >= Sb <=> ~(Sa < Sb)
    BY <1>6
  <2> QED BY <1>3, <1>5, <2>1, <2>2 DEF SignedCompareExact
<1> QED BY <1>7, <1>8 DEF SignedCompareExactButMin

\* slt, blt and bge are the signed order for every second operand but one.
THEOREM SignedCompareCorrect == Spec => []SignedCompareExactButMin
BY OperandsStay, SignedStep, PTL

\* For that one they still agree with each other.
THEOREM ComparesAgree == Spec => []CompareConsistent
BY OperandsStay, SignedStep, PTL

-----------------------------------------------------------------------------
(* Multiplication and division.                                             *)

\* Low and high word of the three products.
LEMMA ProductsStep == AluInv => ProductsExact
<1> SUFFICES ASSUME AluInv PROVE ProductsExact
  OBVIOUS
<1> DEFINE W == WordSize
           S == Sa
           b == b_in
<1>1. W \in Nat \ {0} /\ S \in Int /\ b \in Int
  <2>1. a_in \in Word /\ b_in \in Word
    BY DEF AluInv
  <2> QED BY <2>1, Sizes, Signs DEF Sa
<1>2. Out(MUL) = (Sa * Sb) % WordSize
  BY TableM DEF Out, Low, MulSS, Sa, Sb
<1>3. Out(MULH) = ((Sa * Sb) \div WordSize) % WordSize
  BY TableM DEF Out, High, MulSS, Sa, Sb
<1>4. Out(MULHU) = ((a_in * b_in) \div WordSize) % WordSize
  BY TableM DEF Out, High, MulUU
<1>5. Out(MULHSU) = ((Sa * b_in) \div WordSize) % WordSize
  <2> DEFINE m == S \div (W * W)
             e == S % (W * W)
             t == W * (m * b)
  <2>1. Out(MULHSU) = ((e * b) \div W) % W
    BY TableM DEF Out, High, MulSU, Sa
  <2> HIDE DEF S, W, b
  <2>2. W * W \in Nat \ {0}
    BY <1>1
  <2>3. m \in Int /\ e \in Int /\ S = (W * W) * m + e
    <3> DEFINE d == W * W
    <3> HIDE DEF d
    <3>1. d \in Nat \ {0}
      BY <2>2 DEF d
    <3>2. S \div d \in Int /\ S % d \in 0 .. d - 1 /\ S = d * (S \div d) + (S % d)
      BY <1>1, <3>1, Division
    <3>3. S % d \in Int
      BY <3>1, <3>2
    <3> QED BY <3>2, <3>3 DEF d
  <2> HIDE DEF m, e
  <2>4. m * b \in Int /\ t \in Int
    BY <1>1, <2>3
  <2>5. S * b = e * b + W * t
    <3>1. ((W * W) * m) * b = W * (W * (m * b))
      BY <1>1, <2>3
    <3>2. S * b = ((W * W) * m) * b + e * b
      BY <1>1, <2>2, <2>3
    <3> QED BY <1>1, <2>3, <2>4, <3>1, <3>2
  <2>6. e * b \in Int
    BY <1>1, <2>3
  <2> DEFINE n == e * b
  <2>7. n \in Int
    BY <2>6
  <2> HIDE DEF n, t
  <2>8. (n + W * t) \div W = (n \div W) + t
    BY <1>1, <2>4, <2>7, ModPlus
  <2>9. ((n \div W) + t) % W = (n \div W) % W
    <3>1. n \div W \in Int /\ m * b \in Int
      BY <1>1, <2>4, <2>7, Division
    <3>2. t = W * (m * b)
      BY DEF t
    <3> DEFINE k == m * b
               h == n \div W
    <3>3. k \in Int /\ h \in Int /\ t = W * k
      BY <3>1, <3>2
    <3> HIDE DEF k, h
    <3>4. (h + W * k) % W = h % W
      BY <1>1, <3>3, ModPlus
    <3> QED BY <3>3, <3>4 DEF h
  <2>10. S * b = n + W * t
    BY <2>5 DEF n
  <2>11. Out(MULHSU) = (n \div W) % W
    BY <2>1 DEF n
  <2>12. ((S * b) \div W) % W = (n \div W) % W
    BY <2>8, <2>9, <2>10
  <2> QED BY <2>11, <2>12 DEF S, W, b
<1> QED BY <1>2, <1>3, <1>4, <1>5 DEF ProductsExact

\* mul and the mulh operations deliver the halves of the exact product.
THEOREM ProductsCorrect == Spec => []ProductsExact
BY OperandsStay, ProductsStep, PTL

\* Division that truncates towards zero.
LEMMA Truncated ==
  ASSUME NEW x \in Int, NEW y \in Int, y # 0
  PROVE  LET q == Quotient(x, y)
             r == Remainder(x, y)
         IN  /\ q \in Int /\ r \in Int /\ q * y + r = x
             /\ Magnitude(r) < Magnitude(y)
             /\ r # 0 => (r < 0) = (x < 0)
             /\ Magnitude(q) <= Magnitude(x)
             /\ Magnitude(y) >= 2 => 2 * Magnitude(q) <= Magnitude(x)
<1> DEFINE u == Magnitude(x)
           v == Magnitude(y)
           m == u \div v
           n == u % v
           q == Quotient(x, y)
           r == Remainder(x, y)
<1>1. u \in Nat /\ v \in Nat \ {0}
  BY DEF Magnitude
<1>2. /\ u = IF x < 0 THEN -x ELSE x
      /\ v = IF y < 0 THEN -y ELSE y
  BY DEF Magnitude
<1>3. q = IF (x < 0) = (y < 0) THEN m ELSE -m
  BY DEF Quotient
<1>4. r = IF x < 0 THEN -n ELSE n
  BY DEF Remainder
<1> HIDE DEF u, v, q, r
<1>5. m \in Int /\ n \in 0 .. v - 1 /\ u = v * m + n
  BY <1>1, Division
<1> HIDE DEF m, n
<1>6. m >= 0
  <2> SUFFICES ASSUME m <= -1 PROVE FALSE
    BY <1>5
  <2>1. v * m <= v * (-1)
    BY <1>1, <1>5
  <2> QED BY <1>1, <1>5, <2>1
<1>7. m <= v * m /\ v * m \in Int
  <2>1. 1 * m <= v * m
    BY <1>1, <1>5, <1>6
  <2> QED BY <1>1, <1>5, <2>1
<1>8. v >= 2 => 2 * m <= v * m
  BY <1>1, <1>5, <1>6
<1>9. q \in Int /\ r \in Int /\ Magnitude(q) = m /\ Magnitude(r) = n
  BY <1>3, <1>4, <1>5, <1>6 DEF Magnitude
<1>10. q * y + r = x
  <2>1. /\ m * (-v) = -(v * m) /\ (-m) * (-v) = v * m
        /\ (-m) * v = -(v * m) /\ m * v = v * m
    BY <1>1, <1>5
  <2>2. CASE x < 0 /\ y < 0
    <3>1. y = -v /\ x = -u /\ q = m /\ r = -n
      BY <1>1, <1>2, <1>3, <1>4, <2>2
    <3> QED BY <1>1, <1>5, <1>7, <2>1, <3>1
  <2>3. CASE x < 0 /\ ~(y < 0)
    <3>1. y = v /\ x = -u /\ q = -m /\ r = -n
      BY <1>1, <1>2, <1>3, <1>4, <2>3
    <3> QED BY <1>1, <1>5, <1>7, <2>1, <3>1
  <2>4. CASE ~(x < 0) /\ y < 0
    <3>1. y = -v /\ x = u /\ q = -m /\ r = n
      BY <1>1, <1>2, <1>3, <1>4, <2>4
    <3> QED BY <1>1, <1>5, <1>7, <2>1, <3>1
  <2>5. CASE ~(x < 0) /\ ~(y < 0)
    <3>1. y = v /\ x = u /\ q = m /\ r = n
      BY <1>1, <1>2, <1>3, <1>4, <2>5
    <3> QED BY <1>1, <1>5, <1>7, <2>1, <3>1
  <2> QED BY <2>2, <2>3, <2>4, <2>5
<1>11. r # 0 => (r < 0) = (x < 0)
  BY <1>4, <1>5, <1>1
<1>12. Magnitude(r) < v /\ Magnitude(q) <= u /\ (v >= 2 => 2 * Magnitude(q) <= u)
  BY <1>1, <1>5, <1>7, <1>8, <1>9
<1> QED BY <1>9, <1>10, <1>11, <1>12 DEF u, v, q, r

\* A number in the signed range survives being cut to a word.
LEMMA SignedOfWord ==
  ASSUME NEW n \in -MinInt .. MinInt - 1
  PROVE  n % WordSize \in Word /\ Signed(n % WordSize) = n
<1>1. WordSize \in Nat \ {0} /\ WordSize = 2 * MinInt /\ MinInt \in Nat \ {0} /\ n \in Int
  BY Sizes
<1> DEFINE t == IF n < 0 THEN n + WordSize ELSE n
<1>2. t \in Word /\ (t >= MinInt <=> n < 0)
  BY <1>1, Sizes
<1>3. n % WordSize = t
  <2>1. t % WordSize = t
    <3>1. t \in 0 .. WordSize - 1
      BY <1>2, Sizes
    <3> HIDE DEF t
    <3> QED BY <1>1, <3>1
  <2>2. (n + WordSize * 1) % WordSize = n % WordSize /\ n + WordSize * 1 = n + WordSize
    <3>1. 1 \in Int
      OBVIOUS
    <3> QED BY <1>1, <3>1, ModPlus
  <2> QED BY <2>1, <2>2
<1>4. Signed(t) = IF t >= MinInt THEN t - WordSize ELSE t
  <2> HIDE DEF t
  <2> QED BY <1>2, Signs
<1> QED BY <1>1, <1>2, <1>3, <1>4

\* The signs of quotient and remainder, case by case.
LEMMA DivisionStep == AluInv => DivisionLaw
<1> SUFFICES ASSUME AluInv PROVE DivisionLaw
  OBVIOUS
<1> DEFINE q == Signed(Out(DIV))
           r == Signed(Out(REM))
<1>1. a_in \in Word /\ b_in \in Word /\ AllOnes \in Word /\ MinInt \in Word
  BY Sizes DEF AluInv
<1>2. /\ Sa \in -MinInt .. MinInt - 1 /\ Sb \in -MinInt .. MinInt - 1
      /\ Sa % WordSize = a_in
      /\ Sa = (IF a_in >= MinInt THEN a_in - WordSize ELSE a_in)
      /\ Sb = (IF b_in >= MinInt THEN b_in - WordSize ELSE b_in)
      /\ Signed(AllOnes) = -1 /\ Signed(MinInt) = -MinInt
  <2>1. /\ Signed(AllOnes) = (IF AllOnes >= MinInt THEN AllOnes - WordSize ELSE AllOnes)
        /\ Signed(MinInt) = (IF MinInt >= MinInt THEN MinInt - WordSize ELSE MinInt)
    BY <1>1, Signs
  <2>2. Signed(AllOnes) = -1 /\ Signed(MinInt) = -MinInt
    BY <2>1, Sizes
  <2> QED BY <1>1, <2>2, Signs DEF Sa, Sb
<1>3. /\ Out(DIV) = DivS(a_in, b_in) /\ Out(REM) = RemS(a_in, b_in)
      /\ Out(DIVU) = DivU(a_in, b_in) /\ Out(REMU) = RemU(a_in, b_in)
  BY TableM DEF Out
<1>4. ASSUME b_in = 0
      PROVE  q = -1 /\ r = Sa /\ Out(DIVU) = AllOnes /\ Out(REMU) = a_in
  BY <1>2, <1>3, <1>4 DEF DivS, RemS, DivU, RemU, Sa
<1>5. ASSUME b_in # 0 PROVE Out(DIVU) * b_in + Out(REMU) = a_in /\ Out(REMU) < b_in
  <2>1. b_in \in Nat \ {0} /\ a_in \in Int
    BY <1>1, <1>5, Sizes
  <2>2. Out(DIVU) = a_in \div b_in /\ Out(REMU) = a_in % b_in
    BY <1>3, <1>5 DEF DivU, RemU
  <2>3. /\ Out(DIVU) \in Int /\ Out(REMU) \in 0 .. b_in - 1
        /\ a_in = b_in * Out(DIVU) + Out(REMU)
    BY <2>1, <2>2, Division
  <2>4. b_in * Out(DIVU) = Out(DIVU) * b_in
    BY <2>1, <2>3
  <2> QED BY <2>1, <2>3, <2>4
<1>6. ASSUME a_in = MinInt, b_in = AllOnes
      PROVE  /\ (q * Sb + r) % WordSize = a_in
             /\ Magnitude(r) < Magnitude(Sb)
             /\ r = 0 /\ Out(DIV) = MinInt
  <2>1. b_in # 0
    BY <1>6, Sizes
  <2>2. Out(DIV) = MinInt /\ Out(REM) = 0
    BY <1>3, <1>6, <2>1 DEF DivS, RemS
  <2>3. q = -MinInt /\ Sb = -1
    BY <1>2, <1>6, <2>2 DEF Sb
  <2>4. r = 0
    <3>1. 0 \in Word /\ ~(0 >= MinInt)
      BY Sizes
    <3> QED BY <2>2, <3>1, Signs
  <2> HIDE DEF q, r
  <2>5. q * Sb + r = MinInt
    BY <2>3, <2>4, Sizes
  <2>6. MinInt % WordSize = MinInt
    <3>1. MinInt \in 0 .. WordSize - 1 /\ WordSize \in Nat \ {0}
      BY Sizes
    <3> QED BY <3>1
  <2>7. Magnitude(r) < Magnitude(Sb)
    BY <2>3, <2>4 DEF Magnitude
  <2> QED BY <1>6, <2>2, <2>4, <2>5, <2>6, <2>7
<1>7. ASSUME b_in # 0, ~(a_in = MinInt /\ b_in = AllOnes)
      PROVE  /\ q * Sb + r = Sa
             /\ Magnitude(r) < Magnitude(Sb)
             /\ r # 0 => (r < 0) = (Sa < 0)
  <2> DEFINE Q == Quotient(Sa, Sb)
             R == Remainder(Sa, Sb)
  <2>1. Out(DIV) = Q % WordSize /\ Out(REM) = R % WordSize
    BY <1>3, <1>7 DEF DivS, RemS, Sa, Sb
  <2>2. Sa \in Int /\ Sb \in Int /\ Sb # 0
    BY <1>1, <1>2, <1>7, Sizes
  <2>3. /\ Q \in Int /\ R \in Int /\ Q * Sb + R = Sa
        /\ Magnitude(R) < Magnitude(Sb)
        /\ R # 0 => (R < 0) = (Sa < 0)
        /\ Magnitude(Q) <= Magnitude(Sa)
        /\ Magnitude(Sb) >= 2 => 2 * Magnitude(Q) <= Magnitude(Sa)
    BY <2>2, Truncated
  <2>4. /\ Q = IF (Sa < 0) = (Sb < 0) THEN Magnitude(Sa) \div Magnitude(Sb)
               ELSE -(Magnitude(Sa) \div Magnitude(Sb))
    BY DEF Quotient
  <2> HIDE DEF Q, R
  <2>3a. /\ Q \in Int /\ R \in Int
         /\ Magnitude(R) < Magnitude(Sb)
         /\ Magnitude(Q) <= Magnitude(Sa)
         /\ Magnitude(Sb) >= 2 => 2 * Magnitude(Q) <= Magnitude(Sa)
    BY <2>3
  <2>5. R \in -MinInt .. MinInt - 1
    <3>1. Sb \in -MinInt .. MinInt - 1 /\ MinInt \in Nat \ {0}
      BY <1>2, Sizes
    <3> QED BY <2>3a, <3>1 DEF Magnitude
  <2>6. Q \in -MinInt .. MinInt - 1
    <3>1. CASE Magnitude(Sb) >= 2
      <4>1. Sa \in -MinInt .. MinInt - 1 /\ MinInt \in Nat \ {0}
        BY <1>2, Sizes
      <4> QED BY <2>3a, <3>1, <4>1 DEF Magnitude
    <3>2. CASE Sb = 1
      <4>1. Q = Sa
        <5>1. Q * Sb = Q /\ Magnitude(R) < 1
          BY <2>3, <3>2 DEF Magnitude
        <5>2. R = 0
          BY <2>3, <5>1 DEF Magnitude
        <5> QED BY <2>2, <2>3, <5>1, <5>2
      <4> QED BY <4>1, <1>2
    <3>3. CASE Sb = -1
      <4>1. Q = -Sa
        <5>1. Q * Sb = -Q /\ Magnitude(R) < 1
          BY <2>3, <3>3 DEF Magnitude
        <5>2. R = 0
          BY <2>3, <5>1 DEF Magnitude
        <5> QED BY <2>2, <2>3, <5>1, <5>2
      <4>2. b_in = AllOnes
        BY <1>1, <1>2, <3>3, Sizes
      <4>3. Sa # -MinInt
        BY <1>1, <1>2, <1>7, <4>2, Sizes
      <4>4. Sa \in -MinInt .. MinInt - 1 /\ MinInt \in Nat \ {0}
        BY <1>2, Sizes
      <4> QED BY <4>1, <4>3, <4>4
    <3> QED BY <2>2, <3>1, <3>2, <3>3 DEF Magnitude
  <2>7. q = Q /\ r = R
    BY <2>1, <2>5, <2>6, SignedOfWord
  <2> HIDE DEF q, r
  <2> QED BY <2>3, <2>7
<1>8. Magnitude(0) = 0
  BY DEF Magnitude
<1>9. CASE b_in = 0
  BY <1>4, <1>9 DEF DivisionLaw
<1>10. CASE b_in # 0 /\ a_in = MinInt /\ b_in = AllOnes
  <2> HIDE DEF q, r
  <2>1. (q * Sb + r) % WordSize = a_in /\ Magnitude(r) < Magnitude(Sb) /\ r = 0
        /\ Out(DIV) = MinInt
    BY <1>6, <1>10
  <2>2. Out(DIVU) * b_in + Out(REMU) = a_in /\ Out(REMU) < b_in
    BY <1>5, <1>10
  <2> QED BY <1>10, <2>1, <2>2 DEF DivisionLaw, q, r
<1>11. CASE b_in # 0 /\ ~(a_in = MinInt /\ b_in = AllOnes)
  <2> HIDE DEF q, r
  <2>1. /\ q * Sb + r = Sa /\ Magnitude(r) < Magnitude(Sb)
        /\ r # 0 => (r < 0) = (Sa < 0)
    BY <1>7, <1>11
  <2>2. Out(DIVU) * b_in + Out(REMU) = a_in /\ Out(REMU) < b_in
    BY <1>5, <1>11
  <2>3. (q * Sb + r) % WordSize = a_in
    BY <1>2, <2>1
  <2> QED BY <1>11, <2>1, <2>2, <2>3 DEF DivisionLaw, q, r
<1> QED BY <1>9, <1>10, <1>11

\* div and rem obey the manual's division law, with its two exceptions.
THEOREM DivisionCorrect == Spec => []DivisionLaw
BY OperandsStay, DivisionStep, PTL

-----------------------------------------------------------------------------
(* The bits of a number.                                                    *)

\* The first k + 1 bits are the first k and bit k.
LEMMA BitStep ==
  ASSUME NEW n \in Int, NEW k \in Nat
  PROVE  /\ Bit(n, k) \in {0, 1} /\ n % Two[k] \in 0 .. Two[k] - 1
         /\ n % Two[k + 1] = (n % Two[k]) + Two[k] * Bit(n, k)
         /\ Bit(n, k) = (n % Two[k + 1]) \div Two[k]
<1> DEFINE t == Two[k]
<1>1. t \in Nat \ {0} /\ Two[k + 1] = t * 2 /\ 2 \in Nat \ {0}
  BY TwoDef
<1> HIDE DEF t
<1>2. /\ n % (t * 2) = t * ((n \div t) % 2) + (n % t)
      /\ (n % (t * 2)) \div t = (n \div t) % 2
  BY <1>1, DivDiv
<1>3. n \div t \in Int /\ n % t \in 0 .. t - 1
  BY <1>1, Division
<1> DEFINE q == n \div t
<1>4. q % 2 \in {0, 1}
  <2>1. q \in Int
    BY <1>3
  <2> HIDE DEF q
  <2> QED BY <2>1
<1> HIDE DEF q
<1>5. Bit(n, k) = q % 2
  BY DEF Bit, t, q
<1>6. t * (q % 2) + (n % t) = (n % t) + t * (q % 2)
  <2> DEFINE e == n % t
             f == t * (q % 2)
  <2>1. e \in Int /\ f \in Int
    BY <1>1, <1>3, <1>4
  <2> HIDE DEF e, f
  <2>2. f + e = e + f
    BY <2>1
  <2> QED BY <2>2 DEF e, f
<1> QED BY <1>1, <1>2, <1>3, <1>4, <1>5, <1>6 DEF t, q

\* Bits below j do not depend on those from j upwards.
LEMMA BitOfLow ==
  ASSUME NEW n \in Int, NEW j \in Nat, NEW k \in 0 .. j - 1
  PROVE  Bit(n % Two[j], k) = Bit(n, k)
<1> DEFINE x == Two[k + 1]
           y == Two[j - (k + 1)]
<1>1. k \in Nat /\ k + 1 \in Nat /\ j - (k + 1) \in Nat /\ (k + 1) + (j - (k + 1)) = j
  OBVIOUS
<1>2. Two[j] = x * y /\ x \in Nat \ {0} /\ y \in Nat \ {0} /\ Two[j] \in Nat \ {0}
  <2>1. Two[(k + 1) + (j - (k + 1))] = x * y
    BY <1>1, TwoSum
  <2> QED BY <2>1, <1>1, TwoType
<1> HIDE DEF x, y
<1>3. (n % (x * y)) % x = n % x
  BY <1>2, DivDiv
<1> DEFINE m == n % Two[j]
<1>4. m \in Int
  <2> DEFINE d == Two[j]
  <2>1. d \in Nat \ {0}
    BY <1>2
  <2> HIDE DEF d
  <2>2. n % d \in 0 .. d - 1
    BY <2>1, Division
  <2>3. n % d \in Int
    BY <2>1, <2>2
  <2> QED BY <2>3 DEF d
<1>5. m % x = n % x
  BY <1>2, <1>3
<1> HIDE DEF m
<1>6. Bit(m, k) = (m % x) \div Two[k] /\ Bit(n, k) = (n % x) \div Two[k]
  BY <1>1, <1>4, BitStep DEF x
<1> QED BY <1>5, <1>6 DEF m

\* A shifted number.
LEMMA BitOfQuotient ==
  ASSUME NEW n \in Int, NEW s \in Nat, NEW k \in Nat
  PROVE  Bit(n \div Two[s], k) = Bit(n, s + k)
<1> DEFINE x == Two[s]
           y == Two[k]
<1>1. x \in Nat \ {0} /\ y \in Nat \ {0} /\ Two[s + k] = x * y
  BY TwoType, TwoSum
<1> HIDE DEF x, y
<1>2. (n \div x) \div y = n \div (x * y)
  BY <1>1, DivDiv
<1> QED BY <1>1, <1>2 DEF Bit, x, y

\* The bits of a shift to the left.
LEMMA BitOfMultiple ==
  ASSUME NEW n \in Int, NEW s \in Nat, NEW k \in Nat
  PROVE  Bit(n * Two[s], k) = IF k >= s THEN Bit(n, k - s) ELSE 0
<1> DEFINE m == n * Two[s]
<1>1. Two[s] \in Nat \ {0} /\ Two[k] \in Nat \ {0} /\ m \in Int
  BY TwoType
<1>2. CASE k >= s
  <2>1. k - s \in Nat /\ s + (k - s) = k
    BY <1>2
  <2>2. m \div Two[s] = n
    <3> DEFINE d == Two[s]
    <3>1. d \in Nat \ {0} /\ m = d * n + 0 /\ 0 \in 0 .. d - 1
      BY <1>1
    <3> HIDE DEF d, m
    <3>2. (d * n + 0) \div d = n
      BY <3>1, QuotientUnique
    <3> QED BY <3>1, <3>2 DEF d
  <2>3. Bit(m \div Two[s], k - s) = Bit(m, s + (k - s))
    BY <1>1, <2>1, BitOfQuotient
  <2> QED BY <1>2, <2>1, <2>2, <2>3
<1>3. CASE k < s
  <2> DEFINE x == Two[k]
             y == Two[s - (k + 1)]
  <2>1. s - (k + 1) \in Nat /\ (s - (k + 1)) + 1 = s - k /\ s - k \in Nat /\ k + (s - k) = s
    BY <1>3
  <2>2. Two[s] = x * (2 * y) /\ x \in Nat \ {0} /\ y \in Nat \ {0}
    <3>1. Two[k + (s - k)] = Two[k] * Two[s - k]
      BY <2>1, TwoSum
    <3>2. Two[(s - (k + 1)) + 1] = 2 * y
      BY <2>1, TwoDef
    <3> QED BY <2>1, <3>1, <3>2, TwoType
  <2> HIDE DEF x, y
  <2>3. m = x * (2 * (n * y)) + 0 /\ 2 * (n * y) \in Int /\ 0 \in 0 .. x - 1 /\ n * y \in Int
    <3>1. n * (x * (2 * y)) = x * (2 * (n * y))
      BY <2>2
    <3> QED BY <2>2, <3>1
  <2>4. (x * (2 * (n * y)) + 0) \div x = 2 * (n * y)
    <3> DEFINE q == 2 * (n * y)
    <3>1. q \in Int
      BY <2>3
    <3> HIDE DEF q
    <3>2. (x * q + 0) \div x = q
      BY <2>2, <2>3, <3>1, QuotientUnique
    <3> QED BY <3>2 DEF q
  <2>5. (2 * (n * y)) % 2 = 0
    <3> DEFINE q == n * y
    <3>1. q \in Int
      BY <2>3
    <3> HIDE DEF q
    <3>2. (2 * q) % 2 = 0
      BY <3>1
    <3> QED BY <3>2 DEF q
  <2> HIDE DEF m
  <2>6. m \div x = 2 * (n * y)
    BY <2>3, <2>4
  <2>7. Bit(m, k) = (m \div x) % 2
    BY DEF Bit, x
  <2>8. ~(k >= s)
    BY <1>3
  <2> QED BY <2>5, <2>6, <2>7, <2>8 DEF m
<1> QED BY <1>2, <1>3

\* A word has no bits beyond its width.
LEMMA BitBeyond ==
  ASSUME NEW n \in Word, NEW k \in Nat, k >= Width
  PROVE  Bit(n, k) = 0 /\ Bit(n - WordSize, k) = 1
<1>1. Width \in Nat /\ k - Width \in Nat /\ Width + (k - Width) = k
  BY Sizes
<1> DEFINE t == Two[k]
           u == Two[k - Width]
<1>2. t \in Nat \ {0} /\ u \in Nat \ {0} /\ t = WordSize * u /\ WordSize \in Nat \ {0}
  <2>1. Two[Width + (k - Width)] = Two[Width] * Two[k - Width]
    BY <1>1, TwoSum
  <2> QED BY <1>1, <2>1, TwoType, Sizes DEF WordSize
<1> HIDE DEF t, u
<1>3. WordSize <= t
  <2>1. WordSize * 1 <= WordSize * u
    BY <1>2
  <2> QED BY <1>2, <2>1
<1>4. n \in 0 .. t - 1 /\ n = t * 0 + n /\ 0 \in Int
  BY <1>2, <1>3, Sizes
<1>5. (t * 0 + n) \div t = 0
  BY <1>2, <1>4, QuotientUnique
<1> DEFINE r == (n - WordSize) + t
<1>6. r \in 0 .. t - 1 /\ n - WordSize = t * (-1) + r /\ -1 \in Int
  BY <1>2, <1>3, Sizes
<1> HIDE DEF r
<1>7. (t * (-1) + r) \div t = -1
  BY <1>2, <1>6, QuotientUnique
<1>8. n \div t = 0 /\ (n - WordSize) \div t = -1
  BY <1>4, <1>5, <1>6, <1>7
<1>9. 0 % 2 = 0 /\ (-1) % 2 = 1
  <2>1. 2 \in Nat \ {0} /\ -1 \in Int /\ 1 \in 0 .. 2 - 1 /\ 2 * (-1) + 1 = -1
    OBVIOUS
  <2>2. (2 * (-1) + 1) % 2 = 1
    BY <2>1, QuotientUnique
  <2> QED BY <2>1, <2>2
<1> QED BY <1>8, <1>9 DEF Bit, t

-----------------------------------------------------------------------------
(* Words put together from bits.                                            *)

Bits == [0 .. Width - 1 -> {0, 1}]

\* The recursion of LowBits has a solution.
LEMMA LowBitsDef ==
  ASSUME NEW bit \in Bits
  PROVE  /\ LowBits(bit)[0] = 0
         /\ \A k \in 0 .. Width - 1 :
              LowBits(bit)[k + 1] = LowBits(bit)[k] + Two[k] * bit[k]
<1> DEFINE term == [k \in Nat |-> IF k \in 0 .. Width - 1 THEN Two[k] * bit[k] ELSE 0]
<1>0. Width \in Nat
  BY Sizes
<1>1. term \in [Nat -> Int]
  <2>1. ASSUME NEW k \in 0 .. Width - 1 PROVE Two[k] * bit[k] \in Int
    BY TwoType DEF Bits
  <2> QED BY <2>1
<1>2. \A k \in 0 .. Width - 1 : k \in Nat /\ term[k] = Two[k] * bit[k]
  OBVIOUS
<1> HIDE DEF term
<1> DEFINE full == [k \in Nat |-> [n \in Int |-> n + (IF k = 0 THEN 0 ELSE term[k - 1])]]
<1>3. PICK f \in [Nat -> Int] : Recursion(f, 0, full)
  <2>1. ASSUME NEW k \in Nat, NEW n \in Int
        PROVE  n + (IF k = 0 THEN 0 ELSE term[k - 1]) \in Int
    BY <1>1
  <2>2. 0 \in Int /\ full \in [Nat -> [Int -> Int]]
    BY <2>1
  <2> HIDE DEF full
  <2> QED BY <2>2, RecursionExists, Zenon
<1>4. ASSUME NEW k \in Nat PROVE f[k + 1] = f[k] + term[k]
  <2> HIDE DEF full
  <2>1. f[k] \in Int /\ f[k + 1] = full[k + 1][f[k]] /\ k + 1 \in Nat
    BY <1>3 DEF Recursion
  <2> USE DEF full
  <2>2. k + 1 # 0 /\ (k + 1) - 1 = k
    OBVIOUS
  <2> QED BY <2>1, <2>2
<1> HIDE DEF full
<1>5. f[0] = 0
  BY <1>3 DEF Recursion
<1> DEFINE low == [k \in 0 .. Width |-> f[k]]
<1>6. low = [k \in 0 .. Width |-> IF k = 0 THEN 0 ELSE low[k - 1] + Two[k - 1] * bit[k - 1]]
  <2>1. ASSUME NEW k \in 0 .. Width, k # 0 PROVE low[k] = low[k - 1] + Two[k - 1] * bit[k - 1]
    <3>1. k - 1 \in 0 .. Width - 1 /\ k - 1 \in Nat /\ (k - 1) + 1 = k /\ k - 1 \in 0 .. Width
      BY <1>0, <2>1
    <3>2. f[k] = f[k - 1] + term[k - 1] /\ term[k - 1] = Two[k - 1] * bit[k - 1]
      BY <1>2, <1>4, <3>1
    <3> QED BY <3>1, <3>2
  <2>2. 0 \in 0 .. Width => low[0] = 0
    BY <1>5
  <2> QED BY <2>1, <2>2
<1> HIDE DEF low
<1>7. LowBits(bit) =
        [k \in 0 .. Width |-> IF k = 0 THEN 0
                              ELSE LowBits(bit)[k - 1] + Two[k - 1] * bit[k - 1]]
  BY <1>6, Zenon DEF LowBits
<1>8. 0 \in 0 .. Width /\ \A k \in 0 .. Width - 1 : k + 1 \in 0 .. Width /\ k + 1 # 0 /\ (k + 1) - 1 = k
  BY <1>0
<1>9. \A k \in 0 .. Width :
        LowBits(bit)[k] = IF k = 0 THEN 0 ELSE LowBits(bit)[k - 1] + Two[k - 1] * bit[k - 1]
  BY <1>7, Zenon
<1>10. LowBits(bit)[0] = 0
  BY <1>8, <1>9
<1>11. ASSUME NEW k \in 0 .. Width - 1
       PROVE  LowBits(bit)[k + 1] = LowBits(bit)[k] + Two[k] * bit[k]
  BY <1>8, <1>9
<1> QED BY <1>10, <1>11

\* The number holds the bits it is made of.
LEMMA BitsOfComposed ==
  ASSUME NEW bit \in Bits
  PROVE  /\ FromBits(bit) \in Word
         /\ \A k \in 0 .. Width - 1 : Bit(FromBits(bit), k) = bit[k]
<1> DEFINE L == LowBits(bit)
           T == {k \in Nat : k <= Width => L[k] \in 0 .. Two[k] - 1
                               /\ \A j \in 0 .. k - 1 : Bit(L[k], j) = bit[j]}
<1>0. Width \in Nat
  BY Sizes
<1>1. 0 \in T
  <2>1. L[0] = 0 /\ Two[0] = 1
    BY LowBitsDef, TwoDef
  <2> HIDE DEF L
  <2> QED BY <2>1
<1>2. ASSUME NEW k \in Nat, k \in T PROVE k + 1 \in T
  <2> SUFFICES ASSUME k + 1 <= Width
               PROVE  /\ L[k + 1] \in 0 .. Two[k + 1] - 1
                      /\ \A j \in 0 .. (k + 1) - 1 : Bit(L[k + 1], j) = bit[j]
    OBVIOUS
  <2>1. k \in 0 .. Width - 1 /\ k <= Width
    BY <1>0
  <2>2. L[k + 1] = L[k] + Two[k] * bit[k] /\ bit[k] \in {0, 1}
    BY <2>1, LowBitsDef DEF Bits
  <2>3. L[k] \in 0 .. Two[k] - 1 /\ \A j \in 0 .. k - 1 : Bit(L[k], j) = bit[j]
    BY <1>2, <2>1
  <2>4. Two[k + 1] = 2 * Two[k] /\ Two[k] \in Nat \ {0}
    BY TwoDef
  <2> HIDE DEF L, T
  <2> DEFINE n == L[k + 1]
             t == Two[k]
  <2>5. n \in 0 .. Two[k + 1] - 1 /\ n \in Int
    BY <2>2, <2>3, <2>4
  <2>6. n = t * bit[k] + L[k] /\ t \in Nat \ {0} /\ bit[k] \in Int /\ L[k] \in 0 .. t - 1
    BY <2>2, <2>3, <2>4
  <2> HIDE DEF n, t
  <2>7. (t * bit[k] + L[k]) \div t = bit[k] /\ (t * bit[k] + L[k]) % t = L[k]
    BY <2>6, QuotientUnique
  <2>8. Bit(n, k) = bit[k]
    <3>1. n \div t = bit[k]
      BY <2>6, <2>7, Zenon
    <3>2. bit[k] % 2 = bit[k]
      BY <2>2
    <3> QED BY <3>1, <3>2 DEF Bit, t
  <2>9. ASSUME NEW j \in 0 .. k - 1 PROVE Bit(n, j) = bit[j]
    <3>1. Bit(n % Two[k], j) = Bit(n, j)
      BY <2>5, BitOfLow
    <3>2. n % Two[k] = L[k]
      BY <2>6, <2>7 DEF t
    <3> QED BY <2>3, <3>1, <3>2
  <2>10. \A j \in 0 .. (k + 1) - 1 : j \in 0 .. k - 1 \/ j = k
    OBVIOUS
  <2> QED BY <2>5, <2>8, <2>9, <2>10 DEF n
<1> HIDE DEF T, L
<1>3. Nat \subseteq T
  BY <1>1, <1>2, SetInduction
<1>4. Width \in T
  BY <1>0, <1>3
<1>5. /\ L[Width] \in 0 .. Two[Width] - 1
      /\ \A j \in 0 .. Width - 1 : Bit(L[Width], j) = bit[j]
  BY <1>0, <1>4 DEF T
<1> QED BY <1>5 DEF FromBits, L, Word, WordSize

AndBits(a, b) == [k \in 0 .. Width - 1 |-> Bit(a, k) * Bit(b, k)]

\* And, bit by bit.
LEMMA AndIs ==
  ASSUME NEW a \in Word, NEW b \in Word
  PROVE  /\ AndBits(a, b) \in Bits /\ And(a, b) \in Word
         /\ \A k \in 0 .. Width - 1 : Bit(And(a, b), k) = Bit(a, k) * Bit(b, k)
<1>1. AndBits(a, b) \in Bits
  <2>1. ASSUME NEW k \in 0 .. Width - 1 PROVE Bit(a, k) * Bit(b, k) \in {0, 1}
    <3>1. a \in Int /\ b \in Int /\ k \in Nat
      BY Sizes
    <3>2. Bit(a, k) \in {0, 1} /\ Bit(b, k) \in {0, 1}
      BY <3>1, BitStep
    <3> QED BY <3>2
  <2> QED BY <2>1 DEF AndBits, Bits
<1>2. And(a, b) = FromBits(AndBits(a, b))
  BY DEF And, AndBits
<1>3. \A k \in 0 .. Width - 1 : AndBits(a, b)[k] = Bit(a, k) * Bit(b, k)
  BY DEF AndBits
<1> QED BY <1>1, <1>2, <1>3, BitsOfComposed

\* The sum of two words without c times their common bits: or (c = 1) and
\* xor (c = 2).  Bit by bit nothing is carried.
LEMMA SumWithoutCommon ==
  ASSUME NEW a \in Word, NEW b \in Word, NEW c \in {1, 2}
  PROVE  LET n == a + b - c * And(a, b)
         IN  /\ n \in Word
             /\ \A k \in 0 .. Width - 1 :
                  Bit(n, k) = Bit(a, k) + Bit(b, k) - c * (Bit(a, k) * Bit(b, k))
<1> DEFINE A(k) == Bit(a, k)
           B(k) == Bit(b, k)
           bit  == [k \in 0 .. Width - 1 |-> A(k) + B(k) - c * (A(k) * B(k))]
           L    == LowBits(bit)
           M    == LowBits(AndBits(a, b))
           T    == {k \in Nat : k <= Width => /\ M[k] \in Int
                                              /\ L[k] = (a % Two[k]) + (b % Two[k]) - c * M[k]}
<1>0. Width \in Nat /\ a \in Int /\ b \in Int
  BY Sizes
<1>1. ASSUME NEW k \in Nat PROVE A(k) \in {0, 1} /\ B(k) \in {0, 1}
  BY <1>0, BitStep
<1> HIDE DEF A, B
<1>2. bit \in Bits
  <2>1. ASSUME NEW k \in 0 .. Width - 1 PROVE A(k) + B(k) - c * (A(k) * B(k)) \in {0, 1}
    <3>1. k \in Nat
      OBVIOUS
    <3>2. A(k) \in {0, 1} /\ B(k) \in {0, 1}
      BY <3>1, <1>1
    <3> QED BY <3>2
  <2> QED BY <2>1 DEF Bits
<1>3. AndBits(a, b) = [k \in 0 .. Width - 1 |-> A(k) * B(k)] /\ AndBits(a, b) \in Bits
  BY AndIs DEF AndBits, A, B
<1>4. 0 \in T
  <2>1. L[0] = 0 /\ M[0] = 0 /\ Two[0] = 1
    BY <1>2, <1>3, LowBitsDef, TwoDef
  <2>2. a % 1 = 0 /\ b % 1 = 0
    BY <1>0
  <2> HIDE DEF L, M
  <2> QED BY <2>1, <2>2
<1>5. ASSUME NEW k \in Nat, k \in T PROVE k + 1 \in T
  <2> SUFFICES ASSUME k + 1 <= Width
               PROVE  /\ M[k + 1] \in Int
                      /\ L[k + 1] = (a % Two[k + 1]) + (b % Two[k + 1]) - c * M[k + 1]
    OBVIOUS
  <2>1. k \in 0 .. Width - 1 /\ k <= Width
    BY <1>0
  <2>2. /\ L[k + 1] = L[k] + Two[k] * bit[k]
        /\ M[k + 1] = M[k] + Two[k] * AndBits(a, b)[k]
    BY <1>2, <1>3, <2>1, LowBitsDef
  <2>3. bit[k] = A(k) + B(k) - c * (A(k) * B(k)) /\ AndBits(a, b)[k] = A(k) * B(k)
    BY <1>3, <2>1
  <2>4. M[k] \in Int /\ L[k] = (a % Two[k]) + (b % Two[k]) - c * M[k]
    BY <1>5, <2>1
  <2>5. /\ a % Two[k + 1] = (a % Two[k]) + Two[k] * A(k)
        /\ b % Two[k + 1] = (b % Two[k]) + Two[k] * B(k)
        /\ a % Two[k] \in 0 .. Two[k] - 1 /\ b % Two[k] \in 0 .. Two[k] - 1
    BY <1>0, BitStep DEF A, B
  <2> DEFINE t == Two[k]
             x == a % t
             y == b % t
             p == A(k)
             q == B(k)
             m == M[k]
  <2>6. /\ t \in Nat \ {0} /\ x \in Int /\ y \in Int /\ p \in {0, 1} /\ q \in {0, 1}
        /\ m \in Int
    BY <1>1, <2>4, <2>5, TwoType
  <2>7. /\ L[k + 1] = (x + y - c * m) + t * (p + q - c * (p * q))
        /\ M[k + 1] = m + t * (p * q)
    BY <2>2, <2>3, <2>4
  <2>8. a % Two[k + 1] = x + t * p /\ b % Two[k + 1] = y + t * q
    BY <2>5
  <2> HIDE DEF L, M, T, bit, t, x, y, p, q, m
  <2>9. /\ (x + y - c * m) + t * (p + q - c * (p * q))
             = (x + t * p) + (y + t * q) - c * (m + t * (p * q))
        /\ m + t * (p * q) \in Int
    BY <2>6
  <2> QED BY <2>7, <2>8, <2>9
<1> HIDE DEF T
<1>6. Nat \subseteq T
  BY <1>4, <1>5, SetInduction
<1>7. L[Width] = (a % Two[Width]) + (b % Two[Width]) - c * M[Width]
  <2>1. Width \in T
    BY <1>0, <1>6
  <2> HIDE DEF L, M
  <2> QED BY <1>0, <2>1 DEF T
<1>8. a % Two[Width] = a /\ b % Two[Width] = b
  <2>1. WordSize \in Nat \ {0} /\ a \in 0 .. WordSize - 1 /\ b \in 0 .. WordSize - 1
    BY Sizes
  <2>2. a % WordSize = a /\ b % WordSize = b
    BY <2>1
  <2> QED BY <2>2 DEF WordSize
<1>9. M[Width] = And(a, b) /\ L[Width] = FromBits(bit)
  BY DEF And, AndBits, FromBits
<1>10. FromBits(bit) = a + b - c * And(a, b)
  <2> HIDE DEF L, M, bit
  <2> QED BY <1>7, <1>8, <1>9
<1>11. FromBits(bit) \in Word /\ \A k \in 0 .. Width - 1 : Bit(FromBits(bit), k) = bit[k]
  <2> HIDE DEF bit
  <2> QED BY <1>2, BitsOfComposed
<1>12. \A k \in 0 .. Width - 1 : bit[k] = A(k) + B(k) - c * (A(k) * B(k))
  OBVIOUS
<1> HIDE DEF bit
<1> QED BY <1>10, <1>11, <1>12 DEF A, B

-----------------------------------------------------------------------------
(* Logic, shifts, and the type of every result.                             *)

\* Or and xor follow from and.
LEMMA LogicIs ==
  ASSUME NEW a \in Word, NEW b \in Word
  PROVE  /\ And(a, b) \in Word /\ Or(a, b) \in Word /\ Xor(a, b) \in Word
         /\ \A k \in 0 .. Width - 1 :
              /\ Bit(And(a, b), k) = 1 <=> Bit(a, k) = 1 /\ Bit(b, k) = 1
              /\ Bit(Or(a, b), k) = 1 <=> Bit(a, k) = 1 \/ Bit(b, k) = 1
              /\ Bit(Xor(a, b), k) = 1 <=> Bit(a, k) # Bit(b, k)
<1>1. And(a, b) \in Word /\ \A k \in 0 .. Width - 1 : Bit(And(a, b), k) = Bit(a, k) * Bit(b, k)
  BY AndIs
<1> DEFINE or  == a + b - 1 * And(a, b)
           xor == a + b - 2 * And(a, b)
<1>2. Or(a, b) = or /\ Xor(a, b) = xor
  <2>1. And(a, b) \in Int
    BY <1>1, Sizes
  <2>2. a \in Int /\ b \in Int
    BY Sizes
  <2> QED BY <2>1, <2>2 DEF Or, Xor
<1>3. /\ or \in Word
      /\ \A k \in 0 .. Width - 1 :
           Bit(or, k) = Bit(a, k) + Bit(b, k) - 1 * (Bit(a, k) * Bit(b, k))
  BY SumWithoutCommon
<1>4. /\ xor \in Word
      /\ \A k \in 0 .. Width - 1 :
           Bit(xor, k) = Bit(a, k) + Bit(b, k) - 2 * (Bit(a, k) * Bit(b, k))
  BY SumWithoutCommon
<1> HIDE DEF or, xor
<1>5. ASSUME NEW k \in 0 .. Width - 1
      PROVE  /\ Bit(And(a, b), k) = 1 <=> Bit(a, k) = 1 /\ Bit(b, k) = 1
             /\ Bit(or, k) = 1 <=> Bit(a, k) = 1 \/ Bit(b, k) = 1
             /\ Bit(xor, k) = 1 <=> Bit(a, k) # Bit(b, k)
  <2> DEFINE p == Bit(a, k)
             q == Bit(b, k)
  <2>1. p \in {0, 1} /\ q \in {0, 1}
    <3>1. a \in Int /\ b \in Int /\ k \in Nat
      BY Sizes
    <3> QED BY <3>1, BitStep
  <2>2. /\ Bit(And(a, b), k) = p * q /\ Bit(or, k) = p + q - 1 * (p * q)
        /\ Bit(xor, k) = p + q - 2 * (p * q)
    BY <1>1, <1>3, <1>4
  <2> HIDE DEF p, q
  <2>3. /\ p * q = 1 <=> p = 1 /\ q = 1
        /\ p + q - 1 * (p * q) = 1 <=> p = 1 \/ q = 1
        /\ p + q - 2 * (p * q) = 1 <=> p # q
    BY <2>1
  <2> QED BY <2>2, <2>3 DEF p, q
<1> QED BY <1>1, <1>2, <1>3, <1>4, <1>5

\* A shift moves every bit and fills with 0 or the sign.
LEMMA ShiftsAre ==
  ASSUME NEW a \in Word, NEW b \in Word
  PROVE  LET s == b % Two[ShiftWidth]
             Moved(k, fill) == IF k \in 0 .. Width - 1 THEN Bit(a, k) ELSE fill
         IN  /\ Sll(a, b) \in Word /\ Srl(a, b) \in Word /\ Sra(a, b) \in Word
             /\ \A k \in 0 .. Width - 1 :
                  /\ Bit(Sll(a, b), k) = Moved(k - s, 0)
                  /\ Bit(Srl(a, b), k) = Moved(k + s, 0)
                  /\ Bit(Sra(a, b), k) = Moved(k + s, Msb(a))
<1> DEFINE s == b % Two[ShiftWidth]
           d == Two[s]
           S == Signed(a)
<1>1. s \in Nat
  <2> DEFINE e == Two[ShiftWidth]
  <2>1. e \in Nat \ {0} /\ b \in Int
    BY WidthAssumption, TwoType, Sizes
  <2> HIDE DEF e
  <2>2. b % e \in 0 .. e - 1
    BY <2>1, Division
  <2>3. b % e \in Nat
    BY <2>1, <2>2
  <2> QED BY <2>3 DEF e
<1>2. Sll(a, b) = (a * d) % WordSize /\ Srl(a, b) = a \div d /\ Sra(a, b) = (S \div d) % WordSize
  BY DEF Sll, Srl, Sra, Shamt
<1> HIDE DEF s
<1>3. d \in Nat \ {0} /\ a \in Nat /\ S \in Int /\ WordSize \in Nat \ {0} /\ Width \in Nat
  <2>1. S \in -MinInt .. MinInt - 1
    BY Signs
  <2> QED BY <1>1, <2>1, TwoType, Sizes
<1> DEFINE p == a * d
           q == S \div d
           r == a \div d
<1>4. p \in Int /\ q \in Int /\ r \in Int
  <2> HIDE DEF d, S
  <2>1. p \in Int
    BY <1>3
  <2>2. q \in Int /\ r \in Int
    BY <1>3, Division
  <2> QED BY <2>1, <2>2
<1>5. r \in Word
  <2> HIDE DEF d, S
  <2>1. a = d * r + (a % d) /\ a % d \in 0 .. d - 1
    BY <1>3, Division
  <2> HIDE DEF r
  <2>2. r >= 0
    <3> SUFFICES ASSUME r <= -1 PROVE FALSE
      BY <1>4
    <3>1. d * r <= d * (-1)
      BY <1>3, <1>4
    <3>2. d * r \in Int
      BY <1>3, <1>4
    <3> QED BY <1>3, <2>1, <3>1, <3>2
  <2>3. 1 * r <= d * r
    BY <1>3, <1>4, <2>2
  <2>4. r <= a
    <3>1. d * r \in Int
      BY <1>3, <1>4
    <3> QED BY <1>3, <1>4, <2>1, <2>3, <3>1
  <2> QED BY <1>3, <1>4, <2>2, <2>4, Sizes
<1> HIDE DEF d, S, p, q, r
<1>6. p % WordSize \in Word /\ q % WordSize \in Word
  <2>1. p % WordSize \in 0 .. WordSize - 1 /\ q % WordSize \in 0 .. WordSize - 1
    BY <1>3, <1>4, Division
  <2> QED BY <2>1, Sizes
<1>7. ASSUME NEW k \in 0 .. Width - 1
      PROVE  Bit(Sll(a, b), k) = IF k - s \in 0 .. Width - 1 THEN Bit(a, k - s) ELSE 0
  <2>1. k \in Nat /\ a \in Int
    BY <1>3
  <2>2. Bit(p % WordSize, k) = Bit(p, k)
    BY <1>3, <1>4, BitOfLow DEF WordSize
  <2>3. Bit(p, k) = IF k >= s THEN Bit(a, k - s) ELSE 0
    BY <1>1, <2>1, BitOfMultiple DEF p, d
  <2>4. k >= s <=> k - s \in 0 .. Width - 1
    BY <1>1, <1>3, <2>1
  <2>5. Sll(a, b) = p % WordSize
    BY <1>2 DEF p
  <2> QED BY <2>2, <2>3, <2>4, <2>5
<1>8. ASSUME NEW k \in 0 .. Width - 1
      PROVE  Bit(Srl(a, b), k) = IF k + s \in 0 .. Width - 1 THEN Bit(a, k + s) ELSE 0
  <2>1. k \in Nat /\ a \in Int /\ k + s \in Nat /\ s + k = k + s
    BY <1>1, <1>3
  <2>2. Bit(r, k) = Bit(a, k + s)
    BY <1>1, <2>1, BitOfQuotient DEF r, d
  <2>3. ~(k + s \in 0 .. Width - 1) => Bit(a, k + s) = 0
    <3>1. ~(k + s \in 0 .. Width - 1) => k + s >= Width
      BY <1>3, <2>1
    <3> QED BY <2>1, <3>1, BitBeyond
  <2>4. Srl(a, b) = r
    BY <1>2 DEF r
  <2> QED BY <2>2, <2>3, <2>4
<1>9. ASSUME NEW k \in 0 .. Width - 1
      PROVE  Bit(Sra(a, b), k) = IF k + s \in 0 .. Width - 1 THEN Bit(a, k + s) ELSE Msb(a)
  <2>1. k \in Nat /\ a \in Int /\ k + s \in Nat /\ s + k = k + s
    BY <1>1, <1>3
  <2>2. Bit(q % WordSize, k) = Bit(q, k)
    BY <1>3, <1>4, BitOfLow DEF WordSize
  <2>3. Bit(q, k) = Bit(S, k + s)
    BY <1>1, <1>3, <2>1, BitOfQuotient DEF q, d
  <2>4. ASSUME k + s \in 0 .. Width - 1 PROVE Bit(S, k + s) = Bit(a, k + s)
    <3>1. S % WordSize = a
      BY Signs DEF S
    <3>2. Bit(S % WordSize, k + s) = Bit(S, k + s)
      BY <1>3, <2>4, BitOfLow DEF WordSize
    <3> QED BY <3>1, <3>2
  <2>5. ASSUME ~(k + s \in 0 .. Width - 1) PROVE Bit(S, k + s) = Msb(a)
    <3>1. k + s >= Width
      BY <1>3, <2>1, <2>5
    <3>2. Bit(a, k + s) = 0 /\ Bit(a - WordSize, k + s) = 1
      BY <2>1, <3>1, BitBeyond
    <3>3. /\ S = IF a >= MinInt THEN a - WordSize ELSE a
          /\ Msb(a) = IF a >= MinInt THEN 1 ELSE 0
      BY Signs DEF S
    <3> QED BY <3>2, <3>3
  <2>6. Sra(a, b) = q % WordSize
    BY <1>2 DEF q
  <2> QED BY <2>2, <2>3, <2>4, <2>5, <2>6
<1>10. Sll(a, b) \in Word /\ Srl(a, b) \in Word /\ Sra(a, b) \in Word
  BY <1>2, <1>5, <1>6 DEF p, q, r
<1> QED BY <1>7, <1>8, <1>9, <1>10 DEF s

\* Together: the bitwise operations for any two operands.
LEMMA BitsStep == AluInv => BitsExact
<1> SUFFICES ASSUME AluInv PROVE BitsExact
  OBVIOUS
<1>1. a_in \in Word /\ b_in \in Word
  BY DEF AluInv
<1>2. /\ Out(AND) = And(a_in, b_in) /\ Out(OR) = Or(a_in, b_in)
      /\ Out(XOR) = Xor(a_in, b_in) /\ Out(SLL) = Sll(a_in, b_in)
      /\ Out(SRL) = Srl(a_in, b_in) /\ Out(SRA) = Sra(a_in, b_in)
  BY Table DEF Out
<1>3. \A k \in 0 .. Width - 1 :
        /\ Bit(Out(AND), k) = 1 <=> Bit(a_in, k) = 1 /\ Bit(b_in, k) = 1
        /\ Bit(Out(OR), k) = 1 <=> Bit(a_in, k) = 1 \/ Bit(b_in, k) = 1
        /\ Bit(Out(XOR), k) = 1 <=> Bit(a_in, k) # Bit(b_in, k)
  BY <1>1, <1>2, LogicIs
<1> DEFINE s == b_in % Two[ShiftWidth]
           Moved(k, fill) == IF k \in 0 .. Width - 1 THEN Bit(a_in, k) ELSE fill
<1>4. \A k \in 0 .. Width - 1 :
        /\ Bit(Out(SLL), k) = Moved(k - s, 0)
        /\ Bit(Out(SRL), k) = Moved(k + s, 0)
        /\ Bit(Out(SRA), k) = Moved(k + s, Msb(a_in))
  BY <1>1, <1>2, ShiftsAre
<1> HIDE DEF s, Moved
<1>5. \A k \in 0 .. Width - 1 :
        /\ Bit(Out(AND), k) = 1 <=> Bit(a_in, k) = 1 /\ Bit(b_in, k) = 1
        /\ Bit(Out(OR), k) = 1 <=> Bit(a_in, k) = 1 \/ Bit(b_in, k) = 1
        /\ Bit(Out(XOR), k) = 1 <=> Bit(a_in, k) # Bit(b_in, k)
        /\ Bit(Out(SLL), k) = Moved(k - s, 0)
        /\ Bit(Out(SRL), k) = Moved(k + s, 0)
        /\ Bit(Out(SRA), k) = Moved(k + s, Msb(a_in))
  BY <1>3, <1>4
<1> QED BY <1>5 DEF BitsExact, s, Moved

\* and, or, xor and the shifts are right bit by bit.
THEOREM BitsCorrect == Spec => []BitsExact
BY OperandsStay, BitsStep, PTL

\* The divider's results are words.
LEMMA DividedWords ==
  ASSUME NEW a \in Word, NEW b \in Word
  PROVE  /\ DivS(a, b) \in Word /\ RemS(a, b) \in Word
         /\ DivU(a, b) \in Word /\ RemU(a, b) \in Word
<1>1. /\ WordSize \in Nat \ {0} /\ AllOnes \in Word /\ MinInt \in Word /\ 0 \in Word
      /\ a \in Nat /\ b \in Nat /\ Word = 0 .. WordSize - 1
  BY Sizes
<1>2. ASSUME NEW n \in Int PROVE n % WordSize \in Word
  BY <1>1, Division
<1>3. ASSUME b # 0
      PROVE  /\ Quotient(Signed(a), Signed(b)) \in Int
             /\ Remainder(Signed(a), Signed(b)) \in Int
  <2>1. Signed(a) \in Int /\ Signed(b) \in Int /\ Signed(b) # 0
    <3>1. /\ Signed(a) = (IF a >= MinInt THEN a - WordSize ELSE a)
          /\ Signed(b) = (IF b >= MinInt THEN b - WordSize ELSE b)
      BY Signs
    <3> QED BY <1>3, <3>1, Sizes
  <2> QED BY <2>1, Truncated
<1>4. DivS(a, b) \in Word /\ RemS(a, b) \in Word
  <2> DEFINE q == Quotient(Signed(a), Signed(b))
             r == Remainder(Signed(a), Signed(b))
  <2>1. b # 0 => q % WordSize \in Word /\ r % WordSize \in Word
    BY <1>2, <1>3
  <2>2. /\ DivS(a, b) = IF b = 0 THEN AllOnes
                        ELSE IF a = MinInt /\ b = AllOnes THEN MinInt ELSE q % WordSize
        /\ RemS(a, b) = IF b = 0 THEN a
                        ELSE IF a = MinInt /\ b = AllOnes THEN 0 ELSE r % WordSize
    BY DEF DivS, RemS
  <2> HIDE DEF q, r
  <2> QED BY <1>1, <2>1, <2>2
<1>5. DivU(a, b) \in Word /\ RemU(a, b) \in Word
  <2>1. CASE b = 0
    BY <1>1, <2>1 DEF DivU, RemU
  <2>2. CASE b # 0
    <3> DEFINE q == a \div b
               r == a % b
    <3>1. b \in Nat \ {0} /\ a \in Int
      BY <1>1, <2>2
    <3>2. q \in Int /\ r \in 0 .. b - 1 /\ a = b * q + r
      BY <3>1, Division
    <3>3. DivU(a, b) = q /\ RemU(a, b) = r
      BY <2>2 DEF DivU, RemU
    <3> HIDE DEF q, r
    <3>4. q >= 0
      <4> SUFFICES ASSUME q <= -1 PROVE FALSE
        BY <3>2
      <4>1. b * q <= b * (-1) /\ b * q \in Int
        BY <3>1, <3>2
      <4> QED BY <1>1, <3>1, <3>2, <4>1
    <3>5. 1 * q <= b * q /\ b * q \in Int
      BY <3>1, <3>2, <3>4
    <3>6. q <= a
      BY <1>1, <3>1, <3>2, <3>4, <3>5
    <3>7. r < WordSize /\ r >= 0
      <4>1. b < WordSize
        BY <1>1
      <4> QED BY <1>1, <3>1, <3>2, <4>1
    <3> QED BY <1>1, <3>2, <3>3, <3>4, <3>6, <3>7
  <2> QED BY <2>1, <2>2
<1> QED BY <1>4, <1>5

\* Every operation delivers a word.
LEMMA ResultTyped ==
  ASSUME NEW a \in Word, NEW b \in Word,
         NEW c \in (ADD .. SLTU) \cup (MUL .. REMU)
  PROVE  Result(c, a, b) \in Word
<1>1. /\ WordSize \in Nat \ {0} /\ Word = 0 .. WordSize - 1 /\ WordSize >= 2
  BY Sizes
<1>2. 0 \in Word /\ 1 \in Word
  BY <1>1
<1>3. Result(ADD, a, b) \in Word /\ Result(SUB, a, b) \in Word
  <2> DEFINE d == (Not(b) + 1) % WordSize
  <2>1. d \in Word
    BY NegatedIs
  <2> HIDE DEF d
  <2>2. ASSUME NEW y \in Word PROVE Adder(a, y).sum \in Word
    BY AdderIs
  <2> QED BY <2>1, <2>2, Table DEF d
<1>4. Result(SLT, a, b) \in Word /\ Result(SLTU, a, b) \in Word
  <2>1. SltuResult(a, b) \in {0, 1}
    BY DEF SltuResult
  <2>2. SltResult(a, b) \in {0, 1}
    <3> DEFINE s == Adder(a, (Not(b) + 1) % WordSize)
    <3>1. s.N \in {0, 1} /\ s.V \in {0, 1}
      BY SubtractionIs
    <3>2. AddSubB(SLT, b) = (Not(b) + 1) % WordSize
      BY DEF AddSubB
    <3>3. SltResult(a, b) = (s.N + s.V) % 2
      BY <3>2 DEF SltResult
    <3> HIDE DEF s
    <3> QED BY <3>1, <3>3
  <2> QED BY <1>2, <2>1, <2>2, Table
<1>5. /\ Result(AND, a, b) \in Word /\ Result(OR, a, b) \in Word /\ Result(XOR, a, b) \in Word
      /\ Result(SLL, a, b) \in Word /\ Result(SRL, a, b) \in Word /\ Result(SRA, a, b) \in Word
  BY Table, LogicIs, ShiftsAre
<1>6. ASSUME NEW n \in Int PROVE Low(n) \in Word /\ High(n) \in Word
  <2>1. n \div WordSize \in Int
    BY <1>1, Division
  <2> DEFINE h == n \div WordSize
  <2>2. h \in Int
    BY <2>1
  <2> HIDE DEF h
  <2>3. n % WordSize \in Word /\ h % WordSize \in Word
    BY <1>1, <2>2, Division
  <2> QED BY <2>3 DEF Low, High, h
<1>7. MulSS(a, b) \in Int /\ MulSU(a, b) \in Int /\ MulUU(a, b) \in Int
  <2>1. a \in Int /\ b \in Int /\ Signed(a) \in Int /\ Signed(b) \in Int
    BY Signs, Sizes
  <2>2. Signed(a) % (WordSize * WordSize) \in Int
    <3> DEFINE d == WordSize * WordSize
               x == Signed(a)
    <3>1. d \in Nat \ {0} /\ x \in Int
      BY <1>1, <2>1
    <3> HIDE DEF d, x
    <3>2. x % d \in 0 .. d - 1
      BY <3>1, Division
    <3>3. x % d \in Int
      BY <3>1, <3>2
    <3> QED BY <3>3 DEF d, x
  <2> DEFINE e == Signed(a) % (WordSize * WordSize)
             x == Signed(a)
             y == Signed(b)
  <2>3. e \in Int /\ x \in Int /\ y \in Int
    BY <2>1, <2>2
  <2> HIDE DEF e, x, y
  <2>4. x * y \in Int /\ e * b \in Int /\ a * b \in Int
    BY <2>1, <2>3
  <2> QED BY <2>4 DEF MulSS, MulSU, MulUU, e, x, y
<1>8. /\ Result(MUL, a, b) \in Word /\ Result(MULH, a, b) \in Word
      /\ Result(MULHSU, a, b) \in Word /\ Result(MULHU, a, b) \in Word
  BY <1>6, <1>7, TableM
<1>9. /\ Result(DIV, a, b) \in Word /\ Result(DIVU, a, b) \in Word
      /\ Result(REM, a, b) \in Word /\ Result(REMU, a, b) \in Word
  BY TableM, DividedWords
<1>10. c \in {ADD, SUB, AND, OR, XOR, SLT, SLL, SRL, SRA, SLTU,
              MUL, MULH, MULHSU, MULHU, DIV, DIVU, REM, REMU}
  BY DEF ADD, SUB, AND, OR, XOR, SLT, SLL, SRL, SRA, SLTU, MUL, MULH, MULHSU,
         MULHU, DIV, DIVU, REM, REMU
<1> QED BY <1>3, <1>4, <1>5, <1>8, <1>9, <1>10

\* The ALU is total: every code it implements yields a word.
THEOREM AluTyped == Spec => []TypeOK
<1>1. AluInv => TypeOK
  BY ResultTyped DEF AluInv, TypeOK
<1> QED BY <1>1, OperandsStay, PTL

\* What the pipeline assumes of its ALU: every operation returns a word, ADD
\* adds, and the branch logic may trust the flags of a comparison.
\* (AluAssumption and FlagsAssumption of Rv32im, for alu.sv)
THEOREM AluMeetsItsAssumptions ==
  \A a, b \in Word :
    /\ \A c \in (ADD .. SLTU) \cup (MUL .. REMU) : Result(c, a, b) \in Word
    /\ Result(ADD, a, b) = (a + b) % WordSize
    /\ LET s == ALUFlags(SUB, a, b)
           u == ALUFlags(BRU, a, b)
       IN  /\ s.Z = (IF a = b THEN 1 ELSE 0)
           /\ s.N # s.V <=> Result(SLT, a, b) = 1
           /\ u.C = (IF a >= b THEN 1 ELSE 0)
<1> SUFFICES ASSUME NEW a \in Word, NEW b \in Word
             PROVE  /\ \A c \in (ADD .. SLTU) \cup (MUL .. REMU) : Result(c, a, b) \in Word
                    /\ Result(ADD, a, b) = (a + b) % WordSize
                    /\ ALUFlags(SUB, a, b).Z = (IF a = b THEN 1 ELSE 0)
                    /\ ALUFlags(SUB, a, b).N # ALUFlags(SUB, a, b).V <=> Result(SLT, a, b) = 1
                    /\ ALUFlags(BRU, a, b).C = (IF a >= b THEN 1 ELSE 0)
  OBVIOUS
<1> DEFINE d == Adder(a, (Not(b) + 1) % WordSize)
           fs == [N |-> d.N, Z |-> d.Z, C |-> d.C, V |-> d.V]
           fu == [N |-> d.N, Z |-> d.Z, C |-> CoutSub(a, b), V |-> d.V]
<1>1. ALUFlags(SUB, a, b) = fs /\ ALUFlags(BRU, a, b) = fu
  BY FlagTable
<1>2. d.N \in {0, 1} /\ d.V \in {0, 1} /\ d.Z = IF a = b THEN 1 ELSE 0
  BY SubtractionIs
<1>3. CoutSub(a, b) = IF a >= b THEN 1 ELSE 0
  BY CarryIs
<1>4. Result(SLT, a, b) = (d.N + d.V) % 2
  <2>1. AddSubB(SLT, b) = (Not(b) + 1) % WordSize
    BY DEF AddSubB
  <2>2. Result(SLT, a, b) = SltResult(a, b)
    BY Table
  <2> QED BY <2>1, <2>2 DEF SltResult
<1>5. Result(ADD, a, b) = (a + b) % WordSize
  BY Table DEF Adder
<1>6. fs.N = d.N /\ fs.V = d.V /\ fs.Z = d.Z /\ fu.C = CoutSub(a, b)
  OBVIOUS
<1> HIDE DEF d, fs, fu
<1>7. d.N # d.V <=> Result(SLT, a, b) = 1
  BY <1>2, <1>4
<1> QED BY <1>1, <1>2, <1>3, <1>5, <1>6, <1>7, ResultTyped

-----------------------------------------------------------------------------
(* The immediates.                                                          *)

\* Whatever the format, decode recovers the immediate from an instruction
\* that carries it: no bit of the scattered branch and jump offsets is
\* swapped, lost or extended from the wrong place.
THEOREM ImmediatesRecovered ==
  ASSUME NEW ImmSrc \in 0 .. 5, NEW w \in Word32, NEW imm \in Word32,
         InRange(ImmSrc, imm), Carries(ImmSrc, w, imm)
  PROVE  Extend(ImmSrc, ExtendInput(w)) = imm
<1> DEFINE in == ExtendInput(w)
<1> SUFFICES ASSUME NEW k \in 0 .. 31 PROVE Extend(ImmSrc, in)[k] = imm[k]
  BY DEF Word32, Extend
<1>0. \A i \in 0 .. 24 : in[i] = w[i + 7]
  BY DEF ExtendInput
<1> HIDE DEF in
<1> USE DEF Word32, Field, SignFrom, ZeroBelow
<1>1. CASE ImmSrc = 0
  <2>1. SignFrom(imm, 11) /\ Field(w, 31, 20, imm, 0)
    BY <1>1 DEF InRange, Carries
  <2>2. Extend(ImmSrc, in)[k] = IBit(in, k)
    BY <1>1 DEF Extend
  <2>3. IBit(in, k) = imm[k]
    BY <1>0, <2>1 DEF IBit
  <2> QED BY <2>2, <2>3
<1>2. CASE ImmSrc = 1
  <2>1. /\ SignFrom(imm, 11)
        /\ Field(w, 31, 25, imm, 5) /\ Field(w, 11, 7, imm, 0)
    BY <1>2 DEF InRange, Carries
  <2>2. Extend(ImmSrc, in)[k] = SBit(in, k)
    BY <1>2 DEF Extend
  <2>3. SBit(in, k) = imm[k]
    BY <1>0, <2>1 DEF SBit
  <2> QED BY <2>2, <2>3
<1>3. CASE ImmSrc = 2
  <2>1. /\ SignFrom(imm, 12) /\ ZeroBelow(imm, 1)
        /\ w[31] = imm[12] /\ Field(w, 30, 25, imm, 5)
        /\ Field(w, 11, 8, imm, 1) /\ w[7] = imm[11]
    BY <1>3 DEF InRange, Carries
  <2>2. Extend(ImmSrc, in)[k] = BBit(in, k)
    BY <1>3 DEF Extend
  <2>3. BBit(in, k) = imm[k]
    BY <1>0, <2>1 DEF BBit
  <2> QED BY <2>2, <2>3
<1>4. CASE ImmSrc = 3
  <2>1. /\ SignFrom(imm, 20) /\ ZeroBelow(imm, 1)
        /\ w[31] = imm[20] /\ Field(w, 30, 21, imm, 1)
        /\ w[20] = imm[11] /\ Field(w, 19, 12, imm, 12)
    BY <1>4 DEF InRange, Carries
  <2>2. Extend(ImmSrc, in)[k] = JBit(in, k)
    BY <1>4 DEF Extend
  <2>3. JBit(in, k) = imm[k]
    BY <1>0, <2>1 DEF JBit
  <2> QED BY <2>2, <2>3
<1>5. CASE ImmSrc = 4
  <2>1. ZeroBelow(imm, 12) /\ Field(w, 31, 12, imm, 12)
    BY <1>5 DEF InRange, Carries
  <2>2. Extend(ImmSrc, in)[k] = UBit(in, k)
    BY <1>5 DEF Extend
  <2>3. UBit(in, k) = imm[k]
    BY <1>0, <2>1 DEF UBit
  <2> QED BY <2>2, <2>3
<1>6. CASE ImmSrc = 5
  <2>1. (\A i \in 5 .. 31 : imm[i] = 0) /\ Field(w, 19, 15, imm, 0)
    BY <1>6 DEF InRange, Carries
  <2>2. Extend(ImmSrc, in)[k] = CsrBit(in, k)
    BY <1>6 DEF Extend
  <2>3. CsrBit(in, k) = imm[k]
    BY <1>0, <2>1 DEF CsrBit
  <2> QED BY <2>2, <2>3
<1> QED BY <1>1, <1>2, <1>3, <1>4, <1>5, <1>6
=============================================================================
