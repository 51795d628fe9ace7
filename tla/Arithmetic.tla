----------------------------- MODULE Arithmetic -----------------------------
(***************************************************************************)
(* Facts about numbers that the proofs about the data path, the byte lanes *)
(* and the benchmark need: induction and recursion over the naturals in a  *)
(* form the provers can use (over sets and functions instead of            *)
(* operators), and the laws of div and mod for a divisor that is not a     *)
(* numeral.                                                                *)
(***************************************************************************)
EXTENDS Integers, WellFoundedInduction, TLAPS

-----------------------------------------------------------------------------
(* Induction and recursion.                                                 *)

LessThan == {p \in Nat \X Nat : p[1] < p[2]}

\* No number descends for ever.
LEMMA LessThanIsWellFounded == IsWellFoundedOn(LessThan, Nat)
BY NatLessThanWellFounded, Zenon DEF OpToRel, LessThan

\* A set that contains 0 and with each number the next contains them all.
LEMMA SetInduction ==
  ASSUME NEW T, 0 \in T, \A n \in Nat : n \in T => n + 1 \in T
  PROVE  Nat \subseteq T
<1> DEFINE M == Nat \ T
<1> SUFFICES ASSUME M # {} PROVE FALSE
  OBVIOUS
<1>1. PICK x \in M : \A y \in M : <<y, x>> \notin LessThan
  BY LessThanIsWellFounded, WFMin, M \subseteq Nat, Zenon
<1>2. x \in Nat /\ x # 0 /\ x - 1 \in Nat
  OBVIOUS
<1>3. x - 1 \in M
  BY <1>2
<1>4. <<x - 1, x>> \in LessThan
  BY <1>2 DEF LessThan
<1> QED BY <1>1, <1>3, <1>4

\* f does n steps of the recursion.
Recurses(f, n, init, step) ==
  f[0] = init /\ \A k \in 0 .. n - 1 : f[k + 1] = step[k + 1][f[k]]

\* f is the function on the naturals that recurses from init by step.
Recursion(f, init, step) ==
  f[0] = init /\ \A k \in Nat : f[k + 1] = step[k + 1][f[k]]

\* A recursion from init by step defines a function on the naturals.
LEMMA RecursionExists ==
  ASSUME NEW V, NEW init \in V, NEW step \in [Nat -> [V -> V]]
  PROVE  \E f \in [Nat -> V] : Recursion(f, init, step)
<1> DEFINE Upto(n) == {g \in [0 .. n -> V] : Recurses(g, n, init, step)}
<1>1. \A n \in Nat : Upto(n) # {}
  <2> DEFINE T == {n \in Nat : Upto(n) # {}}
  <2>1. 0 \in T
    <3>1. [k \in 0 .. 0 |-> init] \in Upto(0)
      BY DEF Recurses
    <3> QED BY <3>1
  <2>2. ASSUME NEW n \in Nat, n \in T PROVE n + 1 \in T
    <3>1. PICK g \in [0 .. n -> V] : Recurses(g, n, init, step)
      BY <2>2
    <3> DEFINE h == [k \in 0 .. n + 1 |-> IF k <= n THEN g[k] ELSE step[n + 1][g[n]]]
    <3>2. g[n] \in V
      OBVIOUS
    <3>2a. step[n + 1][g[n]] \in V
      BY <3>2
    <3>3. h \in [0 .. n + 1 -> V]
      BY <3>2a
    <3>4. Recurses(h, n + 1, init, step)
      <4>1. h[0] = init
        BY <3>1 DEF Recurses
      <4>2. ASSUME NEW k \in 0 .. n PROVE h[k + 1] = step[k + 1][h[k]]
        <5>1. CASE k = n
          BY <5>1
        <5>2. CASE k # n
          <6>1. k \in 0 .. n - 1 /\ h[k + 1] = g[k + 1] /\ h[k] = g[k]
            BY <5>2
          <6> QED BY <6>1, <3>1 DEF Recurses
        <5> QED BY <5>1, <5>2
      <4>3. 0 .. (n + 1) - 1 = 0 .. n
        OBVIOUS
      <4> HIDE DEF h
      <4> QED BY <4>1, <4>2, <4>3 DEF Recurses
    <3> HIDE DEF h
    <3>5. h \in Upto(n + 1)
      BY <3>3, <3>4
    <3> QED BY <3>5
  <2> HIDE DEF T
  <2>3. Nat \subseteq T
    BY <2>1, <2>2, SetInduction
  <2> QED BY <2>3 DEF T
<1>2. ASSUME NEW m \in Nat, NEW n \in Nat, NEW g \in Upto(m), NEW h \in Upto(n)
      PROVE  \A k \in Nat : k <= m /\ k <= n => g[k] = h[k]
  <2> DEFINE T == {k \in Nat : k <= m /\ k <= n => g[k] = h[k]}
  <2>1. 0 \in T
    BY DEF Recurses
  <2>2. ASSUME NEW k \in Nat, k \in T PROVE k + 1 \in T
    <3> SUFFICES ASSUME k + 1 <= m, k + 1 <= n PROVE g[k + 1] = h[k + 1]
      OBVIOUS
    <3>1. g[k] = h[k] /\ k \in 0 .. m - 1 /\ k \in 0 .. n - 1
      BY <2>2
    <3> QED BY <3>1 DEF Recurses
  <2> HIDE DEF T
  <2>3. Nat \subseteq T
    BY <2>1, <2>2, SetInduction
  <2> QED BY <2>3 DEF T
<1> DEFINE F == [n \in Nat |-> CHOOSE g : g \in Upto(n)]
<1>3. ASSUME NEW n \in Nat PROVE F[n] \in Upto(n)
  BY <1>1
<1> DEFINE f == [n \in Nat |-> F[n][n]]
<1> HIDE DEF F
<1>4. f \in [Nat -> V]
  <2>1. ASSUME NEW n \in Nat PROVE F[n][n] \in V
    BY <1>3
  <2> QED BY <2>1
<1>5. f[0] = init
  BY <1>3 DEF Recurses
<1>6. ASSUME NEW k \in Nat PROVE f[k + 1] = step[k + 1][f[k]]
  <2>1. F[k] \in Upto(k) /\ F[k + 1] \in Upto(k + 1)
    BY <1>3
  <2> HIDE DEF Upto
  <2>2. F[k + 1][k] = F[k][k]
    <3>1. k + 1 \in Nat
      OBVIOUS
    <3>2. \A j \in Nat : j <= k + 1 /\ j <= k => F[k + 1][j] = F[k][j]
      BY <2>1, <3>1, <1>2
    <3> QED BY <3>2
  <2> USE DEF Upto
  <2>3. F[k + 1][k + 1] = step[k + 1][F[k + 1][k]]
    BY <2>1 DEF Recurses
  <2> QED BY <2>2, <2>3
<1> HIDE DEF f
<1> QED BY <1>4, <1>5, <1>6 DEF Recursion

-----------------------------------------------------------------------------
(* Division.                                                                *)

\* Quotient and remainder are the only ones with the remainder in range.
LEMMA QuotientUnique ==
  ASSUME NEW d \in Nat \ {0}, NEW q \in Int, NEW r \in 0 .. d - 1
  PROVE  (d * q + r) \div d = q /\ (d * q + r) % d = r
OBVIOUS

\* What div and mod are defined by.
LEMMA Division ==
  ASSUME NEW d \in Nat \ {0}, NEW n \in Int
  PROVE  /\ n \div d \in Int /\ n % d \in 0 .. d - 1
         /\ n = d * (n \div d) + (n % d)
OBVIOUS

\* Multiples of the divisor do not change the remainder.
LEMMA ModPlus ==
  ASSUME NEW d \in Nat \ {0}, NEW n \in Int, NEW k \in Int
  PROVE  (n + d * k) % d = n % d /\ (n + d * k) \div d = (n \div d) + k
<1> DEFINE q == n \div d
           r == n % d
<1>1. q \in Int /\ r \in 0 .. d - 1 /\ n = d * q + r
  BY Division
<1> HIDE DEF q, r
<1>2. q + k \in Int /\ n + d * k = d * (q + k) + r
  BY <1>1
<1>3. (d * (q + k) + r) % d = r /\ (d * (q + k) + r) \div d = q + k
  BY <1>1, <1>2, QuotientUnique
<1> QED BY <1>2, <1>3 DEF q, r

\* Division by a product, one factor after the other.
LEMMA DivDiv ==
  ASSUME NEW a \in Nat \ {0}, NEW b \in Nat \ {0}, NEW n \in Int
  PROVE  /\ (n \div a) \div b = n \div (a * b)
         /\ n % (a * b) = a * ((n \div a) % b) + (n % a)
         /\ (n % (a * b)) \div a = (n \div a) % b
         /\ (n % (a * b)) % a = n % a
<1> DEFINE q == n \div a
           r == n % a
           p == q \div b
           s == q % b
<1>1. q \in Int /\ r \in 0 .. a - 1 /\ n = a * q + r
  BY Division
<1> HIDE DEF q, r
<1>2. p \in Int /\ s \in 0 .. b - 1 /\ q = b * p + s
  BY <1>1, Division
<1> HIDE DEF p, s
<1>3. a * b \in Nat \ {0} /\ a * s + r \in 0 .. a * b - 1
  <2>1. a * s <= a * (b - 1) /\ a * s \in Nat
    BY <1>2
  <2>2. a * (b - 1) = a * b - a
    OBVIOUS
  <2> QED BY <1>1, <2>1, <2>2
<1>4. n = (a * b) * p + (a * s + r)
  <2>1. a * q = a * (b * p) + a * s
    BY <1>1, <1>2
  <2> QED BY <1>1, <1>2, <2>1
<1>5. n \div (a * b) = p /\ n % (a * b) = a * s + r
  BY <1>2, <1>3, <1>4, QuotientUnique
<1>6. (a * s + r) \div a = s /\ (a * s + r) % a = r
  BY <1>1, <1>2, QuotientUnique
<1> QED BY <1>5, <1>6 DEF p, s, q, r
=============================================================================
