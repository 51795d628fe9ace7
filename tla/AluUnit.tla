------------------------------ MODULE AluUnit ------------------------------
(***************************************************************************)
(* The ALU (alu.sv) and the adder it uses (adder.sv), bit-accurate, for    *)
(* words of Width bits (32 in the RTL) whose shift amount is the low       *)
(* ShiftWidth bits of b_in (5).  A word is a number below 2^Width; a flag  *)
(* is 0 or 1.  Result and ALUFlags are combinational, as in the RTL.       *)
(***************************************************************************)
EXTENDS Integers

CONSTANTS Width, ShiftWidth

ASSUME WidthAssumption ==
  /\ Width \in Nat /\ Width >= 2
  /\ ShiftWidth \in Nat /\ ShiftWidth >= 1

\* The powers of two, as a function that a proof can unfold.
Two[k \in Nat] == IF k = 0 THEN 1 ELSE 2 * Two[k - 1]

WordSize == Two[Width]
Word     == 0 .. WordSize - 1
MinInt   == Two[Width - 1]
AllOnes  == WordSize - 1

ADD == 0
SUB == 1
AND == 2
OR == 3
XOR == 4
SLT == 5
SLL == 6
SRL == 7
SRA == 8
SLTU == 9
BRU == 10
MUL == 16
MULH == 17
MULHSU == 18
MULHU == 19
DIV == 20
DIVU == 21
REM == 22
REMU == 23

Msb(x)    == x \div MinInt
Signed(x) == IF Msb(x) = 1 THEN x - WordSize ELSE x
Not(x)    == AllOnes - x
Bit(x, k) == (x \div Two[k]) % 2

\* The number made of the lowest k bits, and the word whose bits are bit.
LowBits(bit) ==
  LET low[k \in 0 .. Width] ==
        IF k = 0 THEN 0 ELSE low[k - 1] + Two[k - 1] * bit[k - 1]
  IN  low
FromBits(bit) == LowBits(bit)[Width]

-----------------------------------------------------------------------------
(* adder.sv with ci = 0: c_msb is the carry out of the top bit, c_30 the    *)
(* carry into it.                                                           *)

\* Fault: V is taken from the top carry alone.
Adder_CarryForOverflow(a, b) ==
  LET sum == (a + b) % WordSize
      c_msb == (a + b) \div WordSize
  IN  [sum |-> sum, N |-> Msb(sum), Z |-> IF sum = 0 THEN 1 ELSE 0,
       C |-> c_msb, V |-> c_msb]

Adder(a, b) ==
  LET sum   == (a + b) % WordSize
      c_msb == (a + b) \div WordSize
      c_30  == ((a % MinInt) + (b % MinInt)) \div MinInt
  IN  [sum |-> sum, N |-> Msb(sum), Z |-> IF sum = 0 THEN 1 ELSE 0,
       C |-> c_msb, V |-> (c_msb + c_30) % 2]

\* Fault: the operand is complemented but not incremented.
AddSubB_OnesComplement(c, b_in) ==
  IF c \in {SUB, SLT, SLTU, BRU} THEN Not(b_in) ELSE b_in

\* Fault: SLT is missing from the list of subtracting codes.
AddSubB_SltMissing(c, b_in) ==
  IF c \in {SUB, SLTU, BRU} THEN (Not(b_in) + 1) % WordSize ELSE b_in

\* The operand is negated as a word before it reaches the adder.
AddSubB(c, b_in) ==
  IF c \in {SUB, SLT, SLTU, BRU} THEN (Not(b_in) + 1) % WordSize ELSE b_in

CoutSub(a_in, b_in) == (a_in + Not(b_in) + 1) \div WordSize

-----------------------------------------------------------------------------
(* RV32M.  Verilog evaluates the mixed product sA64 * uB64 as unsigned,     *)
(* hence the sign-extended operand taken modulo 2^(2 * Width).              *)

Low(p)  == p % WordSize
High(p) == (p \div WordSize) % WordSize

MulSS(a, b) == Signed(a) * Signed(b)
\* Fault: the sign extension of rs1 is dropped.
MulSU_ZeroExtended(a, b) == a * b

MulSU(a, b) == (Signed(a) % (WordSize * WordSize)) * b
MulUU(a, b) == a * b

\* Verilog's signed division truncates towards zero, and the remainder has
\* the sign of the dividend.
Magnitude(x) == IF x < 0 THEN -x ELSE x
Quotient(x, y) ==
  LET q == Magnitude(x) \div Magnitude(y)
  IN  IF (x < 0) = (y < 0) THEN q ELSE -q
Remainder(x, y) ==
  LET r == Magnitude(x) % Magnitude(y) IN IF x < 0 THEN -r ELSE r

\* Fault: the remainder takes the sign of the divisor (floored division).
RemS_Floored(a, b) ==
  IF b = 0 THEN a
  ELSE IF a = MinInt /\ b = AllOnes THEN 0
  ELSE (LET m == Magnitude(Signed(b))
            r == Signed(a) % m
        IN  IF Signed(b) < 0 /\ r # 0 THEN r - m ELSE r) % WordSize

DivS(a, b) ==
  IF b = 0 THEN AllOnes
  ELSE IF a = MinInt /\ b = AllOnes THEN MinInt
  ELSE Quotient(Signed(a), Signed(b)) % WordSize

RemS(a, b) ==
  IF b = 0 THEN a
  ELSE IF a = MinInt /\ b = AllOnes THEN 0
  ELSE Remainder(Signed(a), Signed(b)) % WordSize

DivU(a, b) == IF b = 0 THEN AllOnes ELSE a \div b
RemU(a, b) == IF b = 0 THEN a ELSE a % b

-----------------------------------------------------------------------------
(* Logic and shifts.                                                        *)

And(a, b) == FromBits([k \in 0 .. Width - 1 |-> Bit(a, k) * Bit(b, k)])
Or(a, b)  == a + b - And(a, b)
Xor(a, b) == a + b - 2 * And(a, b)

Shamt(b)  == b % Two[ShiftWidth]
Sll(a, b) == (a * Two[Shamt(b)]) % WordSize
Srl(a, b) == a \div Two[Shamt(b)]

\* Fault: the operand's signedness is lost in the expression.
Sra_Logical(a, b) == Srl(a, b)

\* Fault: the shifted-in sign bits are not cut to the word.
Sra_Unmasked(a, b) == Signed(a) \div Two[Shamt(b)]

Sra(a, b) == (Signed(a) \div Two[Shamt(b)]) % WordSize

-----------------------------------------------------------------------------
(* The flags and the result.                                                *)

\* SLT_result = aN ^ aV of the subtraction.
SltResult(a, b) == LET s == Adder(a, AddSubB(SLT, b)) IN (s.N + s.V) % 2
SltuResult(a, b) == IF CoutSub(a, b) = 0 THEN 1 ELSE 0

Result(c, a_in, b_in) ==
  CASE c \in {ADD, SUB} -> Adder(a_in, AddSubB(c, b_in)).sum
    [] c = AND    -> And(a_in, b_in)
    [] c = OR     -> Or(a_in, b_in)
    [] c = XOR    -> Xor(a_in, b_in)
    [] c = SLT    -> SltResult(a_in, b_in)
    [] c = SLL    -> Sll(a_in, b_in)
    [] c = SRL    -> Srl(a_in, b_in)
    [] c = SRA    -> Sra(a_in, b_in)
    [] c = SLTU   -> SltuResult(a_in, b_in)
    [] c = MUL    -> Low(MulSS(a_in, b_in))
    [] c = MULH   -> High(MulSS(a_in, b_in))
    [] c = MULHSU -> High(MulSU(a_in, b_in))
    [] c = MULHU  -> High(MulUU(a_in, b_in))
    [] c = DIV    -> DivS(a_in, b_in)
    [] c = DIVU   -> DivU(a_in, b_in)
    [] c = REM    -> RemS(a_in, b_in)
    [] c = REMU   -> RemU(a_in, b_in)

\* Flags of the codes that drive them from the adder, and of the others.
ALUFlags(c, a_in, b_in) ==
  LET s == Adder(a_in, AddSubB(c, b_in))
      r == Result(c, a_in, b_in)
  IN  CASE c \in {ADD, SUB, SLT, SLTU} -> [N |-> s.N, Z |-> s.Z, C |-> s.C, V |-> s.V]
        [] c = BRU -> [N |-> s.N, Z |-> s.Z, C |-> CoutSub(a_in, b_in), V |-> s.V]
        [] OTHER   -> [N |-> Msb(r), Z |-> IF r = 0 THEN 1 ELSE 0, C |-> 0, V |-> 0]
=============================================================================
