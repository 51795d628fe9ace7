----------------------------- MODULE ByteLanes -----------------------------
(***************************************************************************)
(* be_logic and the byte-enabled write of the RAM: how a load picks its    *)
(* byte or halfword out of the word read, and how a store merges its own   *)
(* into the word written.  A word is four lanes of one byte; a byte is a   *)
(* number below ByteSize (2^8 in the RTL).                                 *)
(***************************************************************************)
EXTENDS Integers

CONSTANT ByteSize

ASSUME ByteSizeAssumption == ByteSize \in Nat \ {0} /\ ByteSize % 2 = 0

Byte     == 0 .. ByteSize - 1
HalfSize == ByteSize * ByteSize
WordSize == HalfSize * HalfSize

LaneBase == <<1, ByteSize, HalfSize, HalfSize * ByteSize>>

Lane(w, i) == (w \div LaneBase[i + 1]) % ByteSize
Half(w, h) == (w \div LaneBase[2 * h + 1]) % HalfSize

\* {{24{RD[7]}}, RD[7:0]} and its halfword counterpart.
SignExtend(v, size) == IF v >= size \div 2 THEN WordSize - size + v ELSE v

-----------------------------------------------------------------------------
(* be_logic.  A halfword access ignores the low address bit.                *)

\* Fault: lbu sign-extends like lb.
BE_RD_SignedByte(AddrLast2, funct3, RD) ==
  CASE funct3 \in {0, 4} -> SignExtend(Lane(RD, AddrLast2), ByteSize)
    [] funct3 = 1 -> SignExtend(Half(RD, AddrLast2 \div 2), HalfSize)
    [] funct3 = 2 -> RD
    [] funct3 = 5 -> Half(RD, AddrLast2 \div 2)
    [] OTHER      -> 0

BE_RD(AddrLast2, funct3, RD) ==
  CASE funct3 = 0 -> SignExtend(Lane(RD, AddrLast2), ByteSize)
    [] funct3 = 1 -> SignExtend(Half(RD, AddrLast2 \div 2), HalfSize)
    [] funct3 = 2 -> RD
    [] funct3 = 4 -> Lane(RD, AddrLast2)
    [] funct3 = 5 -> Half(RD, AddrLast2 \div 2)
    [] OTHER      -> 0

BE_WD(AddrLast2, funct3, WD) ==
  CASE funct3 = 0 -> (WD % ByteSize) * LaneBase[AddrLast2 + 1]
    [] funct3 = 1 -> (WD % HalfSize) * LaneBase[2 * (AddrLast2 \div 2) + 1]
    [] funct3 = 2 -> WD
    [] OTHER      -> 0

\* Fault: sh always enables the low half.
ByteEnable_LowHalf(AddrLast2, funct3) ==
  CASE funct3 = 0 -> {AddrLast2}
    [] funct3 = 1 -> {0, 1}
    [] OTHER      -> 0 .. 3

\* The lanes whose enable bit is set; a reserved width enables all four.
ByteEnable(AddrLast2, funct3) ==
  CASE funct3 = 0 -> {AddrLast2}
    [] funct3 = 1 -> IF AddrLast2 < 2 THEN {0, 1} ELSE {2, 3}
    [] OTHER      -> 0 .. 3

-----------------------------------------------------------------------------
(* The RAM's write port.                                                    *)

\* Fault: the lane enables are ignored.
RamWrite_WholeWord(old, wbe, d) == d

\* mem[addr1][i*8 +: 8] <= d1[i*8 +: 8] for each enabled lane i.
RamWrite(old, wbe, d) ==
  LET lane(i) == LaneBase[i + 1] * Lane(IF i \in wbe THEN d ELSE old, i)
  IN  lane(0) + lane(1) + lane(2) + lane(3)
=============================================================================
