----------------------------- MODULE LanesCheck -----------------------------
(***************************************************************************)
(* Sub-word loads and stores against the memory as a sequence of bytes:    *)
(* one word of memory, a store of every width at every offset, then every  *)
(* load of it.                                                             *)
(***************************************************************************)
EXTENDS ByteLanes

VARIABLES
  bytes,   (* The byte-addressed memory: what the program expects.          *)
  word     (* The word of the RAM.                                          *)

vars == <<bytes, word>>

Word == 0 .. WordSize - 1

Init == bytes = [i \in 0 .. 3 |-> 0] /\ word = 0

\* sb, sh and sw of the value d at offset a.  A program stores halfwords and
\* words at aligned addresses only.
Aligned(a, funct3) == a % (2 ^ (funct3 % 4)) = 0

StoreTo(a, funct3, d) ==
  /\ Aligned(a, funct3)
  /\ bytes' = [i \in 0 .. 3 |-> IF i \in a .. a + 2 ^ funct3 - 1
                               THEN Lane(d, i - a) ELSE bytes[i]]
  /\ word' = RamWrite(word, ByteEnable(a, funct3), BE_WD(a, funct3, d))

Next == \E a \in 0 .. 3, funct3 \in 0 .. 2, d \in Word : StoreTo(a, funct3, d)

Spec == Init /\ [][Next]_vars

\* The RAM word stays a word, and the bytes bytes.
TypeOK == word \in Word /\ bytes \in [0 .. 3 -> Byte]

\* After any sequence of stores the word holds, in little-endian order, the
\* bytes the program stored: no store touches a byte it does not own.
StoresHitTheirBytes == \A i \in 0 .. 3 : Lane(word, i) = bytes[i]

\* Value of a load of 1, 2 or 4 bytes at a, from the bytes.
Value(a, funct3) ==
  LET half == bytes[a] + ByteSize * bytes[a + 1]
  IN  CASE funct3 % 4 = 0 -> bytes[a]
        [] funct3 % 4 = 1 -> half
        [] OTHER -> bytes[0] + ByteSize * (bytes[1] + ByteSize * (bytes[2] + ByteSize * bytes[3]))

\* Every aligned load returns what the last stores left in its bytes, sign-
\* extended by lb and lh and zero-extended by lbu and lhu.
LoadsReturnStored ==
  \A a \in 0 .. 3, funct3 \in {0, 1, 2, 4, 5} :
    Aligned(a, funct3) =>
      LET v    == Value(a, funct3)
          size == IF funct3 % 4 = 0 THEN ByteSize ELSE HalfSize
          negative == funct3 \in {0, 1} /\ 2 * v >= size
      IN  BE_RD(a, funct3, word) = IF negative THEN v - size + WordSize ELSE v
=============================================================================
