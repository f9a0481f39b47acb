------------------------------ MODULE HashInt ------------------------------
(***************************************************************************)
(* HASH_INT::Calc (test/main.cpp), the hash the benchmark driver gives    *)
(* the tables.  An int is a 32-bit two's complement word, held as the     *)
(* function from bit index to bit: TLC's integers stop at 2^31 - 1, short  *)
(* of the unsigned hash.                                                   *)
(***************************************************************************)
EXTENDS Integers

Bits == 0 .. 31

\* A non-negative int key as its word.
ToWord(n) == [i \in Bits |-> IF i = 31 THEN 0 ELSE (n \div 2 ^ i) % 2]

\* The value of bits 0 .. n - 1 of a word.
LowBits(w, n) == LET RECURSIVE V(_) V(i) == IF i = n THEN 0 ELSE w[i] * 2 ^ i + V(i + 1)
                 IN V(0)

XorW(a, b) == [i \in Bits |-> (a[i] + b[i]) % 2]

\* key << s: the bits shifted out of the word are lost.
ShiftL(w, s) == [i \in Bits |-> IF i >= s THEN w[i - s] ELSE 0]

\* key >> s on an int: gcc shifts arithmetically, copying the sign bit in.
ShiftRA(w, s) == [i \in Bits |-> IF i + s <= 31 THEN w[i + s] ELSE w[31]]

\* a + b on ints: the carry out of bit 31 is lost (signed overflow, which
\* gcc compiles as the two's complement wrap).
AddW(a, b) ==
  LET RECURSIVE Carry(_)
      Carry(i) == IF i = 0 THEN 0 ELSE (a[i - 1] + b[i - 1] + Carry(i - 1)) \div 2
  IN  [i \in Bits |-> (a[i] + b[i] + Carry(i)) % 2]

\* 0xcd7dcd7d: 0x4d7dcd7d with the sign bit set.
Salt == [ToWord(\h4d7dcd7d) EXCEPT ![31] = 1]

(* HASH_INT::Calc: six xor-shift rounds on the key.                        *)
CalcWord(key) ==
  LET k0 == ToWord(key)
      k1 == XorW(k0, XorW(ShiftL(k0, 15), Salt))
      k2 == XorW(k1, ShiftRA(k1, 10))
      k3 == XorW(k2, ShiftL(k2, 3))
      k4 == XorW(k3, ShiftRA(k3, 6))
      k5 == XorW(k4, AddW(ShiftL(k4, 2), ShiftL(k4, 14)))
  IN  XorW(k5, ShiftRA(k5, 16))

(* The tables use a hash only through & _bucketMask, & _segmentMask (masks *)
(* below 2^31) and ==; they are given Calc's low 31 bits.                 *)
Calc(key) == LowBits(CalcWord(key), 31)

=============================================================================
