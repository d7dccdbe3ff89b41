-------------------------------- MODULE Bits --------------------------------
(***************************************************************************)
(* The 64 bit array of libs/bit/bit.c: eight bytes of bits and a mask of   *)
(* the bytes that are not zero.  Bytes are numbers.                        *)
(***************************************************************************)
EXTENDS Integers, FiniteSetsExt

CONSTANT Indices            \* bound: the bits that are set and cleared, in 0 .. 63

VARIABLES bytes, bits,
          members           \* history: the bits that are set

vars == <<bytes, bits, members>>

Init == bytes = 0 /\ bits = [i \in 0 .. 7 |-> 0] /\ members = {}

IsSet(byte, k) == (byte \div 2 ^ k) % 2 = 1
With(byte, k) == IF IsSet(byte, k) THEN byte ELSE byte + 2 ^ k
Without(byte, k) == IF IsSet(byte, k) THEN byte - 2 ^ k ELSE byte

\* am_bit_u64_set
SetBit(n) ==
  /\ bytes' = With(bytes, n \div 8)
  /\ bits' = [bits EXCEPT ![n \div 8] = With(@, n % 8)]
  /\ members' = members \cup {n}

\* Mutant: the byte is taken out of the mask with any of its bits.
ClearBitEager(n) ==
  /\ bits' = [bits EXCEPT ![n \div 8] = Without(@, n % 8)]
  /\ bytes' = Without(bytes, n \div 8)
  /\ members' = members \ {n}

\* am_bit_u64_clear
ClearBit(n) ==
  /\ bits' = [bits EXCEPT ![n \div 8] = Without(@, n % 8)]
  /\ bytes' = IF bits'[n \div 8] # 0 THEN bytes ELSE Without(bytes, n \div 8)
  /\ members' = members \ {n}

\* am_bit_u64_is_empty
IsEmpty == bytes = 0

Next == \E n \in Indices : SetBit(n) \/ ClearBit(n)

Spec == Init /\ [][Next]_vars

-----------------------------------------------------------------------------
\* am_bit_msb_from_u4, the first sixteen entries.
MsbFromU4 == <<0, 0, 1, 1, 2, 2, 2, 2, 3, 3, 3, 3, 3, 3, 3, 3>>

\* am_bit_u8_msb
U8Msb(u8) ==
  IF u8 \div 16 # 0 THEN 4 + MsbFromU4[(u8 \div 16) + 1] ELSE MsbFromU4[(u8 % 16) + 1]

\* am_bit_u64_msb
U64Msb == U8Msb(bits[U8Msb(bytes)]) + (U8Msb(bytes) * 8)

\* The redundant mask agrees with the bits after any sequence of calls: the array
\* is empty when the mask is, and the mask leads to the highest bit that is set,
\* the subscriber that a publish serves first.
BitsExact ==
  /\ \A i \in 0 .. 7 : IsSet(bytes, i) <=> bits[i] # 0
  /\ IsEmpty <=> members = {}
  /\ members # {} => U64Msb = Max(members)

=============================================================================
