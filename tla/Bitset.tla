------------------------------- MODULE Bitset -------------------------------
(***************************************************************************)
(* The bitset of bitset.c and bitset_clear.c: a sequence of bytes, the     *)
(* first index in the highest bit of the first byte, as the bitfield       *)
(* message has it.  A byte is the set of the exponents of its bits, so     *)
(* that 1 << k is {k}, and the masks of the code are set operations.       *)
(***************************************************************************)
EXTENDS Integers, Sequences

CHAR_BIT == 8

Byte == SUBSET (0 .. CHAR_BIT - 1)

BITSET_BSIZE(size) == (size + CHAR_BIT - 1) \div CHAR_BIT

\* The data of a bitset of `size' bits.
Bitset(size) == [1 .. BITSET_BSIZE(size) -> Byte]

\* A faulty variant of BIT_OFF: the lowest bit first.
BIT_OFF_LOW(i) == i % CHAR_BIT

\* The place of the byte in the sequence, and of the bit in the byte.
BYTE_OFF(i) == (i \div CHAR_BIT) + 1
BIT_OFF(i) == CHAR_BIT - 1 - (i % CHAR_BIT)

\* bitset_create, and bitset_clear.
Cleared(size) == [k \in 1 .. BITSET_BSIZE(size) |-> {}]

Get(bset, i) == BIT_OFF(i) \in bset[BYTE_OFF(i)]

Set(bset, i, val) ==
  [bset EXCEPT ![BYTE_OFF(i)] = (@ \ {BIT_OFF(i)}) \cup (IF val THEN {BIT_OFF(i)} ELSE {})]

\* Bytes that overwrite the beginning of a bitset: bitset_update, and the
\* receipt of a bitfield message.
Update(bset, bytes) ==
  [k \in DOMAIN bset |-> IF k <= Len(bytes) THEN bytes[k] ELSE bset[k]]
=============================================================================
