------------------------------ MODULE MCFraming ------------------------------
(***************************************************************************)
(* Values for Framing: nine pieces, so that a bitset has a second byte with *)
(* spare bits, and messages about the pieces at the ends of both bytes.    *)
(* A piece has three bytes and two blocks; a file ends in the first block  *)
(* of piece 0.                                                             *)
(***************************************************************************)
EXTENDS Framing

MCPieceSize == [p \in 0 .. 8 |-> 3]
MCFileEnd == [p \in 0 .. 8 |-> IF p = 0 THEN 1 ELSE 0]

Msg(type, length) ==
  [size |-> length, type |-> type, id |-> 0, begin |-> 0, bytes |-> << >>]

Have(id) == [Msg("have", 5) EXCEPT !.id = id]

Bitfield(data) == [Msg("bitfield", 1 + Len(data)) EXCEPT !.bytes = data]

Block(p, offset, length) ==
  [Msg("piece", 9 + length) EXCEPT !.id = p, !.begin = offset]

\* Bitfields that are right, short, empty, too long, and with a spare bit set.
MCBitfields ==
  {Bitfield(<<{0, 7}, {7}>>), Bitfield(<<{7}>>), Bitfield(<< >>),
   Bitfield(<<{0}, {}, {}>>), Bitfield(<<{}, {3, 7}>>)}

\* Blocks of both lengths, an empty one, one too long for its piece, and a
\* message that is too short.
MCBlocks ==
  {Block(0, 0, 2), Block(0, 2, 1), Block(8, 0, 2), Block(8, 2, 0), Block(8, 2, 2),
   [Msg("piece", 8) EXCEPT !.id = 8]}

MCMessages ==
  {Msg("keep_alive", 0), Msg("choke", 1), Msg("request", 13), Msg("cancel", 1),
   Msg("invalid", 2), Have(0), Have(7), Have(8), Have(9), Msg("have", 6)}
    \cup MCBitfields \cup MCBlocks
=============================================================================
