------------------------------- MODULE Sha256 -------------------------------
(***************************************************************************)
(* cryptlite__::sha256: a context that takes a text byte by byte, works on *)
(* it in blocks, and pads it when the result is asked for.                 *)
(*                                                                         *)
(* The arithmetic on a block is left out: what has been worked on is kept  *)
(* as the sequence of blocks, and Digest is any function of it.            *)
(***************************************************************************)
EXTENDS Naturals, Sequences

CONSTANTS
    Byte,
    Zero, PadByte,       \* the bytes 0 and 0x80
    Junk,                \* what a new block happens to hold
    BlockSize,           \* BLOCK_SIZE, 64
    HashSize,            \* HASH_SIZE, 32
    LengthSize,          \* bytes of the length at the end of a text, 8
    HalfLength,          \* the limit of each half of the length, 2^32
    LengthField(_, _),   \* the bytes of the two halves
    Digest(_)            \* the digest after a sequence of blocks

ASSUME Sha256Assumption ==
    /\ {Zero, PadByte, Junk} \subseteq Byte
    /\ BlockSize \in Nat /\ HashSize \in Nat /\ LengthSize \in Nat /\ HalfLength \in Nat
    /\ 0 < LengthSize /\ LengthSize < BlockSize
    /\ 8 < HalfLength /\ HalfLength % 8 = 0

Index == 0 .. BlockSize - 1
Block == [Index -> Byte]

\* What the theorems suppose of the two functions that are left open.
FieldIsBytes ==
    \A high, low \in 0 .. HalfLength - 1 : LengthField(high, low) \in [1 .. LengthSize -> Byte]
DigestIsBytes ==
    \A blocks \in Seq(Block) : Digest(blocks) \in [1 .. HashSize -> Byte]

Context ==
    [computed_ : BOOLEAN, corrupted_ : BOOLEAN,
     length_low_ : 0 .. HalfLength - 1, length_high_ : 0 .. HalfLength - 1,
     message_block_index_ : Index, intermediate_hash_ : Seq(Block), message_block_ : Block]

\* A context with a block that is not used yet.
Started(block) ==
    [computed_ |-> FALSE, corrupted_ |-> FALSE, length_low_ |-> 0, length_high_ |-> 0,
     message_block_index_ |-> 0, intermediate_hash_ |-> <<>>, message_block_ |-> block]

New == Started([j \in Index |-> Junk])

\* sha256::reset leaves the block as it is.
Reset(c) == Started(c.message_block_)

process_message_block(c) ==
    [c EXCEPT !.intermediate_hash_ = Append(@, c.message_block_),
              !.message_block_index_ = 0]

\* SHA256_ADD_LENGTH: one more byte, counted in bits in two halves.
Carries(c) == c.length_low_ + 8 >= HalfLength

AddLength(c) ==
    [c EXCEPT !.length_low_ = IF Carries(c) THEN c.length_low_ + 8 - HalfLength ELSE @ + 8,
              !.length_high_ = IF Carries(c) THEN (@ + 1) % HalfLength ELSE @,
              !.corrupted_ = Carries(c) /\ (c.length_high_ + 1) % HalfLength = 0]

\* A byte goes to the block, and a full block is worked on.
Put(c, byte) ==
    [c EXCEPT !.message_block_[c.message_block_index_] = byte,
              !.message_block_index_ = @ + 1]

\* One turn of the loop in input.
InputByte(c, byte) ==
    LET counted == AddLength(Put(c, byte))
    IN  IF ~counted.corrupted_ /\ counted.message_block_index_ = BlockSize
        THEN process_message_block(counted) ELSE counted

\* Zeros from where the block is filled up to end.
ZeroUpTo(c, end) ==
    [c EXCEPT !.message_block_ = [j \in Index |-> IF j \in c.message_block_index_ .. end - 1
                                                  THEN Zero ELSE c.message_block_[j]]]

WithLength(c) ==
    [c EXCEPT !.message_block_ =
        [j \in Index |-> IF j < BlockSize - LengthSize THEN c.message_block_[j]
                         ELSE LengthField(c.length_high_, c.length_low_)
                                  [j - (BlockSize - LengthSize) + 1]]]

\* Mutant: the mark is thought to fit where the length begins.
pad_message_late(c) ==
    LET marked == Put(c, PadByte)
        begun  == IF c.message_block_index_ > BlockSize - LengthSize
                  THEN process_message_block(ZeroUpTo(marked, BlockSize)) ELSE marked
    IN  process_message_block(WithLength(ZeroUpTo(begun, BlockSize - LengthSize)))

\* The mark, zeros and the length, in one block or two.
pad_message(c) ==
    LET marked == Put(c, PadByte)
        begun  == IF c.message_block_index_ >= BlockSize - LengthSize
                  THEN process_message_block(ZeroUpTo(marked, BlockSize)) ELSE marked
    IN  process_message_block(WithLength(ZeroUpTo(begun, BlockSize - LengthSize)))

finalize(c) ==
    [pad_message(c) EXCEPT !.message_block_ = [j \in Index |-> Zero],
                           !.length_low_ = 0, !.length_high_ = 0, !.computed_ = TRUE]

\* sha256::result; a corrupted context gives none.
result(c) == IF c.corrupted_ \/ c.computed_ THEN c ELSE finalize(c)

-----------------------------------------------------------------------------
(* The blocks of a text, as FIPS 180-4 says: a mark, the fewest zeros, and   *)
(* the length fill the last block.                                           *)

BlockCount(text) == (Len(text) + LengthSize) \div BlockSize + 1

PaddedByte(text, i) ==
    LET begin == BlockSize * BlockCount(text) - LengthSize IN
    IF i <= Len(text) THEN text[i]
    ELSE IF i = Len(text) + 1 THEN PadByte
    ELSE IF i <= begin THEN Zero
    ELSE LengthField((8 * Len(text)) \div HalfLength, (8 * Len(text)) % HalfLength)[i - begin]

Blocks(text) ==
    [b \in 1 .. BlockCount(text) |->
        [j \in Index |-> PaddedByte(text, BlockSize * (b - 1) + j + 1)]]

\* The digest of a text.
Sha(text) == Digest(Blocks(text))

\* Texts whose length in bits fits in both halves.
Short(length) == 8 * length < HalfLength * HalfLength
=============================================================================
