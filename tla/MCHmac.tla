------------------------------- MODULE MCHmac -------------------------------
(* A small Hmac: blocks of 4 bytes, digests of 3, a length of 2.             *)
EXTENDS Hmac, SequencesExt

MCByte == 0 .. 96
MCXor(byte, mask) == (byte + mask) % 97
MCLengthField(high, low) == <<high, low>>

\* A digest that differs for the blocks of these texts.
Mix(n, byte) == (n * 31 + byte + 7) % 9409
MCDigest(blocks) ==
    LET h == FoldLeft(LAMBDA n, b : Mix(Mix(Mix(Mix(n, b[0]), b[1]), b[2]), b[3]), 1, blocks)
    IN  <<h % 97, h \div 97, (h * 3 + Len(blocks)) % 97>>

\* Keys shorter than a block, as long, longer, and longer than two with the padding.
MCKeys == {<<>>, <<1, 2>>, <<1, 2, 3, 4>>, <<1, 2, 3, 4, 5>>, <<1, 2, 3, 4, 5, 6>>,
           <<1, 2, 3, 4, 5, 6, 7>>}
MCPieces == UNION {[1 .. n -> {1, 2}] : n \in 0 .. 3}

\* The length field is what the theorems suppose.
ASSUME MCFieldAssumption == FieldIsBytes
=============================================================================
