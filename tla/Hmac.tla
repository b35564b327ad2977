-------------------------------- MODULE Hmac --------------------------------
(***************************************************************************)
(* cryptlite__::hmac<sha256>, behind chef::crypto_hmac_sha256, with which  *)
(* the handshake signs its blocks: a key, any number of updates, a result. *)
(*                                                                         *)
(* The loop of sha256::input is one step for each byte.                    *)
(***************************************************************************)
EXTENDS Sha256

CONSTANTS
    Keys,                 \* keys the callers use
    Pieces,               \* what they pass to update
    Xor(_, _),
    InnerPad, OuterPad,   \* the bytes 0x36 and 0x5c
    MaxText               \* the longest text (bound)

ASSUME HmacAssumption ==
    /\ HashSize <= BlockSize /\ MaxText \in Nat
    /\ Keys \subseteq Seq(Byte) /\ Pieces \subseteq Seq(Byte)
    /\ \A byte \in Byte : Xor(byte, InnerPad) \in Byte /\ Xor(byte, OuterPad) \in Byte
    /\ Short(BlockSize + MaxText) /\ Short(BlockSize + HashSize)
    /\ \A k \in Keys : Short(Len(k))

VARIABLES
    hasher_, k_opad_,
    todo,        \* bytes that the input under way has still to take
    fed,         \* history: bytes the context took since it was started
    step,        \* what the context is used for
    key, text,   \* history: the key, and what was passed to update
    mac          \* the result, or NoCode

vars == <<hasher_, k_opad_, todo, fed, step, key, text, mac>>

NoCode == <<>>

TypeOK ==
    /\ hasher_ \in Context
    /\ k_opad_ \in Seq(Byte)
    /\ todo \in Seq(Byte) /\ fed \in Seq(Byte)
    /\ step \in {"key", "inner", "outer", "done"}
    /\ key \in Keys /\ text \in Seq(Byte)
    /\ mac \in {NoCode} \cup [1 .. HashSize -> Byte]

\* A key, filled up to a block, under one of the two masks.
Pad(k, mask) ==
    [i \in 1 .. BlockSize |-> Xor(IF i <= Len(k) THEN k[i] ELSE Zero, mask)]

\* A context is started and is to take bytes for a purpose.
Take(c, bytes, purpose) ==
    /\ hasher_' = c /\ todo' = bytes /\ fed' = <<>> /\ step' = purpose

\* hmac::reset, called by the constructor.  A key longer than a block is hashed
\* first, in a context of its own; the other one is not in use yet.
Begin(k) ==
    IF Len(k) > BlockSize
    THEN Take(New, k, "key") /\ k_opad_' = <<>>
    ELSE Take(New, Pad(k, InnerPad), "inner") /\ k_opad_' = Pad(k, OuterPad)

Init ==
    /\ key \in Keys /\ text = <<>> /\ mac = NoCode
    /\ hasher_ = New /\ fed = <<>>
    /\ step = IF Len(key) > BlockSize THEN "key" ELSE "inner"
    /\ todo = IF Len(key) > BlockSize THEN key ELSE Pad(key, InnerPad)
    /\ k_opad_ = IF Len(key) > BlockSize THEN <<>> ELSE Pad(key, OuterPad)

\* One turn of the loop in sha256::input, which a context whose result was taken does
\* not enter, and which ends early when the length overflows.
Input ==
    /\ todo # <<>>
    /\ LET open == ~hasher_.computed_ /\ ~hasher_.corrupted_ IN
       /\ hasher_' = IF open THEN InputByte(hasher_, Head(todo)) ELSE hasher_
       /\ fed' = IF open THEN Append(fed, Head(todo)) ELSE fed
       /\ todo' = IF open THEN Tail(todo) ELSE <<>>
    /\ UNCHANGED <<k_opad_, step, key, text, mac>>

DigestOf(c) == Digest(result(c).intermediate_hash_)

\* reset goes on with the digest of the long key.
KeyHashed ==
    /\ step = "key" /\ todo = <<>>
    /\ Take(New, Pad(DigestOf(hasher_), InnerPad), "inner")
    /\ k_opad_' = Pad(DigestOf(hasher_), OuterPad)
    /\ UNCHANGED <<key, text, mac>>

\* hmac::input
Update(s) ==
    /\ step = "inner" /\ todo = <<>> /\ Len(text) + Len(s) <= MaxText
    /\ todo' = s /\ text' = text \o s
    /\ UNCHANGED <<hasher_, k_opad_, fed, step, key, mac>>

\* Mutant: the context is not started again for the outer hash.
Result_without_reset ==
    /\ step = "inner" /\ todo = <<>>
    /\ Take(result(hasher_), k_opad_ \o DigestOf(hasher_), "outer")
    /\ UNCHANGED <<k_opad_, key, text, mac>>

\* hmac::result, up to the second result: the inner digest follows the key under
\* the other mask.
Result ==
    /\ step = "inner" /\ todo = <<>>
    /\ Take(Reset(result(hasher_)), k_opad_ \o DigestOf(hasher_), "outer")
    /\ UNCHANGED <<k_opad_, key, text, mac>>

OuterResult ==
    /\ step = "outer" /\ todo = <<>>
    /\ hasher_' = result(hasher_) /\ mac' = DigestOf(hasher_) /\ step' = "done"
    /\ UNCHANGED <<k_opad_, todo, fed, key, text>>

\* HMACSHA256::init makes a new object for every block that is signed.
Again(k) ==
    /\ step = "done"
    /\ key' = k /\ text' = <<>> /\ mac' = NoCode
    /\ Begin(k)

Next ==
    \/ Input \/ KeyHashed \/ Result \/ OuterResult
    \/ \E s \in Pieces : Update(s)
    \/ \E k \in Keys : Again(k)

Spec == Init /\ [][Next]_vars

-----------------------------------------------------------------------------
(* Properties *)

\* HMAC as RFC 2104 says.
BlockKey(k) == IF Len(k) > BlockSize THEN Sha(k) ELSE k

Code(k, t) ==
    Sha(Pad(BlockKey(k), OuterPad) \o Sha(Pad(BlockKey(k), InnerPad) \o t))

M == INSTANCE Mac

\* However a text is cut into updates, and wherever the cuts, the ends of blocks
\* and the padding fall, the result is the HMAC of the key and the whole text
\* (hmac::reset, input and result, sha256::input, pad_message).
ImplementsMac == M!Spec

\* What the context holds is what it was fed.
Absorbed(c, bytes) ==
    LET n == BlockSize * Len(c.intermediate_hash_) IN
    /\ ~c.computed_ /\ ~c.corrupted_
    /\ Len(bytes) = n + c.message_block_index_
    /\ 8 * Len(bytes) = HalfLength * c.length_high_ + c.length_low_
    /\ \A b \in 1 .. Len(c.intermediate_hash_), j \in Index :
         c.intermediate_hash_[b][j] = bytes[BlockSize * (b - 1) + j + 1]
    /\ \A j \in 0 .. c.message_block_index_ - 1 : c.message_block_[j] = bytes[n + j + 1]

\* What a context is fed in the end.
Goal ==
    IF step = "key" THEN key
    ELSE IF step = "inner" THEN Pad(BlockKey(key), InnerPad) \o text
    ELSE Pad(BlockKey(key), OuterPad) \o Sha(Pad(BlockKey(key), InnerPad) \o text)

\* The context is always between what it took and what it has still to take: no
\* byte is lost or taken twice at the end of a block or of an update.
NothingSkipped ==
    /\ step # "done" => Absorbed(hasher_, fed) /\ fed \o todo = Goal
    /\ step \in {"inner", "outer"} => k_opad_ = Pad(BlockKey(key), OuterPad)
=============================================================================
