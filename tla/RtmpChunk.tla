----------------------------- MODULE RtmpChunk -----------------------------
(***************************************************************************)
(* Chunks on the wire, and RtmpChunkOp::msg2chunks, which cuts a message   *)
(* into them.  A chunk is a header (basic and message header together:     *)
(* try_compose keeps nothing of one that has not arrived completely), an   *)
(* extended timestamp where there is one, and bytes of the message.        *)
(***************************************************************************)
EXTENDS Integers, Sequences, SequencesExt

CONSTANTS
    MaxTs,    \* RTMP_MAX_TIMESTAMP_IN_MSG_HEADER
    None      \* no previous header

ASSUME RtmpChunkAssumption == MaxTs \in Nat \ {0}

\* The parts of a chunk.  What fmt leaves out of a header is 0 here.
HeadPart(fmt, csid, ts, len, type) ==
    [k |-> "head", fmt |-> fmt, csid |-> csid, ts |-> ts,
     len |-> IF fmt <= 1 THEN len ELSE 0,
     type |-> IF fmt <= 1 THEN type ELSE "same"]
Ext(ts) == [k |-> "ext", ts |-> ts]
Byte(id, i) == [k |-> "byte", id |-> id, i |-> i]

\* The bytes of message number id.
Payload(id, len) == [i \in 1 .. len |-> Byte(id, i)]

Least(a, b) == IF a <= b THEN a ELSE b

\* RtmpHeader, for the one message stream a session has (RTMP_MSID).
Header(csid, ts, len, type) == [csid |-> csid, ts |-> ts, len |-> len, type |-> type]

\* msg2chunks: which of the four header forms, given the previous header.
Fmt(h, prev) ==
    IF prev = None THEN 0
    ELSE IF h.len # prev.len \/ h.type # prev.type THEN 1
    ELSE IF h.ts # prev.ts THEN 2
    ELSE 3

\* Mutant: the timestamp of a delta header is absolute.
Delta_absolute(h, prev) == h.ts

Delta(h, prev) == IF prev = None THEN h.ts ELSE h.ts - prev.ts

HeaderOf(h, prev) ==
    LET fmt == Fmt(h, prev)
        ts  == Delta(h, prev)
    IN  <<HeadPart(fmt, h.csid, IF fmt <= 2 THEN Least(ts, MaxTs) ELSE 0, h.len, h.type)>>
          \o IF ts > MaxTs THEN <<Ext(ts)>> ELSE <<>>

\* How many chunks a message of this length makes.
Chunks(len, chunk_size) == (len + chunk_size - 1) \div chunk_size

\* Every chunk repeats the whole header.
msg2chunks(msg, h, prev, chunk_size) ==
    LET piece(i) == SubSeq(msg, (i - 1) * chunk_size + 1,
                           Least(i * chunk_size, Len(msg)))
    IN  FlattenSeq([i \in 1 .. Chunks(Len(msg), chunk_size) |->
                      HeaderOf(h, prev) \o piece(i)])
=============================================================================
