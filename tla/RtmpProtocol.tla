---------------------------- MODULE RtmpProtocol ----------------------------
(***************************************************************************)
(* RtmpProtocol::try_compose, the reader of chunks: RtmpSessionBase::      *)
(* do_read appends what a read returned to read_buf_ and calls it.  A call *)
(* is a sequence of actions, from Receive until in_call is FALSE again;    *)
(* what arrives in the meantime waits in the socket.                       *)
(*                                                                         *)
(* The writer of the chunks is not here: a module that EXTENDS this one    *)
(* puts them on wire.                                                      *)
(***************************************************************************)
EXTENDS RtmpChunk

CONSTANTS
    Csids,         \* chunk streams
    DefaultSize    \* RTMP_DEFAULT_CHUNK_SIZE

ASSUME RtmpProtocolAssumption == DefaultSize \in Nat \ {0}

VARIABLES
    wire,              \* sent, not received yet
    read_buf_,
    in_call,           \* try_compose is running
    header_done_, curr_csid_, peer_chunk_size_,
    csid2stream_,      \* RtmpStream: header.timestamp, timestamp_abs, msg_len,
                       \* header.msg_type_id and msg
    composed,          \* history: the messages given to the callback
    asserted,          \* YET_LOG_ASSERT of readable_size failed
    astray             \* message bytes were read as a header, or the reverse

readerVars == <<read_buf_, in_call, header_done_, curr_csid_, peer_chunk_size_,
                csid2stream_, composed, asserted, astray>>

NewStream == [timestamp |-> 0, abs |-> 0, len |-> 0, type |-> "none", msg |-> <<>>]

ReaderInit ==
    /\ read_buf_ = <<>> /\ in_call = FALSE
    /\ header_done_ = FALSE /\ curr_csid_ \in Csids
    /\ peer_chunk_size_ = DefaultSize
    /\ csid2stream_ = [c \in Csids |-> NewStream]
    /\ composed = <<>>
    /\ asserted = FALSE /\ astray = FALSE

ReaderTypeOK ==
    /\ in_call \in BOOLEAN /\ header_done_ \in BOOLEAN
    /\ asserted \in BOOLEAN /\ astray \in BOOLEAN
    /\ curr_csid_ \in Csids
    /\ \A c \in Csids : csid2stream_[c].abs \in Nat /\ csid2stream_[c].len \in Nat

\* do_read's completion handler with k parts of chunks.
Receive(k) ==
    /\ ~in_call /\ ~astray
    /\ read_buf_' = read_buf_ \o SubSeq(wire, 1, k)
    /\ wire' = SubSeq(wire, k + 1, Len(wire))
    /\ in_call' = TRUE
    /\ UNCHANGED <<header_done_, curr_csid_, peer_chunk_size_, csid2stream_,
                   composed, asserted, astray>>

\* The reader takes something for what it is not: nothing after it makes sense,
\* and it is not followed any further.
GoAstray ==
    /\ astray' = TRUE /\ in_call' = FALSE
    /\ UNCHANGED <<wire, read_buf_, header_done_, curr_csid_, peer_chunk_size_,
                   csid2stream_, composed>>

-----------------------------------------------------------------------------
(* The header of a chunk *)

\* The stream s after the message header h.
MessageHeader(s, h) ==
    CASE h.fmt = 0 -> [s EXCEPT !.timestamp = h.ts, !.abs = h.ts,
                                !.len = h.len, !.type = h.type]
      [] h.fmt = 1 -> [s EXCEPT !.timestamp = h.ts, !.abs = @ + h.ts,
                                !.len = h.len, !.type = h.type]
      [] h.fmt = 2 -> [s EXCEPT !.timestamp = h.ts, !.abs = @ + h.ts]
      [] h.fmt = 3 -> s

\* The stream s after the extended timestamp e of a header of form fmt.
ExtendedTimestamp(s, fmt, e) ==
    [s EXCEPT !.timestamp = e.ts,
              !.abs = CASE fmt = 0 -> e.ts
                        [] fmt \in {1, 2} -> @ + e.ts
                        [] fmt = 3 -> @]

HeaderDone(csid, stream, used) ==
    /\ csid2stream_' = [csid2stream_ EXCEPT ![csid] = stream]
    /\ curr_csid_' = csid
    /\ header_done_' = TRUE
    /\ read_buf_' = SubSeq(read_buf_, used + 1, Len(read_buf_))
    /\ UNCHANGED <<wire, in_call, peer_chunk_size_, composed, asserted, astray>>

\* The header has not arrived completely: try_compose returns, and starts again
\* with this header.  The stream keeps what it was given, and a delta is added
\* again.
HeaderShort(csid, stream) ==
    /\ csid2stream_' = [csid2stream_ EXCEPT ![csid] = stream]
    /\ curr_csid_' = csid
    /\ in_call' = FALSE
    /\ UNCHANGED <<wire, read_buf_, header_done_, peer_chunk_size_, composed,
                   asserted, astray>>

ReadHeader ==
    /\ in_call /\ ~header_done_ /\ read_buf_ # <<>>
    /\ LET h      == Head(read_buf_)
           stream == MessageHeader(csid2stream_[h.csid], h)
       IN  IF h.k # "head" THEN GoAstray /\ UNCHANGED asserted
           ELSE \/ /\ stream.timestamp # MaxTs
                   /\ HeaderDone(h.csid, stream, 1)
                \/ /\ stream.timestamp = MaxTs
                   /\ Len(read_buf_) = 1
                   /\ HeaderShort(h.csid, stream)
                \/ /\ stream.timestamp = MaxTs
                   /\ Len(read_buf_) > 1
                   /\ IF read_buf_[2].k = "ext"
                      THEN HeaderDone(h.csid,
                               ExtendedTimestamp(stream, h.fmt, read_buf_[2]), 2)
                      ELSE GoAstray /\ UNCHANGED asserted

-----------------------------------------------------------------------------
(* The bytes of a chunk *)

stream_ == csid2stream_[curr_csid_]

\* Mutant: a message that fits in a chunk is not read differently.
needed_size_whole ==
    IF Len(stream_.msg) > stream_.len THEN peer_chunk_size_ ELSE stream_.len

\* needed_size.  whole_needed is unsigned: too long a message wraps around.
needed_size ==
    IF stream_.len <= peer_chunk_size_ THEN stream_.len
    ELSE IF Len(stream_.msg) > stream_.len THEN peer_chunk_size_
    ELSE Least(stream_.len - Len(stream_.msg), peer_chunk_size_)

\* Mutant: any message sets the chunk size.
Composed_any_type(msg) ==
    /\ composed' = Append(composed, [type |-> stream_.type, ts |-> stream_.abs, msg |-> msg])
    /\ peer_chunk_size_' = Head(msg).id
    /\ csid2stream_' = [csid2stream_ EXCEPT ![curr_csid_].msg = <<>>]
    /\ asserted' = (asserted \/ 0 >= stream_.len)

\* The callback, base_complete_message_handler: Set Chunk Size takes effect at
\* once.  Then the message is cleared.
Composed(msg) ==
    /\ composed' = Append(composed, [type |-> stream_.type, ts |-> stream_.abs, msg |-> msg])
    /\ peer_chunk_size_' = IF stream_.type = "chunk size" THEN Head(msg).id
                           ELSE peer_chunk_size_
    /\ csid2stream_' = [csid2stream_ EXCEPT ![curr_csid_].msg = <<>>]
    /\ asserted' = (asserted \/ 0 >= stream_.len)

Incomplete(msg) ==
    /\ csid2stream_' = [csid2stream_ EXCEPT ![curr_csid_].msg = msg]
    /\ asserted' = (asserted \/ Len(msg) >= stream_.len)
    /\ UNCHANGED <<composed, peer_chunk_size_>>

ReadBytes ==
    /\ in_call /\ header_done_ /\ Len(read_buf_) >= needed_size
    /\ LET n     == needed_size
           bytes == SubSeq(read_buf_, 1, n)
           msg   == stream_.msg \o bytes
       IN  IF \E b \in Range(bytes) : b.k # "byte"
           THEN GoAstray /\ asserted' = (asserted \/ Len(msg) > stream_.len)
           ELSE /\ IF Len(msg) = stream_.len THEN Composed(msg) ELSE Incomplete(msg)
                /\ read_buf_' = SubSeq(read_buf_, n + 1, Len(read_buf_))
                /\ header_done_' = FALSE
                /\ UNCHANGED <<wire, in_call, curr_csid_, astray>>

\* Mutant: the header is read again when the bytes have arrived.
Return_forgets_header ==
    /\ in_call
    /\ IF header_done_ THEN Len(read_buf_) < needed_size ELSE read_buf_ = <<>>
    /\ in_call' = FALSE
    /\ header_done_' = FALSE
    /\ UNCHANGED <<wire, read_buf_, curr_csid_, peer_chunk_size_, csid2stream_,
                   composed, asserted, astray>>

\* The loop ends, or more bytes are needed.
Return ==
    /\ in_call
    /\ IF header_done_ THEN Len(read_buf_) < needed_size ELSE read_buf_ = <<>>
    /\ in_call' = FALSE
    /\ UNCHANGED <<wire, read_buf_, header_done_, curr_csid_, peer_chunk_size_,
                   csid2stream_, composed, asserted, astray>>

try_compose == ReadHeader \/ ReadBytes \/ Return
=============================================================================
