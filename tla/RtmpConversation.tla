-------------------------- MODULE RtmpConversation --------------------------
(***************************************************************************)
(* The conversation of an RtmpSessionServer with a peer that publishes or  *)
(* plays: the handshake, connect, createStream, publish or play.  The peer *)
(* is yet's own RtmpSessionClient, which waits for every answer, or one    *)
(* that sends its commands without waiting (pipelining).                   *)
(*                                                                         *)
(* The server answers from one write_buf_ whose write position never       *)
(* moves, and keeps one curr_tid_: an answer that is encoded while another *)
(* is still being written overwrites it.  The blocks of the handshake are  *)
(* those of RtmpHandshake and have buffers of their own.                   *)
(***************************************************************************)
EXTENDS RtmpHandshake, Sequences, SequencesExt

CONSTANTS
    C1Time, S1Time, \* clocks of the two sessions when they make c1 and s1
    ByteSums,       \* sums of four bytes in memory, which say where a digest is
    ForeignPeers    \* what peers that are not yet send as c0 and c1

ASSUME RtmpConversationAssumption ==
    /\ C1Time \in Nat /\ S1Time \in Nat /\ ByteSums \subseteq Nat
    /\ ForeignPeers \subseteq [version : Nat, c0c1_ : ClientBlocks, c2_ : ClientBlocks]

VARIABLES
    pipelining,        \* the peer does not wait for answers; fixed
    c2s, s2c,          \* TCP: messages under way in each direction
    hs, hc,            \* RtmpHandshakeS; RtmpHandshakeC, or a peer's c0c1
    sstage, type_,     \* RtmpSessionServer: its chain of handlers, type_
    curr_tid_,
    write_buf_,        \* the answer last encoded
    writing,           \* async_writes not finished, in the order started
    written,           \* finished ones whose completion handler has not run
    s_chunk_size,      \* the server's peer_chunk_size_
    cstage, ctype,     \* RtmpSessionClient: its chain of handlers, type_
    is_ready,
    c_chunk_size,      \* the client's peer_chunk_size_
    results,           \* history: transaction ids of the _results received
    broken             \* a message was overwritten or cut at a wrong size

serverVars == <<hs, sstage, type_, curr_tid_, write_buf_, writing, written, s_chunk_size>>
clientVars == <<pipelining, hc, cstage, ctype, is_ready, c_chunk_size, results>>
vars == <<c2s, s2c, serverVars, clientVars, broken>>

\* RTMP_TRANSACTION_ID_CLIENT_CONNECT and .._CREATE_STREAM
ConnectTid == 1
CreateStreamTid == 2

Msg(m, tid) == [m |-> m, tid |-> tid]
Plain(m) == Msg(m, 0)

\* A block of the handshake, with the version byte before it.
Opens(m, version, block) == [m |-> m, tid |-> 0, version |-> version, block |-> block]

\* Messages longer than the default chunk size of 128 bytes.
Long == {"connect", "connect result"}

Answers == {"win ack size", "peer bandwidth", "chunk size", "connect result",
            "createStream result", "onStatus publish", "onStatus play"}
Commands == {"chunk size", "connect", "createStream", "publish", "play"}

TypeOK ==
    /\ sstage \in {"c0c1", "s0s1", "s2", "c2", "reading", "closed"}
    /\ type_ \in {"SERVER", "PUB", "SUB"}
    /\ curr_tid_ \in {0, ConnectTid, CreateStreamTid}
    /\ \A w \in Range(writing) \cup Range(written) :
         w.m \in Answers \cup {"s0s1", "s2"}
    /\ cstage \in {"c0c1", "s0s1s2", "c2", "chunk size", "connect", "createStream",
                   "start", "reading", "closed"}
    /\ ctype \in {"PUSH", "PULL"}
    /\ \A m \in Range(c2s) : m.m \in Commands \cup {"c0c1", "c2"}
    /\ s_chunk_size \in {"default", "local"} /\ c_chunk_size \in {"default", "local"}
    /\ is_ready \in BOOLEAN /\ broken \in BOOLEAN /\ pipelining \in BOOLEAN

Init ==
    /\ pipelining \in BOOLEAN
    /\ hs \in {NewS(is_old, sum) : is_old \in BOOLEAN, sum \in ByteSums}
    /\ hc \in IF pipelining THEN ForeignPeers ELSE {create_c0c1(C1Time, sum) : sum \in ByteSums}
    /\ c2s = <<>> /\ s2c = <<>>
    /\ sstage = "c0c1" /\ type_ = "SERVER" /\ curr_tid_ = 0
    /\ write_buf_ = Plain("none") /\ writing = <<>> /\ written = <<>>
    /\ s_chunk_size = "default" /\ c_chunk_size = "default"
    /\ cstage = "c0c1" /\ ctype \in {"PUSH", "PULL"}
    /\ is_ready = FALSE /\ results = <<>>
    /\ broken = FALSE

-----------------------------------------------------------------------------
(* RtmpSessionServer *)

\* Encode at the start of write_buf_ and start the write.
answer(a) ==
    /\ write_buf_' = a
    /\ writing' = Append(writing, a)

no_answer == UNCHANGED <<write_buf_, writing>>

Received(m) == sstage = "reading" /\ c2s # <<>> /\ Head(c2s).m = m

\* do_read_c0c1, then do_write_s0s1, which answer an invalid c0c1 all the same.
do_read_c0c1 ==
    /\ sstage = "c0c1" /\ c2s # <<>>
    /\ c2s' = Tail(c2s)
    /\ sstage' = "s0s1"
    /\ hs' = create_s0s1(handle_c0c1(hs, Head(c2s).version, Head(c2s).block), S1Time)
    /\ writing' = Append(writing, Opens("s0s1", RTMP_VERSION, hs'.s0s1_))
    /\ UNCHANGED <<s2c, type_, curr_tid_, write_buf_, written, s_chunk_size,
                   clientVars, broken>>

do_read_c2 ==
    /\ sstage = "c2" /\ c2s # <<>>
    /\ c2s' = Tail(c2s)
    /\ sstage' = "reading"
    /\ UNCHANGED <<s2c, hs, type_, curr_tid_, write_buf_, writing, written, s_chunk_size,
                   clientVars, broken>>

set_chunk_size_handler ==
    /\ Received("chunk size")
    /\ c2s' = Tail(c2s)
    /\ s_chunk_size' = "local"
    /\ UNCHANGED <<s2c, hs, sstage, type_, curr_tid_, write_buf_, writing, written,
                   clientVars, broken>>

\* connect_handler: the four answers follow one another.
connect_handler ==
    /\ Received("connect")
    /\ c2s' = Tail(c2s)
    /\ curr_tid_' = Head(c2s).tid
    /\ answer(Plain("win ack size"))
    /\ broken' = (broken \/ s_chunk_size = "default")
    /\ UNCHANGED <<s2c, hs, sstage, type_, written, s_chunk_size, clientVars>>

\* Mutant: the server counts transactions instead of echoing the command's.
create_stream_handler_counts ==
    /\ Received("createStream")
    /\ c2s' = Tail(c2s)
    /\ curr_tid_' = curr_tid_ + CreateStreamTid
    /\ answer(Msg("createStream result", curr_tid_'))
    /\ UNCHANGED <<s2c, hs, sstage, type_, written, s_chunk_size, clientVars, broken>>

create_stream_handler ==
    /\ Received("createStream")
    /\ c2s' = Tail(c2s)
    /\ curr_tid_' = Head(c2s).tid
    /\ answer(Msg("createStream result", curr_tid_'))
    /\ UNCHANGED <<s2c, hs, sstage, type_, written, s_chunk_size, clientVars, broken>>

\* Mutant: the answer leaves before the group knows the publisher.
publish_handler_late_type ==
    /\ Received("publish")
    /\ c2s' = Tail(c2s)
    /\ answer(Plain("onStatus publish"))
    /\ UNCHANGED <<s2c, hs, sstage, type_, curr_tid_, written, s_chunk_size, clientVars,
                   broken>>

publish_handler ==
    /\ Received("publish")
    /\ c2s' = Tail(c2s)
    /\ type_' = "PUB"
    /\ answer(Plain("onStatus publish"))
    /\ UNCHANGED <<s2c, hs, sstage, curr_tid_, written, s_chunk_size, clientVars, broken>>

play_handler ==
    /\ Received("play")
    /\ c2s' = Tail(c2s)
    /\ answer(Plain("onStatus play"))
    /\ UNCHANGED <<s2c, hs, sstage, type_, curr_tid_, written, s_chunk_size, clientVars,
                   broken>>

\* The oldest write finishes: it sends what is in the buffer now.  The peer
\* receives nothing if it has gone.
WriteFinishes ==
    /\ writing # <<>>
    /\ LET w == Head(writing)
           sound == w.m \in {"s0s1", "s2"} \/ write_buf_ = w
       IN  /\ s2c' = IF cstage = "closed" THEN s2c
                     ELSE Append(s2c, IF sound THEN w ELSE write_buf_)
           /\ broken' = (broken \/ ~sound)
           /\ written' = Append(written, w)
    /\ writing' = Tail(writing)
    /\ UNCHANGED <<c2s, hs, sstage, type_, curr_tid_, write_buf_, s_chunk_size, clientVars>>

\* Mutant: the peer is not told the chunk size.
NextAnswer_no_chunk_size(m) ==
    CASE m = "win ack size"                    -> Plain("peer bandwidth")
      [] m \in {"peer bandwidth", "chunk size"} -> Msg("connect result", curr_tid_)

\* What the completion handler of an answer to connect writes next.
NextAnswer(m) ==
    CASE m = "win ack size"   -> Plain("peer bandwidth")
      [] m = "peer bandwidth" -> Plain("chunk size")
      [] m = "chunk size"     -> Msg("connect result", curr_tid_)

\* Mutant: a player stays of type SERVER.
OnWritten_keeps_type ==
    /\ written # <<>>
    /\ LET m == Head(written).m IN
         \/ /\ m = "s0s1"
            /\ sstage' = "s2"
            /\ hs' = create_s2(hs)
            /\ writing' = Append(writing, Opens("s2", RTMP_VERSION, hs'.s2_))
            /\ UNCHANGED write_buf_
         \/ /\ m = "s2"
            /\ sstage' = "c2"
            /\ no_answer /\ UNCHANGED hs
         \/ /\ m \in {"win ack size", "peer bandwidth", "chunk size"}
            /\ answer(NextAnswer(m))
            /\ UNCHANGED <<hs, sstage>>
         \/ /\ m \in {"connect result", "createStream result", "onStatus publish",
                       "onStatus play"}
            /\ no_answer /\ UNCHANGED <<hs, sstage>>
    /\ written' = Tail(written)
    /\ UNCHANGED <<c2s, s2c, type_, curr_tid_, s_chunk_size, clientVars, broken>>

\* The completion handlers.
OnWritten ==
    /\ written # <<>>
    /\ LET m == Head(written).m IN
         \/ /\ m = "s0s1"
            /\ sstage' = "s2"
            /\ hs' = create_s2(hs)
            /\ writing' = Append(writing, Opens("s2", RTMP_VERSION, hs'.s2_))
            /\ UNCHANGED <<type_, write_buf_>>
         \/ /\ m = "s2"
            /\ sstage' = "c2"
            /\ no_answer /\ UNCHANGED <<hs, type_>>
         \/ /\ m \in {"win ack size", "peer bandwidth", "chunk size"}
            /\ answer(NextAnswer(m))
            /\ UNCHANGED <<hs, sstage, type_>>
         \/ /\ m = "onStatus play"
            /\ type_' = "SUB"
            /\ no_answer /\ UNCHANGED <<hs, sstage>>
         \/ /\ m \in {"connect result", "createStream result", "onStatus publish"}
            /\ no_answer /\ UNCHANGED <<hs, sstage, type_>>
    /\ written' = Tail(written)
    /\ UNCHANGED <<c2s, s2c, curr_tid_, s_chunk_size, clientVars, broken>>

\* The peer has closed and everything it sent is read: close().
ServerEof ==
    /\ cstage = "closed" /\ c2s = <<>>
    /\ sstage \in {"c0c1", "c2", "reading"}
    /\ sstage' = "closed"
    /\ writing' = <<>> /\ written' = <<>>
    /\ UNCHANGED <<c2s, s2c, hs, type_, curr_tid_, write_buf_, s_chunk_size, clientVars,
                   broken>>

Server ==
    \/ do_read_c0c1 \/ do_read_c2 \/ set_chunk_size_handler \/ connect_handler
    \/ create_stream_handler \/ publish_handler \/ play_handler
    \/ WriteFinishes \/ OnWritten \/ ServerEof

-----------------------------------------------------------------------------
(* RtmpSessionClient *)

StartCommand == IF ctype = "PUSH" THEN "publish" ELSE "play"

\* One write of the opening chain and its completion handler, which goes on to
\* the next write or read.
Opening ==
    /\ \/ cstage = "c0c1" /\ c2s' = Append(c2s, Opens("c0c1", hc.version, hc.c0c1_)) /\ cstage' = "s0s1s2"
       \/ cstage = "c2" /\ c2s' = Append(c2s, Plain("c2")) /\ cstage' = "chunk size"
       \/ /\ cstage = "chunk size"
          /\ c2s' = Append(c2s, Plain("chunk size"))
          /\ cstage' = "connect"
       \/ /\ cstage = "connect"
          /\ c2s' = Append(c2s, Msg("connect", ConnectTid))
          /\ cstage' = IF pipelining THEN "createStream" ELSE "reading"
       \/ /\ cstage = "createStream"
          /\ c2s' = Append(c2s, Msg("createStream", CreateStreamTid))
          /\ cstage' = "start"
       \/ /\ cstage = "start"
          /\ c2s' = Append(c2s, Plain(StartCommand))
          /\ cstage' = "reading"
    /\ UNCHANGED <<s2c, serverVars, pipelining, hc, ctype, is_ready, c_chunk_size,
                   results, broken>>

\* do_read_s0s1s2 reads all of both.
do_read_s0s1s2 ==
    /\ cstage = "s0s1s2" /\ Len(s2c) >= 2
    /\ s2c' = SubSeq(s2c, 3, Len(s2c))
    /\ cstage' = "c2"
    /\ hc' = IF pipelining THEN hc ELSE handle_s0s1s2(hc, s2c[1].block, s2c[2].block)
    /\ UNCHANGED <<c2s, serverVars, pipelining, ctype, is_ready, c_chunk_size,
                   results, broken>>

Arrived(m) == cstage = "reading" /\ s2c # <<>> /\ Head(s2c).m = m

\* A long message is cut at the chunk size its reader knows.
Framed == broken' = (broken \/ (Head(s2c).m \in Long /\ c_chunk_size = "default"))

\* Window acknowledgement size and bandwidth change nothing here.
protocol_control_handler ==
    /\ \E m \in {"win ack size", "peer bandwidth", "chunk size"} : Arrived(m)
    /\ s2c' = Tail(s2c)
    /\ c_chunk_size' = IF Head(s2c).m = "chunk size" THEN "local" ELSE c_chunk_size
    /\ UNCHANGED <<c2s, serverVars, pipelining, hc, cstage, ctype, is_ready, results, broken>>

\* Mutant: a result is answered whatever its transaction.
cmd_msg_result_handler_any_tid ==
    /\ \E m \in {"connect result", "createStream result"} : Arrived(m)
    /\ s2c' = Tail(s2c)
    /\ results' = Append(results, Head(s2c).tid)
    /\ Framed
    /\ c2s' = Append(c2s, Msg("createStream", CreateStreamTid))
    /\ UNCHANGED <<serverVars, pipelining, hc, cstage, ctype, is_ready, c_chunk_size>>

\* cmd_msg_result_handler: by transaction, createStream or publish / play.
cmd_msg_result_handler ==
    /\ \E m \in {"connect result", "createStream result"} : Arrived(m)
    /\ s2c' = Tail(s2c)
    /\ results' = Append(results, Head(s2c).tid)
    /\ Framed
    /\ \/ pipelining /\ UNCHANGED c2s
       \/ /\ ~pipelining /\ Head(s2c).tid = ConnectTid
          /\ c2s' = Append(c2s, Msg("createStream", CreateStreamTid))
       \/ /\ ~pipelining /\ Head(s2c).tid = CreateStreamTid
          /\ c2s' = Append(c2s, Plain(StartCommand))
    /\ UNCHANGED <<serverVars, pipelining, hc, cstage, ctype, is_ready, c_chunk_size>>

\* cmd_msg_on_status_handler.  An answer that does not fit fails the assertion,
\* which closes; a server built from this code sends none.
cmd_msg_on_status_handler ==
    /\ \E m \in {"onStatus publish", "onStatus play"} : Arrived(m)
    /\ s2c' = Tail(s2c)
    /\ is_ready' = (is_ready \/ (ctype = "PUSH" /\ Head(s2c).m = "onStatus publish"))
    /\ UNCHANGED <<c2s, serverVars, pipelining, hc, cstage, ctype, c_chunk_size, results,
                   broken>>

\* The peer may close whenever it likes; what it has not read is gone.
Leave ==
    /\ cstage # "closed"
    /\ cstage' = "closed"
    /\ s2c' = <<>>
    /\ UNCHANGED <<c2s, serverVars, pipelining, hc, ctype, is_ready, c_chunk_size,
                   results, broken>>

Client ==
    \/ Opening \/ do_read_s0s1s2 \/ protocol_control_handler \/ cmd_msg_result_handler
    \/ cmd_msg_on_status_handler

Next == Server \/ Client \/ Leave

Spec == Init /\ [][Next]_vars

\* TCP delivers and both event loops run what is ready; nobody has to leave.
FairSpec == Spec /\ WF_vars(Server) /\ WF_vars(Client)

-----------------------------------------------------------------------------
(* Properties *)

\* The server's s2 proves that it has read the c1 it was sent, old style or new,
\* wherever the digest is, and the c2 of a session of yet repeats the server's s1
\* (handle_c0c1, create_s0s1, create_s2, handle_s0s1s2).
HandshakeAnswered ==
    /\ sstage \in {"s2", "c2", "reading"} /\ hc.version = RTMP_VERSION =>
         Proves(hs.s2_, hc.c0c1_, hs.s0s1_)
    /\ ~pipelining /\ cstage \notin {"c0c1", "s0s1s2", "closed"} => hc.c2_ = hs.s0s1_

\* Every command of a peer that waits is answered once, in order, with its own
\* transaction id (curr_tid_).
AnswersMatch == ~pipelining => IsPrefix(results, <<ConnectTid, CreateStreamTid>>)

\* With a peer that waits, no answer is overwritten in write_buf_ before it is
\* sent, and no message longer than a chunk is read before the chunk size of its
\* writer is known.
NothingBroken == ~pipelining => ~broken

\* A push session sends media only to a server that has made it a publisher.
ReadyMeansPublisher == is_ready => type_ = "PUB"

\* With a peer that waits, the conversation ends where it wanted: a push session is ready, a
\* puller is a subscriber, or the peer has left.
EndsInMedia ==
    <>(\/ pipelining
       \/ cstage = "closed"
       \/ ctype = "PUSH" /\ is_ready
       \/ ctype = "PULL" /\ type_ = "SUB")
=============================================================================
