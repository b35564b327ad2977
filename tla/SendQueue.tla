------------------------------ MODULE SendQueue ------------------------------
(***************************************************************************)
(* The send queue of one session: RtmpSessionBase::async_send and do_send, *)
(* which HttpFlvSub repeats.  The front buffer stays in the queue while    *)
(* asio writes it in parts; the completion handler removes it and starts   *)
(* the next write.                                                         *)
(***************************************************************************)
EXTENDS Naturals, Sequences

CONSTANTS
    Buffers,    \* buffers a group may send
    Parts,      \* parts async_write may split one buffer into
    MaxSends    \* bound: calls of async_send

ASSUME SendQueueAssumption == Parts \in Nat \ {0} /\ MaxSends \in Nat

VARIABLES
    sent,          \* history: every buffer async_send accepted
    send_buffers,  \* the queue
    write,         \* the async_write: none, in progress, or its result queued
    part,          \* parts of the front buffer already written
    wire,          \* history: buffers the peer can read completely
    conn           \* the TCP connection

vars == <<sent, send_buffers, write, part, wire, conn>>

TypeOK ==
    /\ sent \in Seq(Buffers)
    /\ send_buffers \in Seq(Buffers)
    /\ write \in {"none", "busy", "done", "failed"}
    /\ part \in 0 .. Parts
    /\ wire \in Seq(Buffers)
    /\ conn \in {"up", "lost"}

Init ==
    /\ sent = <<>>
    /\ send_buffers = <<>>
    /\ write = "none"
    /\ part = 0
    /\ wire = <<>>
    /\ conn = "up"

\* do_send: async_write of the front buffer.
do_send == write' = "busy" /\ part' = 0

\* Mutants: a new buffer starts a write of its own while one is in progress;
\* a new buffer starts none when the queue was empty.
async_send_always_writes(b) ==
    /\ Len(sent) < MaxSends
    /\ sent' = Append(sent, b)
    /\ send_buffers' = Append(send_buffers, b)
    /\ do_send
    /\ UNCHANGED <<wire, conn>>

async_send_never_writes(b) ==
    /\ Len(sent) < MaxSends
    /\ sent' = Append(sent, b)
    /\ send_buffers' = Append(send_buffers, b)
    /\ UNCHANGED <<write, part, wire, conn>>

async_send(b) ==
    /\ Len(sent) < MaxSends
    /\ sent' = Append(sent, b)
    /\ send_buffers' = Append(send_buffers, b)
    /\ IF send_buffers = <<>> THEN do_send ELSE UNCHANGED <<write, part>>
    /\ UNCHANGED <<wire, conn>>

\* asio writes one more part of the front buffer; the last one queues the
\* completion.
WriteSome ==
    /\ write = "busy" /\ conn = "up"
    /\ part' = part + 1
    /\ \/ /\ part + 1 < Parts
          /\ UNCHANGED <<write, wire>>
       \/ /\ part + 1 = Parts
          /\ write' = "done"
          /\ wire' = Append(wire, Head(send_buffers))
    /\ UNCHANGED <<sent, send_buffers, conn>>

WriteFails ==
    /\ write = "busy" /\ conn = "lost"
    /\ write' = "failed"
    /\ UNCHANGED <<sent, send_buffers, part, wire, conn>>

\* Mutant: the next buffer waits for another call of async_send.
OnWritten_stops ==
    /\ write = "done"
    /\ send_buffers' = Tail(send_buffers)
    /\ write' = "none"
    /\ UNCHANGED <<sent, part, wire, conn>>

\* The completion handler: pop, and write the next buffer if there is one.
OnWritten ==
    /\ write = "done"
    /\ send_buffers' = Tail(send_buffers)
    /\ IF send_buffers' # <<>> THEN do_send
       ELSE write' = "none" /\ UNCHANGED part
    /\ UNCHANGED <<sent, wire, conn>>

\* Mutant: an error is handled as a success.
OnFailed_pops ==
    /\ write = "failed"
    /\ send_buffers' = Tail(send_buffers)
    /\ IF send_buffers' # <<>> THEN do_send
       ELSE write' = "none" /\ UNCHANGED part
    /\ UNCHANGED <<sent, wire, conn>>

\* The completion handler with an error: it returns before the pop, so the
\* queue never writes again and async_send only lets it grow.
OnFailed ==
    /\ write = "failed"
    /\ write' = "none"
    /\ UNCHANGED <<sent, send_buffers, part, wire, conn>>

\* The connection is lost, or close() closes the socket.
Lose ==
    /\ conn = "up"
    /\ conn' = "lost"
    /\ UNCHANGED <<sent, send_buffers, write, part, wire>>

Next ==
    \/ \E b \in Buffers : async_send(b)
    \/ WriteSome \/ WriteFails \/ OnWritten \/ OnFailed \/ Lose

Spec == Init /\ [][Next]_vars

\* asio completes an operation that can make progress and io_context runs the
\* handlers that are queued; the group need not send and nothing need be lost.
FairSpec ==
    Spec /\ WF_vars(WriteSome) /\ WF_vars(WriteFails) /\ WF_vars(OnWritten)
         /\ WF_vars(OnFailed)

-----------------------------------------------------------------------------
(* Properties *)

\* The queue without the buffer whose completion is not handled yet.
Pending == IF write = "done" THEN Tail(send_buffers) ELSE send_buffers

\* No buffer is lost, duplicated or overtaken between async_send, the queue and
\* the wire.
NothingLost == sent = wire \o Pending

\* Exactly one write runs while the connection has something to send: the queue
\* neither stalls nor starts a second async_write.
WriteIffQueued ==
    /\ write # "none" => send_buffers # <<>>
    /\ conn = "up" /\ send_buffers # <<>> => write \in {"busy", "done"}

\* A buffer that was cut in the middle is never followed by another.
NothingAfterTear ==
    [][write = "failed" \/ (write = "none" /\ send_buffers # <<>>)
         => wire' = wire /\ part' = part /\ write' \in {"failed", "none"}]_vars

F == INSTANCE Fifo WITH accepted <- sent, delivered <- wire

\* The queue is a FIFO.
ImplementsFifo == F!Spec

\* While the connection stays up, everything accepted reaches the wire.
EventuallyWritten ==
    \A n \in 1 .. MaxSends :
        (Len(sent) = n) ~> (Len(wire) >= n \/ conn = "lost")
=============================================================================
