----------------------------- MODULE FlvSession -----------------------------
(***************************************************************************)
(* HttpFlvSub: one HTTP connection that asks for a stream.  Its request    *)
(* handler registers it with the group and then starts the writes of the   *)
(* HTTP headers and the FLV header, which share the socket with the queue  *)
(* of tags the group fills (SendQueue).                                    *)
(***************************************************************************)
EXTENDS SendQueue, HttpRequest

CONSTANTS
    UriChars,   \* characters of the uris that players ask for
    MaxUri      \* bound: the longest uri

HeaderNames == {"http headers", "flv header"}

\* A tag is not one of the two headers.
ASSUME FlvSessionAssumption == Buffers \cap HeaderNames = {} /\ MaxUri \in Nat

VARIABLES
    eager,        \* the group may send before both headers are written; fixed
    request_buf_, \* the request line that was received and not used yet
    group,        \* the name of the stream it was registered for, or NoGroup
    phase,        \* where the chain of handlers is
    hpart,        \* parts of the current header already written
    out           \* history: what the player received, part by part

queueVars == vars
flvVars == <<eager, request_buf_, group, phase, hpart, out, queueVars>>

Headers == <<"http headers", "flv header">>

Phases == {"request", "http headers", "http headers written", "flv header",
           "flv header written", "ready", "failed", "refused"}

NoGroup == <<>>

\* The request lines of players: any uri, with a method, a version, and blanks or
\* a line end that may be wrong.
Blanks == {<<" ">>, <<" ", " ">>}
Uris == UNION {[1 .. n -> UriChars] : n \in 0 .. MaxUri}
Methods == {<<"GET">>, <<"get">>, <<"POST">>}
Version == <<" ", "HTTP/1.1">>
LineEnds == {<<"\r">>, <<>>}
Lines == {m \o b \o u \o Version \o e :
            m \in Methods, b \in Blanks, u \in Uris, e \in LineEnds}

FlvTypeOK ==
    /\ TypeOK
    /\ eager \in BOOLEAN
    /\ phase \in Phases
    /\ (phase = "request") => group = NoGroup
    /\ hpart \in 0 .. Parts
    /\ \A i \in 1 .. Len(out) : out[i][2] \in 1 .. Parts

FlvInit ==
    /\ Init
    /\ eager \in BOOLEAN
    /\ request_buf_ \in Lines
    /\ group = NoGroup
    /\ phase = "request"
    /\ hpart = 0
    /\ out = <<>>

\* The group knows the session from its request on, until it is destroyed.
Registered == phase \notin {"request", "refused"}

\* request_handler: the group is told first, then the headers are written.
Request ==
    /\ phase = "request" /\ conn = "up" /\ Usable(request_buf_)
    /\ group' = <<stream_name(request_buf_)>>
    /\ request_buf_' = <<>>
    /\ phase' = "http headers" /\ hpart' = 0
    /\ UNCHANGED <<eager, out, queueVars>>

\* A request line it cannot use, or a connection that ends before one: the
\* handler returns and nothing refers to the session any more.
Refuse ==
    /\ phase = "request" /\ (conn = "lost" \/ ~Usable(request_buf_))
    /\ phase' = "refused" /\ request_buf_' = <<>>
    /\ UNCHANGED <<eager, group, hpart, out, queueVars>>

\* asio writes one more part of the header of this phase.
WriteHeader ==
    /\ phase \in {"http headers", "flv header"} /\ conn = "up"
    /\ hpart' = hpart + 1
    /\ out' = Append(out, <<phase, hpart + 1>>)
    /\ phase' = IF hpart + 1 < Parts THEN phase
                ELSE IF phase = "http headers" THEN "http headers written"
                ELSE "flv header written"
    /\ UNCHANGED <<eager, request_buf_, group, queueVars>>

\* Mutants: the count of parts is not started again for the second header; and
\* the second header is forgotten.
OnHeaderWritten_keeps_count ==
    /\ \/ phase = "http headers written" /\ phase' = "flv header"
       \/ phase = "flv header written" /\ phase' = "ready"
    /\ UNCHANGED <<eager, request_buf_, group, hpart, out, queueVars>>

OnHeaderWritten_skips_flv ==
    /\ phase = "http headers written" /\ phase' = "ready"
    /\ hpart' = 0
    /\ UNCHANGED <<eager, request_buf_, group, out, queueVars>>

\* do_send_http_headers and do_send_flv_header: the completion handlers.
OnHeaderWritten ==
    /\ \/ phase = "http headers written" /\ phase' = "flv header"
       \/ phase = "flv header written" /\ phase' = "ready"
    /\ hpart' = 0
    /\ UNCHANGED <<eager, request_buf_, group, out, queueVars>>

\* A header cannot be written: the handler returns, the session stays in the
\* group.
HeaderFails ==
    /\ phase \in {"http headers", "flv header"} /\ conn = "lost"
    /\ phase' = "failed"
    /\ UNCHANGED <<eager, request_buf_, group, hpart, out, queueVars>>

\* Group::on_rtmp_av_data or on_rtmp_meta_data sends a tag.
GroupSends(b) ==
    /\ Registered
    /\ ~eager => phase \in {"ready", "failed"}
    /\ async_send(b)
    /\ UNCHANGED <<eager, request_buf_, group, phase, hpart, out>>

\* asio writes one more part of the tag at the front of the queue.
QueueWrites ==
    /\ WriteSome
    /\ out' = Append(out, <<Head(send_buffers), part'>>)
    /\ UNCHANGED <<eager, request_buf_, group, phase, hpart>>

QueueHandlers ==
    /\ OnWritten \/ OnFailed \/ WriteFails
    /\ UNCHANGED <<eager, request_buf_, group, phase, hpart, out>>

ConnectionLost == Lose /\ UNCHANGED <<eager, request_buf_, group, phase, hpart, out>>

FlvNext ==
    \/ Request \/ Refuse \/ WriteHeader \/ OnHeaderWritten \/ HeaderFails
    \/ \E b \in Buffers : GroupSends(b)
    \/ QueueWrites \/ QueueHandlers \/ ConnectionLost

FlvSpec == FlvInit /\ [][FlvNext]_flvVars

\* asio goes on with the tags, as in SendQueue.
FlvFairSpec == FlvSpec /\ WF_flvVars(QueueWrites) /\ WF_flvVars(QueueHandlers)

-----------------------------------------------------------------------------
(* Properties *)

\* The parts of a sequence of buffers, in order.
PartsOf(items) ==
    [i \in 1 .. Len(items) * Parts |->
        <<items[((i - 1) \div Parts) + 1], ((i - 1) % Parts) + 1>>]

Kind(p) == IF p[1] \in HeaderNames THEN "header" ELSE "tag"

\* A player is registered for the stream that its uri ends with, however slashes are
\* repeated, and is turned away only if its line names none (request_handler).
JoinsWhatItAsks ==
    [][/\ group' # group => group'[1] \in Asked(request_buf_)
       /\ phase = "request" /\ phase' = "refused" /\ conn = "up" =>
            Asked(request_buf_) = {}]_flvVars

\* What a player must see: the HTTP headers, the FLV header and then the tags in
\* the order the group sent them, none torn except the last.  It needs a group
\* that sends nothing to the session before the headers are written.
WellFormedStream == ~eager => IsPrefix(out, PartsOf(Headers \o sent))

\* Part i is this many-th of its kind.
Place(i) == Cardinality({j \in 1 .. i : Kind(out[j]) = Kind(out[i])})

\* However tags and headers mix, each kind keeps its own order: of the parts that are
\* due of a kind, each part the player receives is the next (async_send, do_send,
\* do_send_http_headers, do_send_flv_header).
OrderWithinKind ==
    \A i \in 1 .. Len(out) :
        LET due == PartsOf(IF Kind(out[i]) = "tag" THEN sent ELSE Headers)
        IN  Place(i) <= Len(due) /\ out[i] = due[Place(i)]

\* asio: no other write on the stream until an async_write completes.
SingleWriter == ~(phase \in {"http headers", "flv header"} /\ write = "busy")
=============================================================================
