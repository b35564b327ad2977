----------------------------- MODULE RtmpStream -----------------------------
(***************************************************************************)
(* The reader of chunks (RtmpProtocol) with a writer at the other end of   *)
(* the connection.  The writer is one that follows the RTMP specification  *)
(* and interleaves the chunks of its chunk streams, or a yet that relays,  *)
(* which writes the chunks of a message together (msg2chunks).             *)
(***************************************************************************)
EXTENDS RtmpProtocol, FiniteSets

CONSTANTS
    Control,      \* RTMP_CSID_PROTOCOL_CONTROL, one of Csids
    LocalSize,    \* RTMP_LOCAL_CHUNK_SIZE, of this writer
    Lens,         \* lengths of messages
    Clock,        \* bound: timestamps
    MaxMessages,  \* bound: messages written
    Window,       \* bound: a chunk is written while no more than this is on wire
    Habits        \* what the writer may do, of AllHabits

\* resize: Set Chunk Size between two chunks of another message
\* repeat: a message whose header is that of the one before, as a bare form 3
\* late:   an extended timestamp other than that of a whole message of form 0
\* empty:  a message of no bytes
AllHabits == {"resize", "repeat", "late", "empty"}

ASSUME RtmpStreamAssumption ==
    /\ Control \in Csids
    /\ LocalSize \in Nat \ {0} /\ MaxMessages \in Nat
    /\ Clock \subseteq Nat /\ Lens \subseteq Nat
    /\ Habits \subseteq AllHabits

VARIABLES
    writer,       \* "specification" or "yet"; fixed
    size,         \* chunk size the writer uses
    under_way,    \* per chunk stream: what is left of a message
    prev,         \* per chunk stream: header of the message before
    exact,        \* per chunk stream: the reader can know the timestamp
    count,        \* messages started
    finished      \* history: messages whose last chunk is written

writerVars == <<writer, size, under_way, prev, exact, count, finished>>
vars == <<wire, readerVars, writerVars>>

Media == Csids \ {Control}

Nothing == [msg |-> <<>>, ts |-> 0, rest |-> <<>>, ext |-> <<>>]

TypeOK ==
    /\ ReaderTypeOK
    /\ peer_chunk_size_ \in {DefaultSize, LocalSize}
    /\ writer \in {"specification", "yet"}
    /\ size \in {DefaultSize, LocalSize}
    /\ count \in 0 .. MaxMessages
    /\ \A c \in Csids : under_way[c].ts \in Clock \cup {0} /\ exact[c] \in BOOLEAN

Init ==
    /\ ReaderInit
    /\ wire = <<>>
    /\ writer \in {"specification", "yet"}
    /\ size = DefaultSize
    /\ under_way = [c \in Csids |-> Nothing]
    /\ prev = [c \in Csids |-> None]
    /\ exact = [c \in Csids |-> TRUE]
    /\ count = 0
    /\ finished = <<>>

MayWrite == Len(wire) <= Window

Sent(type, ts, msg, e) == [type |-> type, ts |-> ts, msg |-> msg, exact |-> e]

-----------------------------------------------------------------------------
(* Both writers *)

\* Set Chunk Size: RtmpSessionClient::do_write_chunk_size, do_write_chunk_size.
SetChunkSize ==
    /\ MayWrite /\ size = DefaultSize /\ count < MaxMessages
    /\ "resize" \notin Habits => \A c \in Csids : under_way[c] = Nothing
    /\ LET msg == <<Byte(LocalSize, 0)>> IN
         /\ wire' = wire \o <<HeadPart(0, Control, 0, 1, "chunk size")>> \o msg
         /\ finished' = Append(finished, Sent("chunk size", 0, msg, TRUE))
    /\ size' = LocalSize
    /\ count' = count + 1
    /\ UNCHANGED <<readerVars, writer, under_way, prev, exact>>

-----------------------------------------------------------------------------
(* A writer that follows the specification *)

\* The forms a message with header h may begin with.
Forms(h, p) ==
    {0} \cup (IF p = None THEN {} ELSE {1})
        \cup (IF p # None /\ h.len = p.len THEN {2} ELSE {})
        \cup (IF "repeat" \in Habits /\ p # None /\ h.len = p.len /\ h.ts - p.ts = p.delta
              THEN {3} ELSE {})

\* Write the next chunk of a message on c, of which w is left.
WriteChunk(c, head, w) ==
    LET n    == Least(size, Len(w.rest))
        left == [w EXCEPT !.rest = SubSeq(w.rest, n + 1, Len(w.rest))]
    IN  /\ wire' = wire \o <<head>> \o w.ext \o SubSeq(w.rest, 1, n)
        /\ IF left.rest = <<>>
           THEN /\ under_way' = [under_way EXCEPT ![c] = Nothing]
                /\ finished' = Append(finished, Sent("av", w.ts, w.msg, TRUE))
           ELSE /\ under_way' = [under_way EXCEPT ![c] = left]
                /\ UNCHANGED finished

StartMessage(c, len, ts) ==
    /\ writer = "specification" /\ MayWrite /\ count < MaxMessages
    /\ under_way[c] = Nothing
    /\ "empty" \notin Habits => len > 0
    /\ prev[c] # None => ts >= prev[c].ts
    /\ \E fmt \in Forms(Header(c, ts, len, "av"), prev[c]) :
         LET field == IF fmt = 0 THEN ts ELSE IF fmt = 3 THEN 0 ELSE ts - prev[c].ts
             msg   == Payload(count, len)
         IN  /\ "late" \notin Habits /\ field >= MaxTs => fmt = 0 /\ len <= size
             /\ WriteChunk(c, HeadPart(fmt, c, Least(field, MaxTs), len, "av"),
                  [msg |-> msg, ts |-> ts, rest |-> msg,
                   ext |-> IF field >= MaxTs THEN <<Ext(field)>> ELSE <<>>])
             /\ prev' = [prev EXCEPT ![c] =
                  [ts |-> ts, len |-> len, type |-> "av",
                   delta |-> IF fmt = 0 THEN ts ELSE ts - prev[c].ts]]
    /\ count' = count + 1
    /\ UNCHANGED <<readerVars, writer, size, exact>>

\* A chunk that continues a message has form 3, with the extended timestamp of
\* the message.
ContinueMessage(c) ==
    /\ writer = "specification" /\ MayWrite
    /\ under_way[c] # Nothing
    /\ WriteChunk(c, HeadPart(3, c, 0, 0, "av"), under_way[c])
    /\ UNCHANGED <<readerVars, writer, size, prev, exact, count>>

-----------------------------------------------------------------------------
(* A yet that relays *)

\* Group::send_av_data: msg2chunks, with the previous header or without.
RelayMessage(c, len, ts, p) ==
    /\ writer = "yet" /\ MayWrite /\ count < MaxMessages
    /\ size = LocalSize
    /\ prev[c] # None => ts >= prev[c].ts
    /\ "empty" \notin Habits => len > 0
    /\ LET h   == Header(c, ts, len, "av")
           msg == Payload(count, len)
       IN  /\ "late" \notin Habits =>
                Delta(h, p) < MaxTs \/ (p = None /\ ts > MaxTs)
           /\ wire' = wire \o msg2chunks(msg, h, p, LocalSize)
           /\ exact' = [exact EXCEPT ![c] =
                p = None \/ (@ /\ (Len(msg) <= LocalSize \/ ts = prev[c].ts))]
           /\ finished' = Append(finished, Sent("av", ts, msg, exact'[c]))
           /\ prev' = [prev EXCEPT ![c] = [ts |-> ts, len |-> len, type |-> "av", delta |-> 0]]
    /\ count' = count + 1
    /\ UNCHANGED <<readerVars, writer, size, under_way>>

-----------------------------------------------------------------------------
Write ==
    \/ SetChunkSize
    \/ \E c \in Media :
         \/ ContinueMessage(c)
         \/ \E len \in Lens, ts \in Clock :
              \/ StartMessage(c, len, ts)
              \/ \E p \in {None, prev[c]} : RelayMessage(c, len, ts, p)

Read ==
    \/ \E k \in 1 .. Len(wire) : Receive(k) /\ UNCHANGED writerVars
    \/ try_compose /\ UNCHANGED writerVars

Next == Write \/ Read

Spec == Init /\ [][Next]_vars

\* do_read reads again after every try_compose.
FairSpec == Spec /\ WF_vars(Read)

-----------------------------------------------------------------------------
(* Properties *)

\* What the writer meant and what the callback is given.  With a relaying yet a
\* timestamp is meant only until it cuts a message with a delta into several
\* chunks: each of them repeats the delta, and the reader adds it each time.
Meant(i) == i > Len(finished) \/ finished[i].exact

Messages ==
    [msg : {Payload(id, len) : id \in 0 .. MaxMessages, len \in Lens}
               \cup {<<Byte(LocalSize, 0)>>},
     ts : Clock \cup {0, None}]

Channel == INSTANCE Fifo WITH
    Buffers <- Messages,
    accepted <- [i \in 1 .. Len(finished) |->
        [msg |-> finished[i].msg, ts |-> IF Meant(i) THEN finished[i].ts ELSE None]],
    delivered <- [i \in 1 .. Len(composed) |->
        [msg |-> composed[i].msg, ts |-> IF Meant(i) THEN composed[i].ts ELSE None]]

\* The callback gets the messages the writer finished, whole, once, in the order
\* it finished them and with their timestamps, however chunks interleave and
\* reads split them.
ImplementsChannel == Channel!Spec

\* The reader never takes bytes of a message for a header, or the reverse.
KeepsItsPlace == ~astray

\* YET_LOG_ASSERT(readable_size < msg_len): a message that is complete is taken
\* out, and no stream holds more than its message.
ReadableBelowLen == ~asserted

\* A message whose last byte is written reaches the callback.
EventuallyComposed ==
    \A n \in 1 .. MaxMessages : (Len(finished) = n) ~> (Len(composed) >= n)
=============================================================================
