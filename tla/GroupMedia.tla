---------------------------- MODULE GroupMedia ----------------------------
(***************************************************************************)
(* Media in one Group: what on_rtmp_meta_data and on_rtmp_av_data send to  *)
(* each session they feed, and what they keep for sessions that join       *)
(* later.  A session that joins gets the cached metadata and decoder       *)
(* headers first and nothing else until a key frame.                       *)
(*                                                                         *)
(* What an RTMP session is sent is never changed, and counts as read here.  *)
(* The tags of an HttpFlvSub wait in its queue, and a cached header among  *)
(* them is a buffer that it shares with the group and with other sessions. *)
(* Every message fits in one chunk: RtmpStream is about those that do not. *)
(***************************************************************************)
EXTENDS Integers, Sequences, SequencesExt

CONSTANTS
    RtmpOuts,     \* subscribers, and a push session that is ready
    FlvOuts,      \* HttpFlvSubs
    TimeLimit,    \* timestamps are counted modulo this, 2^32
    FirstTime,    \* where the clock of a publisher begins
    MaxMessages   \* bound: messages of the publishers

ASSUME GroupMediaAssumption ==
    /\ RtmpOuts \cap FlvOuts = {}
    /\ TimeLimit \in Nat \ {0} /\ FirstTime \in 0 .. TimeLimit - 1
    /\ MaxMessages \in Nat

VARIABLES
    published,    \* history: what publishers sent; the index is a message's id
    republished,  \* messages before the publisher of now, whose clock starts over
    metadata, avc_header, aac_header,    \* caches: a message, or NoMessage
    prev_audio_header_, prev_video_header_,  \* a message, or NoMessage
    out           \* per session: whether it is in the group, its has_sent_*
                  \* flags, and what it was sent

cacheVars == <<metadata, avc_header, aac_header, prev_audio_header_, prev_video_header_>>
vars == <<published, republished, cacheVars, out>>

Outs == RtmpOuts \cup FlvOuts

VideoKinds == {"avc header", "key frame", "inter frame"}
AudioKinds == {"aac header", "audio frame"}
Kinds == VideoKinds \cup AudioKinds

NoMessage == [kind |-> "none", id |-> 0, ts |-> 0]

\* The next message of the publisher: time passes between any two.
Message(kind) ==
    LET id == Len(published) + 1 IN
    [kind |-> kind, id |-> id, ts |-> (FirstTime + id - republished) % TimeLimit]

Media(m) == IF m.kind \in VideoKinds THEN "video" ELSE "audio"

Flags == {"metadata", "video", "audio", "key frame"}

TypeOK ==
    /\ \A i \in 1 .. Len(published) :
         published[i].kind \in Kinds \cup {"metadata"} /\ published[i].id = i
    /\ metadata.kind \in {"none", "metadata"}
    /\ avc_header.kind \in {"none", "avc header"}
    /\ aac_header.kind \in {"none", "aac header"}
    /\ prev_audio_header_.kind \in AudioKinds \cup {"none"}
    /\ prev_video_header_.kind \in VideoKinds \cup {"none"}
    /\ republished \in 0 .. Len(published)
    /\ \A o \in Outs :
         /\ out[o].joined \in BOOLEAN /\ out[o].sent \subseteq Flags
         /\ out[o].since \in 0 .. Len(published)
         /\ \A i \in 1 .. Len(out[o].got) : out[o].got[i].ts \in 0 .. TimeLimit - 1

\* since is history: the messages that were published before it joined.
NewOut == [joined |-> FALSE, sent |-> {}, got |-> <<>>, since |-> 0,
           clock |-> [audio |-> 0, video |-> 0]]

Init ==
    /\ published = <<>> /\ republished = 0
    /\ metadata = NoMessage /\ avc_header = NoMessage /\ aac_header = NoMessage
    /\ prev_audio_header_ = NoMessage /\ prev_video_header_ = NoMessage
    /\ out = [o \in Outs |-> NewOut]

-----------------------------------------------------------------------------
(* Sending to one session *)

\* What a session reads: the message, whether it is from a cache, the timestamp
\* it sees, whether that may still be changed because the buffer is the group's
\* and waits in the queue, and (history) during which message it was sent.
Item(m, cached, ts) ==
    [kind |-> m.kind, id |-> m.id, cached |-> cached, ts |-> ts,
     shared |-> cached /\ m.kind # "metadata", at |-> Len(published) + 1]

SetFlag(s, flag) == [s EXCEPT !.sent = @ \cup {flag}]

Get(s, m, cached, ts) == [s EXCEPT !.got = Append(@, Item(m, cached, ts))]

\* Media of an RTMP session also sets the clock of its chunk stream.
GetMedia(s, m, cached, ts) ==
    [Get(s, m, cached, ts) EXCEPT !.clock[Media(m)] = ts]

\* A cached message is sent once, if there is one.
SendCached(s, flag, m, ts) ==
    IF flag \in s.sent \/ m = NoMessage THEN s
    ELSE SetFlag(IF flag = "metadata" THEN Get(s, m, TRUE, ts)
                 ELSE GetMedia(s, m, TRUE, ts), flag)

\* A tag is packed with the timestamp of its message, and write_tag_timestamp
\* puts that of m on a cached tag that goes out before it.
TagTimestamp(m) == m.ts

\* The caches before message m.  RTMP chunks keep the timestamp they were made
\* with.
SendCaches(s, rtmp, m) ==
    SendCached(
        SendCached(
            SendCached(s, "metadata", metadata, 0),
            "video", avc_header, IF rtmp THEN avc_header.ts ELSE TagTimestamp(m)),
        "audio", aac_header, IF rtmp THEN aac_header.ts ELSE TagTimestamp(m))

\* A cached tag is given to some session and its timestamp written anew.
Stamped(flag, c) ==
    c # NoMessage /\ \E o \in FlvOuts : out[o].joined /\ flag \notin out[o].sent

\* write_tag_timestamp changes the cached tag also where it is still in a queue.
WithStamps(s, m) ==
    LET changed(g) == /\ g.shared
                      /\ \/ g.id = avc_header.id /\ Stamped("video", avc_header)
                         \/ g.id = aac_header.id /\ Stamped("audio", aac_header)
    IN  [s EXCEPT !.got = [i \in 1 .. Len(s.got) |->
            IF changed(s.got[i]) THEN [s.got[i] EXCEPT !.ts = TagTimestamp(m)] ELSE s.got[i]]]

\* Mutant: audio need not wait for a key frame.
IsWaiting_video_only(s, m) ==
    "key frame" \notin s.sent /\ m.kind = "inter frame"

\* Until a key frame comes everything else is dropped.  A first byte of 0x17 is
\* a key frame or the AVC header.
IsWaiting(s, m) ==
    "key frame" \notin s.sent /\ m.kind \notin {"avc header", "key frame"}

prev_header(m) ==
    IF Media(m) = "audio" THEN prev_audio_header_ ELSE prev_video_header_

\* Mutant: a delta is taken from the last cached header.
RtmpTimestamp_from_cache(s, m) ==
    LET c == IF Media(m) = "audio" THEN aac_header ELSE avc_header IN
    IF Media(m) \in s.sent /\ c # NoMessage
    THEN (s.clock[Media(m)] + m.ts - c.ts) % TimeLimit ELSE m.ts

\* delta_chunks or abs_chunks, as the session will read them.
RtmpTimestamp(s, m) ==
    IF Media(m) \in s.sent /\ prev_header(m) # NoMessage
    THEN (s.clock[Media(m)] + m.ts - prev_header(m).ts) % TimeLimit
    ELSE m.ts

\* Mutant: the caches are not sent.
send_av_data_no_cache(s, rtmp, m) ==
    IF IsWaiting(s, m) THEN s
    ELSE LET k == SetFlag(s, "key frame") IN
         SetFlag(GetMedia(k, m, FALSE, IF rtmp THEN RtmpTimestamp(k, m) ELSE TagTimestamp(m)),
                 Media(m))

\* Group::send_av_data, and the same for FLV in on_rtmp_av_data.
send_av_data(s, rtmp, m) ==
    LET c == SendCaches(s, rtmp, m)
        k == SetFlag(c, "key frame")
    IN  IF IsWaiting(c, m) THEN c
        ELSE SetFlag(GetMedia(k, m, FALSE, IF rtmp THEN RtmpTimestamp(k, m)
                                      ELSE TagTimestamp(m)), Media(m))

\* Metadata goes to every session at once; only an HttpFlvSub remembers it.
send_meta_data(s, rtmp, m) ==
    LET g == Get(s, m, FALSE, 0) IN IF rtmp THEN g ELSE SetFlag(g, "metadata")

-----------------------------------------------------------------------------
Publish(m) ==
    /\ Len(published) < MaxMessages
    /\ published' = Append(published, m)
    /\ UNCHANGED republished

\* Another publisher, or the pull session beside it, takes over (once, a bound):
\* nothing of what the group keeps is reset (on_rtmp_pub_start).
Republish ==
    /\ republished = 0 /\ published # <<>>
    /\ republished' = Len(published)
    /\ UNCHANGED <<published, cacheVars, out>>

\* add_rtmp_sub, add_http_flv_sub, or is_ready of the push session.
Join(o) ==
    /\ ~out[o].joined
    /\ out' = [out EXCEPT ![o].joined = TRUE, ![o].since = Len(published)]
    /\ UNCHANGED <<published, republished, cacheVars>>

\* An HttpFlvSub writes to its socket the first shared tag of its queue, and what
\* is before it.
Write(o) ==
    /\ \E i \in 1 .. Len(out[o].got) :
         /\ out[o].got[i].shared /\ \A j \in 1 .. i - 1 : ~out[o].got[j].shared
         /\ out' = [out EXCEPT ![o].got[i].shared = FALSE]
    /\ UNCHANGED <<published, republished, cacheVars>>

on_rtmp_meta_data ==
    LET m == Message("metadata") IN
    /\ Publish(m)
    /\ metadata' = m
    /\ out' = [o \in Outs |-> IF out[o].joined THEN send_meta_data(out[o], o \in RtmpOuts, m)
                              ELSE out[o]]
    /\ UNCHANGED <<avc_header, aac_header, prev_audio_header_, prev_video_header_>>

\* Everyone in the group is sent the message.
SendAvData(m) ==
    out' = [o \in Outs |->
        IF ~out[o].joined THEN out[o]
        ELSE IF o \in RtmpOuts THEN send_av_data(out[o], TRUE, m)
        ELSE send_av_data(WithStamps(out[o], m), FALSE, m)]

\* Mutant: every key frame is kept as the AVC header.
on_rtmp_av_data_caches_keys(kind) ==
    LET m == Message(kind) IN
    /\ Publish(m)
    /\ SendAvData(m)
    /\ avc_header' = IF kind \in {"avc header", "key frame"} THEN m ELSE avc_header
    /\ aac_header' = IF kind = "aac header" THEN m ELSE aac_header
    /\ prev_audio_header_' = IF Media(m) = "audio" THEN m ELSE prev_audio_header_
    /\ prev_video_header_' = IF Media(m) = "video" THEN m ELSE prev_video_header_
    /\ UNCHANGED metadata

\* Everyone is sent to first; then cache_aac_header or cache_avc_header, and
\* the header is remembered.
on_rtmp_av_data(kind) ==
    LET m == Message(kind) IN
    /\ Publish(m)
    /\ SendAvData(m)
    /\ avc_header' = IF kind = "avc header" THEN m ELSE avc_header
    /\ aac_header' = IF kind = "aac header" THEN m ELSE aac_header
    /\ prev_audio_header_' = IF Media(m) = "audio" THEN m ELSE prev_audio_header_
    /\ prev_video_header_' = IF Media(m) = "video" THEN m ELSE prev_video_header_
    /\ UNCHANGED metadata

Next ==
    \/ \E o \in Outs : Join(o)
    \/ \E o \in FlvOuts : Write(o)
    \/ Republish
    \/ on_rtmp_meta_data
    \/ \E kind \in Kinds : on_rtmp_av_data(kind)

Spec == Init /\ [][Next]_vars

-----------------------------------------------------------------------------
(* Properties *)

Times(kind) == {i \in 1 .. Len(published) : published[i].kind = kind}

\* The publisher's headers in force when it sent message id: the last before it.
InForce(kind, id) == {i \in Times(kind) : i < id /\ \A j \in Times(kind) : j < id => j <= i}

\* The publisher sends each decoder header at most once.
OneConfiguration ==
    \A kind \in {"avc header", "aac header"} : \A i, j \in Times(kind) : i = j

\* Where in what it was sent a session finds messages of the stream itself.
Live(o) ==
    {i \in 1 .. Len(out[o].got) : ~out[o].got[i].cached /\ out[o].got[i].kind # "metadata"}

IsStart(m) == m.kind \in {"avc header", "key frame"}

\* The audio and video messages from the first start of decoding after number id.
PublishedFrom(id) ==
    {n \in id + 1 .. Len(published) :
        /\ published[n].kind # "metadata"
        /\ \E k \in id + 1 .. n : IsStart(published[k])}

\* A session waits for the first key frame (or AVC header) after it joined, and
\* no longer, and from then on misses nothing, gets nothing twice and nothing out
\* of order, whoever publishes.
NothingMissed ==
    \A o \in Outs : LET got == out[o].got IN
        /\ {got[i].id : i \in Live(o)} = IF out[o].joined THEN PublishedFrom(out[o].since) ELSE {}
        /\ \A i, j \in Live(o) : i < j => got[i].id < got[j].id

\* A frame never reaches a session before the decoder header it needs, for a
\* publisher that sends each header once.
HeaderBeforeFrames ==
    OneConfiguration =>
        \A o \in Outs : LET got == out[o].got IN \A i \in 1 .. Len(got) :
            \A id \in (IF got[i].kind \in {"key frame", "inter frame"}
                       THEN InForce("avc header", got[i].id)
                       ELSE IF got[i].kind = "audio frame"
                       THEN InForce("aac header", got[i].id) ELSE {}) :
                \E j \in 1 .. i - 1 : got[j].id = id

\* Between two messages of one kind of media that a session gets, as much time
\* passes for it as for their publishers, although RTMP sends it differences to
\* a message that it may not have got and that may be another publisher's.
LiveInStep ==
    \A o \in Outs : LET got == out[o].got IN \A i, j \in Live(o) :
        Media(got[i]) = Media(got[j]) =>
            got[j].ts = (got[i].ts + published[got[j].id].ts - published[got[i].id].ts)
                            % TimeLimit

\* A cached header of an HttpFlvSub has the timestamp of the message before which
\* it was sent, or of a later one, before which another session got it.
HeadersInStep ==
    \A o \in FlvOuts : \A g \in Range(out[o].got) : g.cached /\ g.kind # "metadata" =>
        \E p \in FlvOuts : \E h \in Range(out[p].got) :
            /\ h.cached /\ h.id = g.id /\ h.at >= g.at
            /\ g.ts = published[h.at].ts

\* Time passes for every session as it does for the publisher.
TimeInStep == LiveInStep /\ HeadersInStep
=============================================================================
