------------------------------- MODULE Broker -------------------------------
(***************************************************************************)
(* The broker: Server, its Groups (one per stream name), the two accepting *)
(* servers, and the part of every session's life that a Group can see.     *)
(*                                                                         *)
(* One io_context thread runs every completion handler to its end, so one  *)
(* handler is one action.  A read handler may compose several messages;    *)
(* each message is an action, and once the handler has closed its own      *)
(* session the rest of its messages come before any other handler (busy).  *)
(*                                                                         *)
(* Media content, the handshake and the bytes of a message are abstracted  *)
(* here: what is kept of a message is which handler it reaches.            *)
(***************************************************************************)
EXTENDS Naturals, FiniteSets

CONSTANTS
    Sessions,    \* RtmpSessionServer objects the RTMP port can accept
    Clients,     \* RtmpSessionClient objects groups can create
    Flvs,        \* HttpFlvSub objects the HTTP port can accept
    Streams,     \* stream names that peers may ask for
    NoName,      \* the empty name, which peers may ask for too
    Gids,        \* Group objects (incarnations): an erased one is not reused
    Habits,      \* which of AllHabits the network and the peers show
    PullIfAbsent,  \* Config::pull_rtmp_if_stream_not_exist
    PushIfPub,     \* Config::push_rtmp_if_pub
    CleanTicks,  \* timer ticks between two sweeps of empty groups
    None         \* a null pointer

\* early:    a peer leaves before its publish or play took effect
\* takeover: a publish names a stream that has a publisher
\* rerole:   a session publishes or plays more than once
\* bad:      a peer sends a command the server does not know
\* reset:    a connection fails with an error other than end of file
\* late:     a write that succeeded before close() is reported after it
AllHabits == {"early", "takeover", "rerole", "bad", "reset", "late"}

ASSUME BrokerAssumption ==
    /\ Habits \subseteq AllHabits
    /\ PullIfAbsent \in BOOLEAN
    /\ PushIfPub \in BOOLEAN
    /\ CleanTicks \in Nat \ {0}
    /\ None \notin Sessions \cup Clients \cup Flvs \cup Streams \cup Gids

VARIABLES
    stream_name_2_group,  \* Server: stream name -> Group or None
    used,                 \* Gids ever allocated
    tick,                 \* Server::crude_timer_tick_count_msec_, in ticks
    rtmp_pub, rtmp_pull, rtmp_push, rtmp_subs, http_flv_subs,  \* Group
    sock,                 \* RtmpSessionServer: its socket and read loop
    type, stream_name,    \* RtmpSessionBase::type_, stream_name_
    av_data_cb,           \* the Group (a raw this) the media callbacks hold
    playing,              \* an onStatus(Play.Start) write is outstanding
    csock, ctype,         \* RtmpSessionClient: its socket, its type_
    close_cb,             \* the Group (a raw this) its callbacks hold
    busy,                 \* the session whose read handler is still running
    failed,               \* the assertions of the code that have failed
    up                    \* no member of a null or freed Group has been used

groupVars   == <<stream_name_2_group, used>>
memberVars  == <<rtmp_pub, rtmp_pull, rtmp_push, rtmp_subs, http_flv_subs>>
sessionVars == <<sock, type, stream_name, av_data_cb, playing>>
clientVars  == <<csock, ctype, close_cb>>
loopVars    == <<busy, failed, up>>
vars == <<groupVars, tick, memberVars, sessionVars, clientVars, loopVars>>

SockState  == {"idle", "open", "closing", "closed", "broken"}
Assertions == {"pub stop: no group", "close: no group", "close: invalid type",
               "send: invalid type"}

TypeOK ==
    /\ stream_name_2_group \in [Streams -> Gids \cup {None}]
    /\ used \in SUBSET Gids
    /\ tick \in 0 .. CleanTicks - 1
    /\ rtmp_pub  \in [Gids -> Sessions \cup {None}]
    /\ rtmp_pull \in [Gids -> Clients \cup {None}]
    /\ rtmp_push \in [Gids -> Clients \cup {None}]
    /\ rtmp_subs \in [Gids -> SUBSET Sessions]
    /\ http_flv_subs \in [Gids -> SUBSET Flvs]
    /\ sock \in [Sessions -> SockState]
    /\ type \in [Sessions -> {"SERVER", "PUB", "SUB"}]
    /\ stream_name \in [Sessions -> Streams \cup {NoName}]
    /\ av_data_cb \in [Sessions -> Gids \cup {None}]
    /\ playing \in [Sessions -> BOOLEAN]
    /\ csock \in [Clients -> {"idle", "open", "closed", "broken"}]
    /\ ctype \in [Clients -> {"INVALID", "PULL", "PUSH"}]
    /\ close_cb \in [Clients -> Gids \cup {None}]
    /\ busy \in Sessions \cup {None}
    /\ failed \in SUBSET Assertions
    /\ up \in BOOLEAN

Init ==
    /\ stream_name_2_group = [n \in Streams |-> None]
    /\ used = {}
    /\ tick = 0
    /\ rtmp_pub  = [g \in Gids |-> None]
    /\ rtmp_pull = [g \in Gids |-> None]
    /\ rtmp_push = [g \in Gids |-> None]
    /\ rtmp_subs = [g \in Gids |-> {}]
    /\ http_flv_subs = [g \in Gids |-> {}]
    /\ sock = [s \in Sessions |-> "idle"]
    /\ type = [s \in Sessions |-> "SERVER"]
    /\ stream_name = [s \in Sessions |-> NoName]
    /\ av_data_cb = [s \in Sessions |-> None]
    /\ playing = [s \in Sessions |-> FALSE]
    /\ csock = [c \in Clients |-> "idle"]
    /\ ctype = [c \in Clients |-> "INVALID"]
    /\ close_cb = [c \in Clients |-> None]
    /\ busy = None
    /\ failed = {}
    /\ up = TRUE

-----------------------------------------------------------------------------
(* Server *)

Alive(g) == g # None /\ \E n \in Streams : stream_name_2_group[n] = g

\* Server::get_group.  The empty name is a key like others once a peer asks for it.
get_group(n) == IF n \in Streams THEN stream_name_2_group[n] ELSE None

\* Server::get_or_create_group, returning g.
get_or_create_group(n, g) ==
    \/ /\ stream_name_2_group[n] = g
       /\ UNCHANGED groupVars
    \/ /\ stream_name_2_group[n] = None
       /\ g \notin used
       /\ stream_name_2_group' = [stream_name_2_group EXCEPT ![n] = g]
       /\ used' = used \cup {g}

\* Mutants: the publisher, the players and the push, or the subscribers, do not keep a
\* Group.
empty_without_pub(g) ==
    /\ rtmp_subs[g] = {}
    /\ rtmp_push[g] = None
    /\ rtmp_pull[g] = None
    /\ http_flv_subs[g] = {}

empty_of_inputs(g) == rtmp_pub[g] = None /\ rtmp_pull[g] = None

empty_without_subs(g) ==
    /\ rtmp_pub[g] = None
    /\ rtmp_push[g] = None
    /\ rtmp_pull[g] = None
    /\ http_flv_subs[g] = {}

\* Group::empty_totally
empty_totally(g) ==
    /\ rtmp_pub[g] = None
    /\ rtmp_subs[g] = {}
    /\ rtmp_push[g] = None
    /\ rtmp_pull[g] = None
    /\ http_flv_subs[g] = {}

Erasable(n) ==
    stream_name_2_group[n] # None /\ empty_totally(stream_name_2_group[n])

-----------------------------------------------------------------------------
(* Group *)

\* Mutant: a pull in progress is not an input.
has_in_pub_only(g, p) == p # None

\* Group::has_in, with p the value of rtmp_pub_ at the call.
has_in(g, p) == p # None \/ rtmp_pull[g] # None

\* A client session c is created for g: RtmpSessionClient::create_*, then
\* async_start and the callbacks, which hold g.
start_client(c, t, g) ==
    /\ csock[c] = "idle"
    /\ csock' = [csock EXCEPT ![c] = "open"]
    /\ ctype' = [ctype EXCEPT ![c] = t]
    /\ close_cb' = [close_cb EXCEPT ![c] = g]

pull_rtmp_if_needed(g) ==
    \/ /\ PullIfAbsent /\ ~has_in(g, rtmp_pub[g])
       /\ \E c \in Clients : /\ start_client(c, "PULL", g)
                             /\ rtmp_pull' = [rtmp_pull EXCEPT ![g] = c]
    \/ /\ ~(PullIfAbsent /\ ~has_in(g, rtmp_pub[g]))
       /\ UNCHANGED <<clientVars, rtmp_pull>>

\* A member of a group whose type is no longer SUB fails the assertion of
\* async_send, which closes it; being a publisher by then, its close resets
\* the publisher of the group its stream name finds now.  pub, types, names
\* and index are the values at the time of the loop; me is the session whose
\* read handler runs the loop.
send_to_subs(me, g, pub, types, names, index) ==
    LET mistyped == {s \in rtmp_subs[g] : types[s] # "SUB"}
        hit      == {index[names[s]] : s \in mistyped}
    IN  /\ sock' = [s \in Sessions |->
                      IF s \notin mistyped THEN sock[s]
                      ELSE IF sock[s] \in {"open", "closing"} THEN "closing"
                      ELSE "closed"]
        /\ rtmp_pub' = [h \in Gids |-> IF h \in hit THEN None ELSE pub[h]]
        /\ busy' = IF me \in mistyped THEN me ELSE busy
        /\ up' = (None \notin hit)
        /\ failed' = failed
             \cup {a \in {"send: invalid type"} : mistyped # {}}
             \cup {a \in {"close: no group"} : None \in hit}

push_rtmp_if_pub(g) ==
    \/ /\ PushIfPub /\ rtmp_push[g] = None /\ rtmp_pub'[g] # None
       /\ \E c \in Clients : /\ start_client(c, "PUSH", g)
                             /\ rtmp_push' = [rtmp_push EXCEPT ![g] = c]
    \/ /\ ~(PushIfPub /\ rtmp_push[g] = None /\ rtmp_pub'[g] # None)
       /\ UNCHANGED <<clientVars, rtmp_push>>

-----------------------------------------------------------------------------
(* Sessions accepted at the RTMP port *)

\* The read handler of s may run now and has a message to process.
Reading(s) ==
    /\ up
    /\ busy \in {None, s}
    /\ sock[s] \in {"open", "closing"}

\* RtmpServer::do_accept and the handshake up to the first do_read.
Accept(s) ==
    /\ up /\ busy = None
    /\ sock[s] = "idle"
    /\ sock' = [sock EXCEPT ![s] = "open"]
    /\ UNCHANGED <<groupVars, tick, memberVars, clientVars, loopVars,
                   type, stream_name, av_data_cb, playing>>

FirstRole(s) == type[s] = "SERVER" /\ ~playing[s]

\* publish_handler, then RtmpServer::on_pub_start and Group::on_rtmp_pub_start.
Publish(s, n) ==
    /\ Reading(s)
    /\ "rerole" \notin Habits => FirstRole(s)
    /\ "takeover" \notin Habits =>
         \A g \in Gids : stream_name_2_group[n] = g => rtmp_pub[g] = None
    /\ stream_name' = [stream_name EXCEPT ![s] = n]
    /\ type' = [type EXCEPT ![s] = "PUB"]
    /\ \E g \in Gids :
         /\ get_or_create_group(n, g)
         /\ av_data_cb' = [av_data_cb EXCEPT ![s] = g]
         /\ send_to_subs(s, g, [rtmp_pub EXCEPT ![g] = s], type',
                         stream_name', stream_name_2_group')
         /\ push_rtmp_if_pub(g)
    /\ UNCHANGED <<tick, rtmp_pull, rtmp_subs, http_flv_subs, playing>>

\* play_handler: the session becomes a subscriber only in PlayDone.  One play
\* is outstanding at a time (bound).
Play(s, n) ==
    /\ Reading(s)
    /\ ~playing[s]
    /\ "rerole" \notin Habits => FirstRole(s)
    /\ stream_name' = [stream_name EXCEPT ![s] = n]
    /\ playing' = [playing EXCEPT ![s] = TRUE]
    /\ UNCHANGED <<groupVars, tick, memberVars, clientVars, loopVars,
                   sock, type, av_data_cb>>

\* Completion of do_write_on_status_play, then RtmpServer::on_sub_start and
\* Group::add_rtmp_sub.
PlayDone(s) ==
    /\ up /\ busy = None
    /\ playing[s]
    /\ sock[s] \in IF "late" \in Habits THEN {"open", "closing", "closed"} ELSE {"open"}
    /\ playing' = [playing EXCEPT ![s] = FALSE]
    /\ type' = [type EXCEPT ![s] = "SUB"]
    /\ \E g \in Gids :
         /\ get_or_create_group(stream_name[s], g)
         /\ rtmp_subs' = [rtmp_subs EXCEPT ![g] = @ \cup {s}]
         /\ pull_rtmp_if_needed(g)
    /\ UNCHANGED <<tick, rtmp_pub, rtmp_push, http_flv_subs, sock, stream_name,
                   av_data_cb, loopVars>>

\* The same completion with an error, which is never end of file.
PlayFailed(s) ==
    /\ up /\ busy = None
    /\ playing[s]
    /\ sock[s] \in {"closing", "closed", "broken"}
    /\ playing' = [playing EXCEPT ![s] = FALSE]
    /\ UNCHANGED <<groupVars, tick, memberVars, clientVars, loopVars,
                   sock, type, stream_name, av_data_cb>>

\* delete_stream_handler, then on_pub_stop and Group::on_rtmp_pub_stop.
DeleteStream(s) ==
    /\ Reading(s)
    /\ type[s] = "PUB"
    /\ LET g == get_group(stream_name[s]) IN
         \/ /\ g = None
            /\ failed' = failed \cup {"pub stop: no group"}
            /\ up' = FALSE
            /\ UNCHANGED <<sock, rtmp_pub, busy>>
         \/ /\ g # None
            /\ send_to_subs(s, g, rtmp_pub, type, stream_name, stream_name_2_group)
    /\ UNCHANGED <<groupVars, tick, rtmp_pull, rtmp_push, rtmp_subs,
                   http_flv_subs, type, stream_name, av_data_cb, playing,
                   clientVars>>

\* Metadata, audio or video of a session a group has bound its callbacks to.
\* A group that was erased in the meantime no longer exists.
Media(s) ==
    /\ Reading(s)
    /\ av_data_cb[s] # None
    /\ \/ /\ ~Alive(av_data_cb[s])
          /\ up' = FALSE
          /\ UNCHANGED <<sock, rtmp_pub, busy, failed>>
       \/ /\ Alive(av_data_cb[s])
          /\ send_to_subs(s, av_data_cb[s], rtmp_pub, type, stream_name,
                          stream_name_2_group)
    /\ UNCHANGED <<groupVars, tick, rtmp_pull, rtmp_push, rtmp_subs,
                   http_flv_subs, type, stream_name, av_data_cb, playing,
                   clientVars>>

\* Mutant: a subscriber that closes stays in rtmp_subs_.
on_rtmp_session_close_keeps_sub(s) ==
    LET g == get_group(stream_name[s]) IN
    /\ up' = (g # None \/ type[s] = "SERVER")
    /\ failed' = failed
    /\ rtmp_pub' = [h \in Gids |->
         IF h = g /\ type[s] = "PUB" THEN None ELSE rtmp_pub[h]]
    /\ UNCHANGED rtmp_subs

\* RtmpSessionBase::close's callback: RtmpServer::on_rtmp_session_close, then
\* Group::on_rtmp_session_close, which is called through a null pointer when there is
\* no Group: a PUB or SUB session then makes it use a member, a SERVER session does not.
on_rtmp_session_close(s) ==
    LET g == get_group(stream_name[s]) IN
    /\ up' = (g # None \/ type[s] = "SERVER")
    /\ failed' = failed \cup {a \in {"close: no group"} : g = None}
                        \cup {a \in {"close: invalid type"} :
                                g # None /\ type[s] = "SERVER"}
    /\ rtmp_pub' = [h \in Gids |->
         IF h = g /\ type[s] = "PUB" THEN None ELSE rtmp_pub[h]]
    /\ rtmp_subs' = [h \in Gids |->
         IF h = g /\ type[s] = "SUB" THEN rtmp_subs[h] \ {s} ELSE rtmp_subs[h]]

\* A read completes with end of file: close().
PeerEof(s) ==
    /\ up /\ busy = None
    /\ sock[s] = "open"
    /\ "early" \notin Habits => type[s] # "SERVER"
    /\ sock' = [sock EXCEPT ![s] = "closed"]
    /\ on_rtmp_session_close(s)
    /\ UNCHANGED <<groupVars, tick, rtmp_pull, rtmp_push, http_flv_subs, type,
                   stream_name, av_data_cb, playing, clientVars, busy>>

\* An unknown command: the assertion closes the session, but the read handler
\* goes on with the messages it has.
BadCommand(s) ==
    /\ Reading(s)
    /\ "bad" \in Habits
    /\ sock' = [sock EXCEPT ![s] = "closing"]
    /\ busy' = s
    /\ on_rtmp_session_close(s)
    /\ UNCHANGED <<groupVars, tick, rtmp_pull, rtmp_push, http_flv_subs, type,
                   stream_name, av_data_cb, playing, clientVars>>

\* No message is left; the next do_read fails on the closed socket.
Drained(s) ==
    /\ up /\ busy \in {None, s}
    /\ sock[s] = "closing"
    /\ sock' = [sock EXCEPT ![s] = "closed"]
    /\ busy' = None
    /\ UNCHANGED <<groupVars, tick, memberVars, clientVars, type, stream_name,
                   av_data_cb, playing, failed, up>>

\* A read completes with another error: logged, and the read loop ends.
PeerReset(s) ==
    /\ up /\ busy = None
    /\ "reset" \in Habits
    /\ sock[s] = "open"
    /\ sock' = [sock EXCEPT ![s] = "broken"]
    /\ UNCHANGED <<groupVars, tick, memberVars, clientVars, loopVars,
                   type, stream_name, av_data_cb, playing>>

-----------------------------------------------------------------------------
(* Sessions accepted at the HTTP port *)

\* HttpFlvSub::request_handler, HttpFlvServer::on_http_flv_request and
\* Group::add_http_flv_sub.  Nothing is read after the request, so no end of
\* file ever calls HttpFlvSub::close and no member leaves http_flv_subs.
HttpFlvRequest(f, n) ==
    /\ up /\ busy = None
    /\ \A g \in Gids : f \notin http_flv_subs[g]
    /\ \E g \in Gids :
         /\ get_or_create_group(n, g)
         /\ http_flv_subs' = [http_flv_subs EXCEPT ![g] = @ \cup {f}]
         /\ pull_rtmp_if_needed(g)
    /\ UNCHANGED <<tick, rtmp_pub, rtmp_push, rtmp_subs, sessionVars, loopVars>>

-----------------------------------------------------------------------------
(* Sessions a group opened *)

\* Media of a pull session, delivered through its callbacks.
PullMedia(c) ==
    /\ up /\ busy = None
    /\ csock[c] = "open" /\ ctype[c] = "PULL"
    /\ \/ /\ ~Alive(close_cb[c])
          /\ up' = FALSE
          /\ UNCHANGED <<sock, rtmp_pub, busy, failed>>
       \/ /\ Alive(close_cb[c])
          /\ send_to_subs(c, close_cb[c], rtmp_pub, type, stream_name,
                          stream_name_2_group)
    /\ UNCHANGED <<groupVars, tick, rtmp_pull, rtmp_push, rtmp_subs,
                   http_flv_subs, type, stream_name, av_data_cb, playing,
                   clientVars>>

\* Mutant: a closed pull session is left in its slot.
ClientClose_keeps_pull(c) ==
    /\ up /\ busy = None
    /\ csock[c] = "open"
    /\ csock' = [csock EXCEPT ![c] = "closed"]
    /\ rtmp_push' = [g \in Gids |-> IF g = close_cb[c] /\ ctype[c] = "PUSH"
                                    THEN None ELSE rtmp_push[g]]
    /\ UNCHANGED <<groupVars, tick, rtmp_pub, rtmp_pull, rtmp_subs, http_flv_subs,
                   sessionVars, ctype, close_cb, loopVars>>

\* close() of a client, on end of file or on an answer it asserts against
\* (say, an onStatus that refuses the stream): Group::on_rtmp_session_close.
ClientClose(c) ==
    /\ up /\ busy = None
    /\ csock[c] = "open"
    /\ csock' = [csock EXCEPT ![c] = "closed"]
    /\ up' = Alive(close_cb[c])
    /\ rtmp_pull' = [g \in Gids |-> IF g = close_cb[c] /\ ctype[c] = "PULL"
                                    THEN None ELSE rtmp_pull[g]]
    /\ rtmp_push' = [g \in Gids |-> IF g = close_cb[c] /\ ctype[c] = "PUSH"
                                    THEN None ELSE rtmp_push[g]]
    /\ UNCHANGED <<groupVars, tick, rtmp_pub, rtmp_subs, http_flv_subs,
                   sessionVars, ctype, close_cb, busy, failed>>

\* Resolve, connect, read or write fails with another error: only logged.
ClientReset(c) ==
    /\ up /\ busy = None
    /\ "reset" \in Habits
    /\ csock[c] = "open"
    /\ csock' = [csock EXCEPT ![c] = "broken"]
    /\ UNCHANGED <<groupVars, tick, memberVars, sessionVars, ctype, close_cb,
                   loopVars>>

-----------------------------------------------------------------------------
\* Mutants: the tick count is never taken modulo the interval; and the sweep
\* waits for a count the modulo never reaches.
CrudeTimer_counts_on ==
    /\ up /\ busy = None
    /\ stream_name_2_group' =
         IF tick = 0
         THEN [n \in Streams |-> IF Erasable(n) THEN None ELSE stream_name_2_group[n]]
         ELSE stream_name_2_group
    /\ tick' = tick + 1
    /\ UNCHANGED <<used, memberVars, sessionVars, clientVars, loopVars>>

CrudeTimer_off_by_one ==
    /\ up /\ busy = None
    /\ stream_name_2_group' =
         IF tick = CleanTicks
         THEN [n \in Streams |-> IF Erasable(n) THEN None ELSE stream_name_2_group[n]]
         ELSE stream_name_2_group
    /\ tick' = (tick + 1) % CleanTicks
    /\ UNCHANGED <<used, memberVars, sessionVars, clientVars, loopVars>>

\* Server::crude_timer_handler: every CleanTicks-th tick erases the groups that
\* are empty, destroying them.
CrudeTimer ==
    /\ up /\ busy = None
    /\ stream_name_2_group' =
         IF tick = 0
         THEN [n \in Streams |-> IF Erasable(n) THEN None ELSE stream_name_2_group[n]]
         ELSE stream_name_2_group
    /\ tick' = (tick + 1) % CleanTicks
    /\ UNCHANGED <<used, memberVars, sessionVars, clientVars, loopVars>>

Next ==
    \/ \E s \in Sessions :
         \/ Accept(s) \/ PlayDone(s) \/ PlayFailed(s) \/ DeleteStream(s)
         \/ Media(s) \/ PeerEof(s) \/ BadCommand(s) \/ Drained(s) \/ PeerReset(s)
         \/ \E n \in Streams : Publish(s, n) \/ Play(s, n)
    \/ \E f \in Flvs, n \in Streams : HttpFlvRequest(f, n)
    \/ \E c \in Clients : PullMedia(c) \/ ClientClose(c) \/ ClientReset(c)
    \/ CrudeTimer

Spec == Init /\ [][Next]_vars

\* The timer re-arms itself in its own handler, and io_context runs every
\* handler that is ready; nothing is assumed of the peers.
FairSpec == Spec /\ WF_vars(CrudeTimer)

-----------------------------------------------------------------------------
(* Properties *)

\* A player whose play was answered stays where media is sent to, whatever publishers
\* come, go and take over, and however empty of them the timer finds its Group: the
\* name of a subscriber that still reads, and asked for nothing since, finds a Group
\* that has it, and no Group that has a player of either kind is erased
\* (do_write_on_status_play, add_rtmp_sub, add_http_flv_sub, crude_timer_handler).
PlayersFound ==
    /\ \A s \in Sessions : sock[s] = "open" /\ type[s] = "SUB" /\ ~playing[s] =>
         \E g \in Gids : get_group(stream_name[s]) = g /\ s \in rtmp_subs[g]
    /\ \A g \in Gids : rtmp_subs[g] \cup http_flv_subs[g] # {} => Alive(g)

\* A relay session whose close callback can still run is the one in the slot
\* of a Group that still exists, and a slot holds only such a session: the raw
\* this its callbacks hold is never that of an erased Group, whatever peers do.
ClientsOwned ==
    /\ \A c \in Clients : csock[c] \in {"open", "broken"} =>
         /\ close_cb[c] \in Gids /\ Alive(close_cb[c])
         /\ \/ ctype[c] = "PULL" /\ rtmp_pull[close_cb[c]] = c
            \/ ctype[c] = "PUSH" /\ rtmp_push[close_cb[c]] = c
    /\ \A g \in Gids : rtmp_pull[g] # None =>
         /\ csock[rtmp_pull[g]] \in {"open", "broken"}
         /\ ctype[rtmp_pull[g]] = "PULL" /\ close_cb[rtmp_pull[g]] = g
    /\ \A g \in Gids : rtmp_push[g] # None =>
         /\ csock[rtmp_push[g]] \in {"open", "broken"}
         /\ ctype[rtmp_push[g]] = "PUSH" /\ close_cb[rtmp_push[g]] = g

Live(s) == sock[s] \in {"open", "broken"}

IsMember(s, g, t) == Live(s) /\ type[s] = t /\ get_group(stream_name[s]) = g

\* The session registry agrees with the sessions: a live publisher or
\* subscriber is a member of the Group its stream name finds, in the place its
\* type says, and a Group has no other member.  This is what
\* on_rtmp_session_close relies on to find what it must remove.
MembersMatch ==
    /\ \A s \in Sessions : Live(s) /\ type[s] # "SERVER" =>
         LET g == get_group(stream_name[s]) IN
         /\ g # None
         /\ type[s] = "PUB" => rtmp_pub[g] = s
         /\ type[s] = "SUB" => s \in rtmp_subs[g]
    /\ \A g \in Gids, s \in Sessions :
         /\ rtmp_pub[g] = s => IsMember(s, g, "PUB")
         /\ s \in rtmp_subs[g] => IsMember(s, g, "SUB")

\* A session that can still deliver media has its callbacks bound to the Group
\* its stream name finds, not to one the timer has erased.
CallbacksAlive ==
    \A s \in Sessions : Live(s) /\ av_data_cb[s] # None =>
        av_data_cb[s] = get_group(stream_name[s])

\* No handler uses a member of a null or an erased Group.
NeverUsesLostGroup == up

\* The code asserts that a publish stop and a session's close find a Group, that
\* a session in a Group closes as PUB or SUB, and that only subscribers are sent
\* media.  Only the two assertions of the close ever fail, and only after a
\* session has ended that neither published nor played (its type is SERVER).
OnlyLeaversFail ==
    failed # {} =>
        /\ failed \subseteq {"close: no group", "close: invalid type"}
        /\ \E s \in Sessions : sock[s] = "closed" /\ type[s] = "SERVER"

\* A subscriber joins a Group that has no publisher.
JoinsAbsent(g) ==
    /\ rtmp_subs[g] # rtmp_subs'[g] /\ rtmp_subs[g] \subseteq rtmp_subs'[g]
    /\ rtmp_pub'[g] = None

\* "When a client pulls a stream that does not exist here, pull it from another
\* server": when a subscriber joins a Group without a publisher, a pull session
\* that can still deliver is in place after the handler.
PullWhenAbsent ==
    [][\A g \in Gids : PullIfAbsent /\ JoinsAbsent(g) =>
         rtmp_pull'[g] # None /\ csock'[rtmp_pull'[g]] = "open"]_vars

\* The same, except that the pull in place may be one whose connection had
\* already failed with an error other than end of file.
PullUnlessReset ==
    [][\A g \in Gids : PullIfAbsent /\ JoinsAbsent(g) =>
         /\ rtmp_pull'[g] # None
         /\ \/ csock'[rtmp_pull'[g]] = "open"
            \/ rtmp_pull[g] = rtmp_pull'[g] /\ csock[rtmp_pull[g]] = "broken"]_vars

\* No Group is forgotten by the sweep: one that stays empty is erased.
EmptyGroupErased ==
    \A n \in Streams : Erasable(n) ~> ~Erasable(n)
=============================================================================
