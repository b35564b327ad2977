---------------------------- MODULE BrokerProofs ----------------------------
(* Theorems about Broker, for any number of sessions, clients, streams and   *)
(* Groups.                                                                   *)
EXTENDS Broker, TLAPS

\* The initial state has the types.
LEMMA TypeInit == Init => TypeOK
BY BrokerAssumption DEF Init, TypeOK, SockState, Assertions

\* The loop over the subscribers of g keeps the types of what it changes.
LEMMA SendKeepsTypes ==
    ASSUME TypeOK, NEW me, NEW g \in Gids,
           NEW pub \in [Gids -> Sessions \cup {None}],
           NEW types, NEW names, NEW index,
           send_to_subs(me, g, pub, types, names, index)
    PROVE  /\ sock' \in [Sessions -> SockState]
           /\ rtmp_pub' \in [Gids -> Sessions \cup {None}]
           /\ busy' \in Sessions \cup {None}
           /\ failed' \in SUBSET Assertions
           /\ up' \in BOOLEAN
<1> DEFINE mistyped == {s \in rtmp_subs[g] : types[s] # "SUB"}
<1>1. mistyped \subseteq Sessions
  BY DEF TypeOK
<1>2. sock' \in [Sessions -> SockState]
  BY DEF send_to_subs, TypeOK, SockState
<1>3. rtmp_pub' \in [Gids -> Sessions \cup {None}]
  BY DEF send_to_subs
<1>4. busy' \in Sessions \cup {None}
  BY <1>1 DEF send_to_subs, TypeOK
<1>5. failed' \in SUBSET Assertions /\ up' \in BOOLEAN
  BY DEF send_to_subs, TypeOK, Assertions
<1> QED
  BY <1>2, <1>3, <1>4, <1>5

\* A relay session that is started, or not, keeps the types.
LEMMA RelayKeepsTypes ==
    ASSUME TypeOK, NEW g \in Gids, pull_rtmp_if_needed(g)
    PROVE  /\ rtmp_pull' \in [Gids -> Clients \cup {None}]
           /\ csock' \in [Clients -> {"idle", "open", "closed", "broken"}]
           /\ ctype' \in [Clients -> {"INVALID", "PULL", "PUSH"}]
           /\ close_cb' \in [Clients -> Gids \cup {None}]
<1>1. CASE UNCHANGED <<clientVars, rtmp_pull>>
  BY <1>1 DEF TypeOK, clientVars
<1>2. ASSUME NEW c \in Clients, start_client(c, "PULL", g),
             rtmp_pull' = [rtmp_pull EXCEPT ![g] = c]
      PROVE  /\ rtmp_pull' \in [Gids -> Clients \cup {None}]
             /\ csock' \in [Clients -> {"idle", "open", "closed", "broken"}]
             /\ ctype' \in [Clients -> {"INVALID", "PULL", "PUSH"}]
             /\ close_cb' \in [Clients -> Gids \cup {None}]
  BY <1>2 DEF start_client, TypeOK
<1> QED
  BY <1>1, <1>2 DEF pull_rtmp_if_needed

\* Every step keeps them: one case per action of Next.
LEMMA TypeStep == TypeOK /\ [Next]_vars => TypeOK'
<1> SUFFICES ASSUME TypeOK, [Next]_vars PROVE TypeOK'
  OBVIOUS
<1> USE DEF groupVars, memberVars, sessionVars, clientVars, loopVars
<1>1. ASSUME NEW s \in Sessions, Accept(s) PROVE TypeOK'
  BY <1>1 DEF Accept, TypeOK, SockState
<1>2. ASSUME NEW s \in Sessions, PlayDone(s) PROVE TypeOK'
  <2>1. PICK g \in Gids :
          /\ get_or_create_group(stream_name[s], g)
          /\ rtmp_subs' = [rtmp_subs EXCEPT ![g] = @ \cup {s}]
          /\ pull_rtmp_if_needed(g)
    BY <1>2 DEF PlayDone
  <2>2. /\ stream_name_2_group' \in [Streams -> Gids \cup {None}]
        /\ used' \in SUBSET Gids
    BY <2>1 DEF get_or_create_group, TypeOK
  <2>3. /\ rtmp_pull' \in [Gids -> Clients \cup {None}]
        /\ csock' \in [Clients -> {"idle", "open", "closed", "broken"}]
        /\ ctype' \in [Clients -> {"INVALID", "PULL", "PUSH"}]
        /\ close_cb' \in [Clients -> Gids \cup {None}]
    BY <2>1, RelayKeepsTypes
  <2>4. rtmp_subs' \in [Gids -> SUBSET Sessions]
    BY <2>1 DEF TypeOK
  <2> QED
    BY <1>2, <2>2, <2>3, <2>4 DEF PlayDone, TypeOK
<1>3. ASSUME NEW s \in Sessions, PlayFailed(s) PROVE TypeOK'
  BY <1>3 DEF PlayFailed, TypeOK
<1>4. ASSUME NEW s \in Sessions, DeleteStream(s) PROVE TypeOK'
  <2> DEFINE g == get_group(stream_name[s])
  <2>1. CASE g = None
    BY <1>4, <2>1 DEF DeleteStream, TypeOK, Assertions, send_to_subs
  <2>2. CASE g # None
    <3>1. g \in Gids
      BY <2>2 DEF TypeOK, get_group
    <3>2. send_to_subs(s, g, rtmp_pub, type, stream_name, stream_name_2_group)
      BY <1>4, <2>2 DEF DeleteStream
    <3>3. rtmp_pub \in [Gids -> Sessions \cup {None}]
      BY DEF TypeOK
    <3> HIDE DEF g
    <3> QED
      BY <3>1, <3>2, <3>3, SendKeepsTypes, <1>4 DEF DeleteStream, TypeOK
  <2> QED
    BY <2>1, <2>2
<1>5. ASSUME NEW s \in Sessions, Media(s) PROVE TypeOK'
  <2>1. CASE ~Alive(av_data_cb[s])
    BY <1>5, <2>1 DEF Media, TypeOK
  <2>2. CASE Alive(av_data_cb[s])
    <3>1. av_data_cb[s] \in Gids
      BY <1>5, <2>2, BrokerAssumption DEF Media, TypeOK, Alive
    <3>2. send_to_subs(s, av_data_cb[s], rtmp_pub, type, stream_name, stream_name_2_group)
      BY <1>5, <2>2 DEF Media
    <3>3. rtmp_pub \in [Gids -> Sessions \cup {None}]
      BY DEF TypeOK
    <3> QED
      BY <3>1, <3>2, <3>3, SendKeepsTypes, <1>5 DEF Media, TypeOK
  <2> QED
    BY <2>1, <2>2
<1>6. ASSUME NEW s \in Sessions, PeerEof(s) PROVE TypeOK'
  BY <1>6 DEF PeerEof, TypeOK, on_rtmp_session_close, SockState, Assertions
<1>7. ASSUME NEW s \in Sessions, BadCommand(s) PROVE TypeOK'
  BY <1>7 DEF BadCommand, TypeOK, on_rtmp_session_close, SockState, Assertions
<1>8. ASSUME NEW s \in Sessions, Drained(s) PROVE TypeOK'
  BY <1>8 DEF Drained, TypeOK, SockState
<1>9. ASSUME NEW s \in Sessions, PeerReset(s) PROVE TypeOK'
  BY <1>9 DEF PeerReset, TypeOK, SockState
<1>10. ASSUME NEW s \in Sessions, NEW n \in Streams, Publish(s, n) PROVE TypeOK'
  <2>1. PICK g \in Gids :
          /\ get_or_create_group(n, g)
          /\ av_data_cb' = [av_data_cb EXCEPT ![s] = g]
          /\ send_to_subs(s, g, [rtmp_pub EXCEPT ![g] = s], type', stream_name',
                          stream_name_2_group')
          /\ push_rtmp_if_pub(g)
    BY <1>10 DEF Publish
  <2>2. [rtmp_pub EXCEPT ![g] = s] \in [Gids -> Sessions \cup {None}]
    BY DEF TypeOK
  <2>3. /\ sock' \in [Sessions -> SockState]
        /\ rtmp_pub' \in [Gids -> Sessions \cup {None}]
        /\ busy' \in Sessions \cup {None}
        /\ failed' \in SUBSET Assertions
        /\ up' \in BOOLEAN
    BY <2>1, <2>2, SendKeepsTypes
  <2>4. /\ stream_name_2_group' \in [Streams -> Gids \cup {None}]
        /\ used' \in SUBSET Gids
    BY <2>1 DEF get_or_create_group, groupVars, TypeOK
  <2>5. /\ rtmp_push' \in [Gids -> Clients \cup {None}]
        /\ csock' \in [Clients -> {"idle", "open", "closed", "broken"}]
        /\ ctype' \in [Clients -> {"INVALID", "PULL", "PUSH"}]
        /\ close_cb' \in [Clients -> Gids \cup {None}]
    BY <2>1 DEF push_rtmp_if_pub, start_client, TypeOK
  <2> QED
    BY <1>10, <2>1, <2>3, <2>4, <2>5 DEF Publish, TypeOK
<1>11. ASSUME NEW s \in Sessions, NEW n \in Streams, Play(s, n) PROVE TypeOK'
  BY <1>11 DEF Play, TypeOK
<1>12. ASSUME NEW f \in Flvs, NEW n \in Streams, HttpFlvRequest(f, n) PROVE TypeOK'
  <2>1. PICK g \in Gids :
          /\ get_or_create_group(n, g)
          /\ http_flv_subs' = [http_flv_subs EXCEPT ![g] = @ \cup {f}]
          /\ pull_rtmp_if_needed(g)
    BY <1>12 DEF HttpFlvRequest
  <2>2. /\ stream_name_2_group' \in [Streams -> Gids \cup {None}]
        /\ used' \in SUBSET Gids
    BY <2>1 DEF get_or_create_group, TypeOK
  <2>3. /\ rtmp_pull' \in [Gids -> Clients \cup {None}]
        /\ csock' \in [Clients -> {"idle", "open", "closed", "broken"}]
        /\ ctype' \in [Clients -> {"INVALID", "PULL", "PUSH"}]
        /\ close_cb' \in [Clients -> Gids \cup {None}]
    BY <2>1, RelayKeepsTypes
  <2>4. http_flv_subs' \in [Gids -> SUBSET Flvs]
    BY <2>1 DEF TypeOK
  <2> QED
    BY <1>12, <2>2, <2>3, <2>4 DEF HttpFlvRequest, TypeOK
<1>13. ASSUME NEW c \in Clients, PullMedia(c) PROVE TypeOK'
  <2>1. CASE ~Alive(close_cb[c])
    BY <1>13, <2>1 DEF PullMedia, TypeOK
  <2>2. CASE Alive(close_cb[c])
    <3>1. close_cb[c] \in Gids
      BY <1>13, <2>2, BrokerAssumption DEF PullMedia, TypeOK, Alive
    <3>2. send_to_subs(c, close_cb[c], rtmp_pub, type, stream_name, stream_name_2_group)
      BY <1>13, <2>2 DEF PullMedia
    <3>3. rtmp_pub \in [Gids -> Sessions \cup {None}]
      BY DEF TypeOK
    <3> QED
      BY <3>1, <3>2, <3>3, SendKeepsTypes, <1>13 DEF PullMedia, TypeOK
  <2> QED
    BY <2>1, <2>2
<1>14. ASSUME NEW c \in Clients, ClientClose(c) PROVE TypeOK'
  BY <1>14 DEF ClientClose, TypeOK, Alive
<1>15. ASSUME NEW c \in Clients, ClientReset(c) PROVE TypeOK'
  BY <1>15 DEF ClientReset, TypeOK
<1>16. ASSUME CrudeTimer PROVE TypeOK'
  BY <1>16, BrokerAssumption DEF CrudeTimer, TypeOK
<1>17. CASE UNCHANGED vars
  BY <1>17 DEF vars, TypeOK
<1> QED
  BY <1>1, <1>2, <1>3, <1>4, <1>5, <1>6, <1>7, <1>8, <1>9, <1>10, <1>11, <1>12,
     <1>13, <1>14, <1>15, <1>16, <1>17 DEF Next

\* Every variable keeps its type, for every value of the constants.
THEOREM TypeCorrect == Spec => []TypeOK
<1>1. Init => TypeOK
  BY TypeInit
<1>2. TypeOK /\ [Next]_vars => TypeOK'
  BY TypeStep
<1> QED
  BY <1>1, <1>2, PTL DEF Spec

-----------------------------------------------------------------------------
(* Groups and names *)

\* A name is bound to a Group that was allocated, and to one that no other name has:
\* make_shared returns an object of its own.
OneGroupPerName ==
    \A m, n \in Streams : stream_name_2_group[n] # None =>
        /\ stream_name_2_group[n] \in used
        /\ stream_name_2_group[m] = stream_name_2_group[n] => m = n

LEMMA GroupStep == TypeOK /\ OneGroupPerName /\ [Next]_vars => OneGroupPerName'
<1> SUFFICES ASSUME TypeOK, OneGroupPerName, [Next]_vars PROVE OneGroupPerName'
  OBVIOUS
<1> USE DEF groupVars, memberVars, sessionVars, clientVars, loopVars
<1>1. ASSUME NEW n \in Streams, NEW g \in Gids, get_or_create_group(n, g)
      PROVE  OneGroupPerName'
  BY <1>1 DEF get_or_create_group, OneGroupPerName, TypeOK
<1>2. ASSUME UNCHANGED groupVars PROVE OneGroupPerName'
  BY <1>2 DEF OneGroupPerName
<1>3. ASSUME CrudeTimer PROVE OneGroupPerName'
  BY <1>3 DEF CrudeTimer, OneGroupPerName, TypeOK
<1>4. ASSUME NEW s \in Sessions, PlayDone(s) PROVE OneGroupPerName'
  <2>1. PICK g \in Gids : get_or_create_group(stream_name[s], g)
    BY <1>4 DEF PlayDone
  <2> QED
    BY <2>1, <1>4 DEF get_or_create_group, OneGroupPerName, TypeOK
<1> QED
  BY <1>1, <1>2, <1>3, <1>4, ZenonT(30)
  DEF Next, vars, Accept, PlayFailed, DeleteStream, Media, PeerEof, BadCommand, Drained,
      PeerReset, Publish, Play, HttpFlvRequest, PullMedia, ClientClose, ClientReset

-----------------------------------------------------------------------------
(* Relay sessions *)

relayVars == <<rtmp_pull, rtmp_push, csock, ctype, close_cb>>

\* What does not touch the relay sessions and keeps the Groups keeps the property.
LEMMA RelayUntouched ==
    ASSUME ClientsOwned, UNCHANGED relayVars,
           \A g \in Gids : Alive(g) => Alive(g)'
    PROVE  ClientsOwned'
BY DEF ClientsOwned, relayVars

\* get_or_create_group keeps every Group and makes the one it returns alive.
LEMMA GetOrCreateAlive ==
    ASSUME TypeOK, NEW n \in Streams, NEW g \in Gids, get_or_create_group(n, g)
    PROVE  /\ Alive(g)'
           /\ \A h \in Gids : Alive(h) => Alive(h)'
<1>1. stream_name_2_group' \in [Streams -> Gids \cup {None}]
  BY DEF get_or_create_group, groupVars, TypeOK
<1>2. stream_name_2_group'[n] = g
  BY DEF get_or_create_group, groupVars, TypeOK
<1>3. Alive(g)'
  BY <1>2, BrokerAssumption DEF Alive
<1>4. ASSUME NEW h \in Gids, Alive(h) PROVE Alive(h)'
  <2>1. PICK m \in Streams : stream_name_2_group[m] = h /\ h # None
    BY <1>4 DEF Alive
  <2>2. stream_name_2_group'[m] = h
    BY <2>1 DEF get_or_create_group, groupVars, TypeOK
  <2> QED
    BY <2>1, <2>2 DEF Alive
<1> QED
  BY <1>3, <1>4

\* A relay session created for an empty slot is owned by it.
LEMMA PullStarted ==
    ASSUME TypeOK, ClientsOwned, NEW g \in Gids, pull_rtmp_if_needed(g),
           UNCHANGED rtmp_push, Alive(g)', \A h \in Gids : Alive(h) => Alive(h)'
    PROVE  ClientsOwned'
<1>1. CASE UNCHANGED <<clientVars, rtmp_pull>>
  BY <1>1, RelayUntouched DEF relayVars, clientVars
<1>2. CASE PullIfAbsent /\ ~has_in(g, rtmp_pub[g])
  <2>1. PICK c \in Clients : /\ start_client(c, "PULL", g)
                             /\ rtmp_pull' = [rtmp_pull EXCEPT ![g] = c]
    BY <1>2 DEF pull_rtmp_if_needed
  <2>2. rtmp_pull[g] = None
    BY <1>2 DEF has_in
  <2> QED
    BY <2>1, <2>2, BrokerAssumption DEF start_client, ClientsOwned, TypeOK
<1> QED
  BY <1>1, <1>2 DEF pull_rtmp_if_needed

LEMMA PushStarted ==
    ASSUME TypeOK, ClientsOwned, NEW g \in Gids, push_rtmp_if_pub(g),
           UNCHANGED rtmp_pull, Alive(g)', \A h \in Gids : Alive(h) => Alive(h)'
    PROVE  ClientsOwned'
<1>1. CASE UNCHANGED <<clientVars, rtmp_push>>
  BY <1>1, RelayUntouched DEF relayVars, clientVars
<1>2. CASE PushIfPub /\ rtmp_push[g] = None /\ rtmp_pub'[g] # None
  <2>1. PICK c \in Clients : /\ start_client(c, "PUSH", g)
                             /\ rtmp_push' = [rtmp_push EXCEPT ![g] = c]
    BY <1>2 DEF push_rtmp_if_pub
  <2> QED
    BY <2>1, <1>2, BrokerAssumption DEF start_client, ClientsOwned, TypeOK
<1> QED
  BY <1>1, <1>2 DEF push_rtmp_if_pub

\* A play in progress has named its stream.
PlayNamed == \A s \in Sessions : playing[s] => stream_name[s] \in Streams

LEMMA PlayNamedStep == TypeOK /\ PlayNamed /\ [Next]_vars => PlayNamed'
<1> USE DEF sessionVars, PlayNamed, TypeOK
<1>1. ASSUME UNCHANGED <<playing, stream_name>>, PlayNamed PROVE PlayNamed'
  BY <1>1
<1>2. ASSUME TypeOK, PlayNamed, NEW s \in Sessions, NEW n \in Streams, Publish(s, n) \/ Play(s, n)
      PROVE  PlayNamed'
  BY <1>2 DEF Publish, Play
<1>3. ASSUME TypeOK, PlayNamed, NEW s \in Sessions, PlayDone(s) \/ PlayFailed(s)
      PROVE  PlayNamed'
  BY <1>3 DEF PlayDone, PlayFailed
<1> QED
  BY <1>1, <1>2, <1>3
  DEF Next, vars, Accept, DeleteStream, Media, PeerEof, BadCommand, Drained, PeerReset,
      HttpFlvRequest, PullMedia, ClientClose, ClientReset, CrudeTimer

\* Every step keeps the ownership: one case per action that starts or ends a
\* relay session or erases a Group.
LEMMA OwnedStep == TypeOK /\ PlayNamed /\ ClientsOwned /\ [Next]_vars => ClientsOwned'
<1> SUFFICES ASSUME TypeOK, PlayNamed, ClientsOwned, [Next]_vars PROVE ClientsOwned'
  OBVIOUS
<1> USE DEF groupVars, memberVars, sessionVars, clientVars, loopVars
<1>1. ASSUME UNCHANGED <<relayVars, stream_name_2_group>> PROVE ClientsOwned'
  BY <1>1, RelayUntouched DEF Alive, relayVars
<1>2. ASSUME NEW s \in Sessions, PlayDone(s) PROVE ClientsOwned'
  <2>1. PICK g \in Gids : get_or_create_group(stream_name[s], g) /\ pull_rtmp_if_needed(g)
    BY <1>2 DEF PlayDone
  <2>2. stream_name[s] \in Streams
    BY <1>2 DEF PlayDone, PlayNamed
  <2> QED
    BY <1>2, <2>1, <2>2, GetOrCreateAlive, PullStarted DEF PlayDone
<1>3. ASSUME NEW s \in Sessions, NEW n \in Streams, Publish(s, n) PROVE ClientsOwned'
  <2>1. PICK g \in Gids : get_or_create_group(n, g) /\ push_rtmp_if_pub(g)
    BY <1>3 DEF Publish
  <2> QED
    BY <1>3, <2>1, GetOrCreateAlive, PushStarted DEF Publish
<1>4. ASSUME NEW f \in Flvs, NEW n \in Streams, HttpFlvRequest(f, n) PROVE ClientsOwned'
  <2>1. PICK g \in Gids : get_or_create_group(n, g) /\ pull_rtmp_if_needed(g)
    BY <1>4 DEF HttpFlvRequest
  <2> QED
    BY <1>4, <2>1, GetOrCreateAlive, PullStarted DEF HttpFlvRequest
<1>5. ASSUME NEW c \in Clients, ClientClose(c) PROVE ClientsOwned'
  <2>1. \A g \in Gids : Alive(g) => Alive(g)'
    BY <1>5 DEF ClientClose, Alive
  <2> QED
    BY <1>5, <2>1, BrokerAssumption DEF ClientClose, ClientsOwned, TypeOK
<1>6. ASSUME NEW c \in Clients, ClientReset(c) PROVE ClientsOwned'
  <2>1. \A g \in Gids : Alive(g) => Alive(g)'
    BY <1>6 DEF ClientReset, Alive
  <2> QED
    BY <1>6, <2>1 DEF ClientReset, ClientsOwned, TypeOK
<1>7. ASSUME CrudeTimer PROVE ClientsOwned'
  \* A Group whose slot holds a relay session is not empty_totally.
  <2>1. ASSUME NEW g \in Gids, Alive(g), rtmp_pull[g] # None \/ rtmp_push[g] # None
        PROVE  Alive(g)'
    <3>1. PICK m \in Streams : stream_name_2_group[m] = g /\ g # None
      BY <2>1 DEF Alive
    <3>2. stream_name_2_group'[m] = g
      BY <1>7, <2>1, <3>1 DEF CrudeTimer, Erasable, empty_totally, TypeOK
    <3> QED
      BY <3>1, <3>2 DEF Alive
  <2>2. UNCHANGED relayVars
    BY <1>7 DEF CrudeTimer, relayVars
  <2> QED
    BY <2>1, <2>2, BrokerAssumption DEF ClientsOwned, relayVars, TypeOK
<1>8. CASE UNCHANGED vars
  BY <1>1, <1>8 DEF vars, relayVars
<1> QED
  BY <1>1, <1>2, <1>3, <1>4, <1>5, <1>6, <1>7, <1>8
  DEF Next, relayVars, Accept, PlayFailed, DeleteStream, Media, PeerEof, BadCommand,
      Drained, PeerReset, Play, PullMedia

\* A relay session's callbacks never outlive the Group they point to, for any
\* behaviour of the peers and the network.
THEOREM RelaysOwned == Spec => []ClientsOwned
<1>1. Init => ClientsOwned /\ PlayNamed
  BY DEF Init, ClientsOwned, PlayNamed
<1> QED
  BY <1>1, OwnedStep, PlayNamedStep, TypeCorrect, PTL DEF Spec

-----------------------------------------------------------------------------
(* Players, whatever the peers and the network do *)

\* A session has no role before its connection was accepted.
IdleUntyped == \A s \in Sessions : sock[s] = "idle" => type[s] = "SERVER"

\* The loop over the subscribers opens no session and makes none idle.
LEMMA SendOpensNone ==
    ASSUME NEW me, NEW g, NEW pub, NEW types, NEW names, NEW index,
           send_to_subs(me, g, pub, types, names, index)
    PROVE  \A s \in Sessions : sock'[s] \in {"open", "idle"} => sock[s] = sock'[s]
BY DEF send_to_subs

LEMMA IdleStep == TypeOK /\ IdleUntyped /\ [Next]_vars => IdleUntyped'
<1> SUFFICES ASSUME TypeOK, IdleUntyped, [Next]_vars PROVE IdleUntyped'
  OBVIOUS
<1> USE DEF IdleUntyped
<1>1. ASSUME NEW s \in Sessions, NEW n \in Streams, Publish(s, n) PROVE IdleUntyped'
  <2>1. sock[s] # "idle" /\ type' = [type EXCEPT ![s] = "PUB"]
    BY <1>1 DEF Publish, Reading
  <2>2. \A r \in Sessions : sock'[r] = "idle" => sock[r] = "idle"
    BY <1>1, SendOpensNone DEF Publish
  <2> QED
    BY <2>1, <2>2 DEF TypeOK
<1>2. ASSUME NEW s \in Sessions, PlayDone(s) PROVE IdleUntyped'
  BY <1>2 DEF PlayDone, TypeOK
<1>3. ASSUME NEW s \in Sessions, DeleteStream(s) \/ Media(s) PROVE IdleUntyped'
  <2>1. \A r \in Sessions : sock'[r] = "idle" => sock[r] = "idle"
    BY <1>3, SendOpensNone DEF DeleteStream, Media
  <2> QED
    BY <1>3, <2>1 DEF DeleteStream, Media
<1>4. ASSUME NEW c \in Clients, PullMedia(c) PROVE IdleUntyped'
  <2>1. \A r \in Sessions : sock'[r] = "idle" => sock[r] = "idle"
    BY <1>4, SendOpensNone DEF PullMedia
  <2> QED
    BY <1>4, <2>1 DEF PullMedia, sessionVars
<1>5. ASSUME NEW s \in Sessions,
             Accept(s) \/ PeerEof(s) \/ BadCommand(s) \/ Drained(s) \/ PeerReset(s)
      PROVE  IdleUntyped'
  BY <1>5 DEF Accept, PeerEof, BadCommand, Drained, PeerReset, TypeOK
<1>6. ASSUME UNCHANGED <<sock, type>> PROVE IdleUntyped'
  BY <1>6
<1> QED
  BY <1>1, <1>2, <1>3, <1>4, <1>5, <1>6
  DEF Next, vars, sessionVars, PlayFailed, Play, HttpFlvRequest, ClientClose, ClientReset,
      CrudeTimer

\* A Group that a name finds is still found when no Group was erased.
GroupsStay ==
    \A n \in Streams : stream_name_2_group[n] # None =>
        stream_name_2_group'[n] = stream_name_2_group[n]

LEMMA GetOrCreateKeeps ==
    ASSUME TypeOK, NEW n \in Streams, NEW g \in Gids, get_or_create_group(n, g)
    PROVE  GroupsStay /\ stream_name_2_group'[n] = g
BY DEF get_or_create_group, groupVars, GroupsStay, TypeOK

\* When no Group is erased, a session that was open and is asked nothing stays found,
\* unless it leaves.
LEMMA StaysFound ==
    ASSUME TypeOK, PlayersFound, GroupsStay, NEW s \in Sessions,
           sock[s] = "open", type[s] = "SUB", ~playing[s],
           stream_name'[s] = stream_name[s],
           \A g \in Gids : s \in rtmp_subs[g] => s \in rtmp_subs'[g]
    PROVE  \E g \in Gids : get_group(stream_name[s])' = g /\ s \in rtmp_subs'[g]
<1>1. PICK g \in Gids : get_group(stream_name[s]) = g /\ s \in rtmp_subs[g]
  BY DEF PlayersFound
<1>2. stream_name[s] \in Streams /\ stream_name_2_group[stream_name[s]] = g
  BY <1>1, BrokerAssumption DEF get_group
<1>3. get_group(stream_name[s])' = g
  BY <1>2, BrokerAssumption DEF get_group, GroupsStay
<1> QED
  BY <1>1, <1>3

\* What keeps the sessions as they are, closes some, or takes one from rtmp_subs that
\* is not open any longer, and erases no Group.
LEMMA PlayersKept ==
    ASSUME TypeOK, PlayersFound, GroupsStay,
           UNCHANGED <<stream_name, playing, http_flv_subs>>,
           \A s \in Sessions : type'[s] = type[s],
           \A s \in Sessions : sock'[s] = "open" => sock[s] = "open",
           \A s \in Sessions, g \in Gids :
               sock'[s] = "open" /\ s \in rtmp_subs[g] => s \in rtmp_subs'[g],
           \A g \in Gids : rtmp_subs'[g] \subseteq rtmp_subs[g]
    PROVE  PlayersFound'
<1>1. ASSUME NEW s \in Sessions, sock'[s] = "open", type'[s] = "SUB", ~playing'[s]
      PROVE  \E g \in Gids : get_group(stream_name[s])' = g /\ s \in rtmp_subs'[g]
  BY <1>1, StaysFound
<1>2. ASSUME NEW g \in Gids, rtmp_subs'[g] \cup http_flv_subs'[g] # {} PROVE Alive(g)'
  BY <1>2 DEF PlayersFound, Alive, GroupsStay
<1> QED
  BY <1>1, <1>2 DEF PlayersFound

\* Every step keeps the players: one case per action that changes their sessions, the
\* registry or the places of players.
LEMMA PlayersStep ==
    TypeOK /\ PlayNamed /\ IdleUntyped /\ PlayersFound /\ [Next]_vars => PlayersFound'
<1> SUFFICES ASSUME TypeOK, PlayNamed, IdleUntyped, PlayersFound, [Next]_vars
             PROVE  PlayersFound'
  OBVIOUS
<1> USE DEF groupVars, memberVars, sessionVars, clientVars, loopVars
<1>1. ASSUME NEW s \in Sessions, NEW n \in Streams, Publish(s, n) PROVE PlayersFound'
  <2>1. PICK g \in Gids : get_or_create_group(n, g)
    BY <1>1 DEF Publish
  <2>2. GroupsStay
    BY <2>1, GetOrCreateKeeps
  <2>3. \A r \in Sessions : sock'[r] = "open" => sock[r] = "open"
    BY <1>1, SendOpensNone DEF Publish
  <2>4. type' = [type EXCEPT ![s] = "PUB"] /\ stream_name' = [stream_name EXCEPT ![s] = n]
    BY <1>1 DEF Publish
  <2>5. UNCHANGED <<rtmp_subs, http_flv_subs, playing>>
    BY <1>1 DEF Publish
  <2>6. ASSUME NEW r \in Sessions, sock'[r] = "open", type'[r] = "SUB", ~playing'[r]
        PROVE  \E h \in Gids : get_group(stream_name[r])' = h /\ r \in rtmp_subs'[h]
    <3>1. r # s
      BY <2>4, <2>6 DEF TypeOK
    <3>2. type[r] = "SUB" /\ stream_name'[r] = stream_name[r]
      BY <2>4, <2>6, <3>1 DEF TypeOK
    <3> QED
      BY <2>2, <2>3, <2>5, <2>6, <3>2, StaysFound
  <2>7. ASSUME NEW h \in Gids, rtmp_subs'[h] \cup http_flv_subs'[h] # {} PROVE Alive(h)'
    BY <2>1, <2>5, <2>7, GetOrCreateAlive DEF PlayersFound
  <2> QED
    BY <2>6, <2>7 DEF PlayersFound
<1>2. ASSUME NEW s \in Sessions, PlayDone(s) PROVE PlayersFound'
  <2>1. PICK g \in Gids : /\ get_or_create_group(stream_name[s], g)
                          /\ rtmp_subs' = [rtmp_subs EXCEPT ![g] = @ \cup {s}]
    BY <1>2 DEF PlayDone
  <2>2. stream_name[s] \in Streams
    BY <1>2 DEF PlayDone, PlayNamed
  <2>3. GroupsStay /\ stream_name_2_group'[stream_name[s]] = g
    BY <2>1, <2>2, GetOrCreateKeeps
  <2>4. \A h \in Gids : rtmp_subs[h] \subseteq rtmp_subs'[h]
    BY <2>1 DEF TypeOK
  <2>5. /\ UNCHANGED <<sock, stream_name, http_flv_subs>>
        /\ type' = [type EXCEPT ![s] = "SUB"]
        /\ playing' = [playing EXCEPT ![s] = FALSE]
    BY <1>2 DEF PlayDone
  <2>6. ASSUME NEW r \in Sessions, sock'[r] = "open", type'[r] = "SUB", ~playing'[r]
        PROVE  \E h \in Gids : get_group(stream_name[r])' = h /\ r \in rtmp_subs'[h]
    <3>1. CASE r = s
      BY <2>1, <2>2, <2>3, <2>5, <3>1 DEF get_group, TypeOK
    <3>2. CASE r # s
      <4>1. type[r] = "SUB" /\ ~playing[r] /\ sock[r] = "open" /\ stream_name'[r] = stream_name[r]
        BY <2>5, <2>6, <3>2 DEF TypeOK
      <4> QED
        BY <2>3, <2>4, <4>1, StaysFound
    <3> QED
      BY <3>1, <3>2
  <2>7. ASSUME NEW h \in Gids, rtmp_subs'[h] \cup http_flv_subs'[h] # {} PROVE Alive(h)'
    <3>1. CASE h = g
      BY <2>1, <2>2, <3>1, GetOrCreateAlive
    <3>2. CASE h # g
      BY <2>1, <2>2, <2>5, <2>7, <3>2, GetOrCreateAlive DEF PlayersFound, TypeOK
    <3> QED
      BY <3>1, <3>2
  <2> QED
    BY <2>5, <2>6, <2>7 DEF PlayersFound
<1>3. ASSUME NEW f \in Flvs, NEW n \in Streams, HttpFlvRequest(f, n) PROVE PlayersFound'
  <2>1. PICK g \in Gids : /\ get_or_create_group(n, g)
                          /\ http_flv_subs' = [http_flv_subs EXCEPT ![g] = @ \cup {f}]
    BY <1>3 DEF HttpFlvRequest
  <2>2. GroupsStay
    BY <2>1, GetOrCreateKeeps
  <2>3. UNCHANGED <<sock, type, stream_name, playing, rtmp_subs>>
    BY <1>3 DEF HttpFlvRequest
  <2>4. ASSUME NEW r \in Sessions, sock'[r] = "open", type'[r] = "SUB", ~playing'[r]
        PROVE  \E h \in Gids : get_group(stream_name[r])' = h /\ r \in rtmp_subs'[h]
    BY <2>2, <2>3, <2>4, StaysFound
  <2>5. ASSUME NEW h \in Gids, rtmp_subs'[h] \cup http_flv_subs'[h] # {} PROVE Alive(h)'
    <3>1. CASE h = g
      BY <2>1, <3>1, GetOrCreateAlive
    <3>2. CASE h # g
      BY <2>1, <2>3, <2>5, <3>2, GetOrCreateAlive DEF PlayersFound, TypeOK
    <3> QED
      BY <3>1, <3>2
  <2> QED
    BY <2>3, <2>4, <2>5 DEF PlayersFound
<1>4. ASSUME NEW s \in Sessions, PeerEof(s) \/ BadCommand(s) PROVE PlayersFound'
  <2>1. /\ UNCHANGED <<stream_name_2_group, stream_name, playing, http_flv_subs, type>>
        /\ sock'[s] # "open"
        /\ \A r \in Sessions : r # s => sock'[r] = sock[r]
    BY <1>4 DEF PeerEof, BadCommand, TypeOK
  <2>2. \A g \in Gids : rtmp_subs'[g] \in {rtmp_subs[g], rtmp_subs[g] \ {s}}
    BY <1>4 DEF PeerEof, BadCommand, on_rtmp_session_close
  <2>3. \A r \in Sessions, g \in Gids :
          sock'[r] = "open" /\ r \in rtmp_subs[g] => r \in rtmp_subs'[g]
    BY <2>1, <2>2
  <2>4. \A g \in Gids : rtmp_subs'[g] \subseteq rtmp_subs[g]
    BY <2>2
  <2> QED
    BY <2>1, <2>3, <2>4, PlayersKept DEF GroupsStay
<1>5. ASSUME NEW s \in Sessions, DeleteStream(s) \/ Media(s) PROVE PlayersFound'
  <2>1. \A r \in Sessions : sock'[r] = "open" => sock[r] = "open"
    BY <1>5, SendOpensNone DEF DeleteStream, Media
  <2> QED
    BY <1>5, <2>1, PlayersKept DEF DeleteStream, Media, GroupsStay
<1>6. ASSUME NEW c \in Clients, PullMedia(c) PROVE PlayersFound'
  <2>1. \A r \in Sessions : sock'[r] = "open" => sock[r] = "open"
    BY <1>6, SendOpensNone DEF PullMedia
  <2> QED
    BY <1>6, <2>1, PlayersKept DEF PullMedia, GroupsStay
<1>7. ASSUME NEW s \in Sessions, Accept(s) PROVE PlayersFound'
  <2>1. type[s] = "SERVER" /\ UNCHANGED <<stream_name_2_group, stream_name, playing, type,
                                         rtmp_subs, http_flv_subs>>
    BY <1>7 DEF Accept, IdleUntyped
  <2>2. \A r \in Sessions : r # s => sock'[r] = sock[r]
    BY <1>7 DEF Accept, TypeOK
  <2> QED
    BY <2>1, <2>2 DEF PlayersFound, Alive, get_group
<1>8. ASSUME NEW s \in Sessions, NEW n \in Streams, Play(s, n) PROVE PlayersFound'
  <2>1. /\ UNCHANGED <<stream_name_2_group, sock, type, rtmp_subs, http_flv_subs>>
        /\ playing'[s]
        /\ \A r \in Sessions : r # s => /\ stream_name'[r] = stream_name[r]
                                        /\ playing'[r] = playing[r]
    BY <1>8 DEF Play, TypeOK
  <2> QED
    BY <2>1 DEF PlayersFound, Alive, get_group
<1>9. ASSUME NEW s \in Sessions, PlayFailed(s) PROVE PlayersFound'
  <2>1. /\ UNCHANGED <<stream_name_2_group, sock, type, stream_name, rtmp_subs, http_flv_subs>>
        /\ sock[s] # "open"
        /\ \A r \in Sessions : r # s => playing'[r] = playing[r]
    BY <1>9 DEF PlayFailed, TypeOK
  <2> QED
    BY <2>1 DEF PlayersFound, Alive, get_group
<1>10. ASSUME NEW s \in Sessions, Drained(s) \/ PeerReset(s) PROVE PlayersFound'
  <2>1. \A r \in Sessions : sock'[r] = "open" => sock[r] = "open"
    BY <1>10 DEF Drained, PeerReset, TypeOK
  <2> QED
    BY <1>10, <2>1, PlayersKept DEF Drained, PeerReset, GroupsStay
<1>11. ASSUME CrudeTimer PROVE PlayersFound'
  \* A Group that has a player is not empty_totally.
  <2>1. ASSUME NEW g \in Gids, NEW n \in Streams, stream_name_2_group[n] = g,
               rtmp_subs[g] \cup http_flv_subs[g] # {}
        PROVE  stream_name_2_group'[n] = g
    BY <1>11, <2>1 DEF CrudeTimer, Erasable, empty_totally, TypeOK
  <2>2. UNCHANGED <<sock, type, stream_name, playing, rtmp_subs, http_flv_subs>>
    BY <1>11 DEF CrudeTimer
  <2>3. ASSUME NEW r \in Sessions, sock[r] = "open", type[r] = "SUB", ~playing[r]
        PROVE  \E h \in Gids : get_group(stream_name[r])' = h /\ r \in rtmp_subs'[h]
    <3>1. PICK h \in Gids : get_group(stream_name[r]) = h /\ r \in rtmp_subs[h]
      BY <2>3 DEF PlayersFound
    <3>2. stream_name[r] \in Streams /\ stream_name_2_group[stream_name[r]] = h
      BY <3>1, BrokerAssumption DEF get_group
    <3>3. stream_name_2_group'[stream_name[r]] = h
      BY <2>1, <3>1, <3>2
    <3> QED
      BY <2>2, <3>1, <3>2, <3>3 DEF get_group
  <2>4. ASSUME NEW g \in Gids, rtmp_subs[g] \cup http_flv_subs[g] # {} PROVE Alive(g)'
    BY <2>1, <2>4 DEF PlayersFound, Alive
  <2> QED
    BY <2>2, <2>3, <2>4 DEF PlayersFound
<1>12. ASSUME UNCHANGED <<stream_name_2_group, rtmp_subs, http_flv_subs, sessionVars>>
       PROVE  PlayersFound'
  BY <1>12 DEF PlayersFound, Alive, get_group
<1> QED
  BY <1>1, <1>2, <1>3, <1>4, <1>5, <1>6, <1>7, <1>8, <1>9, <1>10, <1>11, <1>12
  DEF Next, vars, ClientClose, ClientReset

\* A player whose play was answered is in the Group its name finds, and no Group with a
\* player of either kind is erased, for any behaviour of the peers and the network: second
\* publishers, sessions that change their role, late completions, resets.
THEOREM PlayersStay == Spec => []PlayersFound
<1>1. Init => PlayNamed /\ IdleUntyped /\ PlayersFound
  BY DEF Init, PlayNamed, IdleUntyped, PlayersFound
<1> QED
  BY <1>1, PlayersStep, IdleStep, PlayNamedStep, TypeCorrect, PTL DEF Spec

-----------------------------------------------------------------------------
(* Members, when every publisher has its stream to itself, a session takes   *)
(* one role, commands are known ones, and no completion is reported late     *)

OrderlyHabits == Habits \subseteq {"early", "reset"}

\* What MembersMatch needs of the sessions to be inductive.
SessionsOrderly ==
    /\ \A s \in Sessions : sock[s] # "closing"
    /\ \A s \in Sessions : sock[s] = "idle" => type[s] = "SERVER" /\ ~playing[s]
    /\ \A s \in Sessions : playing[s] => type[s] = "SERVER"
    /\ \A s \in Sessions : av_data_cb[s] # None => type[s] = "PUB"

MemberInv ==
    /\ TypeOK
    /\ OneGroupPerName
    /\ PlayNamed
    /\ ClientsOwned
    /\ SessionsOrderly
    /\ MembersMatch
    /\ CallbacksAlive
    /\ up

\* The loop over the subscribers closes none when all of them are of type SUB.
LEMMA SendOrderly ==
    ASSUME NEW me, NEW g \in Gids, NEW pub \in [Gids -> Sessions \cup {None}],
           NEW types, NEW names, NEW index, TypeOK,
           \A s \in rtmp_subs[g] : types[s] = "SUB",
           send_to_subs(me, g, pub, types, names, index)
    PROVE  sock' = sock /\ rtmp_pub' = pub /\ up' /\ failed' = failed
<1> DEFINE mistyped == {s \in rtmp_subs[g] : types[s] # "SUB"}
<1>1. mistyped = {}
  OBVIOUS
<1>2. sock' = [s \in Sessions |-> sock[s]]
  BY <1>1 DEF send_to_subs
<1>3. rtmp_pub' = [h \in Gids |-> pub[h]]
  BY <1>1 DEF send_to_subs
<1>4. up' /\ failed' = failed
  BY <1>1 DEF send_to_subs
<1> QED
  BY <1>2, <1>3, <1>4 DEF TypeOK

\* The members are untouched when the sessions, the slots and the names are.
LEMMA MembersUntouched ==
    ASSUME SessionsOrderly, MembersMatch, CallbacksAlive,
           UNCHANGED <<stream_name_2_group, rtmp_pub, rtmp_subs, sock, type,
                       stream_name, av_data_cb, playing>>
    PROVE  (SessionsOrderly /\ MembersMatch /\ CallbacksAlive)'
BY DEF SessionsOrderly, MembersMatch, CallbacksAlive, IsMember, Live, get_group

\* A Group that get_or_create_group returns is the one its name finds, and a new
\* one has no member.
LEMMA GetOrCreateFinds ==
    ASSUME TypeOK, OneGroupPerName, MembersMatch,
           NEW n \in Streams, NEW g \in Gids, get_or_create_group(n, g)
    PROVE  /\ stream_name_2_group'[n] = g
           /\ \A m \in Streams : m # n => stream_name_2_group'[m] = stream_name_2_group[m]
           /\ \A m \in Streams : stream_name_2_group[m] # None =>
                stream_name_2_group'[m] = stream_name_2_group[m]
           /\ stream_name_2_group[n] # g => rtmp_pub[g] = None /\ rtmp_subs[g] = {}
<1>1. stream_name_2_group'[n] = g
  BY DEF get_or_create_group, groupVars, TypeOK
<1>2. \A m \in Streams : m # n => stream_name_2_group'[m] = stream_name_2_group[m]
  BY DEF get_or_create_group, groupVars, TypeOK
<1>3. \A m \in Streams : stream_name_2_group[m] # None =>
        stream_name_2_group'[m] = stream_name_2_group[m]
  BY DEF get_or_create_group, groupVars, TypeOK
<1>4. ASSUME stream_name_2_group[n] # g PROVE rtmp_pub[g] = None /\ rtmp_subs[g] = {}
  <2>1. g \notin used
    BY <1>4 DEF get_or_create_group
  <2>2. \A m \in Streams : stream_name_2_group[m] # g
    BY <2>1, BrokerAssumption DEF OneGroupPerName
  <2>3. \A s \in Sessions : get_group(stream_name[s]) # g
    BY <2>2, BrokerAssumption DEF get_group
  <2> QED
    BY <2>3 DEF MembersMatch, IsMember, TypeOK
<1> QED
  BY <1>1, <1>2, <1>3, <1>4

\* Media, and the end of a publish, change nothing a Group can see.
LEMMA MediaOrderly ==
    ASSUME MemberInv,
           \/ \E s \in Sessions : DeleteStream(s) \/ Media(s)
           \/ \E c \in Clients : PullMedia(c)
    PROVE  /\ UNCHANGED <<stream_name_2_group, rtmp_pub, rtmp_subs, sock, type,
                          stream_name, av_data_cb, playing, failed>>
           /\ up'
<1> DEFINE Goal == /\ UNCHANGED <<stream_name_2_group, rtmp_pub, rtmp_subs, sock, type,
                                  stream_name, av_data_cb, playing, failed>>
                   /\ up'
<1> USE DEF groupVars
<1>a. /\ TypeOK /\ ClientsOwned /\ SessionsOrderly /\ MembersMatch /\ CallbacksAlive
      /\ rtmp_pub \in [Gids -> Sessions \cup {None}]
  BY DEF MemberInv, TypeOK
<1>b. \A g \in Gids : \A s \in rtmp_subs[g] : type[s] = "SUB"
  BY <1>a DEF MembersMatch, IsMember, TypeOK
<1>1. ASSUME NEW me, NEW g \in Gids,
             send_to_subs(me, g, rtmp_pub, type, stream_name, stream_name_2_group)
      PROVE  sock' = sock /\ rtmp_pub' = rtmp_pub /\ up' /\ failed' = failed
  BY <1>1, <1>a, <1>b, SendOrderly
<1>2. ASSUME NEW s \in Sessions, DeleteStream(s) PROVE Goal
  <2>1. Live(s) /\ type[s] = "PUB"
    BY <1>2, <1>a DEF DeleteStream, Reading, Live, SessionsOrderly
  <2>2. get_group(stream_name[s]) \in Gids
    BY <2>1, <1>a DEF MembersMatch, get_group, TypeOK
  <2>3. send_to_subs(s, get_group(stream_name[s]), rtmp_pub, type, stream_name,
                     stream_name_2_group)
    BY <1>2, <2>1, <1>a DEF DeleteStream, MembersMatch
  <2> QED
    BY <1>2, <1>1, <2>2, <2>3 DEF DeleteStream
<1>3. ASSUME NEW s \in Sessions, Media(s) PROVE Goal
  <2>1. Live(s)
    BY <1>3, <1>a DEF Media, Reading, Live, SessionsOrderly
  <2>2. Alive(av_data_cb[s]) /\ av_data_cb[s] \in Gids
    BY <1>3, <2>1, <1>a, BrokerAssumption
    DEF Media, CallbacksAlive, get_group, Alive, TypeOK
  <2>3. send_to_subs(s, av_data_cb[s], rtmp_pub, type, stream_name, stream_name_2_group)
    BY <1>3, <2>2 DEF Media
  <2> QED
    BY <1>3, <1>1, <2>2, <2>3 DEF Media
<1>4. ASSUME NEW c \in Clients, PullMedia(c) PROVE Goal
  <2>1. Alive(close_cb[c]) /\ close_cb[c] \in Gids
    BY <1>4, <1>a DEF PullMedia, ClientsOwned
  <2>2. send_to_subs(c, close_cb[c], rtmp_pub, type, stream_name, stream_name_2_group)
    BY <1>4, <2>1 DEF PullMedia
  <2> QED
    BY <1>4, <1>1, <2>1, <2>2 DEF PullMedia
<1> QED
  BY <1>2, <1>3, <1>4

\* An orderly publisher is a session that has done nothing else.
LEMMA PublishFirst ==
    ASSUME OrderlyHabits, MemberInv, NEW s \in Sessions, NEW n \in Streams, Publish(s, n)
    PROVE  type[s] = "SERVER" /\ ~playing[s] /\ av_data_cb[s] = None /\ sock[s] = "open"
BY DEF MemberInv, Publish, Reading, FirstRole, SessionsOrderly, OrderlyHabits

\* It takes over nobody's stream, and the sends close nobody.
LEMMA PublishOrderly ==
    ASSUME OrderlyHabits, MemberInv, NEW s \in Sessions, NEW n \in Streams, Publish(s, n)
    PROVE  \E g \in Gids :
             /\ get_or_create_group(n, g)
             /\ av_data_cb' = [av_data_cb EXCEPT ![s] = g]
             /\ rtmp_pub[g] = None /\ rtmp_pub' = [rtmp_pub EXCEPT ![g] = s]
             /\ type' = [type EXCEPT ![s] = "PUB"]
             /\ stream_name' = [stream_name EXCEPT ![s] = n]
             /\ UNCHANGED <<playing, rtmp_subs, sock, failed>> /\ up'
<1>a. TypeOK /\ OneGroupPerName /\ MembersMatch
  BY DEF MemberInv
<1>1. PICK g \in Gids :
        /\ get_or_create_group(n, g)
        /\ av_data_cb' = [av_data_cb EXCEPT ![s] = g]
        /\ send_to_subs(s, g, [rtmp_pub EXCEPT ![g] = s], type', stream_name',
                        stream_name_2_group')
  BY DEF Publish
<1>2. /\ type' = [type EXCEPT ![s] = "PUB"] /\ stream_name' = [stream_name EXCEPT ![s] = n]
      /\ playing' = playing /\ rtmp_subs' = rtmp_subs
  BY DEF Publish
<1>3. rtmp_pub[g] = None
  <2>1. CASE stream_name_2_group[n] = g
    BY <2>1 DEF Publish, OrderlyHabits
  <2>2. CASE stream_name_2_group[n] # g
    BY <1>1, <2>2, <1>a, GetOrCreateFinds
  <2> QED
    BY <2>1, <2>2
<1>4. \A q \in rtmp_subs[g] : q # s /\ type[q] = "SUB"
  BY PublishFirst, <1>a DEF MembersMatch, IsMember, TypeOK
<1>5. \A q \in rtmp_subs[g] : type'[q] = "SUB"
  BY <1>2, <1>4, <1>a DEF TypeOK
<1>6. [rtmp_pub EXCEPT ![g] = s] \in [Gids -> Sessions \cup {None}]
  BY <1>a DEF TypeOK
<1>7. /\ sock' = sock /\ rtmp_pub' = [rtmp_pub EXCEPT ![g] = s]
      /\ up' /\ failed' = failed
  BY <1>1, <1>5, <1>6, <1>a, SendOrderly
<1> QED
  BY <1>1, <1>2, <1>3, <1>7

\* Every step of orderly peers keeps the registry and the server up.
LEMMA MemberStep ==
    OrderlyHabits /\ MemberInv /\ [Next]_vars
      => SessionsOrderly' /\ MembersMatch' /\ CallbacksAlive' /\ up'
<1> SUFFICES ASSUME OrderlyHabits, MemberInv, [Next]_vars
             PROVE  SessionsOrderly' /\ MembersMatch' /\ CallbacksAlive' /\ up'
  OBVIOUS
<1> DEFINE Goal == SessionsOrderly' /\ MembersMatch' /\ CallbacksAlive' /\ up'
<1> USE DEF groupVars, memberVars, sessionVars, clientVars, loopVars
<1>a. /\ TypeOK /\ OneGroupPerName /\ PlayNamed /\ ClientsOwned
      /\ SessionsOrderly /\ MembersMatch /\ CallbacksAlive /\ up
  BY DEF MemberInv
<1>b. ASSUME UNCHANGED <<stream_name_2_group, rtmp_pub, rtmp_subs, sock, type,
                         stream_name, av_data_cb, playing, up>>
      PROVE  Goal
  BY <1>a, <1>b, MembersUntouched
<1>c. \A g \in Gids : \A s \in rtmp_subs[g] : type[s] = "SUB"
  BY <1>a DEF MembersMatch, IsMember, TypeOK
<1>1. ASSUME NEW s \in Sessions, Accept(s) PROVE Goal
  BY <1>1, <1>a DEF Accept, SessionsOrderly, MembersMatch, CallbacksAlive, IsMember, Live,
     get_group, TypeOK
<1>2. ASSUME NEW s \in Sessions, NEW n \in Streams, Play(s, n) PROVE Goal
  <2>1. type[s] = "SERVER" /\ av_data_cb[s] = None
    BY <1>2, <1>a DEF Play, FirstRole, OrderlyHabits, SessionsOrderly
  <2>2. \A g \in Gids : rtmp_pub[g] # s /\ s \notin rtmp_subs[g]
    BY <2>1, <1>a DEF MembersMatch, IsMember
  <2>3. sock[s] = "open"
    BY <1>2, <1>a DEF Play, Reading, SessionsOrderly
  <2> QED
    BY <1>2, <1>a, <2>1, <2>2, <2>3 DEF Play, SessionsOrderly, MembersMatch,
       CallbacksAlive, IsMember, Live, get_group, TypeOK
<1>3. ASSUME NEW s \in Sessions, PlayFailed(s) PROVE Goal
  BY <1>3, <1>a DEF PlayFailed, SessionsOrderly, MembersMatch, CallbacksAlive, IsMember,
     Live, get_group, TypeOK
<1>4. ASSUME NEW s \in Sessions, PeerReset(s) PROVE Goal
  BY <1>4, <1>a DEF PeerReset, SessionsOrderly, MembersMatch, CallbacksAlive, IsMember,
     Live, get_group, TypeOK
<1>5. ASSUME NEW s \in Sessions, BadCommand(s) \/ Drained(s) PROVE Goal
  BY <1>5, <1>a DEF BadCommand, Drained, OrderlyHabits, SessionsOrderly
<1>6. ASSUME NEW s \in Sessions, DeleteStream(s) PROVE Goal
  BY <1>6, <1>a, MediaOrderly, MembersUntouched
<1>7. ASSUME NEW s \in Sessions, Media(s) PROVE Goal
  BY <1>7, <1>a, MediaOrderly, MembersUntouched
<1>8. ASSUME NEW c \in Clients, PullMedia(c) PROVE Goal
  BY <1>8, <1>a, MediaOrderly, MembersUntouched
<1>9. ASSUME NEW c \in Clients, ClientClose(c) PROVE Goal
  <2>1. Alive(close_cb[c])
    BY <1>9, <1>a DEF ClientClose, ClientsOwned
  <2> QED
    BY <1>9, <1>a, <2>1, MembersUntouched DEF ClientClose
<1>10. ASSUME NEW c \in Clients, ClientReset(c) PROVE Goal
  BY <1>10, <1>b DEF ClientReset
<1>11. ASSUME NEW s \in Sessions, PeerEof(s) PROVE Goal
  <2>1. Live(s)
    BY <1>11 DEF PeerEof, Live
  <2>2. up'
    BY <1>11, <2>1, <1>a DEF PeerEof, on_rtmp_session_close, MembersMatch, TypeOK
  <2> DEFINE own == get_group(stream_name[s])
  <2>a. /\ \A g \in Gids : rtmp_pub'[g] =
             IF g = own /\ type[s] = "PUB" THEN None ELSE rtmp_pub[g]
        /\ \A g \in Gids : rtmp_subs'[g] =
             IF g = own /\ type[s] = "SUB" THEN rtmp_subs[g] \ {s} ELSE rtmp_subs[g]
    BY <1>11 DEF PeerEof, on_rtmp_session_close
  <2>b. \A g \in Gids : /\ rtmp_pub[g] = s => g = own /\ type[s] = "PUB"
                        /\ s \in rtmp_subs[g] => g = own /\ type[s] = "SUB"
    BY <1>a DEF MembersMatch, IsMember
  <2>c. type[s] = "PUB" => rtmp_pub[own] = s
    BY <2>1, <1>a DEF MembersMatch
  <2> HIDE DEF own
  <2>3. \A g \in Gids : rtmp_pub'[g] # s /\ s \notin rtmp_subs'[g]
    BY <2>a, <2>b, BrokerAssumption, ZenonT(30)
  <2>4. \A g \in Gids, q \in Sessions : q # s =>
          /\ rtmp_pub'[g] = q <=> rtmp_pub[g] = q
          /\ q \in rtmp_subs'[g] <=> q \in rtmp_subs[g]
    <3>1. ASSUME NEW g \in Gids, NEW q \in Sessions, q # s
          PROVE  rtmp_pub'[g] = q <=> rtmp_pub[g] = q
      <4>1. CASE g = own /\ type[s] = "PUB"
        BY <3>1, <4>1, <2>a, <2>c, BrokerAssumption
      <4>2. CASE ~(g = own /\ type[s] = "PUB")
        BY <3>1, <4>2, <2>a
      <4> QED
        BY <4>1, <4>2
    <3>2. ASSUME NEW g \in Gids, NEW q \in Sessions, q # s
          PROVE  q \in rtmp_subs'[g] <=> q \in rtmp_subs[g]
      BY <3>2, <2>a
    <3> QED
      BY <3>1, <3>2
  <2>5. SessionsOrderly'
    BY <1>11, <1>a DEF PeerEof, SessionsOrderly, TypeOK
  <2>6. CallbacksAlive'
    BY <1>11, <1>a DEF PeerEof, CallbacksAlive, Live, get_group, TypeOK
  <2>7. \A q \in Sessions : q # s =>
          /\ Live(q)' = Live(q)
          /\ \A g \in Gids, t \in {"PUB", "SUB"} : IsMember(q, g, t)' = IsMember(q, g, t)
    BY <1>11, <1>a DEF PeerEof, Live, IsMember, get_group, TypeOK
  <2>8. ~Live(s)'
    BY <1>11, <1>a DEF PeerEof, Live, TypeOK
  <2>9. MembersMatch'
    <3>1. ASSUME NEW q \in Sessions, Live(q)', type'[q] # "SERVER"
          PROVE  LET g == get_group(stream_name[q])' IN
                 /\ g # None
                 /\ type'[q] = "PUB" => rtmp_pub'[g] = q
                 /\ type'[q] = "SUB" => q \in rtmp_subs'[g]
      <4>1. q # s /\ Live(q) /\ type[q] # "SERVER" /\ type' = type
            /\ get_group(stream_name[q])' = get_group(stream_name[q])
        BY <3>1, <2>7, <2>8, <1>11 DEF PeerEof, get_group
      <4>2. get_group(stream_name[q]) \in Gids
        BY <4>1, <1>a DEF MembersMatch, get_group, TypeOK
      <4> QED
        BY <4>1, <4>2, <2>4, <1>a DEF MembersMatch
    <3>2. ASSUME NEW g \in Gids, NEW q \in Sessions
          PROVE  /\ rtmp_pub'[g] = q => IsMember(q, g, "PUB")'
                 /\ q \in rtmp_subs'[g] => IsMember(q, g, "SUB")'
      BY <2>3, <2>4, <2>7, <1>a DEF MembersMatch
    <3> QED
      BY <3>1, <3>2 DEF MembersMatch
  <2> QED
    BY <2>2, <2>5, <2>6, <2>9
<1>12. ASSUME CrudeTimer PROVE Goal
  \* The sweep erases no Group that has a member.
  <2>1. \A n \in Streams, q \in Sessions :
          stream_name_2_group[n] # None
          /\ (rtmp_pub[stream_name_2_group[n]] = q \/ q \in rtmp_subs[stream_name_2_group[n]])
          => stream_name_2_group'[n] = stream_name_2_group[n]
    BY <1>12, <1>a, BrokerAssumption DEF CrudeTimer, Erasable, empty_totally, TypeOK
  <2>2. \A s \in Sessions : Live(s) /\ type[s] # "SERVER" =>
          get_group(stream_name[s])' = get_group(stream_name[s])
    BY <1>12, <2>1, <1>a DEF CrudeTimer, MembersMatch, get_group, TypeOK
  <2> QED
    BY <1>12, <2>2, <1>a DEF CrudeTimer, SessionsOrderly, MembersMatch, CallbacksAlive,
       IsMember, Live, TypeOK
<1>13. ASSUME NEW f \in Flvs, NEW n \in Streams, HttpFlvRequest(f, n) PROVE Goal
  <2>1. PICK g \in Gids : get_or_create_group(n, g)
    BY <1>13 DEF HttpFlvRequest
  <2>2. \A s \in Sessions : get_group(stream_name[s]) # None =>
          get_group(stream_name[s])' = get_group(stream_name[s])
    BY <1>13, <2>1, <1>a, GetOrCreateFinds DEF HttpFlvRequest, get_group
  <2> QED
    BY <1>13, <2>2, <1>a, BrokerAssumption DEF HttpFlvRequest, SessionsOrderly, MembersMatch,
       CallbacksAlive, IsMember, Live, TypeOK
<1>14. ASSUME NEW s \in Sessions, PlayDone(s) PROVE Goal
  <2>1. PICK g \in Gids : /\ get_or_create_group(stream_name[s], g)
                          /\ rtmp_subs' = [rtmp_subs EXCEPT ![g] = @ \cup {s}]
    BY <1>14 DEF PlayDone
  <2>2. /\ type[s] = "SERVER" /\ stream_name[s] \in Streams /\ av_data_cb[s] = None
        /\ sock[s] = "open"
    BY <1>14, <1>a DEF PlayDone, SessionsOrderly, PlayNamed, OrderlyHabits
  <2>3. /\ stream_name_2_group'[stream_name[s]] = g
        /\ \A m \in Streams : stream_name_2_group[m] # None =>
             stream_name_2_group'[m] = stream_name_2_group[m]
    BY <2>1, <2>2, <1>a, GetOrCreateFinds
  <2>4. \A q \in Sessions : get_group(stream_name[q]) # None =>
          get_group(stream_name[q])' = get_group(stream_name[q])
    BY <1>14, <2>3 DEF PlayDone, get_group
  <2>5. get_group(stream_name[s])' = g
    BY <1>14, <2>2, <2>3 DEF PlayDone, get_group
  <2>6. \A h \in Gids : rtmp_pub[h] # s /\ s \notin rtmp_subs[h]
    BY <2>2, <1>a DEF MembersMatch, IsMember
  <2>7. /\ rtmp_pub' = rtmp_pub /\ sock' = sock /\ stream_name' = stream_name
        /\ av_data_cb' = av_data_cb /\ up' = up
        /\ playing' = [playing EXCEPT ![s] = FALSE]
        /\ type' = [type EXCEPT ![s] = "SUB"]
    BY <1>14 DEF PlayDone
  <2>8. SessionsOrderly'
    BY <2>2, <2>7, <1>a DEF SessionsOrderly, TypeOK
  <2>9. CallbacksAlive'
    BY <2>2, <2>4, <2>7, <1>a, BrokerAssumption DEF CallbacksAlive, Live, TypeOK
  <2>10. MembersMatch'
    BY <2>1, <2>2, <2>4, <2>5, <2>6, <2>7, <1>a, BrokerAssumption
    DEF MembersMatch, IsMember, Live, TypeOK
  <2> QED
    BY <2>7, <2>8, <2>9, <2>10, <1>a
<1>15. ASSUME NEW s \in Sessions, NEW n \in Streams, Publish(s, n) PROVE Goal
  <2>1. PICK g \in Gids :
          /\ get_or_create_group(n, g)
          /\ av_data_cb' = [av_data_cb EXCEPT ![s] = g]
          /\ rtmp_pub[g] = None /\ rtmp_pub' = [rtmp_pub EXCEPT ![g] = s]
          /\ type' = [type EXCEPT ![s] = "PUB"]
          /\ stream_name' = [stream_name EXCEPT ![s] = n]
          /\ UNCHANGED <<playing, rtmp_subs, sock, failed>> /\ up'
    BY <1>15, PublishOrderly
  <2>2. /\ type[s] = "SERVER" /\ ~playing[s] /\ av_data_cb[s] = None
        /\ sock[s] = "open"
    BY <1>15, PublishFirst
  <2>3. /\ stream_name_2_group'[n] = g
        /\ \A m \in Streams : stream_name_2_group[m] # None =>
             stream_name_2_group'[m] = stream_name_2_group[m]
    BY <2>1, <1>a, GetOrCreateFinds
  <2>4. \A h \in Gids : rtmp_pub[h] # s /\ s \notin rtmp_subs[h]
    BY <2>2, <1>a DEF MembersMatch, IsMember
  <2>5. \A q \in Sessions : q # s /\ get_group(stream_name[q]) # None =>
          get_group(stream_name[q])' = get_group(stream_name[q])
    BY <2>1, <2>3, <1>a DEF get_group, TypeOK
  <2>6. get_group(stream_name[s])' = g
    BY <2>1, <2>3, <1>a DEF get_group, TypeOK
  <2>7. SessionsOrderly'
    BY <2>1, <2>2, <1>a DEF SessionsOrderly, TypeOK
  <2>8. CallbacksAlive'
    BY <2>1, <2>5, <2>6, <1>a, BrokerAssumption DEF CallbacksAlive, Live, TypeOK
  <2>9. MembersMatch'
    BY <2>1, <2>2, <2>4, <2>5, <2>6, <1>a, BrokerAssumption
    DEF MembersMatch, IsMember, Live, TypeOK
  <2> QED
    BY <2>1, <2>7, <2>8, <2>9
<1>16. CASE UNCHANGED vars
  BY <1>16, <1>b DEF vars
<1> QED
  BY <1>1, <1>2, <1>3, <1>4, <1>5, <1>6, <1>7, <1>8, <1>9, <1>10, <1>11, <1>12, <1>13,
     <1>14, <1>15, <1>16 DEF Next

\* With orderly peers the inductive invariant holds.
LEMMA MemberInvariant == OrderlyHabits => (Spec => []MemberInv)
<1> SUFFICES ASSUME OrderlyHabits PROVE Spec => []MemberInv
  OBVIOUS
<1>1. Init => MemberInv
  <2>1. Init => TypeOK
    BY TypeInit
  <2>2. Init => /\ OneGroupPerName /\ PlayNamed /\ ClientsOwned /\ SessionsOrderly
                /\ MembersMatch /\ CallbacksAlive /\ up
    BY BrokerAssumption DEF Init, OneGroupPerName, PlayNamed, ClientsOwned, SessionsOrderly,
       MembersMatch, CallbacksAlive, IsMember, Live
  <2> QED
    BY <2>1, <2>2 DEF MemberInv
<1>2. MemberInv /\ [Next]_vars => MemberInv'
  BY MemberStep, TypeStep, GroupStep, PlayNamedStep, OwnedStep DEF MemberInv
<1> QED
  BY <1>1, <1>2, PTL DEF Spec

\* The registry agrees with the sessions at all times.
THEOREM RegistryAgrees == OrderlyHabits => (Spec => []MembersMatch)
<1>1. MemberInv => MembersMatch
  BY DEF MemberInv
<1> QED
  BY <1>1, MemberInvariant, PTL

\* A publisher's callbacks hold the Group its stream name finds.
THEOREM PublisherCallbacksAlive == OrderlyHabits => (Spec => []CallbacksAlive)
<1>1. MemberInv => CallbacksAlive
  BY DEF MemberInv
<1> QED
  BY <1>1, MemberInvariant, PTL

\* No handler reaches into a Group that is null or erased.
THEOREM NoLostGroup == OrderlyHabits => (Spec => []NeverUsesLostGroup)
<1>1. MemberInv => NeverUsesLostGroup
  BY DEF MemberInv, NeverUsesLostGroup
<1> QED
  BY <1>1, MemberInvariant, PTL

\* A session that has ended without a role has it no more, and only such an end
\* fails an assertion.
LEMMA LeaversStep ==
    OrderlyHabits /\ MemberInv /\ OnlyLeaversFail /\ [Next]_vars => OnlyLeaversFail'
<1> SUFFICES ASSUME OrderlyHabits, MemberInv, OnlyLeaversFail, [Next]_vars
             PROVE  OnlyLeaversFail'
  OBVIOUS
<1> DEFINE Left(s) == sock[s] = "closed" /\ type[s] = "SERVER"
<1> USE DEF groupVars, memberVars, sessionVars, clientVars, loopVars
<1>a. TypeOK /\ SessionsOrderly /\ MembersMatch
  BY DEF MemberInv
<1>b. ASSUME failed' = failed, \A q \in Sessions : Left(q) => Left(q)'
      PROVE  OnlyLeaversFail'
  BY <1>b DEF OnlyLeaversFail
<1>c. ASSUME UNCHANGED <<sock, type, failed>> PROVE OnlyLeaversFail'
  BY <1>c, <1>b
<1>1. ASSUME NEW s \in Sessions, Accept(s) \/ PeerReset(s) PROVE OnlyLeaversFail'
  BY <1>1, <1>a, <1>b DEF Accept, PeerReset, TypeOK
<1>2. ASSUME NEW s \in Sessions, PlayFailed(s) \/ \E n \in Streams : Play(s, n)
      PROVE  OnlyLeaversFail'
  BY <1>2, <1>c DEF PlayFailed, Play
<1>3. ASSUME NEW s \in Sessions, BadCommand(s) \/ Drained(s) PROVE OnlyLeaversFail'
  BY <1>3, <1>a DEF BadCommand, Drained, OrderlyHabits, SessionsOrderly
<1>4. ASSUME NEW s \in Sessions, PlayDone(s) PROVE OnlyLeaversFail'
  BY <1>4, <1>a, <1>b DEF PlayDone, OrderlyHabits, TypeOK
<1>5. ASSUME NEW s \in Sessions, NEW n \in Streams, Publish(s, n) PROVE OnlyLeaversFail'
  BY <1>5, <1>a, <1>b, PublishFirst, PublishOrderly DEF TypeOK
<1>6. ASSUME \/ \E s \in Sessions : DeleteStream(s) \/ Media(s)
             \/ \E c \in Clients : PullMedia(c)
      PROVE  OnlyLeaversFail'
  BY <1>6, <1>c, MediaOrderly
<1>7. ASSUME NEW s \in Sessions, PeerEof(s) PROVE OnlyLeaversFail'
  <2>1. sock' = [sock EXCEPT ![s] = "closed"] /\ type' = type /\ sock[s] = "open"
    BY <1>7 DEF PeerEof
  <2>2. failed' = failed \cup {a \in {"close: no group"} : get_group(stream_name[s]) = None}
                         \cup {a \in {"close: invalid type"} :
                                 get_group(stream_name[s]) # None /\ type[s] = "SERVER"}
    BY <1>7 DEF PeerEof, on_rtmp_session_close
  <2>3. CASE type[s] = "SERVER"
    <3>1. Left(s)'
      BY <2>1, <2>3, <1>a DEF TypeOK
    <3> QED
      BY <2>2, <3>1 DEF OnlyLeaversFail
  <2>4. CASE type[s] # "SERVER"
    <3>1. get_group(stream_name[s]) # None
      BY <2>1, <2>4, <1>a DEF MembersMatch, Live
    <3>2. failed' = failed
      BY <2>2, <2>4, <3>1
    <3> QED
      BY <2>1, <3>2, <1>a, <1>b DEF TypeOK
  <2> QED
    BY <2>3, <2>4
<1>8. ASSUME \/ \E f \in Flvs, n \in Streams : HttpFlvRequest(f, n)
             \/ \E c \in Clients : ClientClose(c) \/ ClientReset(c)
             \/ CrudeTimer
             \/ UNCHANGED vars
      PROVE  OnlyLeaversFail'
  BY <1>8, <1>c DEF HttpFlvRequest, ClientClose, ClientReset, CrudeTimer, vars
<1> QED
  BY <1>1, <1>2, <1>3, <1>4, <1>5, <1>6, <1>7, <1>8 DEF Next

\* The assertions of the code hold for orderly peers, but for the two that a
\* session fails which ends before it published or played.
THEOREM OnlyEarlyLeaversFail == OrderlyHabits => (Spec => []OnlyLeaversFail)
<1> SUFFICES ASSUME OrderlyHabits PROVE Spec => []OnlyLeaversFail
  OBVIOUS
<1>1. Init => OnlyLeaversFail
  BY DEF Init, OnlyLeaversFail
<1>2. MemberInv /\ OnlyLeaversFail /\ [Next]_vars => OnlyLeaversFail'
  BY LeaversStep
<1> QED
  BY <1>1, <1>2, MemberInvariant, PTL DEF Spec

-----------------------------------------------------------------------------
(* Pulls *)

\* Whoever joins finds a pull in place or starts one.
LEMMA JoinStep ==
    ASSUME TypeOK, ClientsOwned, [Next]_vars, NEW g \in Gids,
           PullIfAbsent, JoinsAbsent(g)
    PROVE  /\ rtmp_pull'[g] # None
           /\ \/ csock'[rtmp_pull'[g]] = "open"
              \/ rtmp_pull[g] = rtmp_pull'[g] /\ csock[rtmp_pull[g]] = "broken"
<1> USE DEF groupVars, memberVars, sessionVars, clientVars, loopVars
<1>1. PICK s \in Sessions : PlayDone(s)
  \* Nothing else adds to rtmp_subs.
  <2>1. \E x : x \in rtmp_subs'[g] /\ x \notin rtmp_subs[g]
    BY DEF JoinsAbsent
  <2>2. \A s \in Sessions : PeerEof(s) \/ BadCommand(s) =>
          rtmp_subs'[g] \subseteq rtmp_subs[g]
    BY DEF PeerEof, BadCommand, on_rtmp_session_close
  <2> QED
    BY <2>1, <2>2 DEF Next, vars, Accept, PlayFailed, DeleteStream, Media, Drained, PeerReset,
       Publish, Play, HttpFlvRequest, PullMedia, ClientClose, ClientReset, CrudeTimer
<1>2. PICK h \in Gids : /\ rtmp_subs' = [rtmp_subs EXCEPT ![h] = @ \cup {s}]
                        /\ pull_rtmp_if_needed(h)
  BY <1>1 DEF PlayDone
<1>3. h = g
  BY <1>2 DEF JoinsAbsent, TypeOK
<1>4. rtmp_pub[g] = None
  BY <1>1 DEF PlayDone, JoinsAbsent
<1>5. CASE ~has_in(g, rtmp_pub[g])
  <2>1. PICK c \in Clients : /\ start_client(c, "PULL", g)
                             /\ rtmp_pull' = [rtmp_pull EXCEPT ![g] = c]
    BY <1>2, <1>3, <1>5 DEF pull_rtmp_if_needed
  <2>2. rtmp_pull'[g] = c /\ csock'[c] = "open"
    BY <2>1 DEF start_client, TypeOK
  <2> QED
    BY <2>2, BrokerAssumption
<1>6. CASE has_in(g, rtmp_pub[g])
  <2>1. rtmp_pull[g] # None
    BY <1>4, <1>6 DEF has_in
  <2>2. rtmp_pull' = rtmp_pull /\ csock' = csock
    BY <1>2, <1>3, <1>6 DEF pull_rtmp_if_needed
  <2> QED
    BY <2>1, <2>2 DEF ClientsOwned
<1> QED
  BY <1>5, <1>6

\* A player of a stream that is not published here is served by a pull, unless
\* the connection of that pull has failed.
THEOREM AbsentIsPulled == Spec => PullUnlessReset
<1>1. TypeOK /\ ClientsOwned /\ [Next]_vars =>
        [\A g \in Gids : PullIfAbsent /\ JoinsAbsent(g) =>
           /\ rtmp_pull'[g] # None
           /\ \/ csock'[rtmp_pull'[g]] = "open"
              \/ rtmp_pull[g] = rtmp_pull'[g] /\ csock[rtmp_pull[g]] = "broken"]_vars
  BY JoinStep
<1> QED
  BY <1>1, TypeCorrect, RelaysOwned, PTL DEF Spec, PullUnlessReset
=============================================================================
