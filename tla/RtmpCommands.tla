---------------------------- MODULE RtmpCommands ----------------------------
(***************************************************************************)
(* What an RtmpSessionClient and an RtmpSessionServer tell each other in   *)
(* the bytes of their commands, and what a server takes from the metadata  *)
(* of a publisher.                                                         *)
(*                                                                         *)
(* Each session encodes every message at the start of one write_buf_ and   *)
(* sends as many bytes as it reserved.  One message is under way at a time *)
(* (RtmpConversation has the order, RtmpStream the chunks).                *)
(***************************************************************************)
EXTENDS RtmpPack

CONSTANTS
    AppNames, StreamNames,   \* names, as sequences of bytes
    UrlPrefix,               \* the length of rtmp://<ip>:<port>/
    LocalChunkSize, WinAckSize, PeerBandwidth,
    PropertyNames, PropertyValues,   \* of metadata
    MaxProperties            \* the most properties in a metadata message (bound)

\* The names and the metadata are bytes.  A metadata string is one the decoders read.
ASSUME CommandsAssumption ==
    /\ AppNames \subseteq Seq(Nat) /\ StreamNames \subseteq Seq(Nat)
    /\ UrlPrefix \in Nat /\ MaxProperties \in Nat
    /\ LocalChunkSize \in 0 .. Base * Base * Base * Base - 1
    /\ WinAckSize \in Nat /\ PeerBandwidth \in Nat
    /\ PropertyNames \subseteq Seq(Nat) /\ \A name \in PropertyNames : Len(name) < LongLen
    /\ PropertyValues \subseteq [type : {NUMBER, BOOLEANTYPE, STRINGTYPE}, data : Seq(Nat)]
    /\ \A v \in PropertyValues :
         /\ v.type = NUMBER => Len(v.data) = 8
         /\ v.type = BOOLEANTYPE => v.data \in {<<0>>, <<1>>}
         /\ v.type = STRINGTYPE => Len(v.data) < LongLen

VARIABLES
    turn,          \* who writes what when the wire is empty
    wire,          \* the message under way: [from, bytes]
    write_buf_,    \* what each session's write_buf_ holds
    client,        \* RtmpSessionClient: [type, app_name, stream_name, stream_id, chunk_size]
    server,        \* RtmpSessionServer: the same, and curr_tid
    offered,       \* history: the properties of the last metadata message
    meta,          \* what the metadata callback got: [bytes, metadata]
    asserted       \* a session's assertion has failed

vars == <<turn, wire, write_buf_, client, server, offered, meta, asserted>>

Junk == Base       \* a byte of write_buf_ that was never written
Quiet == [from |-> "none", bytes |-> <<>>]
NoMeta == [bytes |-> <<>>, metadata |-> <<>>]

ConnectTid == 1
CreateStreamTid == 2
StartTid == 3

Init ==
    /\ turn = "clientChunkSize" /\ wire = Quiet
    /\ write_buf_ = [s \in {"client", "server"} |-> <<>>]
    /\ \E t \in {"PUSH", "PULL"}, a \in AppNames, s \in StreamNames :
         client = [type |-> t, app_name |-> a, stream_name |-> s,
                   stream_id |-> <<>>, chunk_size |-> 128, ready |-> FALSE]
    /\ server = [type |-> "SERVER", app_name |-> <<>>, stream_name |-> <<>>,
                 curr_tid |-> <<>>, chunk_size |-> 128]
    /\ offered = <<>> /\ meta = NoMeta
    /\ asserted = FALSE

-----------------------------------------------------------------------------
(* Writing *)

\* The first len bytes of a buffer that held old and was overwritten with bytes.
Sent(old, bytes, len) ==
    LET now == bytes \o Rest(old, Len(bytes))
    IN  [i \in 1 .. len |-> IF i <= Len(now) THEN now[i] ELSE Junk]

\* reserve(len), encode and async_write of len bytes, by session s.
Write(s, mine, len, bytes, then) ==
    /\ turn = mine /\ wire = Quiet /\ ~asserted
    /\ wire' = [from |-> s, bytes |-> Sent(write_buf_[s], bytes, len)]
    /\ write_buf_' = [write_buf_ EXCEPT ![s] = bytes \o Rest(@, Len(bytes))]
    /\ turn' = then
    /\ UNCHANGED <<client, server, offered, meta, asserted>>

ClientWriteChunkSize ==
    Write("client", "clientChunkSize", ENCODE_CONTROL_RESERVE,
          encode_chunk_size(LocalChunkSize), "connect")

Url == Word(4, UrlPrefix) \o client.app_name \o Word(5, 1) \o client.stream_name

do_write_rtmp_connect ==
    LET len == encode_connect_reserve(client.app_name, Url, Url) IN
    Write("client", "connect", len,
          encode_connect(len, client.app_name, Url, Url, ConnectTid), "winAckSize")

do_write_create_stream ==
    Write("client", "createStream", ENCODE_CREATE_STREAM_RESERVE,
          encode_create_stream(CreateStreamTid), "createStreamResult")

\* A client may announce its stream first; the server ignores it.
AnnounceStream ==
    \/ LET len == encode_release_stream_reserve(client.stream_name) IN
       Write("client", "createStream", len,
             encode_release_stream(len, client.stream_name, StartTid), "createStream")
    \/ LET len == encode_fc_publish_reserve(client.stream_name) IN
       Write("client", "createStream", len,
             encode_fc_publish(len, client.stream_name, StartTid), "createStream")

do_write_publish ==
    LET len == encode_publish_reserve(client.app_name, client.stream_name) IN
    /\ client.type = "PUSH"
    /\ Write("client", "start", len,
             encode_publish(len, client.app_name, client.stream_name,
                            client.stream_id[8], StartTid), "onStatus")

do_write_play ==
    LET len == encode_play_reserve(client.stream_name) IN
    /\ client.type = "PULL"
    /\ Write("client", "start", len,
             encode_play(len, client.stream_name, client.stream_id[8], StartTid), "onStatus")

do_write_win_ack_size ==
    Write("server", "winAckSize", ENCODE_CONTROL_RESERVE,
          encode_win_ack_size(WinAckSize), "peerBandwidth")

do_write_peer_bandwidth ==
    Write("server", "peerBandwidth", ENCODE_PEER_BANDWIDTH,
          encode_peer_bandwidth(PeerBandwidth), "chunkSize")

do_write_chunk_size ==
    Write("server", "chunkSize", ENCODE_CONTROL_RESERVE,
          encode_chunk_size(LocalChunkSize), "connectResult")

do_write_connect_result ==
    Write("server", "connectResult", ENCODE_CONNECT_RESULT_RESERVE,
          encode_connect_result(server.curr_tid), "createStream")

do_write_create_stream_result ==
    Write("server", "createStreamResult", ENCODE_CREATE_STREAM_RESULT_RESERVE,
          encode_create_stream_result(server.curr_tid), "start")

do_write_on_status_publish ==
    /\ server.type = "PUB"
    /\ Write("server", "onStatus", ENCODE_ON_STATUS_PUBLISH_RESERVE,
             encode_on_status_publish(1), "media")

do_write_on_status_play ==
    /\ server.type = "SERVER"
    /\ Write("server", "onStatus", ENCODE_ON_STATUS_PLAY_RESERVE,
             encode_on_status_play(1), "media")

\* The group tells a subscriber that its stream begins or ends, from a buffer of
\* its own (on_rtmp_pub_start, on_rtmp_pub_stop).
TellSubscriber ==
    /\ turn = "media" /\ server.type = "SUB" /\ wire = Quiet
    /\ \E bytes \in {encode_user_control_stream_begin, encode_user_control_stream_eof} :
         wire' = [from |-> "group", bytes |-> Sent(<<>>, bytes, ENCODE_USER_CONTROL_RESERVE)]
    /\ UNCHANGED <<turn, write_buf_, client, server, offered, meta, asserted>>

-----------------------------------------------------------------------------
(* Metadata of a publisher, which is not always yet *)

setDataFrame == Word(2, 13)
onMetaData == Word(1, 10)

Properties == [name : PropertyNames, value : PropertyValues]

MetaItems(props, framed, array) ==
    (IF framed THEN encode_string(setDataFrame) ELSE <<>>)
    \o (encode_string(onMetaData)
        \o (IF array THEN encode_ecma_array(props) ELSE encode_object(props)))

MetaMessage(items) == Header(RTMP_CSID_OVER_STREAM, Len(items), DATA_MESSAGE, 1) \o items

\* One metadata message (bound), of a length that three bytes hold: the map is a new
\* one for each.
SendMetaData ==
    /\ turn = "media" /\ server.type = "PUB" /\ wire = Quiet
    /\ meta = NoMeta /\ ~asserted
    /\ \E n \in 0 .. MaxProperties :
       \E props \in [1 .. n -> Properties], framed \in BOOLEAN, array \in BOOLEAN :
         LET items == MetaItems(props, framed, array) IN
         /\ Len(items) < Base * Base * Base
         /\ offered' = props
         /\ wire' = [from |-> "client", bytes |-> MetaMessage(items)]
    /\ UNCHANGED <<turn, write_buf_, client, server, meta, asserted>>

-----------------------------------------------------------------------------
(* Reading: what the chunk reader delivers to base_complete_message_handler *)

body == Body(wire.bytes)

Reads(s, type) ==
    /\ wire.from \in (IF s = "server" THEN {"client"} ELSE {"server", "group"})
    /\ MsgType(wire.bytes) = type /\ ~asserted
    /\ wire' = Quiet

\* base_command_message_handler: the command, and what follows its transaction.
cmd == decode_string_with_type(body)
tid == decode_number_with_type(Rest(body, cmd.next))
args == Rest(body, cmd.next + tid.next)

ReadsCommand(s, name) ==
    /\ Reads(s, COMMAND_MESSAGE)
    /\ cmd.ok /\ cmd.value.data = name /\ tid.ok
    /\ UNCHANGED <<turn, write_buf_, offered, meta>>

\* A failed assertion closes the session and lets the handler go on with a null
\* pointer: nothing is said of what follows.
Fails(s) ==
    /\ asserted' = TRUE
    /\ UNCHANGED <<client, server>>

SkipNull(in) == Rest(in, 1)

\* base_protocol_control_message_handler and base_user_control_message_handler,
\* which does nothing.
base_protocol_control_message_handler ==
    /\ \/ /\ Reads("server", SET_CHUNK_SIZE)
          /\ server' = [server EXCEPT !.chunk_size = decode_int32(body).value]
          /\ UNCHANGED client
       \/ /\ Reads("client", SET_CHUNK_SIZE)
          /\ client' = [client EXCEPT !.chunk_size = decode_int32(body).value]
          /\ UNCHANGED server
       \/ /\ \E type \in {WIN_ACK_SIZE, BANDWIDTH, USER_CONTROL} : Reads("client", type)
          /\ UNCHANGED <<client, server>>
    /\ UNCHANGED <<turn, write_buf_, offered, meta, asserted>>

connect_handler ==
    /\ ReadsCommand("server", connect)
    /\ LET objs == decode_object(args) IN
       IF objs.ok /\ Has(objs.value, app) /\ get(objs.value, app).type = STRINGTYPE
       THEN /\ server' = [server EXCEPT !.curr_tid = tid.value.data,
                                        !.app_name = get(objs.value, app).data]
            /\ UNCHANGED <<client, asserted>>
       ELSE Fails("server")

IgnoredCommand ==
    /\ \E name \in {releaseStream, FCPublish} : ReadsCommand("server", name)
    /\ UNCHANGED <<client, server, asserted>>

create_stream_handler ==
    /\ ReadsCommand("server", createStream)
    /\ server' = [server EXCEPT !.curr_tid = tid.value.data]
    /\ UNCHANGED <<client, asserted>>

publish_handler ==
    /\ ReadsCommand("server", publish)
    /\ LET name == decode_string_with_type(SkipNull(args)) IN
       IF name.ok /\ decode_string_with_type(Rest(SkipNull(args), name.next)).ok
       THEN /\ server' = [server EXCEPT !.stream_name = name.value.data, !.type = "PUB"]
            /\ UNCHANGED <<client, asserted>>
       ELSE Fails("server")

play_handler ==
    /\ ReadsCommand("server", play)
    /\ LET name == decode_string_with_type(SkipNull(args)) IN
       IF name.ok
       THEN /\ server' = [server EXCEPT !.stream_name = name.value.data]
            /\ UNCHANGED <<client, asserted>>
       ELSE Fails("server")

\* The completion handler of do_write_on_status_play.
OnStatusPlayWritten ==
    /\ turn = "media" /\ server.type = "SERVER" /\ ~asserted
    /\ server' = [server EXCEPT !.type = "SUB"]
    /\ UNCHANGED <<turn, wire, write_buf_, client, offered, meta, asserted>>

\* The code in a decoded object.
Status(objs) ==
    IF objs.ok /\ Has(objs.value, code) THEN get(objs.value, code).data ELSE <<>>

cmd_msg_result_handler ==
    /\ ReadsCommand("client", _result)
    /\ CASE tid.value.data = Double(ConnectTid) ->
              LET props == decode_object(args) IN
              IF props.ok /\ Status(decode_object(Rest(args, props.next))) = ConnectSuccess
              THEN UNCHANGED <<client, server, asserted>>
              ELSE Fails("client")
         [] tid.value.data = Double(CreateStreamTid) ->
              LET dsid == decode_number_with_type(SkipNull(args)) IN
              IF dsid.ok
              THEN /\ client' = [client EXCEPT !.stream_id = dsid.value.data]
                   /\ UNCHANGED <<server, asserted>>
              ELSE Fails("client")
         [] OTHER -> UNCHANGED <<client, server, asserted>>

cmd_msg_on_status_handler ==
    /\ ReadsCommand("client", onStatus)
    /\ LET status == Status(decode_object(SkipNull(args))) IN
       IF /\ tid.value.data = Double(0)
          /\ status = (IF client.type = "PUSH" THEN PublishStart ELSE PlayStart)
       THEN /\ client' = [client EXCEPT !.ready = (client.type = "PUSH")]
            /\ UNCHANGED <<server, asserted>>
       ELSE Fails("client")

\* An object or an ECMA array.
decode_metadata(in) ==
    IF Head(in) = ECMA_ARRAY THEN decode_ecma_array(in) ELSE decode_object(in)

\* base_meta_data_handler: without "@setDataFrame", the message is passed on.
base_meta_data_handler ==
    /\ Reads("server", DATA_MESSAGE)
    /\ LET first == decode_string_with_type(body)
           framed == first.ok /\ first.value.data = setDataFrame
           from == IF framed THEN Rest(body, first.next) ELSE body
           name == decode_string_with_type(from)
           props == decode_metadata(Rest(from, name.next))
       IN  IF name.ok /\ name.value.data = onMetaData /\ props.ok
           THEN /\ meta' = [bytes |-> from, metadata |-> props.value]
                /\ UNCHANGED asserted
           ELSE /\ asserted' = TRUE
                /\ UNCHANGED meta
    /\ UNCHANGED <<turn, write_buf_, client, server, offered>>

\* Nothing more is modelled after a failed assertion or the metadata message.
Over ==
    /\ asserted \/ (meta # NoMeta /\ wire = Quiet)
    /\ UNCHANGED vars

Next ==
    \/ ClientWriteChunkSize \/ do_write_rtmp_connect \/ AnnounceStream
    \/ do_write_create_stream \/ do_write_publish \/ do_write_play
    \/ do_write_win_ack_size \/ do_write_peer_bandwidth \/ do_write_chunk_size
    \/ do_write_connect_result \/ do_write_create_stream_result
    \/ do_write_on_status_publish \/ do_write_on_status_play \/ OnStatusPlayWritten
    \/ TellSubscriber \/ SendMetaData
    \/ base_protocol_control_message_handler
    \/ connect_handler \/ IgnoredCommand \/ create_stream_handler
    \/ publish_handler \/ play_handler
    \/ cmd_msg_result_handler \/ cmd_msg_on_status_handler \/ base_meta_data_handler
    \/ Over

Spec == Init /\ [][Next]_vars

-----------------------------------------------------------------------------
(* Properties *)

\* A url, and with it a connect, too long for a string of AMF0.
TooLong == Len(Url) >= LongLen

\* Where a loop over the AMF0 items of in goes on from each place.
WholeSteps(in) ==
    [at \in 0 .. Len(in) |->
        LET here == Rest(in, at)
            tries == {decode_string_with_type(here), decode_number_with_type(here),
                      decode_boolean_with_type(here), decode_object(here),
                      decode_ecma_array(here)}
        IN  IF here # <<>> /\ Head(here) = NULL THEN at + 1
            ELSE IF \E t \in tries : t.ok THEN at + (CHOOSE t \in tries : t.ok).next
            ELSE at]

\* in is a sequence of AMF0 items, to its last byte.
Whole(in) == Last(Trail(WholeSteps(in), 0)) = Len(in)

\* The length in a header is the length that was reserved, sent and encoded: what
\* is on the wire is a header and whole items, whatever write_buf_ held before.
Framed ==
    wire # Quiet /\ ~TooLong =>
        /\ Len(wire.bytes) = CHUNK_HEADER_SIZE_TYPE0 + MsgLen(wire.bytes)
        /\ MsgType(wire.bytes) \in {COMMAND_MESSAGE, DATA_MESSAGE} => Whole(body)

\* Each session takes from the other's commands what the other meant: the
\* application and stream that the group is looked up by, the transaction id and
\* the stream id.
Understood ==
    /\ server.curr_tid \in {<<>>, Double(ConnectTid), Double(CreateStreamTid)}
    /\ client.stream_id \in {<<>>, Double(RTMP_MSID)}
    /\ server.app_name \in {<<>>, client.app_name}
    /\ server.stream_name \in {<<>>, client.stream_name}
    /\ turn = "media" => /\ server.app_name = client.app_name
                         /\ server.stream_name = client.stream_name
                         /\ client.stream_id = Double(RTMP_MSID)
                         /\ server.chunk_size = LocalChunkSize
                         /\ client.chunk_size = LocalChunkSize

\* Only a url too long for a short string is refused: encode_string writes a
\* long one, which the decoders do not read.
OnlyLongRefused == asserted => TooLong

LastIndex(props, name) ==
    CHOOSE i \in DOMAIN props :
        props[i].name = name /\ \A j \in DOMAIN props : j > i => props[j].name # name

Names(objs) == {objs[i].name : i \in DOMAIN objs}

\* objs has the last value of each name, in the order of those last values.
LastValues(objs, props) ==
    /\ Names(objs) = Names(props)
    /\ \A i \in DOMAIN objs : objs[i].value = props[LastIndex(props, objs[i].name)].value
    /\ \A i, j \in DOMAIN objs :
         i < j => LastIndex(props, objs[i].name) < LastIndex(props, objs[j].name)

\* The metadata handed to the group is what the publisher sent, and the bytes it
\* forwards say the same again to a subscriber that decodes them.
MetaDataKept ==
    meta # NoMeta =>
        /\ LastValues(meta.metadata, offered)
        /\ LET name == decode_string_with_type(meta.bytes) IN
           /\ name.ok /\ name.value.data = onMetaData
           /\ decode_metadata(Rest(meta.bytes, name.next)).value = meta.metadata
=============================================================================
