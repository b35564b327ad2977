------------------------------ MODULE RtmpPack ------------------------------
(***************************************************************************)
(* RtmpPackOp: the messages a session writes, as the bytes of one chunk    *)
(* with a header of twelve bytes, and the lengths it reserves for them.    *)
(*                                                                         *)
(* A word is its length and a letter that tells it from the other words of *)
(* that length.                                                            *)
(***************************************************************************)
EXTENDS Amf

Word(letter, n) == [i \in 1 .. n |-> letter]

connect == Word(1, 7)
_result == Word(2, 7)
publish == Word(3, 7)
releaseStream == Word(1, 13)
FCPublish == Word(1, 9)
createStream == Word(1, 12)
play == Word(1, 4)
onStatus == Word(1, 8)

app == Word(1, 3)
swfUrl == Word(1, 6)
tcUrl == Word(1, 5)
fmsVer == Word(2, 6)
capabilities == Word(2, 12)
level == Word(2, 5)
code == Word(2, 4)
description == Word(1, 11)
objectEncoding == Word(1, 14)

\* Values of code.
ConnectSuccess == Word(1, 29)
PublishStart == Word(1, 23)
PlayStart == Word(1, 20)

\* A small number, as the double it is sent as.
Double(n) == [i \in 1 .. 8 |-> IF i = 8 THEN n ELSE 0]

CHUNK_HEADER_SIZE_TYPE0 == 12

RTMP_CSID_PROTOCOL_CONTROL == 2
RTMP_CSID_OVER_CONNECTION == 3
RTMP_CSID_OVER_STREAM == 5

SET_CHUNK_SIZE == 1
USER_CONTROL == 4
WIN_ACK_SIZE == 5
BANDWIDTH == 6
DATA_MESSAGE == 18
COMMAND_MESSAGE == 20

\* ENCODE_MESSAGE_HEADER: fmt 0, timestamp 0.
Header(csid, len, type, msid) ==
    <<csid, 0, 0, 0>> \o encode_int24(len) \o <<type>> \o encode_int32_le(msid)

\* What a reader takes from the header.
MsgLen(bytes) == decode_int24(SubSeq(bytes, 5, 7)).value
MsgType(bytes) == bytes[8]
Body(bytes) == Rest(bytes, CHUNK_HEADER_SIZE_TYPE0)

-----------------------------------------------------------------------------
(* Protocol and user control messages *)

Control(type, len, payload) == Header(RTMP_CSID_PROTOCOL_CONTROL, len, type, 0) \o payload

encode_chunk_size(cs) == Control(SET_CHUNK_SIZE, 4, encode_int32(cs))
encode_win_ack_size(val) == Control(WIN_ACK_SIZE, 4, encode_int32(val))
encode_peer_bandwidth(val) == Control(BANDWIDTH, 5, encode_int32(val) \o <<2>>)
encode_user_control_stream_begin == Control(USER_CONTROL, 2, encode_int16(0))
encode_user_control_stream_eof == Control(USER_CONTROL, 2, encode_int16(1))

ENCODE_CONTROL_RESERVE == 16
ENCODE_PEER_BANDWIDTH == 17
ENCODE_USER_CONTROL_RESERVE == 14

-----------------------------------------------------------------------------
(* Commands of a client *)

\* A name, a transaction and what follows them.
Command(csid, len, msid, name, tid, arguments) ==
    Header(csid, len, COMMAND_MESSAGE, msid)
    \o (encode_string(name) \o encode_number(tid) \o arguments)

Named(name, s) == Item(name, Value(STRINGTYPE, s))
NamedNumber(name, n) == Item(name, Value(NUMBER, Double(n)))

encode_connect_reserve(a, swf, tc) ==
    CHUNK_HEADER_SIZE_TYPE0 + 10 + 9 + 1
    + encode_object_named_string_reserve(3, Len(a))
    + encode_object_named_string_reserve(6, Len(swf))
    + encode_object_named_string_reserve(5, Len(tc)) + 3

ConnectItems(a, swf, tc) == <<Named(app, a), Named(swfUrl, swf), Named(tcUrl, tc)>>

encode_connect(len, a, swf, tc, tid) ==
    Command(RTMP_CSID_OVER_CONNECTION, len - CHUNK_HEADER_SIZE_TYPE0, 0,
            connect, Double(tid), encode_object(ConnectItems(a, swf, tc)))

encode_release_stream_reserve(s) ==
    CHUNK_HEADER_SIZE_TYPE0 + 16 + 9 + 1 + encode_string_reserve(Len(s))

encode_release_stream(len, s, tid) ==
    Command(RTMP_CSID_OVER_CONNECTION, len - CHUNK_HEADER_SIZE_TYPE0, 0,
            releaseStream, Double(tid), encode_null \o encode_string(s))

encode_fc_publish_reserve(s) ==
    CHUNK_HEADER_SIZE_TYPE0 + 12 + 9 + 1 + encode_string_reserve(Len(s))

encode_fc_publish(len, s, tid) ==
    Command(RTMP_CSID_OVER_CONNECTION, len - CHUNK_HEADER_SIZE_TYPE0, 0,
            FCPublish, Double(tid), encode_null \o encode_string(s))

ENCODE_CREATE_STREAM_RESERVE == 37

encode_create_stream(tid) ==
    Command(RTMP_CSID_OVER_CONNECTION, ENCODE_CREATE_STREAM_RESERVE - CHUNK_HEADER_SIZE_TYPE0, 0,
            createStream, Double(tid), encode_null)

encode_publish_reserve(a, s) ==
    CHUNK_HEADER_SIZE_TYPE0 + 10 + 9 + 1 + encode_string_reserve(Len(a))
    + encode_string_reserve(Len(s))

\* Mutant: the application goes before the stream.
encode_publish_swapped(len, a, s, msid, tid) ==
    Command(RTMP_CSID_OVER_STREAM, len - CHUNK_HEADER_SIZE_TYPE0, msid,
            publish, Double(tid), encode_null \o encode_string(a) \o encode_string(s))

encode_publish(len, a, s, msid, tid) ==
    Command(RTMP_CSID_OVER_STREAM, len - CHUNK_HEADER_SIZE_TYPE0, msid,
            publish, Double(tid), encode_null \o encode_string(s) \o encode_string(a))

\* Mutant: the room of "publish" for "play".
encode_play_reserve_publish(s) ==
    CHUNK_HEADER_SIZE_TYPE0 + 10 + 9 + 1 + encode_string_reserve(Len(s))

encode_play_reserve(s) ==
    CHUNK_HEADER_SIZE_TYPE0 + 7 + 9 + 1 + encode_string_reserve(Len(s))

encode_play(len, s, msid, tid) ==
    Command(RTMP_CSID_OVER_STREAM, len - CHUNK_HEADER_SIZE_TYPE0, msid,
            play, Double(tid), encode_null \o encode_string(s))

-----------------------------------------------------------------------------
(* Answers of a server *)

RTMP_MSID == 1

ENCODE_CONNECT_RESULT_RESERVE == 202

ResultProperties == <<Named(fmsVer, Word(1, 13)), NamedNumber(capabilities, 1)>>
ResultInfo ==
    <<Named(level, Word(3, 6)), Named(code, ConnectSuccess),
      Named(description, Word(1, 21)), NamedNumber(objectEncoding, 0)>>

encode_connect_result(tid) ==
    Command(RTMP_CSID_OVER_CONNECTION, 190, 0,
            _result, tid, encode_object(ResultProperties) \o encode_object(ResultInfo))

ENCODE_CREATE_STREAM_RESULT_RESERVE == 41

encode_create_stream_result(tid) ==
    Command(RTMP_CSID_OVER_CONNECTION, 29, 0,
            _result, tid, encode_null \o encode_number(Double(RTMP_MSID)))

\* encode_on_status_publish and encode_on_status_play
StatusItems(status, text) ==
    <<Named(level, Word(3, 6)), Named(code, status), Named(description, text)>>

OnStatus(len, msid, status, text) ==
    Command(RTMP_CSID_OVER_STREAM, len, msid,
            onStatus, Double(0), encode_null \o encode_object(StatusItems(status, text)))

ENCODE_ON_STATUS_PUBLISH_RESERVE == 117
ENCODE_ON_STATUS_PLAY_RESERVE == 108

encode_on_status_publish(msid) == OnStatus(105, msid, PublishStart, Word(1, 16))
encode_on_status_play(msid) == OnStatus(96, msid, PlayStart, Word(1, 10))
=============================================================================
