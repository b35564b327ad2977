# yet in TLA+

A verification project for `yet`, a live-stream server in C++ that accepts RTMP
publishers and players and HTTP-FLV players, and can pull a stream from, or push
it to, another server. The modules are translated from the code under
`src/yet/`; TLC checks them on small instances, and TLAPS proves theorems about most of
them for every value of the constants: eight modules hold theorems, and each property of
safety that a run finds to hold has one (section 5).

Contents: the system (1), the plan (2), the modules and how they correspond to the
code (3), the runs and what they show (4), what is proved and how (5), where the
code departs from what it says of itself (6), what is left out (7).

---

## 1. The system

One thread runs one `asio::io_context`. Every handler runs to its end before the
next starts, so there are no data races; what makes the code hard is the order
of handlers. Operations of asio complete later, with a success that was true
when it was queued, and raw `this` pointers and shared buffers live in callbacks
in the meantime.

| component | state it keeps | operations | talks to |
|---|---|---|---|
| `Server` (`yet_server.cc`) | map from stream name to `Group`, tick count | `get_group`, `get_or_create_group`, `crude_timer_handler` (erases empty groups) | groups; called by both listeners |
| `RtmpServer`, `HttpFlvServer` | the acceptor | accept; forward session callbacks to the group of the session's stream name | `Server`, `Group` |
| `Group` membership (`yet_group.cc`) | publisher, subscribers, pull and push session, HTTP-FLV players | `on_rtmp_pub_start`, `add_rtmp_sub`, `add_http_flv_sub`, `on_rtmp_session_close`, `pull_rtmp_if_needed`, `empty_totally` | opens client sessions; is called back by all sessions |
| `Group` media (`yet_group.cc`) | cached metadata and decoder headers, header of the previous audio and video message | `on_rtmp_meta_data`, `on_rtmp_av_data`, `send_av_data` | `async_send` of every output |
| `RtmpSessionServer` | `type_`, names, `curr_tid_`, `write_buf_` | handshake, answers to commands, `play`, `publish`, `deleteStream` | the peer; callbacks to `RtmpServer` |
| `RtmpSessionClient` | `type_` (pull or push), `is_ready_`, `write_buf_` | opening chain, reactions to results | another server; callbacks to `Group` |
| `RtmpSessionBase` | `send_buffers_`, `read_buf_`, socket | `async_send` / `do_send`, `do_read`, `close` | asio |
| `HttpFlvSub` | request line, header state, its own `send_buffers_` | `request_handler` (splits the line, takes the stream name), header writes, `async_send` | the player; `Group` |
| `RtmpProtocol` | one `RtmpStream` per chunk stream, `peer_chunk_size_`, parse position | `try_compose` | called by `do_read` |
| `RtmpChunkOp` | none | `msg2chunks` | called by `Group` |
| `AmfOp`, `AmfObjectItemMap` | a map of properties | `encode_*`, `decode_*`, `put`, `get` | called by `RtmpPackOp` and by the handlers of commands and metadata |
| `RtmpPackOp` | none | `encode_*` of every message, and the length to reserve for it | called by the `do_write_*` of both sessions |
| `RtmpHandshakeS`, `RtmpHandshakeC` | the blocks s0s1, s2, c0c1, c2; `is_old_` | `handle_c0c1`, `create_s0s1`, `create_s2`, `handle_s0s1s2` | called by the two sessions |
| `HMACSHA256` (`chef_crypto_*`) | a context: a block that is filling, a length in two halves, state; the key under the outer mask | `init`, `update`, `final` | the handshake |
| `chef::buffer` | an array, its capacity, read and write positions | `reserve`, `append`, `seek_write_pos`, `erase`, `clear` | `read_buf_`, `write_buf_`, messages, tags |
| `HttpFlvPackOp`, the rest of chef_base, configuration, logging | none | | |

What is hard, and what correctness means for each part:

* **Registry.** A group is created by name, found again by name by every later
  callback of a session, and erased by a timer when it is empty. Correct: the
  registry agrees with the sessions (`MembersMatch`), no handler uses a member of a
  group that was erased or never existed (`NeverUsesLostGroup`, `CallbacksAlive`,
  `ClientsOwned`), players stay in the group their name finds, which is not erased under
  them (`PlayersFound`), no empty group is forgotten (`EmptyGroupErased`), a missing stream is pulled unless the
  connection of a pull was lost (`PullUnlessReset`), and the only assertions of the
  code that fail are those about a session that left early (`OnlyLeaversFail`).
* **Sending.** Writes complete in parts and later; an error can come between.
  Correct: the queue is a FIFO with one write at a time (`ImplementsFifo`,
  `WriteIffQueued`), silent after a torn buffer
  (`NothingAfterTear`), and not stalled (`EventuallyWritten`).
* **HTTP-FLV.** A request line is split by hand, and two chains of writes use one
  socket. Correct: the player gets the stream it asks for (`JoinsWhatItAsks`) and
  sees headers, then tags (`WellFormedStream`, `OrderWithinKind`, `SingleWriter`).
* **Conversation.** Four answers to `connect` go through one buffer and one
  transaction id. Correct: each command gets its own answer, whole
  (`AnswersMatch`, `NothingBroken`), media is pushed only to a publisher
  (`ReadyMeansPublisher`) and the opening comes to an end (`EndsInMedia`).
* **Handshake.** A client may be of the old style or sign its block, in one of two
  places that its own bytes decide. Correct: the answer proves to it that its
  block was read (`HandshakeAnswered`).
* **HMAC.** A text comes in pieces, and the code hashes it in blocks; where pieces,
  blocks and padding end differs from key to key and text to text. Correct: no byte
  is skipped or taken twice (`NothingSkipped`), and the result is the HMAC of key and
  text (`ImplementsMac`).
* **Bytes of commands.** One function says how long a message will be, another
  writes it, a third reads it at the other end, and a buffer still holds the
  message before. Correct: messages are as long as their headers say (`Framed`),
  mean at one end what was meant at the other (`Understood`), are refused only for
  a known reason (`OnlyLongRefused`), and metadata survives being read and passed
  on (`MetaDataKept`).
* **Byte buffer.** Positions move, the array is moved, replaced and given back.
  Correct: what is read is what was written (`ImplementsBytes`), and a large array
  is not kept for little (`ReleasesMemory`).
* **Chunks.** Messages are cut, interleaved and read in arbitrary pieces.
  Correct: the reader delivers what was sent, with its timestamps, as a FIFO would
  (`ImplementsChannel`), it does not lose its place (`KeepsItsPlace`;
  `ReadableBelowLen` fails, section 6), nothing is stuck (`EventuallyComposed`).
* **Fan-out.** Players join at any point of a stream, publishers may change, and
  the cached headers of HTTP-FLV are buffers that wait in several queues while their
  timestamps are written anew. Correct: players start at a key frame and miss nothing
  after it (`NothingMissed`), have their decoder headers first
  (`HeaderBeforeFrames`) and keep time (`TimeInStep`).

## 2. The plan

In order of importance; 1 to 11 are built.

1. `Broker`: registry, membership and relays. It decides whether the server
   crashes, so it comes first. Proofs in `BrokerProofs`.
2. `SendQueue` with the abstract `Fifo`, and the refinement between them. Proofs
   in `FlvSessionProofs`.
3. `FlvSession`: `HttpFlvSub`, composed of `HttpRequest`, `SendQueue` and the header
   chain. Proofs in `FlvSessionProofs`, which go on from those of `SendQueue`.
4. `RtmpConversation`: both ends of the opening. Proofs in
   `RtmpConversationProofs`.
5. `RtmpChunk`, `RtmpProtocol`, `RtmpStream`: writer, reader, and the two
   composed over a byte stream, shown to implement `Fifo`. Proofs in
   `RtmpStreamProofs`.
6. `GroupMedia`: caches, gating, timestamps, shared tags, a change of publishers.
   Proofs in `GroupMediaProofs`.
7. `Buffer` with the abstract `ByteString`, and the refinement between them.
   Proofs in `BufferProofs`.
8. `Amf`, `RtmpPack` and their composition `RtmpCommands`, in which the two
   sessions exchange bytes. Proofs in `RtmpCommandsProofs`.
9. `RtmpHandshake`, which `RtmpConversation` extends. Proofs in
   `RtmpConversationProofs`.
10. `Sha256`, `Hmac` with the abstract `Mac`, and the refinement between them. Proofs
    in `HmacProofs`.
11. `HttpRequest`: what a request line names. Proofs in `FlvSessionProofs`.
12. Left: theorems about streams of a writer that has some of the habits.

## 3. The modules

### Broker (`Broker.tla`, `MCBroker.tla`)

Constants: sets of server sessions, client sessions, HTTP-FLV sessions, stream
names and group objects; `NoName`, the empty name, under which a session that named no
stream is looked up, and which is a stream like others once a peer asks for it; the two
switches of the configuration (`PullIfAbsent`, `PushIfPub`); `CleanTicks`, the sweep interval in ticks; and
`Habits`, what peers and network may do:

| habit | meaning |
|---|---|
| `early` | a peer leaves before its publish or play took effect |
| `takeover` | a publish names a stream that has a publisher |
| `rerole` | a session publishes or plays more than once |
| `bad` | a peer sends a command the server does not know |
| `reset` | a connection fails with an error other than end of file |
| `late` | a write that succeeded before `close()` is reported after it |

A group is an identity in `Gids`, and one that was erased is not allocated
again; `Alive(g)` says that a raw pointer to it can still be used. `sock` is
the state of a session's socket and read loop; `broken` is a connection whose
read failed with an error other than end of file, which the code only logs.
`close()` inside a read handler does not stop the handler
(`SINPPET_RTMP_SESSION_ASSERT` closes and goes on), so `busy` names the session
whose handler still has messages. `up` becomes FALSE when a member of a null
or erased group is used; the program is not followed any further. (A member function
that is called through a null pointer and uses no member leaves it TRUE: section 6.)

One handler is one action: `Publish` is `publish_handler` with `on_pub_start` and
`on_rtmp_pub_start`, including the group's sends and the start of a push; `Play`
and `PlayDone` are two actions because the session becomes a subscriber only
when the write of its onStatus completes; `CrudeTimer` is the timer's handler.
Media is reduced to `send_to_subs`, because a send can fail an assertion that
closes the receiver.

### Send queue (`SendQueue.tla`, `Fifo.tla`)

`async_send` appends and starts a write if the queue was empty; asio writes a
buffer in `Parts` parts (`WriteSome`) and queues a completion; `OnWritten` pops
and starts the next; `OnFailed` returns before the pop. `Fifo` promises that what
is accepted is delivered whole, once and in order; the refinement maps `accepted`
to `sent` and `delivered` to `wire`.

### HTTP-FLV session (`HttpRequest.tla`, `FlvSession.tla`)

`HttpRequest` is the splitting that `request_handler` does, with `split`,
`trim_suffix` and `has_suffix` of `strings_op` as they are: empty fields count
between blanks, and do not between slashes. `split` is `getline`'s loop, a character at a
time: `Taking` is one turn of it, `Kept` the end of an item. `Asked` says what a line names in other
terms: the longest runs of characters that are no slash. `request_buf_` is any line
of a method, blanks, a uri of up to `MaxUri` characters, a version, and a line
end; methods, `.flv` and the version are characters.

`Request` registers the session with its group and starts the HTTP headers;
`OnHeaderWritten` goes on to the FLV header; tags come from an instance of
`SendQueue` on the same socket. `eager`, chosen in the initial state, says whether
the group may send before both headers are written, which the code permits.

### Conversation (`RtmpConversation.tla`, `MCRtmpConversation.tla`)

Both directions of TCP are sequences of messages. `write_buf_` is one variable
and a write sends what the buffer holds when the write is carried out, so an
answer encoded too early overwrites the one before. `pipelining`, chosen in the
initial state, makes the peer one that does not wait for answers. `broken`
remembers that an answer was overwritten or that a message longer than
128 bytes met a reader that had not been told the chunk size (`Long`: a connect and
its result; an onStatus fits into one chunk). Constants: what the clocks of the two ends
show, the sums of bytes that memory may hold, and what other peers send to open.

### Handshake (`RtmpHandshake.tla`)

`RtmpHandshakeS` and `RtmpHandshakeC` as operators from their state to their
state; `hs` and `hc` of `RtmpConversation` hold it. A block of 1536 bytes is its two
words, its digest, a name for the other bytes (`rest`), and the sums of the four bytes
that say where a digest is. `HMACSHA256(key, text)` is the pair of its arguments:
equal only for the same key and text. `is_old_` has no initial value in the code,
nor have the bytes of s1 from which the server takes the place of its own digest:
`Init` chooses them. A peer that does not wait for answers is not built from this
code, and sends any of `ForeignPeers`; those of `MCRtmpConversation` send another
version, the old style, a digest in either place at the first and last offset, or one
that does not fit.

### HMAC (`Sha256.tla`, `Hmac.tla`, `Mac.tla`, `MCHmac.tla`)

A context is the block that is filling, how far, the length in two halves, and
`intermediate_hash_`, which is kept as the sequence of blocks that were worked on:
`Digest` is any function of it, and so is `LengthField` of the two halves. `Input` is one
turn of the loop in `sha256::input`, so a block may end anywhere in a piece, and a context
that is computed or corrupted takes nothing;
`pad_message` pads in one block or in two. `Hmac` prepares the key (hashing one that
is longer than a block), takes pieces, and hashes the inner digest under the outer mask
with the same context. `Mac` is the promise: the code of a key and of all that was
passed since. An object is used once: `Again` is the next one, as
`HMACSHA256::init` makes a new one.

### Commands (`Amf.tla`, `RtmpPack.tla`, `RtmpCommands.tla`)

A byte is a number below `Base`, and the lengths that depend on two bytes depend
on it: a string is long from `Base * Base` bytes on (65536 in the code). `Amf`
has the encoders and the decoders as functions of byte sequences; a decoder
returns what it read and how far it went. The loop over the properties of an object is
the places it comes by (`Trail` over `ItemSteps`), then the properties read at those
places, put into the map one after the other (`PutAll`): functions, and no `RECURSIVE`
operator, so that they can be reasoned about. `RtmpPack` has the messages and the
lengths that are reserved for them; a word is its length and a letter, since only
its length, and whether it equals another word, matter. `RtmpCommands` puts the two
sessions at the ends of a wire with one message on it at a time: a message is
what the sender's `write_buf_` holds in the reserved length, old bytes included
where the encoder wrote less; the other end decodes it. `AnnounceStream` is the
releaseStream and FCPublish of other clients, `SendMetaData` is a publisher's data message with or
without `@setDataFrame`, of any properties whose message has a length that three bytes hold.
After a failed assertion (which closes) or a metadata
message nothing more happens.

### Byte buffer (`Buffer.tla`, `ByteString.tla`)

`chef::basic_buffer` with its array, capacity and two positions; memory that was
never written is `Junk`. `reserve` moves the unread bytes to the front, or doubles
until there is room (`Doublings`, powers of 2, and `MaxCapacity` bound how often);
`append`, writing in place, `seek_write_pos_rollback`, `erase` (which shrinks) and
`clear` follow. `ByteString` is the promise: a string that grows at the end and
loses bytes at either end. The refinement maps the unread part of the array to the
string.

### Chunks (`RtmpChunk.tla`, `RtmpProtocol.tla`, `RtmpStream.tla`)

The byte stream is a sequence of parts: a header (basic and message header as
one), an extended timestamp, single bytes of a message. A header or extended
timestamp that has arrived in part leaves `try_compose` where it was, so
splitting them further shows nothing new. `RtmpProtocol` is `try_compose` as one
action per header, per chunk and per return. `astray` becomes TRUE when the reader
takes a header for message bytes or the reverse, and the reader is not followed
after that.

The FIFO that the two implement takes a message when the writer finishes its last
chunk and delivers it when the callback gets it; a timestamp counts where the code
means to keep it (`Meant`: not for the control messages).

`RtmpStream` adds a writer chosen in the initial state: one that follows the RTMP
specification (any header form that is allowed, chunks of chunk streams
interleaved), or a yet that relays with `msg2chunks`. Its habits are what the
reader does *not* get right:

| habit | what it allows | what it breaks, when switched on |
|---|---|---|
| `resize` | Set Chunk Size between two chunks of another message | `ReadableBelowLen` (run `rtmp_resize`), and with it `KeepsItsPlace` |
| `repeat` | a whole message that begins with a bare form 3 header | `ImplementsChannel`: the delta is not added again |
| `late` | an extended timestamp on anything but a single-chunk message with a form 0 header | `ImplementsChannel` when a read ends between the header and it; `KeepsItsPlace` when it is repeated on a form 3 chunk, or when the writer of yet leaves it out for a value of exactly 0xFFFFFF |
| `empty` | a message of no bytes | `ReadableBelowLen` |

### Fan-out (`GroupMedia.tla`, `MCGroupMedia.tla`)

A message is its kind, its number and a timestamp, which is counted modulo
`TimeLimit` (2^32) and starts over when another publisher takes over (`Republish`;
`on_rtmp_pub_start` resets nothing of what the group keeps). `got` is what a session
was sent; RTMP deltas are added to the clock of the session's chunk stream as a reader
would add them. A cached FLV header is one buffer for the group and all sessions, and
`write_tag_timestamp` writes into it for each new player: `WithStamps` changes it also
where it is still `shared`, that is, until the player it was queued for writes it to
its socket (`Write`). Every message fits in one chunk here; `msg2chunks` repeats the
delta on every chunk, which is the business of `RtmpStream`.

## 4. The runs

| run | instance | shows |
|---|---|---|
| `broker_leave` | 2 sessions, 2 clients, 1 HTTP-FLV player, 2 streams of which one is the empty name, 3 groups, habits early and reset, sweep every 2 ticks | registry agrees with sessions, no member of a lost group is used, which assertions can fail, missing streams are pulled unless a pull was lost, empty groups are erased |
| `broker_open` | 2 sessions, 2 clients, 2 streams, 2 groups, all habits | players stay in the group their name finds, no group is erased under them, and relay sessions are owned, whatever happens (HTTP-FLV players: only in the theorems of section 5) |
| `flv_session` | 2 buffers in 2 parts, 3 sends, uris of up to 5 characters | the player joins what it asks for; its view with and without early tags; the queue is a FIFO with one write at a time, quiet after a tear, and not stalled |
| `rtmp_conversation` | push and pull, waiting and pipelining peers, 8 kinds of c0c1 besides that of yet | handshake, answers and outcome of the opening |
| `rtmp_stream` | 2 media chunk streams and the control one, sizes 1 then 2, lengths 2 and 3, 3 messages, no habits | a FIFO of messages with their timestamps, position, progress |
| `group_media` | one RTMP and two FLV outputs, 4 messages, timestamps modulo 8 from 5, a second publisher | what a late joiner gets, and with which timestamps |
| `hmac` | bytes below 97, blocks of 4, digests of 3, a length of 2, 6 keys, texts of up to 9 bytes in pieces of up to 3 | the incremental hash skips nothing and gives the HMAC |
| `buffer` | 2 byte values, capacities 2, 4 and 8, calls of up to 3 bytes | the buffer is a string of bytes and gives memory back |
| `rtmp_commands` | bytes below 24, 2 applications, 3 streams, metadata of up to 3 properties | the two ends understand each other |
| `broker_pull`, `flv_writers`, `rtmp_resize` | as above, with the one habit that matters | disagreements of section 6 |

*Why the bounds are enough.* Two sessions of one stream are what a takeover or a
stale membership needs; two streams are what a session that changes its stream, and a
leaver whose empty name finds the group of others, need. Three groups
let a name be erased and created again while the other name is in use (a bound:
when all are used, nothing more is created). `CleanTicks` 2 separates ticks with
and without a sweep. Two parts is the least that can be torn; three sends reach a
queue with several buffers, one in flight and one that arrives on completion.
Five characters make uris with an application, a name, a suffix, and slashes too many
in each place. A
chunk size that changes from 1 to 2 with lengths 2 and 3 gives messages of one,
two and three chunks, and messages that fit only under the new size; `Window` lets
the reader fall behind by a whole chunk; `Clock` has values below, and above,
`MaxTs`. Four messages hold metadata or a
header, a key frame and frames after it, joins fall between any two of them, timestamps
wrap at the third, and two players can have the same header in their queues. Keys of
0 to 7 bytes are shorter than a block, as long, longer, and longer with their padding
than two; texts of up to 9 end at every place of a block, with and without room for the
length. The sums 727 and 728 put a digest at the
last and at the first offset of its part. Capacities 2, 4 and 8 with a shrink
capacity of 4 let the array double once and twice, shrink, and be moved in place,
with calls that are empty, fit and do not fit. The three stream names are a short
one, the longest with which the url in a connect is still a short string and the
shortest with which it is a long one; properties have equal and different names, so
that a later one replaces an earlier one, and values that look like the end of an
object.

*Symmetry* is used in `broker_open`, and in `group_media` for the two FLV outputs:
identities that no definition distinguishes, in runs that check no liveness.

*Deadlock* is not checked where the system really stops: bounded sends, messages or
sessions are used up, or `up` is FALSE. In `broker_leave` the timer always ticks, in
`buffer` a call is always possible, and in `rtmp_commands` the end is a step of its
own (`Over`), so that one side waiting for a message that never comes is a deadlock:
there the check is on.

*Fairness.* Only what the event loop gives: the timer re-arms itself in its own
handler (`WF(CrudeTimer)`); asio finishes operations that can make progress and
runs queued handlers (`FlvFairSpec`: the tags of a session whose connection lasts); both ends of a conversation run what is ready
(`WF(Server)`, `WF(Client)`), and so does the reader, which reads again after each
`try_compose` (`WF(Read)`). Nothing is assumed of peers: they may fall silent, and
`EventuallyComposed` is only about messages whose last byte was written.

Every property of a passing run has a mutant in `PROJECT.json`: an operator, marked
`Mutant` and next to the definition it replaces, that is the code with a plausible mistake, and
for which TLC finds the property violated.

## 5. What is proved

For every value of the constants, under the assumptions named in the modules.
`BrokerAssumption` says that habits are among those listed, the switches are
Boolean, the interval positive and the null pointer none of the objects;
`SendQueueAssumption` says that a buffer has at least one part; `BufferAssumption`
that the first capacity is positive and not above the shrink capacity, that
doublings are positive and that `Junk` is no byte; `Sha256Assumption` and
`HmacAssumption` that a digest fits in a block and a length field too, and that no text
is as long as the length field cannot count; `GroupMediaAssumption` that no session is
both RTMP and FLV and that timestamps are counted modulo a positive number;
`RtmpChunkAssumption`, `RtmpProtocolAssumption` and `RtmpStreamAssumption` that chunk
sizes and the largest timestamp of three bytes are positive, and that the control chunk
stream is one of those there are; `FlvSessionAssumption` that a tag is no header and
that the longest uri has a natural number for its length;
`RtmpConversationAssumption` that clocks and sums are natural numbers and that other peers
send blocks: any words, bytes and sums, with a digest of a client or none;
`AmfAssumption` that a byte has more than 20 values (the marks of AMF0 and the types of
messages are below that), and `CommandsAssumption` that names are strings of bytes of any
length, and metadata what AMF0 can say of numbers, booleans and short strings.

| theorem | statement | argument |
|---|---|---|
| `TypeCorrect` | `Spec => []TypeOK` | inductive; the loop over subscribers and the start of a relay are lemmas |
| `PlayersStay` | `Spec => []PlayersFound`, any habits | inductive with `PlayNamed` and `IdleUntyped` (a session has no role before it was accepted): the handlers of others close a player or leave it where it is, and the sweep takes no group that has one |
| `RelaysOwned` | `Spec => []ClientsOwned` | needs `PlayNamed` (an outstanding play has a stream name), so that the group `PlayDone` uses is a real one; then each start fills an empty slot and each close empties the slot it came from |
| `RegistryAgrees` | `Spec => []MembersMatch`, for habits within early and reset | `MemberInv` |
| `PublisherCallbacksAlive` | `Spec => []CallbacksAlive`, same habits | `MemberInv` |
| `NoLostGroup` | `Spec => []NeverUsesLostGroup`, same habits | `MemberInv` |
| `OnlyEarlyLeaversFail` | `Spec => []OnlyLeaversFail`, same habits | with `MemberInv`: the send loop finds only subscribers, a publisher's stop finds its group; what remains are closes of type SERVER |
| `AbsentIsPulled` | `Spec => PullUnlessReset`, any habits | step property from `TypeOK` and `ClientsOwned`: who joins starts a pull, or finds one in the slot whose callback is live |
| `NoBufferLost`, `WritesWhatIsQueued` | `[]NothingLost`, `[]WriteIffQueued` | `QueueInv` |
| `TornIsLast` | `NothingAfterTear` | step property from `QueueInv` |
| `QueueIsFifo` | `Spec => ImplementsFifo` | initial states and steps mapped, from `QueueInv` |
| `TypeCorrect` (of Buffer) | `Spec => []TypeOK` | inductive: positions in the array, only written bytes readable |
| `BufferIsString` | `Spec => ImplementsBytes` | a lemma for each operation says what it does to `Unread`; each step maps to one of `ByteString` or a stutter |
| `ExtraMemoryReleased` | `Spec => ReleasesMemory` | step property from `TypeOK` |
| `SessionKeepsQueue` | `FlvSpec => Spec` (of SendQueue) | every step of the session is one of the queue or leaves it alone |
| `SessionWritesWhatIsQueued`, `SessionTornIsLast`, `SessionIsFifo` | `[]WriteIffQueued`, `NothingAfterTear`, `ImplementsFifo`, for an HTTP-FLV session | the theorems of SendQueue, through `SessionKeepsQueue` |
| `PlayersSeeAStream` | `FlvSpec => []WellFormedStream` | `FlvInv` |
| `JoinsAsked` | `FlvSpec => JoinsWhatItAsks`, any characters and length of uris | step property; `UsableIsAsked`: a line that the handler uses asks for the name it takes, and one that it does not use asks for none |
| `WaitingWritesAlone` | `FlvSpec => [](~eager => SingleWriter)`: with a group that waits, never two writes at once | `FlvInv` |
| `HmacTypeCorrect` | `Spec => []TypeOK` | `HmacInv` |
| `EveryByteOnce` | `Spec => []NothingSkipped` | `HmacInv` |
| `HmacIsMac` | `Spec => ImplementsMac` | `HmacInv`; each step maps to one of `Mac` or a stutter |
| `TypeCorrect` (of GroupMedia) | `Spec => []TypeOK` | `GroupInv` |
| `NothingIsMissed` | `Spec => []NothingMissed` | `GroupInv`: the flag for the key frame is set exactly when something started since the session joined |
| `HeadersComeFirst` | `Spec => []HeaderBeforeFrames` | `GroupInv`: a session that was sent media of a kind has the header that is cached for it |
| `SessionsKeepTime` | `Spec => []TimeInStep` | `GroupInv`: one offset per session and kind of media, between its clock and the publisher's |
| `KindsStayInOrder` | `FlvSpec => []OrderWithinKind`, with early tags too | `KindInv` |
| `FlvTypeCorrect` | `FlvSpec => []FlvTypeOK` | with `KindInv`, which has the counters |
| `StreamInvariant` | `Spec => []StreamInv`, for a writer with no habits | inductive, see below |
| `StreamTypeCorrect` | `Spec => []TypeOK`, same writer | `StreamInv` |
| `ReaderKeepsItsPlace` | `Spec => []KeepsItsPlace`, same writer | `StreamInv` |
| `AssertionHolds` | `Spec => []ReadableBelowLen`, same writer: what `rtmp_resize` refutes holds without that habit | `StreamInv` |
| `StreamIsFifo` | `Spec => ImplementsChannel`, same writer | each step of the writer finishes a message or maps to a stutter, each of the reader delivers the next one or maps to a stutter |
| `ConversationTypeCorrect` | `Spec => []TypeOK`, any peer | `PeerInv` |
| `ReadyIsPublisher` | `Spec => []ReadyMeansPublisher`, any peer | `PeerInv`: the onStatus for a publish is made after `type_` is set |
| `HandshakeIsAnswered` | `Spec => []HandshakeAnswered`, any peer | `PeerInv` with `S2ProvesC1` |
| `ResultsInOrder` | `Spec => []AnswersMatch`, a peer that waits | `TurnInv` |
| `NothingOverwritten` | `Spec => []NothingBroken`, a peer that waits | `TurnInv` |
| `CommandsInvariant` | `Spec => []CommandsInv` | inductive, see below |
| `CommandsFramed` | `Spec => []Framed`, whatever `write_buf_` held before | `CommandsInv`, of which it is a part; each message has a lemma that its reserved length is the one encoded |
| `CommandsUnderstood` | `Spec => []Understood` | `CommandsInv`: what each session knows at each turn |
| `OnlyLongUrlsRefused` | `Spec => []OnlyLongRefused` | `CommandsInv`: an assertion fails only in `connect_handler` |
| `MetaDataSurvives` | `Spec => []MetaDataKept`, any number of properties, with equal names too | `CommandsInv`; `PutAllLast`: after each `put` the map has the last value of each name, in the order of the last puts |
| `DigestInBlock` | a digest, wherever it is, lies within its half of a block | arithmetic of `digest_offset` |
| `S2ProvesC1` | for every c1 of the right version, and whatever memory held before, the server's s2 proves that c1 was read | `FindsDigest`: both places are looked at, and they never coincide (`PlacesApart`) |

`MembersMatch` alone is not inductive. A session that is about to play could be of
any type, and the send loop could find a subscriber of the wrong type and close it.
`MemberInv` adds `SessionsOrderly`: a session plays or publishes once, has
callbacks only as a publisher, and no handler has closed its own session
(`busy` is null). From it, `SendOrderly` shows that the send loop changes
nothing, and every other action disturbs at most one session or one group. The
hypothesis on habits is necessary: `takeover`, `rerole` and `bad` each break
`MembersMatch` on a small instance, and so does `late` together with `early`.

`QueueInv` adds to `NothingLost` and `WriteIffQueued` that a write in progress has a
part left (`write = "busy" => part < Parts`), without which the last part could
be counted twice.

`FlvInv` is `QueueInv` with `Waits`: while a session that is not eager has a header to
write, nothing was sent, and what was written is exactly the headers so far; afterwards
it is the headers and then the parts of the tags that `QueueInv` counts.
`WellFormedStream` alone says nothing about where a write in progress is. With early tags
headers and tags mix, and there `KindInv` counts: of the parts of the headers on the wire
there are as many as the phase and `hpart` say, of those of the tags as many as `wire` and
`part` say, and the n-th part of a kind is the n-th that is due.

`HmacInv` is `TypeOK` and `NothingSkipped` with what links `key`, `text` and `mac` to the
step. The heart is `PaddingIsBlocks`: the blocks of a context that took a text, and the
block or two that `pad_message` adds, are the blocks the standard gives that text.
The theorems suppose (`Open`) that the length field is bytes of its length and that a
digest is bytes of its length, whatever they are.

`GroupInv` is about each session on its own, for any number of them. Two lemmas about
`Next` carry it: a step is `Quiet` (nothing is published, no flag, clock or timestamp
changes) or `Stepped(m)`: message `m` is published, the caches keep the last message of
their kinds (`KeepsLast`), and each session in the group is `Grown`: cached items first,
then `m`, unless it waits. `SessionsWhole` is stronger than `NothingMissed` by what the
key frame flag means, and `SessionsReady` than `HeaderBeforeFrames` by the header that a
session has although it needs none yet, with one more fact for audio: without a cached
AAC header, only a session past its first key frame was sent audio. `TimeInStep` needs
the clock of the chunk stream as well: in `SessionsTimed` what a session was sent has the
publisher's time plus an offset, and so has its clock at `prev_audio_header_` or
`prev_video_header_`, so that the difference it is sent keeps the offset, modulo 2^32. For
shared tags, `HeadersOk` finds whoever made `write_tag_timestamp` run: that session is
sent a copy in the same step. The bound on messages plays no part, and a publisher
is followed by another at most once, as in the specification.

`StreamInv` is about what is on its way. A *node* is a reader between two chunks: what it
has still to read, its streams, its chunk size, and how many messages it composed. A
*link* goes from one node to the next over one chunk, and does what the reader does with
it. The invariant says that links lead from the reader, wherever it is (when it has read a
header, the rest of that chunk comes first: `HalfWay`), to a node at which nothing is left
to read and which agrees with the writer: its size, its messages under way, the fields
from which it makes the next headers. Then the reader takes links away at one end
(`PathFirst`), the writer adds them at the other (`PathAppend`), and neither has to know
where the other is; that a chunk is cut anywhere by reads needs no more than that. A
message that yet relays adds all its chunks at once: `RelayPath` goes through them by
induction. TLC cannot evaluate `StreamInv`, which quantifies over all sequences; it
checks the properties that follow. Without the hypothesis on habits the theorems are
false: `resize` breaks `ReadableBelowLen`, and `repeat` and `late` change timestamps
(section 3).

`PeerInv` says of each kind of message when it can be under way, that the server has at
most one write of the handshake unfinished, that c0c1 is the first message, and which
blocks the two ends hold; with it, `S2ProvesC1`, a theorem about the operators of
`RtmpHandshake`, becomes one about the conversation. It holds also of a peer that sends
everything at once. `TurnInv` is for one that waits. The conversation is then two scripts
(`ClientScript`, `ServerScript`) and the state a few counters into them: how many messages
were sent and read, and how many writes were finished and completed. `c2s`, `writing`,
`written` and `s2c` are the intervals of the scripts between the counters, the stages
of both ends follow from them, and so does how far the server has started to write
(`Started`). That no answer is overwritten follows from which counters can be reached
together: a command comes only after the client got the answer before it.

`CommandsInv` follows the turns. `Framed` and `MetaDataKept` are about the message on the
wire and the metadata taken from one, and neither `Understood` nor they say which message
is there, so nothing could be said of what its reader makes of it. `OnWire` says it: the
message is the one of the turn (`FromClient`, `FromServer`), in terms of what the
decoders find in it (`Tells`: the command, the transaction id, and the bytes left to the
handler). `Progress` says what each session has taken from the messages of the turns that
are `Done`. A step that writes needs that the message just made is framed and tells what
was put into it (`Told`, one lemma for each message), and that no byte of what
`write_buf_` held before is left in the reserved length; a step that reads needs that the
handler gets back from those arguments what the other session wrote. Both rest on the
codec: an encoded item, wherever it stands in a longer string, is decoded to itself with
its length (`Taken`, and a lemma for each type); a string that is made of items is gone
through to its end (`Ending`, `Reaches`, by induction along the places of `Trail`); and an
object gives back its properties, for any number of them (induction over the list). Four
digits in base `Base` give back the number they came from, which is where the bound on
lengths comes in: `Framed` and the theorems about commands hold for every url that is not
`TooLong`, and the one that is, is refused, which `OnlyLongUrlsRefused` says.

`JoinsAsked` compares two readings of a line. `HttpRequest` cuts the line, again and again;
`Asked` points at places in it. `SplitCuts` says by induction along the line that with
empty items `split` cuts at the separators and nowhere else, so that a line has three
fields just when it has two blanks (`ThreeFields`); `SplitWords`, that without them it
finds the words of a uri, all of them and in order, so that its last item is the last
word (`LastSegment`) and the name one that `NamedBy` has.

*Only model-checked:* liveness (`EmptyGroupErased`, `EventuallyWritten`, `EndsInMedia`,
`EventuallyComposed`), which is beyond what the prover does. The library's rule of
induction has a predicate as its parameter, which the provers cannot instantiate; the few
inductions that the proofs need use `Inductive` of `RtmpStreamProofs`,
`RtmpCommandsProofs` and `FlvSessionProofs`, which has a set in its place. `NothingLost`
is the other way round: it is proved, and follows from what `flv_session` checks.

## 6. Where the code departs from what it says

Each of these is a run that TLC ends with a counterexample.

* `broker_pull`: a pull connection that fails with a reset, a refused connect or a
  failed lookup stays in `rtmp_pull_`; `has_in()` stays true and no later player of
  that stream starts a pull, although the README promises one.
* `flv_writers`: the group may send a tag to an HTTP-FLV player while its headers
  are being written; asio forbids two `async_write`s on one stream.
* `rtmp_resize`: a chunk size that grows in the middle of a message makes
  `try_compose` ask for the whole message again; the assertion fails, the bytes
  of what follows are taken into the message, and it never completes.

Other departures are within what the passing runs say, or break a property on an
instance with one more habit:

* A peer that leaves before its publish or play took effect makes the assertion in
  `RtmpServer::on_rtmp_session_close`, or the default one in
  `Group::on_rtmp_session_close`, fail (`OnlyLeaversFail` says that nothing else
  does). The first only logs, and a member function is then called on a null
  pointer; for a session that is still of type SERVER that call touches no member, so
  it usually goes unnoticed.
* With `takeover`, the end of the first publisher empties the slot of the second,
  whose group is then swept: the assertion in `RtmpServer::on_pub_stop` fails. With
  `rerole`, a subscriber that publishes stays in `rtmp_subs_`, and the assertion in
  `async_send` fails. Both break `OnlyLeaversFail`, `MembersMatch`,
  `CallbacksAlive` and `NeverUsesLostGroup` when switched on in `broker_leave`. `bad`
  breaks the first two: a handler that has closed its session goes on with it.
* A c0 of another version is answered like one of version 3 ("invalid handshake
  c0c1" is only logged, `is_old_` keeps whatever it held) and the server never looks
  at c2.
* A url of 65536 bytes or more is encoded as a long string, which the decoders do not
  read, so that the server refuses the connect (`OnlyLongRefused`).
* A player that asks for `/live/.flv` is registered for the stream with an empty name.
  That is also the name under which the close of a session that never named a stream
  is looked up.
* A cached FLV header that waits in the queue of one player gets a later timestamp
  when another player joins, because there is one buffer for all; `TimeInStep` says that
  it is always the time of a message that some player got with the header.
* `crypto_hmac_sha256::final` leaves a context that cannot be used again: `update`
  after it is ignored. `HMACSHA256` makes a new object each time, and so never meets that.
* The `used_len` of `decode_object` and `decode_ecma_array` is short by the bytes
  before the properties. Callers go on from the returned position, so it only
  loosens a bound.

`GroupMedia` states two properties for the stream the code is made for.
`HeaderBeforeFrames` needs a publisher that sends each decoder header once: a second
AAC header that comes while a session waits for a key frame is dropped for that
session. And a stream without video is never sent to anybody, since nothing
leaves before a key frame.

## 7. What is not modelled

* `dispose` of servers, groups and sessions: the process runs until it is killed
  (`run_duration_sec` is 0 and `main.cc` disposes only after that).
* The arithmetic of SHA-256 on one block (`Digest` is any function), its helpers that
  nothing uses, and the OpenSSL variant of `yet_rtmp_hmac_sha256_adapter.hpp` (the
  one that is built uses chef).
* The splitting of URLs (`RtmpHelperOp`, called only by an overload that nothing uses),
  the bytes of FLV tags, configuration files, and the helpers of chef_base for files,
  printing and random bytes.
* The type invariant of `Hmac` is proved and in no run, and so is that of `RtmpCommands`
  (`CommandsType`, a part of `CommandsInv`).
* `AmfOp`: `decode_int16`, `decode_int32_le` and `stringify`, which nothing modelled
  uses. `RtmpPackOp`: the ping response, which nothing sends. `chef::buffer`: the
  constructor from data, assignment, searches and trims.
* `RtmpProtocol`: chunk streams above 63, timestamps that go back or wrap at
  2^32, `ABORT` (ignored by the code). Message lengths and sizes are small
  numbers.
* `Group` in `GroupMedia`: at most one change of publishers; messages of the
  publishers of before do not mix with those of the publisher of now; sessions do not leave, since
  leaving changes nothing for the others.
* Logging, and asio itself beyond what the modules say of it: one
  thread, completion handlers in the order of completion, writes in parts.
