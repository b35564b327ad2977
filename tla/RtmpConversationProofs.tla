----------------------- MODULE RtmpConversationProofs -----------------------
(***************************************************************************)
(* What RtmpHandshake does with every block of a peer, and theorems about  *)
(* RtmpConversation for any peers, clocks and contents of memory.          *)
(***************************************************************************)
EXTENDS RtmpConversation, SequenceTheorems, TLAPS

-----------------------------------------------------------------------------
(* The handshake *)

\* Where the four bytes can be from which the place of a digest is taken.
Bases == {DigestBeforeKey, KeyBeforeDigest}

\* A digest taken anywhere from the sum of four bytes lies within its half of the
\* block, and the two halves do not meet (rtmp_find_digest,
\* rtmp_handshake_create_challenge).
THEOREM DigestInBlock ==
    ASSUME NEW sum \in Nat, NEW base \in Bases
    PROVE  /\ digest_offset(sum, base) \in base + 4 .. base + 731
           /\ digest_offset(sum, base) + RTMP_HANDSHAKE_KEYLEN <= base + 764
           /\ digest_offset(sum, base) + RTMP_HANDSHAKE_KEYLEN <= RTMP_S2_LEN
<1>1. base \in Nat /\ base + 764 <= 1536
  BY DEF Bases, DigestBeforeKey, KeyBeforeDigest
<1>2. sum % 728 \in 0 .. 727
  OBVIOUS
<1> QED
  BY <1>1, <1>2 DEF digest_offset, RTMP_HANDSHAKE_KEYLEN, RTMP_S2_LEN

\* The two places where a digest can be are never the same.
LEMMA PlacesApart ==
    ASSUME NEW s \in Nat, NEW t \in Nat
    PROVE  digest_offset(s, DigestBeforeKey) # digest_offset(t, KeyBeforeDigest)
<1>1. s % 728 \in 0 .. 727 /\ t % 728 \in 0 .. 727
  OBVIOUS
<1> QED
  BY <1>1 DEF digest_offset, DigestBeforeKey, KeyBeforeDigest

\* Whatever RtmpHandshakeS holds before it reads a c1.
AnyS ==
    [is_old_ : BOOLEAN, timestamp_recvd_c1_ : Nat, timestamp_sent_s1_ : Nat,
     s0s1_ : ClientBlocks, s2_ : ClientBlocks]

\* find_digest finds the digest of a client exactly when there is one.
LEMMA FindsDigest ==
    ASSUME NEW c1 \in ClientBlocks
    PROVE  IF SignedByClient(c1) THEN find_digest(c1) = c1.digest[2] /\ find_digest(c1) # NotFound
           ELSE find_digest(c1) = NotFound
<1> DEFINE before == digest_offset(c1.sums[DigestBeforeKey], DigestBeforeKey)
           after == digest_offset(c1.sums[KeyBeforeDigest], KeyBeforeDigest)
<1>1. c1.sums[DigestBeforeKey] \in Nat /\ c1.sums[KeyBeforeDigest] \in Nat
  BY DEF ClientBlocks
<1>2. before \in Nat /\ before # NotFound /\ after \in Nat /\ after # NotFound
  <2>1. \A sum \in Nat : sum % 728 \in 0 .. 727
    OBVIOUS
  <2> QED
    BY <1>1, <2>1 DEF digest_offset, DigestBeforeKey, KeyBeforeDigest, NotFound
<1>3. \A offs : Digest(ClientKey, offs)[2] = offs
  BY DEF Digest, HMACSHA256
<1>4. SignedByClient(c1) <=> \/ c1.digest = Digest(ClientKey, before)
                             \/ c1.digest = Digest(ClientKey, after)
  BY DEF SignedByClient
<1>5. rtmp_find_digest(c1, KeyBeforeDigest) =
        IF c1.digest = Digest(ClientKey, after) THEN after ELSE NotFound
  BY DEF rtmp_find_digest
<1>6. rtmp_find_digest(c1, DigestBeforeKey) =
        IF c1.digest = Digest(ClientKey, before) THEN before ELSE NotFound
  BY DEF rtmp_find_digest
<1> HIDE DEF before, after
<1>7. CASE c1.digest = Digest(ClientKey, after)
  BY <1>7, <1>2, <1>3, <1>4, <1>5 DEF find_digest
<1>8. CASE c1.digest # Digest(ClientKey, after)
  BY <1>8, <1>2, <1>3, <1>4, <1>5, <1>6 DEF find_digest
<1> QED
  BY <1>7, <1>8

\* For every c1 with the right version, and whatever is_old_ and the buffers held
\* before, the s2 proves that the server has read it (handle_c0c1, create_s0s1,
\* create_s2).
THEOREM S2ProvesC1 ==
    ASSUME NEW old \in AnyS, NEW c1 \in ClientBlocks, NEW now \in Nat
    PROVE  LET read == handle_c0c1(old, RTMP_VERSION, c1)
               s1 == create_s0s1(read, now)
               s2 == create_s2(s1)
           IN  Proves(s2.s2_, c1, s2.s0s1_)
<1> DEFINE parsed == rtmp_handshake_parse_challenge(old, RTMP_VERSION, c1)
           read == handle_c0c1(old, RTMP_VERSION, c1)
           s1 == create_s0s1(read, now)
           s2 == create_s2(s1)
           new == c1.second # 0 /\ SignedByClient(c1)
<1>1. CASE new
  <2>1. find_digest(c1) = c1.digest[2] /\ find_digest(c1) # NotFound
    BY <1>1, FindsDigest
  <2>2. parsed = [old EXCEPT !.is_old_ = FALSE,
                            !.s2_.digest = Digest(KeyFrom(c1.digest[2]),
                                                  RTMP_S2_LEN - RTMP_HANDSHAKE_KEYLEN)]
    BY <1>1, <2>1 DEF rtmp_handshake_parse_challenge
  <2>3. /\ ~parsed.is_old_
        /\ parsed.s2_.digest = Digest(KeyFrom(c1.digest[2]),
                                      RTMP_S2_LEN - RTMP_HANDSHAKE_KEYLEN)
    BY <2>2 DEF AnyS, ClientBlocks
  <2>4. read = parsed
    BY <2>3 DEF handle_c0c1
  <2>5. ~s1.is_old_ /\ s1.s2_ = parsed.s2_
    BY <2>2, <2>3, <2>4 DEF create_s0s1, AnyS, ClientBlocks
  <2>6. s2 = s1
    BY <2>5 DEF create_s2
  <2> QED
    BY <1>1, <2>3, <2>5, <2>6 DEF Proves
<1>2. CASE ~new
  <2>1. c1.second = 0 \/ find_digest(c1) = NotFound
    BY <1>2, FindsDigest
  <2>2. parsed = [old EXCEPT !.is_old_ = TRUE]
    BY <2>1 DEF rtmp_handshake_parse_challenge
  <2>3. read = [parsed EXCEPT !.timestamp_recvd_c1_ = c1.first, !.s2_ = c1]
    BY <2>2 DEF handle_c0c1, AnyS
  <2>4. /\ read.is_old_ /\ read.timestamp_recvd_c1_ = c1.first /\ read.s2_ = c1
        /\ read.s0s1_ = old.s0s1_
    BY <2>2, <2>3 DEF AnyS
  <2>5. s1 = [read EXCEPT !.timestamp_sent_s1_ = now,
                          !.s0s1_ = [@ EXCEPT !.first = now, !.second = 0]]
    BY <2>4 DEF create_s0s1
  <2>6. /\ s1.is_old_ /\ s1.timestamp_recvd_c1_ = c1.first
        /\ s1.timestamp_sent_s1_ = now /\ s1.s2_ = c1
        /\ s1.s0s1_ = [old.s0s1_ EXCEPT !.first = now, !.second = 0]
    <3>1. read \in [is_old_ : BOOLEAN, timestamp_recvd_c1_ : Nat,
                    timestamp_sent_s1_ : Nat, s0s1_ : ClientBlocks, s2_ : ClientBlocks]
      <4>1. c1.first \in Nat
        BY DEF ClientBlocks
      <4> HIDE DEF parsed, read, s1, s2, new
      <4> QED
        BY ONLY <4>1, <2>2, <2>3, old \in AnyS, c1 \in ClientBlocks DEF AnyS
    <3> HIDE DEF parsed, read, s1, s2, new
    <3> QED
      BY <3>1, <2>4, <2>5
  <2>7. s1.s0s1_.first = now
    BY <2>6 DEF AnyS, ClientBlocks
  <2>8. s2 = [s1 EXCEPT !.s2_.first = c1.first, !.s2_.second = now]
    BY <2>6 DEF create_s2
  <2>9. s2.s2_ = [c1 EXCEPT !.second = now] /\ s2.s0s1_ = s1.s0s1_
    <3>1. DOMAIN s1 = DOMAIN old
      <4> HIDE DEF parsed, read, s1, s2, new
      <4> QED
        BY ONLY <2>2, <2>3, <2>5, old \in AnyS DEF AnyS
    <3>2. DOMAIN old = {"is_old_", "timestamp_recvd_c1_", "timestamp_sent_s1_", "s0s1_", "s2_"}
      BY DEF AnyS
    <3>3. s2.s0s1_ = s1.s0s1_ /\ s2.s2_ = [[s1.s2_ EXCEPT !.first = c1.first] EXCEPT !.second = now]
      <4> HIDE DEF parsed, read, s1, s2, new
      <4> QED
        BY ONLY <2>8, <3>1, <3>2
    <3>4. [[c1 EXCEPT !.first = c1.first] EXCEPT !.second = now] = [c1 EXCEPT !.second = now]
      BY DEF ClientBlocks
    <3> HIDE DEF parsed, read, s1, s2, new
    <3> QED
      BY ONLY <2>6, <3>3, <3>4
  <2> QED
    BY <1>2, <2>7, <2>9 DEF Proves
<1> QED
  BY <1>1, <1>2
-----------------------------------------------------------------------------
(* Lists of messages *)

\* The transaction ids in use; 0 for a message that has none.
Tids == {0, ConnectTid, CreateStreamTid}

\* x is a message of one of these kinds.
IsMsg(x, kinds) == x.m \in kinds /\ x.tid \in Tids

\* s is a sequence of messages of these kinds.
Listed(s, kinds) == \E S : s \in Seq(S) /\ \A x \in S : IsMsg(x, kinds)

\* The lemmas on Listed: nothing, more kinds, one message more, without its first, without
\* its first two, and each of its members.
LEMMA ListedEmpty ==
    ASSUME NEW kinds
    PROVE  Listed(<<>>, kinds)
<1>1. PICK S : S = {}
  OBVIOUS
<1>2. <<>> \in Seq(S) /\ \A x \in S : IsMsg(x, kinds)
  BY <1>1
<1> QED
  BY <1>2 DEF Listed

\* The same messages are of any larger set of kinds.
LEMMA ListedMore ==
    ASSUME NEW s, NEW kinds, NEW more, Listed(s, kinds), kinds \subseteq more
    PROVE  Listed(s, more)
BY DEF Listed, IsMsg

\* One message of these kinds more.
LEMMA ListedAppend ==
    ASSUME NEW s, NEW kinds, NEW x, Listed(s, kinds), IsMsg(x, kinds)
    PROVE  Listed(Append(s, x), kinds)
<1>1. PICK S : s \in Seq(S) /\ \A y \in S : IsMsg(y, kinds)
  BY DEF Listed
<1>2. s \in Seq(S \cup {x})
  BY <1>1, SeqMonotonic
<1>3. Append(s, x) \in Seq(S \cup {x})
  BY <1>2, AppendProperties
<1> QED
  BY <1>1, <1>3 DEF Listed

\* The first message, and the others.
LEMMA ListedTail ==
    ASSUME NEW s, NEW kinds, Listed(s, kinds), s # <<>>
    PROVE  Listed(Tail(s), kinds) /\ IsMsg(Head(s), kinds)
<1>1. PICK S : s \in Seq(S) /\ \A y \in S : IsMsg(y, kinds)
  BY DEF Listed
<1>2. Tail(s) \in Seq(S) /\ Head(s) \in S
  BY <1>1, HeadTailProperties
<1> QED
  BY <1>1, <1>2 DEF Listed

\* The others, when two are read at once.
LEMMA ListedRest ==
    ASSUME NEW s, NEW kinds, Listed(s, kinds), Len(s) >= 2
    PROVE  Listed(SubSeq(s, 3, Len(s)), kinds)
<1>1. PICK S : s \in Seq(S) /\ \A y \in S : IsMsg(y, kinds)
  BY DEF Listed
<1>2. SubSeq(s, 3, Len(s)) \in Seq(S)
  BY <1>1, LenProperties, SubSeqProperties
<1> QED
  BY <1>1, <1>2 DEF Listed

\* Each of the messages.
LEMMA ListedRange ==
    ASSUME NEW s, NEW kinds, Listed(s, kinds)
    PROVE  \A x \in Range(s) : IsMsg(x, kinds)
<1>1. PICK S : s \in Seq(S) /\ \A y \in S : IsMsg(y, kinds)
  BY DEF Listed
<1>2. \A i \in DOMAIN s : s[i] \in S
  BY <1>1, ElementOfSeq, LenProperties
<1> QED
  BY <1>1, <1>2 DEF Range

-----------------------------------------------------------------------------
(* With any peer *)

\* What the server can have written: nothing that makes a publisher a player, and no
\* answer to publish before type_ is PUB.
Kinds ==
    {m \in Answers \cup {"s0s1", "s2"} :
        ctype = "PUSH" => m # "onStatus play" /\ (m = "onStatus publish" => type_ = "PUB")}

\* What the peer sends.
PeerKinds == {m \in Commands \cup {"c0c1", "c2"} : ctype = "PUSH" => m # "play"}

\* Each variable that is not a list of messages or a block has its type.
Types ==
    /\ sstage \in {"c0c1", "s0s1", "s2", "c2", "reading", "closed"}
    /\ type_ \in {"SERVER", "PUB", "SUB"}
    /\ curr_tid_ \in Tids
    /\ cstage \in {"c0c1", "s0s1s2", "c2", "chunk size", "connect", "createStream",
                   "start", "reading", "closed"}
    /\ ctype \in {"PUSH", "PULL"}
    /\ s_chunk_size \in {"default", "local"} /\ c_chunk_size \in {"default", "local"}
    /\ is_ready \in BOOLEAN /\ broken \in BOOLEAN /\ pipelining \in BOOLEAN

\* What is under way in each direction, and why a push session is ready.
Messages ==
    /\ Listed(c2s, PeerKinds)
    /\ Listed(s2c, Kinds \cup {"none"})
    /\ IsMsg(write_buf_, Kinds \cup {"none"})
    /\ Listed(writing, Kinds) /\ Listed(written, Kinds)
    /\ is_ready => ctype = "PUSH" /\ type_ = "PUB"

\* One write of this kind is under way or finished.
One(m) ==
    \E x : /\ x.m = m
           /\ \/ writing = <<x>> /\ written = <<>>
              \/ writing = <<>> /\ written = <<x>>

\* What the server writes at each stage.
Writes ==
    /\ sstage \in {"c0c1", "c2", "closed"} => writing = <<>> /\ written = <<>>
    /\ sstage \in {"s0s1", "s2"} => One(sstage)
    /\ sstage = "reading" => Listed(writing, Answers) /\ Listed(written, Answers)

\* The c0c1 of the peer is the first message the server reads.
First ==
    /\ cstage = "c0c1" => sstage = "c0c1" /\ c2s = <<>>
    /\ sstage = "closed" => cstage = "closed"
    /\ sstage = "c0c1" /\ cstage \notin {"c0c1", "closed"} => c2s # <<>>
    /\ sstage = "c0c1" /\ c2s # <<>> => Head(c2s) = Opens("c0c1", hc.version, hc.c0c1_)

\* The fields of an RtmpHandshakeS and of a c0c1.
IsS(h) == DOMAIN h = {"is_old_", "timestamp_recvd_c1_", "timestamp_sent_s1_", "s0s1_", "s2_"}
IsC(h) == h = [version |-> h.version, c0c1_ |-> h.c0c1_, c2_ |-> h.c2_]

\* The blocks the two sessions hold.
Blocks ==
    /\ IsC(hc) /\ hc.version \in Nat /\ hc.c0c1_ \in ClientBlocks
    /\ ~pipelining => hc.version = RTMP_VERSION /\ hc.c0c1_.second = 0
    /\ IsS(hs)
    /\ sstage = "c0c1" => hs \in AnyS
    /\ sstage = "s0s1" =>
         \E old \in AnyS : hs = create_s0s1(handle_c0c1(old, hc.version, hc.c0c1_), S1Time)
    /\ sstage \in {"s2", "c2", "reading"} /\ hc.version = RTMP_VERSION =>
         Proves(hs.s2_, hc.c0c1_, hs.s0s1_)

\* The inductive invariant for any peer, whether it waits or not.
PeerInv == Types /\ Messages /\ Writes /\ First /\ Blocks

\* A block without a digest, as memory holds it or create_c0c1 makes it.
LEMMA MemoryIsABlock ==
    ASSUME NEW first \in Nat, NEW second \in Nat, NEW rest \in Rests, NEW sum \in Nat
    PROVE  Block(first, second, rest, Sums(sum), NoDigest) \in ClientBlocks
<1>1. Sums(sum) \in [{DigestBeforeKey, KeyBeforeDigest} -> Nat]
  BY DEF Sums
<1>2. NoDigest \in {NoDigest} \cup ({ClientKey} \X Nat)
  OBVIOUS
<1> DEFINE sums == Sums(sum)
<1> HIDE DEF sums
<1> QED
  BY <1>1, <1>2 DEF Block, ClientBlocks, sums

\* It holds at first.
LEMMA PeerInit ==
    ASSUME Init
    PROVE  PeerInv
<1>1. Types
  <2>1. curr_tid_ \in Tids
    BY DEF Init, Tids
  <2>2. pipelining \in BOOLEAN /\ is_ready \in BOOLEAN /\ broken \in BOOLEAN
    <3>1. pipelining \in BOOLEAN /\ is_ready = FALSE /\ broken = FALSE
      BY DEF Init
    <3> QED
      BY <3>1
  <2> QED
    BY <2>1, <2>2 DEF Init, Types
<1>2. Messages
  <2>1. IsMsg(write_buf_, Kinds \cup {"none"})
    BY DEF Init, IsMsg, Plain, Msg, Tids
  <2> QED
    BY <2>1, ListedEmpty DEF Init, Messages
<1>3. Writes
  BY DEF Init, Writes
<1>4. First
  BY DEF Init, First
<1>5. \A sum \in Nat : Uninitialised(sum) \in ClientBlocks
  <2>1. Junk \in Nat /\ "junk" \in Rests
    BY DEF Junk, Rests
  <2> QED
    BY <2>1, MemoryIsABlock, Zenon DEF Uninitialised
<1>6. hs \in AnyS
  BY <1>5, RtmpConversationAssumption DEF Init, NewS, AnyS, Junk
<1>7. IsC(hc) /\ hc.version \in Nat /\ hc.c0c1_ \in ClientBlocks
  <2>1. CASE pipelining
    BY <2>1, RtmpConversationAssumption DEF Init, IsC
  <2>2. CASE ~pipelining
    <3>1. PICK sum \in Nat : hc = create_c0c1(C1Time, sum)
      BY <2>2, RtmpConversationAssumption DEF Init
    <3>2. Block(C1Time, 0, "c1 random", Sums(sum), NoDigest) \in ClientBlocks
      <4>1. C1Time \in Nat /\ 0 \in Nat /\ "c1 random" \in Rests
        BY RtmpConversationAssumption DEF Rests
      <4> QED
        BY <4>1, MemoryIsABlock, Zenon
    <3> QED
      BY <3>1, <3>2 DEF IsC, create_c0c1, RTMP_VERSION
  <2> QED
    BY <2>1, <2>2
<1>8. ~pipelining => hc.version = RTMP_VERSION /\ hc.c0c1_.second = 0
  <2>1. CASE ~pipelining
    <3>1. PICK sum : hc = create_c0c1(C1Time, sum)
      BY <2>1 DEF Init
    <3> QED
      BY <3>1 DEF create_c0c1, Block
  <2> QED
    BY <2>1
<1>9. Blocks
  BY <1>6, <1>7, <1>8 DEF Init, Blocks, IsS, AnyS
<1> QED
  BY <1>1, <1>2, <1>3, <1>4, <1>9 DEF PeerInv

\* One step of any of them keeps the kinds of messages that are under way.
LEMMA StillListed ==
    ASSUME PeerInv, [Next]_vars
    PROVE  /\ ctype' = ctype /\ pipelining' = pipelining
           /\ Kinds \subseteq Kinds' /\ PeerKinds' = PeerKinds
           /\ Listed(s2c, Kinds' \cup {"none"})
           /\ IsMsg(write_buf_, Kinds' \cup {"none"})
           /\ Listed(writing, Kinds') /\ Listed(written, Kinds')
<1>1. ctype' = ctype /\ pipelining' = pipelining
  BY DEF Next, Server, do_read_c0c1, do_read_c2, set_chunk_size_handler, connect_handler,
         create_stream_handler, publish_handler, play_handler, WriteFinishes, OnWritten,
         ServerEof, Client, Opening, do_read_s0s1s2, protocol_control_handler,
         cmd_msg_result_handler, cmd_msg_on_status_handler, Leave, clientVars, vars
<1>2. \/ type_' = type_
      \/ type_' = "PUB"
      \/ written # <<>> /\ Head(written).m = "onStatus play"
  BY DEF Next, Server, do_read_c0c1, do_read_c2, set_chunk_size_handler, connect_handler,
         create_stream_handler, publish_handler, play_handler, WriteFinishes, OnWritten,
         ServerEof, Client, Opening, do_read_s0s1s2, protocol_control_handler,
         cmd_msg_result_handler, cmd_msg_on_status_handler, Leave, serverVars, vars
<1>3. written # <<>> => Head(written).m \in Kinds
  BY ListedTail DEF PeerInv, Messages, IsMsg
<1>4. Kinds \subseteq Kinds'
  BY <1>1, <1>2, <1>3 DEF Kinds
<1>5. PeerKinds' = PeerKinds
  BY <1>1 DEF PeerKinds
<1>6. Listed(s2c, Kinds' \cup {"none"})
  BY <1>4, ListedMore DEF PeerInv, Messages
<1>7. IsMsg(write_buf_, Kinds' \cup {"none"})
  BY <1>4 DEF PeerInv, Messages, IsMsg
<1>8. Listed(writing, Kinds') /\ Listed(written, Kinds')
  BY <1>4, ListedMore DEF PeerInv, Messages
<1> QED
  BY <1>1, <1>4, <1>5, <1>6, <1>7, <1>8

\* A message of these kinds.
LEMMA MsgIs ==
    ASSUME NEW m, NEW tid \in Tids, NEW kinds, m \in kinds
    PROVE  IsMsg(Msg(m, tid), kinds) /\ IsMsg(Plain(m), kinds)
BY DEF IsMsg, Msg, Plain, Tids

\* A block of the handshake as a message.
LEMMA OpensIs ==
    ASSUME NEW m, NEW version, NEW block, NEW kinds, m \in kinds
    PROVE  IsMsg(Opens(m, version, block), kinds) /\ Opens(m, version, block).m = m
BY DEF IsMsg, Opens, Tids

\* Nothing happens.
LEMMA PeerStutter ==
    ASSUME PeerInv, UNCHANGED vars
    PROVE  PeerInv'
<1>1. Types'
  <2>1. pipelining' \in BOOLEAN /\ is_ready' \in BOOLEAN /\ broken' \in BOOLEAN
    BY DEF PeerInv, Types, vars, clientVars
  <2> QED
    BY <2>1 DEF PeerInv, Types, vars, serverVars, clientVars
<1>4. Writes'
  BY DEF PeerInv, Writes, One, vars, serverVars, clientVars
<1>5. First'
  BY DEF PeerInv, First, vars, serverVars, clientVars
<1>2. Messages'
  BY DEF PeerInv, Messages, Kinds, PeerKinds, vars, serverVars, clientVars
<1>3. Blocks'
  BY DEF PeerInv, Blocks, vars, serverVars, clientVars
<1> QED
  BY <1>1, <1>2, <1>3, <1>4, <1>5 DEF PeerInv

\* The message that connect_handler's chain writes next.
LEMMA AnswerIs ==
    ASSUME NEW m \in {"win ack size", "peer bandwidth", "chunk size"}
    PROVE  /\ NextAnswer(m).m \in {"peer bandwidth", "chunk size", "connect result"}
           /\ NextAnswer(m).tid \in {0, curr_tid_}
BY DEF NextAnswer, Plain, Msg

\* A list of one message.
LEMMA LoneMessage ==
    ASSUME NEW x
    PROVE  Head(<<x>>) = x /\ Tail(<<x>>) = <<>> /\ Append(<<>>, x) = <<x>>
OBVIOUS

\* During the handshake one write is under way at a time.
LEMMA LoneWritten ==
    ASSUME PeerInv, sstage \in {"s0s1", "s2"}, written # <<>>
    PROVE  writing = <<>> /\ Tail(written) = <<>> /\ Head(written).m = sstage
<1>1. PICK x : x.m = sstage /\ writing = <<>> /\ written = <<x>>
  BY DEF PeerInv, Writes, One
<1> QED
  BY <1>1, LoneMessage

\* What is sent later does not go before.
LEMMA AppendKeepsHead ==
    ASSUME NEW S, NEW s \in Seq(S), NEW x, s # <<>>
    PROVE  Append(s, x) # <<>> /\ Head(Append(s, x)) = Head(s)
<1>1. s \in Seq(S \cup {x})
  BY SeqMonotonic
<1> QED
  BY <1>1, AppendProperties, HeadTailProperties, LenProperties

\* What the server has read and made is still a record of the same fields.
LEMMA HandshakeKeepsFields ==
    ASSUME NEW old, IsS(old), NEW version, NEW block, NEW now
    PROVE  IsS(create_s0s1(handle_c0c1(old, version, block), now))
<1>1. IsS(rtmp_handshake_parse_challenge(old, version, block))
  BY DEF IsS, rtmp_handshake_parse_challenge
<1>2. IsS(handle_c0c1(old, version, block))
  BY <1>1 DEF IsS, handle_c0c1
<1> QED
  BY <1>2 DEF IsS, create_s0s1

\* A handler that reads one command and answers it.
Handles(a) ==
    /\ c2s # <<>> /\ sstage = "reading"
    /\ c2s' = Tail(c2s)
    /\ answer(a) /\ IsMsg(a, Kinds') /\ a.m \in Answers
    /\ type_' \in {type_, "PUB"} /\ curr_tid_' \in Tids /\ broken' \in BOOLEAN
    /\ UNCHANGED <<s2c, hs, sstage, written, s_chunk_size, clientVars>>

\* Every handler that answers keeps the invariant.
LEMMA HandlerKeeps ==
    ASSUME PeerInv, [Next]_vars, NEW a, Handles(a)
    PROVE  PeerInv'
<1>1. Types'
  BY DEF PeerInv, Types, Handles, clientVars
<1>2. Messages'
  <2>1. Listed(c2s', PeerKinds')
    BY StillListed, ListedTail DEF PeerInv, Messages, Handles
  <2>2. Listed(writing', Kinds')
    BY StillListed, ListedAppend DEF Handles, answer
  <2>3. IsMsg(write_buf_', Kinds' \cup {"none"})
    BY DEF Handles, answer, IsMsg
  <2>4. is_ready' => ctype' = "PUSH" /\ type_' = "PUB"
    BY DEF PeerInv, Messages, Handles, clientVars
  <2> QED
    BY <2>1, <2>2, <2>3, <2>4, StillListed DEF Messages, Handles
<1>3. Writes'
  <2>1. IsMsg(a, Answers)
    BY DEF Handles, IsMsg
  <2>2. Listed(writing', Answers)
    BY <2>1, ListedAppend DEF PeerInv, Writes, Handles, answer
  <2> QED
    BY <2>2 DEF PeerInv, Writes, Handles
<1>4. First'
  BY DEF PeerInv, First, Handles, clientVars
<1>5. Blocks'
  BY DEF PeerInv, Blocks, Handles, clientVars
<1> QED
  BY <1>1, <1>2, <1>3, <1>4, <1>5 DEF PeerInv

\* connect_handler: it has the transaction id of the command, and answers of the right kinds.
LEMMA ConnectKeeps ==
    ASSUME PeerInv, connect_handler
    PROVE  PeerInv'
<1>1. [Next]_vars
  BY DEF Next, Server
<1>2. Head(c2s).tid \in Tids
  BY ListedTail DEF PeerInv, Messages, IsMsg, connect_handler, Received
<1>3. (broken \/ s_chunk_size = "default") \in BOOLEAN
  OBVIOUS
<1>4. IsMsg(Plain("win ack size"), Kinds') /\ Plain("win ack size").m \in Answers
  BY DEF IsMsg, Plain, Msg, Tids, Kinds, Answers
<1>5. Handles(Plain("win ack size"))
  BY <1>2, <1>3, <1>4 DEF connect_handler, Received, Handles
<1> QED
  BY <1>1, <1>5, HandlerKeeps

\* create_stream_handler: its answer has the transaction id of the command.
LEMMA CreateStreamKeeps ==
    ASSUME PeerInv, create_stream_handler
    PROVE  PeerInv'
<1>1. [Next]_vars
  BY DEF Next, Server
<1>2. Head(c2s).tid \in Tids
  BY ListedTail DEF PeerInv, Messages, IsMsg, create_stream_handler, Received
<1> DEFINE a == Msg("createStream result", Head(c2s).tid)
<1>3. IsMsg(a, Kinds') /\ a.m \in Answers
  BY <1>2 DEF IsMsg, Msg, Kinds, Answers
<1>4. Handles(a)
  BY <1>2, <1>3 DEF create_stream_handler, Received, Handles, PeerInv, Types
<1> QED
  BY <1>1, <1>4, HandlerKeeps

\* publish_handler: type_ is PUB when its answer is written.
LEMMA PublishKeeps ==
    ASSUME PeerInv, publish_handler
    PROVE  PeerInv'
<1>1. [Next]_vars
  BY DEF Next, Server
<1>2. IsMsg(Plain("onStatus publish"), Kinds') /\ Plain("onStatus publish").m \in Answers
  BY DEF IsMsg, Plain, Msg, Tids, Kinds, Answers, publish_handler
<1>3. Handles(Plain("onStatus publish"))
  BY <1>2 DEF publish_handler, Received, Handles, PeerInv, Types
<1> QED
  BY <1>1, <1>3, HandlerKeeps

\* play_handler: no push session sends a play.
LEMMA PlayKeeps ==
    ASSUME PeerInv, play_handler
    PROVE  PeerInv'
<1>1. [Next]_vars
  BY DEF Next, Server
<1>2. Head(c2s).m \in PeerKinds
  BY ListedTail DEF PeerInv, Messages, IsMsg, play_handler, Received
<1>3. ctype' # "PUSH"
  BY <1>2 DEF PeerKinds, play_handler, Received, clientVars
<1>4. IsMsg(Plain("onStatus play"), Kinds') /\ Plain("onStatus play").m \in Answers
  BY <1>3 DEF IsMsg, Plain, Msg, Tids, Kinds, Answers
<1>5. Handles(Plain("onStatus play"))
  BY <1>4 DEF play_handler, Received, Handles, PeerInv, Types
<1> QED
  BY <1>1, <1>5, HandlerKeeps

\* do_read_c0c1: it reads the c0c1 of the peer, and s0s1 is the only write.
LEMMA ReadC0C1Keeps ==
    ASSUME PeerInv, do_read_c0c1
    PROVE  PeerInv'
<1> USE DEF do_read_c0c1
<1>0. [Next]_vars
  BY DEF Next, Server, Client
<1>1. Types'
  BY DEF PeerInv, Types, serverVars, clientVars
<1>2. Messages'
  <2>1. Listed(c2s', PeerKinds')
    BY <1>0, StillListed, ListedTail DEF PeerInv, Messages
  <2>2. IsMsg(Opens("s0s1", RTMP_VERSION, hs'.s0s1_), Kinds')
    BY DEF IsMsg, Opens, Tids, Kinds
  <2>3. Listed(writing', Kinds')
    BY <1>0, <2>2, StillListed, ListedAppend
  <2> QED
    BY <1>0, <2>1, <2>3, StillListed DEF PeerInv, Messages, clientVars
<1>3. Writes'
  <2> DEFINE x == Opens("s0s1", RTMP_VERSION, hs'.s0s1_)
  <2>1. x.m = "s0s1"
    BY DEF Opens
  <2>2. writing' = <<x>> /\ written' = <<>>
    BY DEF PeerInv, Writes
  <2>3. One("s0s1")'
    BY <2>1, <2>2 DEF One
  <2> QED
    BY <2>3 DEF Writes
<1>4. First'
  BY DEF PeerInv, First, serverVars, clientVars
<1>5. Blocks'
  <2>1. Head(c2s) = Opens("c0c1", hc.version, hc.c0c1_)
    BY DEF PeerInv, First
  <2>2. Head(c2s).version = hc.version /\ Head(c2s).block = hc.c0c1_
    BY <2>1 DEF Opens
  <2>3. hs \in AnyS
    BY DEF PeerInv, Blocks
  <2>4. hs' = create_s0s1(handle_c0c1(hs, hc.version, hc.c0c1_), S1Time)
    BY <2>2
  <2>5. IsS(hs')
    BY <2>4, HandshakeKeepsFields DEF PeerInv, Blocks
  <2> QED
    BY <2>3, <2>4, <2>5 DEF PeerInv, Blocks, clientVars
<1> QED
  BY <1>1, <1>2, <1>3, <1>4, <1>5 DEF PeerInv

\* do_read_c2: nothing is being written, so the server starts to read with empty lists.
LEMMA ReadC2Keeps ==
    ASSUME PeerInv, do_read_c2
    PROVE  PeerInv'
<1> USE DEF do_read_c2
<1>0. [Next]_vars
  BY DEF Next, Server, Client
<1>1. Types'
  BY ZenonT(30) DEF PeerInv, Types, serverVars, clientVars
<1>2. Messages'
  <2>1. Listed(c2s', PeerKinds')
    BY <1>0, StillListed, ListedTail DEF PeerInv, Messages
  <2> QED
    BY <1>0, <2>1, StillListed DEF PeerInv, Messages, serverVars, clientVars
<1>3. Writes'
  BY ListedEmpty DEF PeerInv, Writes
<1>4. First'
  BY DEF PeerInv, First, serverVars, clientVars
<1>5. Blocks'
  BY DEF PeerInv, Blocks, serverVars, clientVars
<1> QED
  BY <1>1, <1>2, <1>3, <1>4, <1>5 DEF PeerInv

\* set_chunk_size_handler takes one message.
LEMMA SetChunkSizeKeeps ==
    ASSUME PeerInv, set_chunk_size_handler
    PROVE  PeerInv'
<1> USE DEF set_chunk_size_handler
<1>0. [Next]_vars
  BY DEF Next, Server, Client
<1> USE DEF Received
<1>1. Types'
  BY DEF PeerInv, Types, serverVars, clientVars
<1>2. Messages'
  <2>1. Listed(c2s', PeerKinds')
    BY <1>0, StillListed, ListedTail DEF PeerInv, Messages
  <2> QED
    BY <1>0, <2>1, StillListed DEF PeerInv, Messages, serverVars, clientVars
<1>3. Writes'
  BY DEF PeerInv, Writes, One, serverVars, clientVars
<1>4. First'
  BY DEF PeerInv, First, serverVars, clientVars
<1>5. Blocks'
  BY DEF PeerInv, Blocks, serverVars, clientVars
<1> QED
  BY <1>1, <1>2, <1>3, <1>4, <1>5 DEF PeerInv

\* WriteFinishes: a message moves from one list to another, or write_buf_ goes in its place.
LEMMA WriteFinishesKeeps ==
    ASSUME PeerInv, WriteFinishes
    PROVE  PeerInv'
<1> USE DEF WriteFinishes
<1>0. [Next]_vars
  BY DEF Next, Server, Client
<1>1. Types'
  <2>1. broken' \in BOOLEAN
    OBVIOUS
  <2> QED
    BY <2>1, ZenonT(30) DEF PeerInv, Types, serverVars, clientVars
<1>2. Messages'
  <2>1. Listed(written', Kinds') /\ Listed(writing', Kinds')
    BY <1>0, StillListed, ListedTail, ListedAppend
  <2>2. Listed(s2c', Kinds' \cup {"none"})
    <3>1. IsMsg(Head(writing), Kinds' \cup {"none"}) /\ IsMsg(write_buf_, Kinds' \cup {"none"})
      BY <1>0, StillListed, ListedTail DEF IsMsg
    <3>2. \/ s2c' = s2c
          \/ s2c' = Append(s2c, Head(writing))
          \/ s2c' = Append(s2c, write_buf_)
      OBVIOUS
    <3> QED
      BY <1>0, <3>1, <3>2, StillListed, ListedAppend
  <2> QED
    BY <1>0, <2>1, <2>2, StillListed DEF PeerInv, Messages, serverVars, clientVars
<1>3. Writes'
  <2>1. CASE sstage \in {"s0s1", "s2"}
    <3>1. PICK x : x.m = sstage /\ writing = <<x>> /\ written = <<>>
      BY <2>1 DEF PeerInv, Writes, One
    <3>2. writing' = <<>> /\ written' = <<x>>
      BY <3>1
    <3>3. One(sstage)'
      BY <3>1, <3>2 DEF One
    <3> QED
      BY <2>1, <3>3 DEF Writes
  <2>2. CASE sstage = "reading"
    BY <2>2, ListedTail, ListedAppend DEF PeerInv, Writes
  <2> QED
    BY <2>1, <2>2 DEF PeerInv, Types, Writes
<1>4. First'
  BY DEF PeerInv, First, serverVars, clientVars
<1>5. Blocks'
  BY DEF PeerInv, Blocks, serverVars, clientVars
<1> QED
  BY <1>1, <1>2, <1>3, <1>4, <1>5 DEF PeerInv

\* ServerEof empties what the server was writing.
LEMMA EofKeeps ==
    ASSUME PeerInv, ServerEof
    PROVE  PeerInv'
<1> USE DEF ServerEof
<1>0. [Next]_vars
  BY DEF Next, Server, Client
<1>1. Types'
  BY DEF PeerInv, Types, serverVars, clientVars
<1>2. Messages'
  BY <1>0, StillListed, ListedEmpty DEF PeerInv, Messages, serverVars, clientVars
<1>3. Writes'
  BY DEF PeerInv, Writes, One, serverVars, clientVars
<1>4. First'
  BY DEF PeerInv, First, serverVars, clientVars
<1>5. Blocks'
  BY DEF PeerInv, Blocks, serverVars, clientVars
<1> QED
  BY <1>1, <1>2, <1>3, <1>4, <1>5 DEF PeerInv

\* OnWritten: by stage, s2 follows s0s1 and proves c1, nothing follows s2, and the answers
\* to connect follow one another.
LEMMA OnWrittenKeeps ==
    ASSUME PeerInv, OnWritten
    PROVE  PeerInv'
<1> USE DEF OnWritten
<1>0. [Next]_vars
  BY DEF Next, Server, Client
<1>m. Head(written).m \in Kinds
  BY ListedTail DEF PeerInv, Messages, IsMsg
<1>1. Types'
  BY ZenonT(30) DEF PeerInv, Types, serverVars, clientVars, answer, no_answer
<1>2. Messages'
  <2>1. Listed(written', Kinds')
    BY <1>0, StillListed, ListedTail
  <2>2. is_ready' => ctype' = "PUSH" /\ type_' = "PUB"
    BY <1>m DEF PeerInv, Messages, clientVars, Kinds
  <2>3. \/ UNCHANGED <<write_buf_, writing>>
        \/ /\ UNCHANGED write_buf_
           /\ writing' = Append(writing, Opens("s2", RTMP_VERSION, hs'.s2_))
        \/ /\ Head(written).m \in {"win ack size", "peer bandwidth", "chunk size"}
           /\ answer(NextAnswer(Head(written).m))
    BY DEF no_answer
  <2>4. IsMsg(Opens("s2", RTMP_VERSION, hs'.s2_), Kinds')
    BY DEF IsMsg, Opens, Tids, Kinds
  <2>5. ASSUME Head(written).m \in {"win ack size", "peer bandwidth", "chunk size"}
        PROVE  IsMsg(NextAnswer(Head(written).m), Kinds' \cap Answers)
    BY <2>5, AnswerIs DEF PeerInv, Types, Kinds, Answers, IsMsg, Tids
  <2>6. Listed(writing', Kinds')
    BY <1>0, <2>3, <2>4, <2>5, StillListed, ListedAppend DEF answer, IsMsg
  <2>7. IsMsg(write_buf_', Kinds' \cup {"none"})
    BY <1>0, <2>3, <2>5, StillListed DEF answer, IsMsg
  <2> QED
    BY <1>0, <2>1, <2>2, <2>6, <2>7, StillListed DEF PeerInv, Messages, clientVars
<1>3. Writes'
  <2>1. CASE sstage = "s0s1"
    <3>1. writing = <<>> /\ Tail(written) = <<>> /\ Head(written).m = "s0s1"
      BY <2>1, LoneWritten
    <3> DEFINE y == Opens("s2", RTMP_VERSION, hs'.s2_)
    <3>3. sstage' = "s2" /\ writing' = <<y>> /\ written' = <<>> /\ y.m = "s2"
      BY <3>1, LoneMessage DEF Opens
    <3>4. One("s2")'
      BY <3>3 DEF One
    <3> QED
      BY <3>3, <3>4 DEF Writes
  <2>2. CASE sstage = "s2"
    <3>1. writing = <<>> /\ Tail(written) = <<>> /\ Head(written).m = "s2"
      BY <2>2, LoneWritten
    <3>3. sstage' = "c2" /\ writing' = <<>> /\ written' = <<>>
      BY <3>1 DEF no_answer
    <3> QED
      BY <3>3 DEF Writes
  <2>3. CASE sstage = "reading"
    <3>1. Listed(writing, Answers) /\ Listed(written, Answers)
      BY <2>3 DEF PeerInv, Writes
    <3>2. Head(written).m \in Answers /\ Listed(written', Answers)
      BY <3>1, ListedTail DEF IsMsg
    <3>3. /\ sstage' = "reading"
          /\ \/ writing' = writing
             \/ /\ Head(written).m \in {"win ack size", "peer bandwidth", "chunk size"}
                /\ writing' = Append(writing, NextAnswer(Head(written).m))
      BY <2>3, <3>2 DEF no_answer, answer, Answers
    <3>4. ASSUME Head(written).m \in {"win ack size", "peer bandwidth", "chunk size"}
          PROVE  IsMsg(NextAnswer(Head(written).m), Answers)
      BY <3>4, AnswerIs DEF PeerInv, Types, Answers, IsMsg, Tids
    <3>5. Listed(writing', Answers)
      BY <3>1, <3>3, <3>4, ListedAppend
    <3> QED
      BY <3>2, <3>3, <3>5 DEF Writes
  <2> QED
    BY <2>1, <2>2, <2>3 DEF PeerInv, Types, Writes
<1>4. First'
  BY DEF PeerInv, First, Writes, clientVars, answer, no_answer
<1>5. Blocks'
  <2>1. CASE sstage = "s0s1"
    <3>1. Head(written).m = "s0s1"
      BY <2>1, LoneWritten
    <3>2. sstage' = "s2" /\ hs' = create_s2(hs)
      BY <3>1
    <3>3. PICK old \in AnyS : hs = create_s0s1(handle_c0c1(old, hc.version, hc.c0c1_), S1Time)
      BY <2>1 DEF PeerInv, Blocks
    <3>4. ASSUME hc.version = RTMP_VERSION
          PROVE  Proves(hs'.s2_, hc.c0c1_, hs'.s0s1_)
      BY <3>2, <3>3, <3>4, S2ProvesC1, RtmpConversationAssumption DEF PeerInv, Blocks
    <3>5. IsS(hs')
      BY <3>2 DEF PeerInv, Blocks, IsS, create_s2
    <3> QED
      BY <3>2, <3>4, <3>5 DEF PeerInv, Blocks, clientVars
  <2>2. CASE sstage # "s0s1"
    <3>1. Head(written).m # "s0s1"
      <4>1. CASE sstage = "reading"
        <5>1. Head(written).m \in Answers
          BY <4>1, ListedTail DEF PeerInv, Writes, IsMsg
        <5> QED
          BY <5>1 DEF Answers
      <4>2. CASE sstage = "s2"
        BY <4>2, LoneWritten
      <4> QED
        BY <2>2, <4>1, <4>2 DEF PeerInv, Types, Writes
    <3>2. hs' = hs
      BY <3>1 DEF answer, no_answer
    <3>3. \/ sstage' = sstage
          \/ sstage = "s2" /\ sstage' = "c2"
      <4>1. CASE sstage = "reading"
        <5>1. Head(written).m \in Answers
          BY <4>1, ListedTail DEF PeerInv, Writes, IsMsg
        <5> QED
          BY <5>1 DEF Answers
      <4>2. CASE sstage = "s2"
        <5>1. Head(written).m = "s2"
          BY <4>2, LoneWritten
        <5> QED
          BY <4>2, <5>1
      <4> QED
        BY <2>2, <4>1, <4>2 DEF PeerInv, Types, Writes
    <3> QED
      BY <2>2, <3>2, <3>3 DEF PeerInv, Blocks, clientVars
  <2> QED
    BY <2>1, <2>2
<1> QED
  BY <1>1, <1>2, <1>3, <1>4, <1>5 DEF PeerInv

\* Opening: the first message is the c0c1, and none of a push session is a play.
LEMMA OpeningKeeps ==
    ASSUME PeerInv, Opening
    PROVE  PeerInv'
<1> USE DEF Opening
<1>0. [Next]_vars
  BY DEF Next, Server, Client
<1>1. Types'
  <2>1. pipelining' \in BOOLEAN /\ is_ready' \in BOOLEAN /\ broken' \in BOOLEAN
    BY DEF PeerInv, Types
  <2> QED
    BY <2>1, ZenonT(30) DEF PeerInv, Types, serverVars
<1>2. Messages'
  <2>1. Listed(c2s', PeerKinds')
    <3>1. \/ c2s' = Append(c2s, Opens("c0c1", hc.version, hc.c0c1_))
          \/ \E m \in {"c2", "chunk size", StartCommand} : c2s' = Append(c2s, Plain(m))
          \/ c2s' = Append(c2s, Msg("connect", ConnectTid))
          \/ c2s' = Append(c2s, Msg("createStream", CreateStreamTid))
      OBVIOUS
    <3>2. /\ {"c0c1", "c2", "chunk size", StartCommand, "connect", "createStream"}
               \subseteq PeerKinds
          /\ {0, ConnectTid, CreateStreamTid} \subseteq Tids
      BY DEF Tids, PeerKinds, Commands, StartCommand
    <3>3. PICK x : c2s' = Append(c2s, x) /\ IsMsg(x, PeerKinds)
      BY <3>1, <3>2, MsgIs, OpensIs, ZenonT(30)
    <3> QED
      BY <1>0, <3>3, StillListed, ListedAppend DEF PeerInv, Messages
  <2> QED
    BY <1>0, <2>1, StillListed DEF PeerInv, Messages, serverVars
<1>3. Writes'
  BY DEF PeerInv, Writes, One, serverVars, clientVars
<1>4. First'
  <2>1. CASE cstage = "c0c1"
    <3>1. c2s' = <<Opens("c0c1", hc.version, hc.c0c1_)>>
      BY <2>1 DEF PeerInv, First
    <3> QED
      BY <2>1, <3>1 DEF PeerInv, First, serverVars
  <2>2. CASE cstage # "c0c1"
    <3>1. PICK x : c2s' = Append(c2s, x)
      OBVIOUS
    <3>2. PICK S : c2s \in Seq(S)
      BY DEF PeerInv, Messages, Listed
    <3>3. c2s # <<>> => c2s' # <<>> /\ Head(c2s') = Head(c2s)
      BY <3>1, <3>2, AppendKeepsHead
    <3> QED
      BY <2>2, <3>3 DEF PeerInv, First, Types, serverVars
  <2> QED
    BY <2>1, <2>2
<1>5. Blocks'
  BY DEF PeerInv, Blocks, serverVars, clientVars
<1> QED
  BY <1>1, <1>2, <1>3, <1>4, <1>5 DEF PeerInv

\* do_read_s0s1s2: the session keeps its own c1.
LEMMA ReadS0S1S2Keeps ==
    ASSUME PeerInv, do_read_s0s1s2
    PROVE  PeerInv'
<1> USE DEF do_read_s0s1s2
<1>0. [Next]_vars
  BY DEF Next, Server, Client
<1>h. hc'.version = hc.version /\ hc'.c0c1_ = hc.c0c1_ /\ IsC(hc')
  BY DEF PeerInv, Blocks, IsC, handle_s0s1s2
<1>1. Types'
  BY DEF PeerInv, Types, serverVars, clientVars
<1>2. Messages'
  <2>1. Listed(s2c', Kinds' \cup {"none"})
    BY <1>0, StillListed, ListedRest
  <2> QED
    BY <1>0, <2>1, StillListed DEF PeerInv, Messages, serverVars
<1>3. Writes'
  BY DEF PeerInv, Writes, One, serverVars, clientVars
<1>4. First'
  BY <1>h DEF PeerInv, First, serverVars
<1>5. Blocks'
  BY <1>h DEF PeerInv, Blocks, serverVars
<1> QED
  BY <1>1, <1>2, <1>3, <1>4, <1>5 DEF PeerInv

\* protocol_control_handler takes one message.
LEMMA ControlKeeps ==
    ASSUME PeerInv, protocol_control_handler
    PROVE  PeerInv'
<1> USE DEF protocol_control_handler
<1>0. [Next]_vars
  BY DEF Next, Server, Client
<1> USE DEF Arrived
<1>1. Types'
  BY DEF PeerInv, Types, serverVars, clientVars
<1>2. Messages'
  <2>1. Listed(s2c', Kinds' \cup {"none"})
    BY <1>0, StillListed, ListedTail
  <2> QED
    BY <1>0, <2>1, StillListed DEF PeerInv, Messages, serverVars
<1>3. Writes'
  BY DEF PeerInv, Writes, One, serverVars, clientVars
<1>4. First'
  BY DEF PeerInv, First, serverVars, clientVars
<1>5. Blocks'
  BY DEF PeerInv, Blocks, serverVars, clientVars
<1> QED
  BY <1>1, <1>2, <1>3, <1>4, <1>5 DEF PeerInv

\* cmd_msg_result_handler: it sends a command of the right kind, or nothing.
LEMMA ResultKeeps ==
    ASSUME PeerInv, cmd_msg_result_handler
    PROVE  PeerInv'
<1> USE DEF cmd_msg_result_handler
<1>0. [Next]_vars
  BY DEF Next, Server, Client
<1> USE DEF Arrived
<1>1. Types'
  <2>1. broken' \in BOOLEAN
    BY DEF Framed
  <2> QED
    BY <2>1 DEF PeerInv, Types, serverVars
<1>2. Messages'
  <2>1. Listed(c2s', PeerKinds')
    <3>1. \/ c2s' = c2s
          \/ c2s' = Append(c2s, Msg("createStream", CreateStreamTid))
          \/ c2s' = Append(c2s, Plain(StartCommand))
      OBVIOUS
    <3>2. /\ IsMsg(Msg("createStream", CreateStreamTid), PeerKinds)
          /\ IsMsg(Plain(StartCommand), PeerKinds)
      BY DEF IsMsg, Plain, Msg, Tids, PeerKinds, Commands, StartCommand
    <3> QED
      BY <1>0, <3>1, <3>2, StillListed, ListedAppend DEF PeerInv, Messages
  <2>2. Listed(s2c', Kinds' \cup {"none"})
    BY <1>0, StillListed, ListedTail
  <2> QED
    BY <1>0, <2>1, <2>2, StillListed DEF PeerInv, Messages, serverVars
<1>3. Writes'
  BY DEF PeerInv, Writes, One, serverVars, clientVars
<1>4. First'
  <2>1. PICK x : c2s' = c2s \/ c2s' = Append(c2s, x)
    OBVIOUS
  <2>2. PICK S : c2s \in Seq(S)
    BY DEF PeerInv, Messages, Listed
  <2>3. c2s # <<>> => c2s' # <<>> /\ Head(c2s') = Head(c2s)
    BY <2>1, <2>2, AppendKeepsHead
  <2> QED
    BY <2>3 DEF PeerInv, First, serverVars
<1>5. Blocks'
  BY DEF PeerInv, Blocks, serverVars, clientVars
<1> QED
  BY <1>1, <1>2, <1>3, <1>4, <1>5 DEF PeerInv

\* cmd_msg_on_status_handler: an answer to publish has come from a server of type PUB.
LEMMA StatusKeeps ==
    ASSUME PeerInv, cmd_msg_on_status_handler
    PROVE  PeerInv'
<1> USE DEF cmd_msg_on_status_handler
<1>0. [Next]_vars
  BY DEF Next, Server, Client
<1> USE DEF Arrived
<1>1. Types'
  <2>1. is_ready' \in BOOLEAN
    OBVIOUS
  <2> QED
    BY <2>1 DEF PeerInv, Types, serverVars
<1>2. Messages'
  <2>1. Listed(s2c', Kinds' \cup {"none"})
    BY <1>0, StillListed, ListedTail
  <2>2. Head(s2c).m \in Kinds \cup {"none"}
    BY ListedTail DEF PeerInv, Messages, IsMsg
  <2>3. is_ready' => ctype = "PUSH" /\ type_ = "PUB"
    BY <2>2 DEF PeerInv, Messages, Kinds
  <2> QED
    BY <1>0, <2>1, <2>3, StillListed DEF PeerInv, Messages, serverVars
<1>3. Writes'
  BY DEF PeerInv, Writes, One, serverVars, clientVars
<1>4. First'
  BY DEF PeerInv, First, serverVars, clientVars
<1>5. Blocks'
  BY DEF PeerInv, Blocks, serverVars, clientVars
<1> QED
  BY <1>1, <1>2, <1>3, <1>4, <1>5 DEF PeerInv

\* Leave: what was not read is gone.
LEMMA LeaveKeeps ==
    ASSUME PeerInv, Leave
    PROVE  PeerInv'
<1> USE DEF Leave
<1>0. [Next]_vars
  BY DEF Next, Server, Client
<1>1. Types'
  BY DEF PeerInv, Types, serverVars, clientVars
<1>2. Messages'
  <2>1. Listed(s2c', Kinds' \cup {"none"})
    BY ListedEmpty
  <2> QED
    BY <1>0, <2>1, StillListed DEF PeerInv, Messages, serverVars
<1>3. Writes'
  BY DEF PeerInv, Writes, One, serverVars, clientVars
<1>4. First'
  BY DEF PeerInv, First, serverVars, clientVars
<1>5. Blocks'
  BY DEF PeerInv, Blocks, serverVars, clientVars
<1> QED
  BY <1>1, <1>2, <1>3, <1>4, <1>5 DEF PeerInv

\* Every step keeps the invariant.
LEMMA PeerStep ==
    ASSUME PeerInv, [Next]_vars
    PROVE  PeerInv'
<1>1. CASE Server
  BY <1>1, ReadC0C1Keeps, ReadC2Keeps, SetChunkSizeKeeps, ConnectKeeps, CreateStreamKeeps,
     PublishKeeps, PlayKeeps, WriteFinishesKeeps, OnWrittenKeeps, EofKeeps DEF Server
<1>2. CASE Client
  BY <1>2, OpeningKeeps, ReadS0S1S2Keeps, ControlKeeps, ResultKeeps, StatusKeeps DEF Client
<1>3. CASE Leave
  BY <1>3, LeaveKeeps
<1>4. CASE UNCHANGED vars
  BY <1>4, PeerStutter
<1> QED
  BY <1>1, <1>2, <1>3, <1>4 DEF Next

\* Whatever the peer sends and when, what is written, read and under way fits the stages of
\* the two sessions (RtmpSessionServer, RtmpSessionClient).
THEOREM PeerInvariant == Spec => []PeerInv
<1>1. Init => PeerInv
  BY PeerInit
<1>2. PeerInv /\ [Next]_vars => PeerInv'
  BY PeerStep
<1> QED
  BY <1>1, <1>2, PTL DEF Spec

\* The variables have their types, whatever the peer (RtmpSessionServer,
\* RtmpSessionClient).
THEOREM ConversationTypeCorrect == Spec => []TypeOK
<1>1. PeerInv => TypeOK
  <2> SUFFICES ASSUME PeerInv
               PROVE  TypeOK
    OBVIOUS
  <2>1. \A w \in Range(writing) \cup Range(written) : w.m \in Answers \cup {"s0s1", "s2"}
    <3>1. \A w \in Range(writing) : w.m \in Kinds
      BY ListedRange DEF PeerInv, Messages, IsMsg
    <3>2. \A w \in Range(written) : w.m \in Kinds
      BY ListedRange DEF PeerInv, Messages, IsMsg
    <3> QED
      BY <3>1, <3>2 DEF Kinds
  <2>2. \A m \in Range(c2s) : m.m \in Commands \cup {"c0c1", "c2"}
    BY ListedRange DEF PeerInv, Messages, IsMsg, PeerKinds
  <2> QED
    BY <2>1, <2>2 DEF PeerInv, Types, TypeOK, Tids
<1> QED
  BY <1>1, PeerInvariant, PTL

\* A push session becomes ready only through an answer the server sends once type_ is
\* PUB, and nothing a push session sends takes that type away (publish_handler,
\* cmd_msg_on_status_handler): with any peer, in any interleaving.
THEOREM ReadyIsPublisher == Spec => []ReadyMeansPublisher
<1>1. PeerInv => ReadyMeansPublisher
  BY DEF PeerInv, Messages, ReadyMeansPublisher
<1> QED
  BY <1>1, PeerInvariant, PTL

-----------------------------------------------------------------------------
(* Intervals *)

\* q holds the members of f from x + 1 to y.
Interval(q, f, x, y) ==
    /\ \E S : q \in Seq(S)
    /\ Len(q) = y - x
    /\ \A i \in 1 .. y - x : q[i] = f[x + i]

\* No members.
LEMMA IntervalEmpty ==
    ASSUME NEW f, NEW x \in Nat
    PROVE  Interval(<<>>, f, x, x)
<1>1. PICK S : S = {}
  OBVIOUS
<1>2. <<>> \in Seq(S) /\ Len(<<>>) = 0 /\ x - x = 0
  OBVIOUS
<1> QED
  BY <1>2 DEF Interval

\* An interval is empty when its ends are the same.
LEMMA IntervalIsEmpty ==
    ASSUME NEW q, NEW f, NEW x \in Nat, NEW y \in Nat, Interval(q, f, x, y)
    PROVE  q = <<>> <=> x = y
<1>1. PICK S : q \in Seq(S)
  BY DEF Interval
<1>2. q = <<>> <=> Len(q) = 0
  BY <1>1, EmptySeq
<1> QED
  BY <1>2 DEF Interval

\* The next member of f, at the end.
LEMMA IntervalAppend ==
    ASSUME NEW q, NEW f, NEW x \in Nat, NEW y \in Nat, x <= y, Interval(q, f, x, y),
           NEW r, r = f[y + 1]
    PROVE  Interval(Append(q, r), f, x, y + 1)
<1>1. PICK S : q \in Seq(S)
  BY DEF Interval
<1>2. q \in Seq(S \cup {r})
  BY <1>1, SeqMonotonic
<1>3. /\ Append(q, r) \in Seq(S \cup {r})
      /\ Len(Append(q, r)) = Len(q) + 1
      /\ \A i \in 1 .. Len(q) : Append(q, r)[i] = q[i]
      /\ Append(q, r)[Len(q) + 1] = r
  BY <1>2, AppendProperties
<1>4. Len(q) = y - x /\ \A i \in 1 .. y - x : q[i] = f[x + i]
  BY DEF Interval
<1>5. ASSUME NEW i \in 1 .. (y + 1) - x
      PROVE  Append(q, r)[i] = f[x + i]
  <2>1. CASE i = Len(q) + 1
    <3>1. x + i = y + 1
      BY <2>1, <1>4
    <3> QED
      BY <2>1, <3>1, <1>3
  <2>2. CASE i # Len(q) + 1
    <3>1. i \in 1 .. y - x
      BY <2>2, <1>4
    <3> QED
      BY <3>1, <1>3, <1>4
  <2> QED
    BY <2>1, <2>2
<1>6. Len(Append(q, r)) = (y + 1) - x
  BY <1>3, <1>4
<1> QED
  BY <1>3, <1>5, <1>6 DEF Interval

\* The first member, and the others.
LEMMA IntervalTail ==
    ASSUME NEW q, NEW f, NEW x \in Nat, NEW y \in Nat, Interval(q, f, x, y), q # <<>>
    PROVE  x < y /\ Head(q) = f[x + 1] /\ Interval(Tail(q), f, x + 1, y)
<1>1. PICK S : q \in Seq(S)
  BY DEF Interval
<1>2. /\ Tail(q) \in Seq(S) /\ Len(Tail(q)) = Len(q) - 1 /\ Len(q) >= 1 /\ Head(q) = q[1]
      /\ \A i \in 1 .. Len(Tail(q)) : Tail(q)[i] = q[i + 1]
  BY <1>1, HeadTailProperties, LenProperties, EmptySeq
<1>3. Len(q) = y - x /\ \A i \in 1 .. y - x : q[i] = f[x + i]
  BY DEF Interval
<1>4. ASSUME NEW i \in 1 .. y - (x + 1)
      PROVE  Tail(q)[i] = f[(x + 1) + i]
  <2>1. i \in 1 .. Len(Tail(q)) /\ i + 1 \in 1 .. y - x /\ x + (i + 1) = (x + 1) + i
    BY <1>2, <1>3
  <2> QED
    BY <2>1, <1>2, <1>3
<1>5. x < y /\ Len(Tail(q)) = y - (x + 1)
  BY <1>2, <1>3
<1>6. Head(q) = f[x + 1]
  BY <1>2, <1>3
<1> QED
  BY <1>2, <1>4, <1>5, <1>6 DEF Interval

\* The first two members, read at once, and the others.
LEMMA IntervalRest ==
    ASSUME NEW q, NEW f, NEW y \in Nat, Interval(q, f, 0, y), Len(q) >= 2
    PROVE  /\ y >= 2 /\ q[1] = f[1] /\ q[2] = f[2]
           /\ Interval(SubSeq(q, 3, Len(q)), f, 2, y)
<1>1. PICK S : q \in Seq(S)
  BY DEF Interval
<1>2. Len(q) = y /\ \A i \in 1 .. y : q[i] = f[i]
  BY DEF Interval
<1> DEFINE r == SubSeq(q, 3, Len(q))
<1>3. /\ r \in Seq(S) /\ Len(r) = y - 2
      /\ \A i \in 1 .. y - 2 : r[i] = q[2 + i]
  BY <1>1, <1>2, LenProperties, SubSeqProperties
<1>4. \A i \in 1 .. y - 2 : r[i] = f[2 + i]
  BY <1>2, <1>3
<1>5. y >= 2 /\ q[1] = f[1] /\ q[2] = f[2]
  BY <1>2
<1> HIDE DEF r
<1>6. Interval(r, f, 2, y)
  BY <1>3, <1>4 DEF Interval
<1> QED
  BY <1>5, <1>6 DEF r

\* Only the members of f in the interval matter.
LEMMA IntervalAgree ==
    ASSUME NEW q, NEW f, NEW h, NEW x \in Nat, NEW y \in Nat, Interval(q, f, x, y),
           \A i \in x + 1 .. y : h[i] = f[i]
    PROVE  Interval(q, h, x, y)
<1>1. \A i \in 1 .. y - x : x + i \in x + 1 .. y
  OBVIOUS
<1> QED
  BY <1>1 DEF Interval

-----------------------------------------------------------------------------
(* With a peer that waits *)

\* What the client sends, in order.
ClientScript ==
    <<Opens("c0c1", hc.version, hc.c0c1_), Plain("c2"), Plain("chunk size"),
      Msg("connect", ConnectTid), Msg("createStream", CreateStreamTid), Plain(StartCommand)>>

\* What the server answers, in order.
ServerScript ==
    <<Opens("s0s1", RTMP_VERSION, hs.s0s1_), Opens("s2", RTMP_VERSION, hs.s2_),
      Plain("win ack size"), Plain("peer bandwidth"), Plain("chunk size"),
      Msg("connect result", ConnectTid), Msg("createStream result", CreateStreamTid),
      Plain(IF ctype = "PUSH" THEN "onStatus publish" ELSE "onStatus play")>>

\* How many messages the server has started to write when it has read b messages and
\* completed g writes.
Started(b, g) ==
    IF b = 0 THEN 0
    ELSE IF g = 0 THEN 1
    ELSE IF b <= 3 THEN 2
    ELSE IF b = 4 THEN (IF g <= 5 THEN g + 1 ELSE 6)
    ELSE b + 2

\* a messages are sent and b of them read; e writes are finished and g of them completed.
Counters(a, b, e, g) ==
    /\ a \in 0 .. 6 /\ b \in 0 .. 6 /\ e \in 0 .. 8 /\ g \in 0 .. 8
    /\ b <= a /\ g <= e /\ e <= Started(b, g)
    /\ b >= 2 => g >= 2
    /\ b >= 5 => g >= 5
    /\ a >= 5 => e >= 6
    /\ a = 6 => e >= 7

\* The lists are intervals of the scripts between the counters.
Lists(a, b, e, g) ==
    /\ Interval(c2s, ClientScript, b, a)
    /\ Interval(writing, ServerScript, e, Started(b, g))
    /\ Interval(written, ServerScript, g, e)

\* The stage of the server, by what it has read and completed.
ServerStage(b, g) ==
    \/ sstage = "c0c1" /\ b = 0 /\ g = 0
    \/ sstage = "s0s1" /\ b = 1 /\ g = 0
    \/ sstage = "s2" /\ b = 1 /\ g = 1
    \/ sstage = "c2" /\ b = 1 /\ g = 2
    \/ sstage = "reading" /\ b >= 2

\* What the server has learnt, and that write_buf_ holds the answer it started last.
ServerKnows(b, g) ==
    /\ b >= 3 => s_chunk_size = "local"
    /\ b = 4 => curr_tid_ = ConnectTid
    /\ Started(b, g) > 2 => write_buf_ = ServerScript[Started(b, g)]

\* The client has sent a messages and read f of those that the server has written.
ClientStage(a, f) ==
    \/ cstage = "c0c1" /\ a = 0 /\ f = 0
    \/ cstage = "s0s1s2" /\ a = 1 /\ f = 0
    \/ cstage = "c2" /\ a = 1 /\ f = 2
    \/ cstage = "chunk size" /\ a = 2 /\ f = 2
    \/ cstage = "connect" /\ a = 3 /\ f = 2
    \/ cstage = "reading" /\ a = 4 /\ f \in 2 .. 5
    \/ cstage = "reading" /\ a = 5 /\ f = 6
    \/ cstage = "reading" /\ a = 6 /\ f \in 7 .. 8

\* What the client has learnt, and the results it has read.
ClientKnows(f) ==
    /\ f >= 5 => c_chunk_size = "local"
    /\ f <= 5 => results = <<>>
    /\ f = 6 => results = <<ConnectTid>>
    /\ f >= 7 => results = <<ConnectTid, CreateStreamTid>>
    /\ f >= 2 => hc.c2_ = hs.s0s1_

\* Where the server stands.
ServerTurn(a, b, e, g) ==
    Counters(a, b, e, g) /\ Lists(a, b, e, g) /\ ServerStage(b, g) /\ ServerKnows(b, g)

\* Where the client stands.
ClientTurn(a, e, f) ==
    /\ f \in 0 .. e
    /\ Interval(s2c, ServerScript, f, e)
    /\ ClientStage(a, f) /\ ClientKnows(f)

\* The conversation has come to some point of the two scripts.
Turn ==
    \E a, b, e, g : /\ ServerTurn(a, b, e, g)
                    /\ cstage # "closed" => \E f : ClientTurn(a, e, f)

\* The inductive invariant for a peer that waits.
TurnInv ==
    ~pipelining =>
        /\ ~broken
        /\ IsPrefix(results, <<ConnectTid, CreateStreamTid>>)
        /\ sstage # "closed" => Turn

\* The kind of a message tells where it is in the script of the client.
LEMMA WhichOfClient ==
    ASSUME NEW i \in 1 .. 6
    PROVE  /\ ClientScript[i].m = "chunk size" <=> i = 3
           /\ ClientScript[i].m = "connect" <=> i = 4
           /\ ClientScript[i].m = "createStream" <=> i = 5
           /\ ClientScript[i].m \in {"publish", "play"} <=> i = 6
<1>1. /\ ClientScript[1].m = "c0c1" /\ ClientScript[2].m = "c2" /\ ClientScript[3].m = "chunk size"
      /\ ClientScript[4].m = "connect" /\ ClientScript[5].m = "createStream"
      /\ ClientScript[6].m = StartCommand
  BY DEF ClientScript, Opens, Plain, Msg
<1>2. StartCommand \in {"publish", "play"}
  BY DEF StartCommand
<1>3. i = 1 \/ i = 2 \/ i = 3 \/ i = 4 \/ i = 5 \/ i = 6
  OBVIOUS
<1> QED
  BY <1>1, <1>2, <1>3

\* The kind of a message tells where it is in the script of the server.
LEMMA WhichOfServer ==
    ASSUME NEW i \in 1 .. 8
    PROVE  /\ ServerScript[i].m = "s0s1" <=> i = 1
           /\ ServerScript[i].m = "s2" <=> i = 2
           /\ ServerScript[i].m = "win ack size" <=> i = 3
           /\ ServerScript[i].m = "peer bandwidth" <=> i = 4
           /\ ServerScript[i].m = "chunk size" <=> i = 5
           /\ ServerScript[i].m = "connect result" <=> i = 6
           /\ ServerScript[i].m = "createStream result" <=> i = 7
           /\ ServerScript[i].m \in {"onStatus publish", "onStatus play"} <=> i = 8
<1>1. /\ ServerScript[1].m = "s0s1" /\ ServerScript[2].m = "s2"
      /\ ServerScript[3].m = "win ack size" /\ ServerScript[4].m = "peer bandwidth"
      /\ ServerScript[5].m = "chunk size" /\ ServerScript[6].m = "connect result"
      /\ ServerScript[7].m = "createStream result"
      /\ ServerScript[8].m \in {"onStatus publish", "onStatus play"}
  BY DEF ServerScript, Opens, Plain, Msg
<1>3. i = 1 \/ i = 2 \/ i = 3 \/ i = 4 \/ i = 5 \/ i = 6 \/ i = 7 \/ i = 8
  OBVIOUS
<1> QED
  BY <1>1, <1>3

\* The write under way is the last one started.
LEMMA OneAtATime ==
    ASSUME NEW a, NEW b, NEW e, NEW g, Counters(a, b, e, g)
    PROVE  Started(b, g) <= e + 1 /\ Started(b, g) \in 0 .. 8
BY DEF Counters, Started

\* The messages of the client, one by one.
LEMMA ClientItems ==
    /\ ClientScript[4].tid = ConnectTid /\ ClientScript[5].tid = CreateStreamTid
    /\ ClientScript[1] = Opens("c0c1", hc.version, hc.c0c1_)
    /\ ClientScript[2] = Plain("c2") /\ ClientScript[3] = Plain("chunk size")
    /\ ClientScript[4] = Msg("connect", ConnectTid)
    /\ ClientScript[5] = Msg("createStream", CreateStreamTid)
    /\ ClientScript[6] = Plain(StartCommand) /\ ClientScript[6].m = StartCommand
BY DEF ClientScript, Msg, Plain

\* The messages of the server, one by one.
LEMMA ServerItems ==
    /\ ServerScript[1] = Opens("s0s1", RTMP_VERSION, hs.s0s1_)
    /\ ServerScript[2] = Opens("s2", RTMP_VERSION, hs.s2_)
    /\ ServerScript[3] = Plain("win ack size") /\ ServerScript[4] = Plain("peer bandwidth")
    /\ ServerScript[5] = Plain("chunk size")
    /\ ServerScript[6] = Msg("connect result", ConnectTid) /\ ServerScript[6].tid = ConnectTid
    /\ ServerScript[7] = Msg("createStream result", CreateStreamTid)
    /\ ServerScript[7].tid = CreateStreamTid
    /\ ServerScript[8] = Plain(IF ctype = "PUSH" THEN "onStatus publish" ELSE "onStatus play")
BY DEF ServerScript, Msg

\* The blocks of the server.
LEMMA ServerBlocks ==
    ServerScript[1].block = hs.s0s1_ /\ ServerScript[2].block = hs.s2_
BY DEF ServerScript, Opens

\* The scripts do not change, but for the blocks that the server makes.
LEMMA Scripts ==
    ASSUME PeerInv, [Next]_vars
    PROVE  /\ ClientScript' = ClientScript
           /\ \A i \in 3 .. 8 : (ServerScript[i])' = ServerScript[i]
           /\ hs' = hs => ServerScript' = ServerScript
           /\ hs'.s0s1_ = hs.s0s1_ => (ServerScript[1])' = ServerScript[1]
<1>1. ctype' = ctype
  BY StillListed
<1>2. hc'.version = hc.version /\ hc'.c0c1_ = hc.c0c1_
  <2>1. CASE do_read_s0s1s2
    BY <2>1 DEF do_read_s0s1s2, PeerInv, Blocks, IsC, handle_s0s1s2
  <2>2. CASE ~do_read_s0s1s2
    <3>1. hc' = hc
      BY <2>2
      DEF Next, Server, do_read_c0c1, do_read_c2, set_chunk_size_handler, connect_handler,
          create_stream_handler, publish_handler, play_handler, WriteFinishes, OnWritten,
          ServerEof, Client, Opening, protocol_control_handler, cmd_msg_result_handler,
          cmd_msg_on_status_handler, Leave, clientVars, vars
    <3> QED
      BY <3>1
  <2> QED
    BY <2>1, <2>2
<1>3. ClientScript' = ClientScript
  BY <1>1, <1>2 DEF ClientScript, StartCommand
<1>5. /\ (ServerScript[3])' = ServerScript[3] /\ (ServerScript[4])' = ServerScript[4]
      /\ (ServerScript[5])' = ServerScript[5] /\ (ServerScript[6])' = ServerScript[6]
      /\ (ServerScript[7])' = ServerScript[7] /\ (ServerScript[8])' = ServerScript[8]
  BY <1>1 DEF ServerScript
<1>4. ASSUME NEW i \in 3 .. 8
      PROVE  (ServerScript[i])' = ServerScript[i]
  <2>1. i = 3 \/ i = 4 \/ i = 5 \/ i = 6 \/ i = 7 \/ i = 8
    OBVIOUS
  <2> QED
    BY <1>1, <1>5, <2>1
<1> QED
  BY <1>1, <1>3, <1>4 DEF ServerScript

\* What is to show of an action that receives no result.
LEMMA TurnHolds ==
    ASSUME ~broken', results' = results, TurnInv, ~pipelining,
           NEW a, NEW b, NEW e, NEW g, ServerTurn(a, b, e, g)',
           cstage' # "closed" => \E f : ClientTurn(a, e, f)'
    PROVE  TurnInv'
BY DEF TurnInv, Turn

\* The client does not notice what it has not been sent.
LEMMA ClientWaits ==
    ASSUME PeerInv, [Next]_vars, UNCHANGED <<s2c, hs, clientVars>>,
           NEW a, NEW e, NEW f, ClientTurn(a, e, f)
    PROVE  ClientTurn(a, e, f)'
<1>1. ServerScript' = ServerScript
  BY Scripts
<1> QED
  BY <1>1 DEF ClientTurn, ClientStage, ClientKnows, clientVars

\* Reading a message, and starting to answer it or not.
LEMMA Reads ==
    ASSUME PeerInv, [Next]_vars, UNCHANGED <<hs, written>>,
           NEW a, NEW b, NEW e, NEW g, Counters(a, b, e, g), Lists(a, b, e, g),
           c2s # <<>>, c2s' = Tail(c2s),
           \/ Started(b + 1, g) = Started(b, g) /\ writing' = writing
           \/ /\ Started(b + 1, g) = Started(b, g) + 1
              /\ writing' = Append(writing, ServerScript[Started(b, g) + 1])
    PROVE  Lists(a, b + 1, e, g)'
<1> DEFINE d == Started(b, g)
<1>5. d \in Nat
  BY OneAtATime
<1>1. a \in Nat /\ b \in Nat /\ e \in Nat /\ g \in Nat /\ d \in Nat /\ e <= d
  BY <1>5 DEF Counters
<1>2. ClientScript' = ClientScript /\ ServerScript' = ServerScript
  BY Scripts
<1>3. Interval(c2s', ClientScript, b + 1, a)
  BY <1>1, IntervalTail DEF Lists
<1>4. Interval(writing', ServerScript, e, Started(b + 1, g))
  BY <1>1, IntervalAppend DEF Lists
<1> QED
  BY <1>2, <1>3, <1>4 DEF Lists

\* The message that the server reads.
LEMMA NextCommand ==
    ASSUME NEW a, NEW b, NEW e, NEW g, Counters(a, b, e, g), Lists(a, b, e, g), c2s # <<>>
    PROVE  b < a /\ b + 1 \in 1 .. 6 /\ Head(c2s) = ClientScript[b + 1]
<1>1. a \in 0 .. 6 /\ b \in 0 .. 6 /\ a \in Nat /\ b \in Nat
  BY DEF Counters
<1>2. b < a /\ Head(c2s) = ClientScript[b + 1]
  BY <1>1, IntervalTail DEF Lists
<1> QED
  BY <1>1, <1>2

\* The message whose write has finished.
LEMMA NextWritten ==
    ASSUME NEW a, NEW b, NEW e, NEW g, Counters(a, b, e, g), Lists(a, b, e, g), written # <<>>
    PROVE  /\ g < e /\ g + 1 \in 1 .. 8 /\ Head(written) = ServerScript[g + 1]
           /\ Interval(Tail(written), ServerScript, g + 1, e)
<1>1. e \in 0 .. 8 /\ g \in 0 .. 8 /\ e \in Nat /\ g \in Nat
  BY DEF Counters
<1>2. /\ g < e /\ Head(written) = ServerScript[g + 1]
      /\ Interval(Tail(written), ServerScript, g + 1, e)
  BY <1>1, IntervalTail DEF Lists
<1> QED
  BY <1>1, <1>2

\* connect_handler: the fourth message; both handshake blocks are written, nothing else is, and
\* the chunk size of the client is known.
LEMMA ConnectTurn ==
    ASSUME PeerInv, TurnInv, ~pipelining, connect_handler
    PROVE  TurnInv'
<1> USE DEF connect_handler, Received, answer
<1>0. [Next]_vars
  BY DEF Next, Server
<1>1. PICK a, b, e, g : /\ ServerTurn(a, b, e, g)
                        /\ cstage # "closed" => \E f : ClientTurn(a, e, f)
  BY DEF TurnInv, Turn
<1>2. b + 1 \in 1 .. 6 /\ Head(c2s) = ClientScript[b + 1] /\ b < a
  BY <1>1, NextCommand DEF ServerTurn
<1>3. b + 1 = 4
  BY <1>2, WhichOfClient
<1>4. Counters(a, b, e, g)
  BY <1>1 DEF ServerTurn
<1>5. /\ b >= 3 /\ b + 1 >= 2 /\ Started(b, g) + 1 = 3 /\ Started(b + 1, g) = 3
      /\ Counters(a, b + 1, e, g)
  BY ONLY <1>2, <1>3, <1>4 DEF Counters, Started
<1>6. ServerScript[Started(b, g) + 1] = Plain("win ack size")
  BY <1>5, ServerItems
<1>7. Lists(a, b + 1, e, g)'
  BY <1>0, <1>1, <1>4, <1>5, <1>6, Reads DEF ServerTurn, clientVars
<1>8. ServerStage(b + 1, g)'
  BY <1>5 DEF ServerStage
<1>9. s_chunk_size = "local"
  BY <1>1, <1>5 DEF ServerTurn, ServerKnows
<1>10. ServerKnows(b + 1, g)'
  <2>1. curr_tid_' = ConnectTid
    BY <1>2, <1>3, ClientItems
  <2>2. write_buf_' = (ServerScript[3])'
    BY <1>0, Scripts, ServerItems
  <2> QED
    BY <1>5, <1>9, <2>1, <2>2 DEF ServerKnows
<1>11. ServerTurn(a, b + 1, e, g)'
  BY <1>5, <1>7, <1>8, <1>10 DEF ServerTurn
<1>12. cstage' # "closed" => \E f : ClientTurn(a, e, f)'
  BY <1>0, <1>1, ClientWaits DEF clientVars
<1>13. ~broken'
  BY <1>9 DEF TurnInv
<1> QED
  BY <1>11, <1>12, <1>13, TurnHolds DEF clientVars

\* set_chunk_size_handler: the third message, with nothing to write.
LEMMA SetChunkSizeTurn ==
    ASSUME PeerInv, TurnInv, ~pipelining, set_chunk_size_handler
    PROVE  TurnInv'
<1> USE DEF set_chunk_size_handler, Received
<1>0. [Next]_vars
  BY DEF Next, Server
<1>1. PICK a, b, e, g : /\ ServerTurn(a, b, e, g)
                        /\ cstage # "closed" => \E f : ClientTurn(a, e, f)
  BY DEF TurnInv, Turn
<1>4. Counters(a, b, e, g)
  BY <1>1 DEF ServerTurn
<1>2. b + 1 \in 1 .. 6 /\ Head(c2s) = ClientScript[b + 1] /\ b < a
  BY <1>1, NextCommand DEF ServerTurn
<1>3. b + 1 = 3
  BY <1>2, WhichOfClient
<1>5. /\ b + 1 >= 2 /\ b + 1 # 4 /\ Started(b + 1, g) = Started(b, g)
      /\ ~(Started(b + 1, g) > 2) /\ Counters(a, b + 1, e, g)
  BY ONLY <1>2, <1>3, <1>4 DEF Counters, Started
<1>7. Lists(a, b + 1, e, g)'
  BY <1>0, <1>1, <1>4, <1>5, Reads DEF ServerTurn, clientVars
<1>8. ServerStage(b + 1, g)'
  BY <1>5 DEF ServerStage
<1>10. ServerKnows(b + 1, g)'
  BY <1>5 DEF ServerKnows
<1>11. ServerTurn(a, b + 1, e, g)'
  BY <1>5, <1>7, <1>8, <1>10 DEF ServerTurn
<1>12. cstage' # "closed" => \E f : ClientTurn(a, e, f)'
  BY <1>0, <1>1, ClientWaits DEF clientVars
<1>13. ~broken'
  BY DEF TurnInv
<1> QED
  BY <1>11, <1>12, <1>13, TurnHolds DEF clientVars

\* do_read_c2: the second message.
LEMMA ReadC2Turn ==
    ASSUME PeerInv, TurnInv, ~pipelining, do_read_c2
    PROVE  TurnInv'
<1> USE DEF do_read_c2
<1>0. [Next]_vars
  BY DEF Next, Server
<1>1. PICK a, b, e, g : /\ ServerTurn(a, b, e, g)
                        /\ cstage # "closed" => \E f : ClientTurn(a, e, f)
  BY DEF TurnInv, Turn
<1>4. Counters(a, b, e, g)
  BY <1>1 DEF ServerTurn
<1>2. b < a
  BY <1>1, NextCommand DEF ServerTurn
<1>3. b = 1 /\ g = 2
  BY <1>1 DEF ServerTurn, ServerStage
<1>5. /\ b + 1 >= 2 /\ b + 1 # 4 /\ ~(b + 1 >= 3) /\ Started(b + 1, g) = Started(b, g)
      /\ ~(Started(b + 1, g) > 2) /\ Counters(a, b + 1, e, g)
  BY ONLY <1>2, <1>3, <1>4 DEF Counters, Started
<1>7. Lists(a, b + 1, e, g)'
  BY <1>0, <1>1, <1>4, <1>5, Reads DEF ServerTurn, clientVars
<1>8. ServerStage(b + 1, g)'
  BY <1>5 DEF ServerStage
<1>10. ServerKnows(b + 1, g)'
  BY <1>5 DEF ServerKnows
<1>11. ServerTurn(a, b + 1, e, g)'
  BY <1>5, <1>7, <1>8, <1>10 DEF ServerTurn
<1>12. cstage' # "closed" => \E f : ClientTurn(a, e, f)'
  BY <1>0, <1>1, ClientWaits DEF clientVars
<1>13. ~broken'
  BY DEF TurnInv
<1> QED
  BY <1>11, <1>12, <1>13, TurnHolds DEF clientVars

\* create_stream_handler: the fifth message has been sent after the result of connect was
\* read, so that nothing is being written.
LEMMA CreateStreamTurn ==
    ASSUME PeerInv, TurnInv, ~pipelining, create_stream_handler
    PROVE  TurnInv'
<1> USE DEF create_stream_handler, Received, answer
<1>0. [Next]_vars
  BY DEF Next, Server
<1>1. PICK a, b, e, g : /\ ServerTurn(a, b, e, g)
                        /\ cstage # "closed" => \E f : ClientTurn(a, e, f)
  BY DEF TurnInv, Turn
<1>4. Counters(a, b, e, g)
  BY <1>1 DEF ServerTurn
<1>2. b + 1 \in 1 .. 6 /\ Head(c2s) = ClientScript[b + 1] /\ b < a
  BY <1>1, NextCommand DEF ServerTurn
<1>3. b + 1 = 5
  BY <1>2, WhichOfClient
<1>5. /\ b >= 3 /\ b + 1 >= 2 /\ b + 1 # 4 /\ Started(b, g) + 1 = 7
      /\ Started(b + 1, g) = 7 /\ Counters(a, b + 1, e, g)
  BY ONLY <1>2, <1>3, <1>4 DEF Counters, Started
<1>6. ServerScript[7] = Msg("createStream result", curr_tid_')
  BY <1>2, <1>3, ClientItems, ServerItems
<1>7. Lists(a, b + 1, e, g)'
  BY <1>0, <1>1, <1>4, <1>5, <1>6, Reads DEF ServerTurn, clientVars
<1>8. ServerStage(b + 1, g)'
  BY <1>5 DEF ServerStage
<1>9. s_chunk_size = "local"
  BY <1>1, <1>5 DEF ServerTurn, ServerKnows
<1>10. ServerKnows(b + 1, g)'
  <2>1. write_buf_' = (ServerScript[7])'
    BY <1>0, <1>6, Scripts
  <2> QED
    BY <1>5, <1>9, <2>1 DEF ServerKnows
<1>11. ServerTurn(a, b + 1, e, g)'
  BY <1>5, <1>7, <1>8, <1>10 DEF ServerTurn
<1>12. cstage' # "closed" => \E f : ClientTurn(a, e, f)'
  BY <1>0, <1>1, ClientWaits DEF clientVars
<1>13. ~broken'
  BY DEF TurnInv
<1> QED
  BY <1>11, <1>12, <1>13, TurnHolds DEF clientVars

\* publish_handler: the sixth message, of a push session, sent after the second result was read.
LEMMA PublishTurn ==
    ASSUME PeerInv, TurnInv, ~pipelining, publish_handler
    PROVE  TurnInv'
<1> USE DEF publish_handler, Received, answer
<1>0. [Next]_vars
  BY DEF Next, Server
<1>1. PICK a, b, e, g : /\ ServerTurn(a, b, e, g)
                        /\ cstage # "closed" => \E f : ClientTurn(a, e, f)
  BY DEF TurnInv, Turn
<1>4. Counters(a, b, e, g)
  BY <1>1 DEF ServerTurn
<1>2. b + 1 \in 1 .. 6 /\ Head(c2s) = ClientScript[b + 1] /\ b < a
  BY <1>1, NextCommand DEF ServerTurn
<1>3. b + 1 = 6
  BY <1>2, WhichOfClient
<1>5. /\ b >= 3 /\ b + 1 >= 2 /\ b + 1 # 4 /\ Started(b, g) + 1 = 8
      /\ Started(b + 1, g) = 8 /\ Counters(a, b + 1, e, g)
  BY ONLY <1>2, <1>3, <1>4 DEF Counters, Started
<1>6. ServerScript[8] = Plain("onStatus publish")
  <2>1. StartCommand = "publish"
    BY <1>2, <1>3, ClientItems
  <2> QED
    BY <2>1, ServerItems DEF StartCommand
<1>7. Lists(a, b + 1, e, g)'
  BY <1>0, <1>1, <1>4, <1>5, <1>6, Reads DEF ServerTurn, clientVars
<1>8. ServerStage(b + 1, g)'
  BY <1>5 DEF ServerStage
<1>9. s_chunk_size = "local"
  BY <1>1, <1>5 DEF ServerTurn, ServerKnows
<1>10. ServerKnows(b + 1, g)'
  <2>1. write_buf_' = (ServerScript[8])'
    BY <1>0, <1>6, Scripts
  <2> QED
    BY <1>5, <1>9, <2>1 DEF ServerKnows
<1>11. ServerTurn(a, b + 1, e, g)'
  BY <1>5, <1>7, <1>8, <1>10 DEF ServerTurn
<1>12. cstage' # "closed" => \E f : ClientTurn(a, e, f)'
  BY <1>0, <1>1, ClientWaits DEF clientVars
<1>13. ~broken'
  BY DEF TurnInv
<1> QED
  BY <1>11, <1>12, <1>13, TurnHolds DEF clientVars

\* play_handler: the same for a pull session.
LEMMA PlayTurn ==
    ASSUME PeerInv, TurnInv, ~pipelining, play_handler
    PROVE  TurnInv'
<1> USE DEF play_handler, Received, answer
<1>0. [Next]_vars
  BY DEF Next, Server
<1>1. PICK a, b, e, g : /\ ServerTurn(a, b, e, g)
                        /\ cstage # "closed" => \E f : ClientTurn(a, e, f)
  BY DEF TurnInv, Turn
<1>4. Counters(a, b, e, g)
  BY <1>1 DEF ServerTurn
<1>2. b + 1 \in 1 .. 6 /\ Head(c2s) = ClientScript[b + 1] /\ b < a
  BY <1>1, NextCommand DEF ServerTurn
<1>3. b + 1 = 6
  BY <1>2, WhichOfClient
<1>5. /\ b >= 3 /\ b + 1 >= 2 /\ b + 1 # 4 /\ Started(b, g) + 1 = 8
      /\ Started(b + 1, g) = 8 /\ Counters(a, b + 1, e, g)
  BY ONLY <1>2, <1>3, <1>4 DEF Counters, Started
<1>6. ServerScript[8] = Plain("onStatus play")
  <2>1. StartCommand = "play"
    BY <1>2, <1>3, ClientItems
  <2> QED
    BY <2>1, ServerItems DEF StartCommand
<1>7. Lists(a, b + 1, e, g)'
  BY <1>0, <1>1, <1>4, <1>5, <1>6, Reads DEF ServerTurn, clientVars
<1>8. ServerStage(b + 1, g)'
  BY <1>5 DEF ServerStage
<1>9. s_chunk_size = "local"
  BY <1>1, <1>5 DEF ServerTurn, ServerKnows
<1>10. ServerKnows(b + 1, g)'
  <2>1. write_buf_' = (ServerScript[8])'
    BY <1>0, <1>6, Scripts
  <2> QED
    BY <1>5, <1>9, <2>1 DEF ServerKnows
<1>11. ServerTurn(a, b + 1, e, g)'
  BY <1>5, <1>7, <1>8, <1>10 DEF ServerTurn
<1>12. cstage' # "closed" => \E f : ClientTurn(a, e, f)'
  BY <1>0, <1>1, ClientWaits DEF clientVars
<1>13. ~broken'
  BY DEF TurnInv
<1> QED
  BY <1>11, <1>12, <1>13, TurnHolds DEF clientVars

\* do_read_c0c1: the first message; the server has written nothing before.
LEMMA ReadC0C1Turn ==
    ASSUME PeerInv, TurnInv, ~pipelining, do_read_c0c1
    PROVE  TurnInv'
<1> USE DEF do_read_c0c1
<1>0. [Next]_vars
  BY DEF Next, Server
<1>1. PICK a, b, e, g : /\ ServerTurn(a, b, e, g)
                        /\ cstage # "closed" => \E f : ClientTurn(a, e, f)
  BY DEF TurnInv, Turn
<1>4. Counters(a, b, e, g)
  BY <1>1 DEF ServerTurn
<1>2. b + 1 \in 1 .. 6 /\ b < a
  BY <1>1, NextCommand DEF ServerTurn
<1>3. b = 0 /\ g = 0
  BY <1>1, <1>2 DEF ServerTurn, ServerStage
<1>5. /\ b + 1 = 1 /\ ~(b + 1 >= 3) /\ b + 1 # 4 /\ e = 0 /\ Started(b, g) = 0
      /\ Started(b + 1, g) = 0 + 1 /\ ~(Started(b + 1, g) > 2) /\ Counters(a, b + 1, e, g)
      /\ a \in Nat /\ b \in Nat
  BY ONLY <1>2, <1>3, <1>4 DEF Counters, Started
<1>7. Lists(a, b + 1, e, g)'
  <2>1. Interval(c2s', ClientScript', b + 1, a)
    BY <1>0, <1>1, <1>5, Scripts, IntervalTail DEF ServerTurn, Lists
  <2>2. writing = <<>> /\ written = <<>>
    BY DEF PeerInv, Writes
  <2>3. (ServerScript[1])' = Opens("s0s1", RTMP_VERSION, hs'.s0s1_)
    BY DEF ServerScript
  <2>4. 0 + 1 = 1 /\ 0 \in Nat /\ 0 <= 0
    OBVIOUS
  <2>5. Interval(Append(<<>>, Opens("s0s1", RTMP_VERSION, hs'.s0s1_)), ServerScript', 0, 0 + 1)
    BY <2>3, <2>4, IntervalEmpty, IntervalAppend
  <2>6. Interval(<<>>, ServerScript', 0, 0)
    BY <2>4, IntervalEmpty
  <2> QED
    BY <1>3, <1>5, <2>1, <2>2, <2>5, <2>6 DEF Lists
<1>8. ServerStage(b + 1, g)'
  BY <1>3, <1>5 DEF ServerStage
<1>10. ServerKnows(b + 1, g)'
  BY <1>5 DEF ServerKnows
<1>11. ServerTurn(a, b + 1, e, g)'
  BY <1>5, <1>7, <1>8, <1>10 DEF ServerTurn
<1>12. cstage' # "closed" => \E f : ClientTurn(a, e, f)'
  <2> SUFFICES ASSUME cstage # "closed"
               PROVE  \E f : ClientTurn(a, e, f)'
    BY DEF clientVars
  <2>1. PICK f : ClientTurn(a, e, f)
    BY <1>1
  <2>2. f = 0 /\ ~(f >= 2) /\ f \in Nat
    BY <1>5, <2>1 DEF ClientTurn
  <2>3. Interval(s2c', ServerScript', f, e)
    <3>1. Interval(s2c, ServerScript, 0, 0)
      BY <1>5, <2>1, <2>2 DEF ClientTurn
    <3>2. s2c = <<>>
      BY <3>1, IntervalIsEmpty
    <3> QED
      BY <1>5, <2>2, <3>2, IntervalEmpty
  <2>4. ClientTurn(a, e, f)'
    BY <2>1, <2>2, <2>3 DEF ClientTurn, ClientStage, ClientKnows, clientVars
  <2> QED
    BY <2>4
<1>13. ~broken'
  BY DEF TurnInv
<1> QED
  BY <1>11, <1>12, <1>13, TurnHolds DEF clientVars

\* WriteFinishes: the one write under way is what write_buf_ holds.
LEMMA WriteFinishesTurn ==
    ASSUME PeerInv, TurnInv, ~pipelining, WriteFinishes
    PROVE  TurnInv'
<1> USE DEF WriteFinishes
<1>0. [Next]_vars
  BY DEF Next, Server
<1>1. PICK a, b, e, g : /\ ServerTurn(a, b, e, g)
                        /\ cstage # "closed" => \E f : ClientTurn(a, e, f)
  BY DEF TurnInv, Turn, PeerInv, Writes
<1>2. Counters(a, b, e, g)
  BY <1>1 DEF ServerTurn
<1>3. Started(b, g) <= e + 1 /\ Started(b, g) \in 0 .. 8
  BY <1>2, OneAtATime
<1>4. e \in Nat /\ g \in Nat /\ g <= e /\ Started(b, g) \in Nat
  BY <1>2, <1>3 DEF Counters
<1>5. /\ e < Started(b, g) /\ Head(writing) = ServerScript[e + 1]
      /\ Interval(writing', ServerScript, e + 1, Started(b, g))
  BY <1>1, <1>4, IntervalTail DEF ServerTurn, Lists
<1>6. e + 1 = Started(b, g) /\ e + 1 \in 1 .. 8 /\ Counters(a, b, e + 1, g)
  BY ONLY <1>2, <1>3, <1>4, <1>5 DEF Counters
<1>7. ServerScript' = ServerScript /\ ClientScript' = ClientScript
  BY <1>0, Scripts
<1>8. Interval(written', ServerScript, g, e + 1)
  BY <1>1, <1>4, <1>5, IntervalAppend DEF ServerTurn, Lists
<1>9. Lists(a, b, e + 1, g)'
  BY <1>1, <1>5, <1>7, <1>8 DEF ServerTurn, Lists
<1>10. Head(writing).m \in {"s0s1", "s2"} \/ write_buf_ = Head(writing)
  <2>1. CASE Started(b, g) > 2
    BY <1>1, <1>5, <1>6, <2>1 DEF ServerTurn, ServerKnows
  <2>2. CASE ~(Started(b, g) > 2)
    <3>1. e + 1 = 1 \/ e + 1 = 2
      BY ONLY <1>3, <1>6, <2>2
    <3> QED
      BY <1>5, <1>6, <3>1, WhichOfServer, ZenonT(60)
  <2> QED
    BY <2>1, <2>2
<1>11. ServerTurn(a, b, e + 1, g)'
  BY <1>1, <1>6, <1>7, <1>9 DEF ServerTurn, ServerStage, ServerKnows
<1>12. cstage' # "closed" => \E f : ClientTurn(a, e + 1, f)'
  <2> SUFFICES ASSUME cstage # "closed"
               PROVE  \E f : ClientTurn(a, e + 1, f)'
    BY DEF clientVars
  <2>1. PICK f : ClientTurn(a, e, f)
    BY <1>1
  <2>2. f \in 0 .. e + 1 /\ f \in Nat /\ f <= e
    BY <1>4, <2>1 DEF ClientTurn
  <2>3. s2c' = Append(s2c, Head(writing))
    BY <1>10
  <2>4. Interval(s2c', ServerScript, f, e + 1)
    BY <1>4, <1>5, <2>1, <2>2, <2>3, IntervalAppend DEF ClientTurn
  <2>5. ClientTurn(a, e + 1, f)'
    BY <1>7, <2>1, <2>2, <2>4 DEF ClientTurn, ClientStage, ClientKnows, clientVars
  <2> QED
    BY <2>5
<1>13. ~broken'
  BY <1>10 DEF TurnInv
<1> QED
  BY <1>11, <1>12, <1>13, TurnHolds DEF clientVars

\* A completion handler that writes what the script says next, or nothing.
LEMMA Completes ==
    ASSUME PeerInv, TurnInv, ~pipelining, [Next]_vars,
           UNCHANGED <<c2s, s2c, hs, curr_tid_, s_chunk_size, clientVars, broken>>,
           NEW a, NEW b, NEW e, NEW g, ServerTurn(a, b, e, g),
           cstage # "closed" => \E f : ClientTurn(a, e, f),
           written # <<>>, written' = Tail(written),
           Counters(a, b, e, g + 1), ServerStage(b, g + 1)',
           \/ /\ Started(b, g + 1) = Started(b, g)
              /\ UNCHANGED <<writing, write_buf_>>
           \/ /\ Started(b, g + 1) = Started(b, g) + 1 /\ Started(b, g) >= 2
              /\ answer(ServerScript[Started(b, g) + 1])
    PROVE  TurnInv'
<1>1. Counters(a, b, e, g)
  BY DEF ServerTurn
<1>2. Started(b, g) \in 0 .. 8 /\ Started(b, g) \in Nat
  BY <1>1, OneAtATime
<1>3. e \in Nat /\ e <= Started(b, g)
  BY <1>1, <1>2 DEF Counters
<1>4. ServerScript' = ServerScript /\ ClientScript' = ClientScript
  BY Scripts
<1>5. Interval(written', ServerScript, g + 1, e)
  BY <1>1, NextWritten DEF ServerTurn
<1>6. Interval(writing', ServerScript, e, Started(b, g + 1))
  BY <1>2, <1>3, IntervalAppend DEF ServerTurn, Lists, answer
<1>7. Lists(a, b, e, g + 1)'
  BY <1>4, <1>5, <1>6 DEF ServerTurn, Lists
<1>8. ServerKnows(b, g + 1)'
  BY <1>4 DEF ServerTurn, ServerKnows, answer
<1>9. ServerTurn(a, b, e, g + 1)'
  BY <1>7, <1>8 DEF ServerTurn
<1>10. cstage' # "closed" => \E f : ClientTurn(a, e, f)'
  BY ClientWaits DEF clientVars
<1> QED
  BY <1>9, <1>10, TurnHolds DEF TurnInv, clientVars

\* OnWritten: by what has been written, the script says what comes next.
LEMMA OnWrittenTurn ==
    ASSUME PeerInv, TurnInv, ~pipelining, OnWritten
    PROVE  TurnInv'
<1> USE DEF OnWritten
<1>0. [Next]_vars
  BY DEF Next, Server
<1>1. PICK a, b, e, g : /\ ServerTurn(a, b, e, g)
                        /\ cstage # "closed" => \E f : ClientTurn(a, e, f)
  BY DEF TurnInv, Turn, PeerInv, Writes
<1>2. Counters(a, b, e, g)
  BY <1>1 DEF ServerTurn
<1>3. /\ g < e /\ g + 1 \in 1 .. 8 /\ Head(written) = ServerScript[g + 1]
      /\ Interval(Tail(written), ServerScript, g + 1, e)
  BY <1>1, <1>2, NextWritten DEF ServerTurn
<1>4. CASE g + 1 = 1
  <2>1. /\ sstage' = "s2" /\ hs' = create_s2(hs) /\ UNCHANGED write_buf_
        /\ writing' = Append(writing, Opens("s2", RTMP_VERSION, hs'.s2_))
    BY <1>3, <1>4, WhichOfServer, ZenonT(30)
  <2>2. /\ b = 1 /\ e = 1 /\ Started(b, g) = 1 /\ Started(b, g + 1) = 1 + 1
        /\ ~(Started(b, g + 1) > 2) /\ ~(b >= 3) /\ b # 4 /\ Counters(a, b, e, g + 1)
    BY ONLY <1>2, <1>3, <1>4 DEF Counters, Started
  <2>3. hs'.s0s1_ = hs.s0s1_
    BY <2>1 DEF PeerInv, Blocks, IsS, create_s2
  <2>4. (ServerScript[2])' = Opens("s2", RTMP_VERSION, hs'.s2_)
    BY DEF ServerScript
  <2>5. 1 + 1 = 2 /\ 1 \in Nat /\ 1 <= 1
    BY ONLY TRUE
  <2>6. writing = <<>> /\ Tail(written) = <<>>
    <3>1. Interval(writing, ServerScript, 1, 1) /\ Interval(Tail(written), ServerScript, 1, 1)
      BY <1>1, <1>3, <1>4, <2>2 DEF ServerTurn, Lists
    <3> QED
      BY ONLY <3>1, <2>5, IntervalIsEmpty
  <2>7. Interval(Append(<<>>, Opens("s2", RTMP_VERSION, hs'.s2_)), ServerScript', 1, 1 + 1)
    BY <2>4, <2>5, IntervalEmpty, IntervalAppend
  <2>8. Interval(<<>>, ServerScript', 1, 1)
    BY <2>5, IntervalEmpty
  <2>9. Lists(a, b, e, g + 1)'
    BY <1>0, <1>1, <1>4, <2>1, <2>2, <2>6, <2>7, <2>8, Scripts DEF ServerTurn, Lists
  <2>10. ServerStage(b, g + 1)' /\ ServerKnows(b, g + 1)'
    BY <1>4, <2>1, <2>2 DEF ServerStage, ServerKnows
  <2>11. ServerTurn(a, b, e, g + 1)'
    BY <2>2, <2>9, <2>10 DEF ServerTurn
  <2>12. cstage' # "closed" => \E f : ClientTurn(a, e, f)'
    <3> SUFFICES ASSUME cstage # "closed"
                 PROVE  \E f : ClientTurn(a, e, f)'
      BY DEF clientVars
    <3>1. PICK f : ClientTurn(a, e, f)
      BY <1>1
    <3>2. /\ f \in 0 .. e /\ f \in Nat /\ e \in Nat /\ ~(f >= 2)
          /\ \A i \in f + 1 .. e : i = 1
      <4>1. f \in 0 .. e
        BY <3>1 DEF ClientTurn
      <4> QED
        BY ONLY <2>2, <4>1
    <3>3. \A i \in f + 1 .. e : (ServerScript')[i] = ServerScript[i]
      BY <1>0, <2>3, <3>2, Scripts
    <3>4. Interval(s2c', ServerScript', f, e)
      BY <3>1, <3>2, <3>3, IntervalAgree DEF ClientTurn
    <3>5. ClientTurn(a, e, f)'
      BY <3>1, <3>2, <3>4 DEF ClientTurn, ClientStage, ClientKnows, clientVars
    <3> QED
      BY <3>5
  <2>13. ~broken'
    BY DEF TurnInv
  <2> QED
    BY <2>11, <2>12, <2>13, TurnHolds DEF clientVars
<1>5. CASE g + 1 = 2
  <2>1. sstage' = "c2" /\ no_answer /\ UNCHANGED <<hs, type_>>
    BY <1>3, <1>5, WhichOfServer
  <2>2. b = 1 /\ Started(b, g + 1) = Started(b, g) /\ Counters(a, b, e, g + 1)
    BY ONLY <1>2, <1>3, <1>5 DEF Counters, Started
  <2>3. ServerStage(b, g + 1)'
    BY <1>5, <2>1, <2>2 DEF ServerStage
  <2> QED
    BY <1>0, <1>1, <2>1, <2>2, <2>3, Completes DEF no_answer
<1>6. CASE g + 1 \in 3 .. 5
  <2>1. /\ Head(written).m \in {"win ack size", "peer bandwidth", "chunk size"}
        /\ answer(NextAnswer(Head(written).m)) /\ UNCHANGED <<hs, sstage, type_>>
    <3>1. g + 1 = 3 \/ g + 1 = 4 \/ g + 1 = 5
      BY ONLY <1>6
    <3>2. Head(written).m \in {"win ack size", "peer bandwidth", "chunk size"}
      BY <1>3, <3>1, WhichOfServer, ZenonT(30)
    <3> QED
      BY <3>2
  <2>2. /\ b = 4 /\ Started(b, g) = g + 1 /\ Started(b, g + 1) = Started(b, g) + 1
        /\ Started(b, g) >= 2 /\ b >= 2 /\ b # 0 /\ b # 1 /\ Counters(a, b, e, g + 1)
    BY ONLY <1>2, <1>3, <1>6 DEF Counters, Started
  <2>3. NextAnswer(Head(written).m) = ServerScript[Started(b, g) + 1]
    <3>1. curr_tid_ = ConnectTid
      BY <1>1, <2>2 DEF ServerTurn, ServerKnows
    <3>2. \/ g + 1 = 3 /\ Started(b, g) + 1 = 4
          \/ g + 1 = 4 /\ Started(b, g) + 1 = 5
          \/ g + 1 = 5 /\ Started(b, g) + 1 = 6
      BY ONLY <1>6, <2>2
    <3>3. CASE g + 1 = 3 /\ Started(b, g) + 1 = 4
      BY <1>3, <3>3, ServerItems, WhichOfServer, ZenonT(30) DEF NextAnswer
    <3>4. CASE g + 1 = 4 /\ Started(b, g) + 1 = 5
      BY <1>3, <3>4, ServerItems, WhichOfServer, ZenonT(30) DEF NextAnswer
    <3>5. CASE g + 1 = 5 /\ Started(b, g) + 1 = 6
      BY <1>3, <3>1, <3>5, ServerItems, WhichOfServer, ZenonT(60) DEF NextAnswer
    <3> QED
      BY <3>2, <3>3, <3>4, <3>5
  <2>4. ServerStage(b, g + 1)'
    BY <1>1, <2>1, <2>2 DEF ServerTurn, ServerStage
  <2> QED
    BY <1>0, <1>1, <2>1, <2>2, <2>3, <2>4, Completes
<1>7. CASE g + 1 \in 6 .. 8
  <2>1. no_answer /\ UNCHANGED <<hs, sstage>>
    <3>1. /\ g + 1 # 1 /\ g + 1 # 2 /\ g + 1 # 3 /\ g + 1 # 4 /\ g + 1 # 5
      BY ONLY <1>7
    <3> QED
      BY <1>3, <3>1, WhichOfServer, ZenonT(30)
  <2>2. /\ b >= 2 /\ b # 0 /\ b # 1 /\ Started(b, g + 1) = Started(b, g)
        /\ Counters(a, b, e, g + 1)
    BY ONLY <1>2, <1>3, <1>7 DEF Counters, Started
  <2>3. ServerStage(b, g + 1)'
    BY <1>1, <2>1, <2>2 DEF ServerTurn, ServerStage
  <2> QED
    BY <1>0, <1>1, <2>1, <2>2, <2>3, Completes DEF no_answer
<1>8. g + 1 = 1 \/ g + 1 = 2 \/ g + 1 \in 3 .. 5 \/ g + 1 \in 6 .. 8
  BY ONLY <1>3
<1> QED
  BY <1>4, <1>5, <1>6, <1>7, <1>8

\* ServerEof: the conversation is over.
LEMMA EofTurn ==
    ASSUME PeerInv, TurnInv, ~pipelining, ServerEof
    PROVE  TurnInv'
BY DEF TurnInv, ServerEof, clientVars

\* Nothing happens.
LEMMA TurnStutter ==
    ASSUME TurnInv, ~pipelining, UNCHANGED vars
    PROVE  TurnInv'
<1>1. ServerScript' = ServerScript /\ ClientScript' = ClientScript
  BY DEF ServerScript, ClientScript, StartCommand, vars, serverVars, clientVars
<1>2. Turn => Turn'
  <2>1. ASSUME NEW a, NEW b, NEW e, NEW g, ServerTurn(a, b, e, g)
        PROVE  ServerTurn(a, b, e, g)'
    BY <1>1, <2>1 DEF ServerTurn, Lists, ServerStage, ServerKnows, vars, serverVars
  <2>2. ASSUME NEW a, NEW e, NEW f, ClientTurn(a, e, f)
        PROVE  ClientTurn(a, e, f)'
    BY <1>1, <2>2 DEF ClientTurn, ClientStage, ClientKnows, vars, serverVars, clientVars
  <2>3. cstage' = cstage
    BY DEF vars, clientVars
  <2> QED
    BY <2>1, <2>2, <2>3 DEF Turn
<1>3. results' = results /\ broken' = broken /\ sstage' = sstage
  BY DEF vars, serverVars, clientVars
<1> QED
  BY <1>2, <1>3 DEF TurnInv

\* A prefix, member by member.
LEMMA PrefixIs ==
    ASSUME NEW S, NEW t \in Seq(S), NEW s \in Seq(S), Len(s) <= Len(t),
           \A i \in 1 .. Len(s) : s[i] = t[i]
    PROVE  IsPrefix(s, t)
<1>1. Len(s) \in Nat /\ Len(t) \in Nat
  BY LenProperties
<1>2. /\ SubSeq(s, 1, Len(s)) \in Seq(S) /\ Len(SubSeq(s, 1, Len(s))) = Len(s)
      /\ \A i \in 1 .. Len(s) : SubSeq(s, 1, Len(s))[i] = s[i]
  BY <1>1, SubSeqProperties
<1>3. /\ SubSeq(t, 1, Len(s)) \in Seq(S) /\ Len(SubSeq(t, 1, Len(s))) = Len(s)
      /\ \A i \in 1 .. Len(s) : SubSeq(t, 1, Len(s))[i] = t[i]
  BY <1>1, SubSeqProperties
<1>4. SubSeq(s, 1, Len(s)) = SubSeq(t, 1, Len(s))
  BY <1>2, <1>3, SeqEqual
<1> QED
  BY <1>4 DEF IsPrefix

\* A list of two.
LEMMA AppendTwo ==
    ASSUME NEW S, NEW x \in S, NEW y \in S
    PROVE  Append(<<x>>, y) = <<x, y>>
<1> DEFINE one == <<x>>
           two == <<x, y>>
<1>1. /\ one \in Seq(S) /\ Len(one) = 1 /\ one[1] = x
      /\ two \in Seq(S) /\ Len(two) = 2 /\ two[1] = x /\ two[2] = y
  OBVIOUS
<1> HIDE DEF one, two
<1>2. /\ Append(one, y) \in Seq(S) /\ Len(Append(one, y)) = Len(one) + 1
      /\ \A i \in 1 .. Len(one) : Append(one, y)[i] = one[i]
      /\ Append(one, y)[Len(one) + 1] = y
  <2>1. one \in Seq(S) /\ y \in S
    BY <1>1
  <2> QED
    BY ONLY <2>1, AppendProperties
<1>3. /\ Len(Append(one, y)) = 2 /\ Append(one, y)[1] = x /\ Append(one, y)[2] = y
  BY <1>1, <1>2
<1>4. \A i \in 1 .. 2 : i = 1 \/ i = 2
  OBVIOUS
<1>5. Append(one, y) = two
  BY <1>1, <1>2, <1>3, <1>4, SeqEqual
<1> QED
  BY <1>5 DEF one, two

\* What the client can have received of its results.
LEMMA ResultsArePrefixes ==
    /\ IsPrefix(<<>>, <<ConnectTid, CreateStreamTid>>)
    /\ IsPrefix(<<ConnectTid>>, <<ConnectTid, CreateStreamTid>>)
    /\ IsPrefix(<<ConnectTid, CreateStreamTid>>, <<ConnectTid, CreateStreamTid>>)
<1>1. /\ <<>> \in Seq(Nat) /\ <<ConnectTid>> \in Seq(Nat)
      /\ <<ConnectTid, CreateStreamTid>> \in Seq(Nat)
  BY DEF ConnectTid, CreateStreamTid
<1>2. /\ Len(<<>>) = 0 /\ Len(<<ConnectTid>>) = 1 /\ Len(<<ConnectTid, CreateStreamTid>>) = 2
      /\ <<ConnectTid>>[1] = ConnectTid /\ <<ConnectTid, CreateStreamTid>>[1] = ConnectTid
  OBVIOUS
<1>3. 0 <= 2 /\ 1 <= 2 /\ 2 <= 2 /\ 1 .. 0 = {} /\ 1 .. 1 = {1}
  OBVIOUS
<1>4. IsPrefix(<<>>, <<ConnectTid, CreateStreamTid>>)
  BY <1>1, <1>2, <1>3, PrefixIs
<1>5. IsPrefix(<<ConnectTid>>, <<ConnectTid, CreateStreamTid>>)
  BY <1>1, <1>2, <1>3, PrefixIs
<1>6. IsPrefix(<<ConnectTid, CreateStreamTid>>, <<ConnectTid, CreateStreamTid>>)
  BY <1>1, <1>2, <1>3, PrefixIs
<1> QED
  BY <1>4, <1>5, <1>6

\* The server does not notice what the client does, but for what it is sent.
LEMMA ServerWaits ==
    ASSUME PeerInv, [Next]_vars, UNCHANGED serverVars,
           NEW a, NEW b, NEW e, NEW g, ServerTurn(a, b, e, g), UNCHANGED c2s
    PROVE  ServerTurn(a, b, e, g)'
<1>1. ServerScript' = ServerScript /\ ClientScript' = ClientScript
  BY Scripts DEF serverVars
<1> QED
  BY <1>1 DEF ServerTurn, Lists, ServerStage, ServerKnows, serverVars

\* The client sends the next message of its script.
LEMMA ServerIsSent ==
    ASSUME PeerInv, [Next]_vars, UNCHANGED serverVars,
           NEW a, NEW b, NEW e, NEW g, ServerTurn(a, b, e, g), Counters(a + 1, b, e, g),
           c2s' = Append(c2s, ClientScript[a + 1])
    PROVE  ServerTurn(a + 1, b, e, g)'
<1>1. ServerScript' = ServerScript /\ ClientScript' = ClientScript
  BY Scripts DEF serverVars
<1>2. a \in Nat /\ b \in Nat /\ b <= a
  BY DEF ServerTurn, Counters
<1>3. Interval(c2s', ClientScript, b, a + 1)
  BY <1>2, IntervalAppend DEF ServerTurn, Lists
<1> QED
  BY <1>1, <1>3 DEF ServerTurn, Lists, ServerStage, ServerKnows, serverVars

\* Opening: the first four messages of the client, each at its stage.
LEMMA OpeningTurn ==
    ASSUME PeerInv, TurnInv, ~pipelining, Opening
    PROVE  TurnInv'
<1> USE DEF Opening
<1>0. [Next]_vars
  BY DEF Next, Client
<1>1. cstage # "closed" /\ UNCHANGED serverVars
  OBVIOUS
<1>2. PICK a, b, e, g : ServerTurn(a, b, e, g) /\ \E f : ClientTurn(a, e, f)
  BY <1>1 DEF TurnInv, Turn, PeerInv, First
<1>3. PICK f : ClientTurn(a, e, f)
  BY <1>2
<1>4. /\ cstage # "reading" /\ results' = results /\ ~broken'
      /\ UNCHANGED <<s2c, hc, c_chunk_size>>
  BY DEF TurnInv
<1>5. /\ a + 1 \in 1 .. 4 /\ c2s' = Append(c2s, ClientScript[a + 1])
      /\ ClientStage(a + 1, f)'
  <2>0. ClientStage(a, f)
    BY <1>3 DEF ClientTurn
  <2>1. CASE cstage = "c0c1"
    <3>1. a = 0 /\ f = 0
      BY <2>0, <2>1 DEF ClientStage
    <3>2. a + 1 = 1 /\ 1 \in 1 .. 4
      BY ONLY <3>1
    <3>3. c2s' = Append(c2s, ClientScript[1])
      BY <2>1, ClientItems
    <3>4. ClientStage(1, 0)'
      BY <2>1, <3>2 DEF ClientStage
    <3> QED
      BY <3>1, <3>2, <3>3, <3>4
  <2>2. CASE cstage = "c2"
    <3>1. a = 1 /\ f = 2
      BY <2>0, <2>2 DEF ClientStage
    <3>2. a + 1 = 2 /\ 2 \in 1 .. 4 /\ 2 \in 2 .. 5
      BY ONLY <3>1
    <3>3. c2s' = Append(c2s, ClientScript[2])
      BY <2>2, ClientItems
    <3>4. ClientStage(2, 2)'
      BY <2>2, <3>2 DEF ClientStage
    <3> QED
      BY <3>1, <3>2, <3>3, <3>4
  <2>3. CASE cstage = "chunk size"
    <3>1. a = 2 /\ f = 2
      BY <2>0, <2>3 DEF ClientStage
    <3>2. a + 1 = 3 /\ 3 \in 1 .. 4 /\ 2 \in 2 .. 5
      BY ONLY <3>1
    <3>3. c2s' = Append(c2s, ClientScript[3])
      BY <2>3, ClientItems
    <3>4. ClientStage(3, 2)'
      BY <2>3, <3>2 DEF ClientStage
    <3> QED
      BY <3>1, <3>2, <3>3, <3>4
  <2>4. CASE cstage = "connect"
    <3>1. a = 3 /\ f = 2
      BY <2>0, <2>4 DEF ClientStage
    <3>2. a + 1 = 4 /\ 4 \in 1 .. 4 /\ 2 \in 2 .. 5
      BY ONLY <3>1
    <3>3. c2s' = Append(c2s, ClientScript[4])
      BY <2>4, ClientItems
    <3>4. ClientStage(4, 2)'
      BY <2>4, <3>2 DEF ClientStage
    <3> QED
      BY <3>1, <3>2, <3>3, <3>4
  <2> QED
    BY <2>0, <2>1, <2>2, <2>3, <2>4 DEF ClientStage
<1>6. Counters(a, b, e, g)
  BY <1>2 DEF ServerTurn
<1>7. Counters(a + 1, b, e, g)
  BY ONLY <1>5, <1>6 DEF Counters
<1>8. ServerTurn(a + 1, b, e, g)'
  BY <1>0, <1>1, <1>2, <1>5, <1>7, ServerIsSent
<1>9. ClientTurn(a + 1, e, f)'
  BY <1>0, <1>1, <1>3, <1>4, <1>5, Scripts DEF ClientTurn, ClientKnows, serverVars
<1> QED
  BY <1>4, <1>8, <1>9, TurnHolds

\* The next message that the client reads.
LEMMA NextAnswered ==
    ASSUME NEW a, NEW b, NEW e, NEW g, NEW f, Counters(a, b, e, g), ClientTurn(a, e, f),
           cstage = "reading", s2c # <<>>
    PROVE  /\ f + 1 \in 1 .. 8 /\ Head(s2c) = ServerScript[f + 1] /\ f + 1 \in 0 .. e
           /\ Interval(Tail(s2c), ServerScript, f + 1, e)
<1>1. e \in Nat /\ f \in Nat /\ e \in 0 .. 8
  BY DEF ClientTurn, Counters
<1>2. /\ f < e /\ Head(s2c) = ServerScript[f + 1]
      /\ Interval(Tail(s2c), ServerScript, f + 1, e)
  BY <1>1, IntervalTail DEF ClientTurn
<1>3. f + 1 \in 1 .. 8 /\ f + 1 \in 0 .. e
  BY ONLY <1>1, <1>2
<1> QED
  BY <1>2, <1>3

\* protocol_control_handler: the third, fourth or fifth answer; the fifth is the chunk size.
LEMMA ControlTurn ==
    ASSUME PeerInv, TurnInv, ~pipelining, protocol_control_handler
    PROVE  TurnInv'
<1> USE DEF protocol_control_handler, Arrived
<1>0. [Next]_vars
  BY DEF Next, Client
<1>1. cstage = "reading" /\ s2c # <<>> /\ UNCHANGED serverVars
  OBVIOUS
<1>2. PICK a, b, e, g : ServerTurn(a, b, e, g) /\ \E f : ClientTurn(a, e, f)
  BY <1>1 DEF TurnInv, Turn, PeerInv, First
<1>3. PICK f : ClientTurn(a, e, f)
  BY <1>2
<1>4. /\ f + 1 \in 1 .. 8 /\ Head(s2c) = ServerScript[f + 1] /\ f + 1 \in 0 .. e
      /\ Interval(Tail(s2c), ServerScript, f + 1, e)
  BY <1>1, <1>2, <1>3, NextAnswered DEF ServerTurn
<1>5. /\ f + 1 = 3 \/ f + 1 = 4 \/ f + 1 = 5
      /\ f + 1 = 5 => c_chunk_size' = "local"
  BY <1>4, WhichOfServer, ZenonT(60)
<1>6. f \in 0 .. e
  BY <1>3 DEF ClientTurn
<1>7. /\ f \in 2 .. 4 /\ f + 1 \in 2 .. 5 /\ f + 1 <= 5 /\ f + 1 # 6 /\ ~(f + 1 >= 7)
      /\ f <= 5 /\ f >= 2 /\ f # 6 /\ f \notin 7 .. 8 /\ (f + 1 >= 5 => f + 1 = 5)
  BY ONLY <1>5, <1>6
<1>8. a = 4
  BY <1>1, <1>3, <1>7 DEF ClientTurn, ClientStage
<1>9. ClientKnows(f + 1)' /\ ClientStage(a, f + 1)'
  BY <1>1, <1>3, <1>5, <1>7, <1>8 DEF ClientTurn, ClientKnows, ClientStage, serverVars
<1>10. ClientTurn(a, e, f + 1)'
  BY <1>0, <1>1, <1>4, <1>9, Scripts DEF ClientTurn, serverVars
<1>11. ServerTurn(a, b, e, g)'
  BY <1>0, <1>1, <1>2, ServerWaits
<1> QED
  BY <1>10, <1>11, TurnHolds DEF TurnInv

\* cmd_msg_on_status_handler: the last answer.
LEMMA StatusTurn ==
    ASSUME PeerInv, TurnInv, ~pipelining, cmd_msg_on_status_handler
    PROVE  TurnInv'
<1> USE DEF cmd_msg_on_status_handler, Arrived
<1>0. [Next]_vars
  BY DEF Next, Client
<1>1. cstage = "reading" /\ s2c # <<>> /\ UNCHANGED serverVars
  OBVIOUS
<1>2. PICK a, b, e, g : ServerTurn(a, b, e, g) /\ \E f : ClientTurn(a, e, f)
  BY <1>1 DEF TurnInv, Turn, PeerInv, First
<1>3. PICK f : ClientTurn(a, e, f)
  BY <1>2
<1>4. /\ f + 1 \in 1 .. 8 /\ Head(s2c) = ServerScript[f + 1] /\ f + 1 \in 0 .. e
      /\ Interval(Tail(s2c), ServerScript, f + 1, e)
  BY <1>1, <1>2, <1>3, NextAnswered DEF ServerTurn
<1>5. f + 1 = 8
  BY <1>4, WhichOfServer, ZenonT(30)
<1>6. f \in 0 .. e
  BY <1>3 DEF ClientTurn
<1>7. /\ f >= 7 /\ f >= 5 /\ f >= 2 /\ f # 6 /\ f \notin 2 .. 5 /\ f # 2 /\ f # 0
      /\ f + 1 \in 7 .. 8 /\ f + 1 # 6 /\ ~(f + 1 <= 5)
  BY ONLY <1>5, <1>6
<1>8. a = 6
  BY <1>1, <1>3, <1>7 DEF ClientTurn, ClientStage
<1>9. ClientKnows(f + 1)' /\ ClientStage(a, f + 1)'
  BY <1>1, <1>3, <1>7, <1>8 DEF ClientTurn, ClientKnows, ClientStage, serverVars
<1>10. ClientTurn(a, e, f + 1)'
  BY <1>0, <1>1, <1>4, <1>9, Scripts DEF ClientTurn, serverVars
<1>11. ServerTurn(a, b, e, g)'
  BY <1>0, <1>1, <1>2, ServerWaits
<1> QED
  BY <1>10, <1>11, TurnHolds DEF TurnInv

\* do_read_s0s1s2: the first two answers; s2 repeats the c1 of the session, so that c2 repeats
\* s1.
LEMMA ReadS0S1S2Turn ==
    ASSUME PeerInv, TurnInv, ~pipelining, do_read_s0s1s2
    PROVE  TurnInv'
<1> USE DEF do_read_s0s1s2
<1>0. [Next]_vars
  BY DEF Next, Client
<1>1. cstage = "s0s1s2" /\ UNCHANGED serverVars
  OBVIOUS
<1>2. PICK a, b, e, g : ServerTurn(a, b, e, g) /\ \E f : ClientTurn(a, e, f)
  BY <1>1 DEF TurnInv, Turn, PeerInv, First
<1>3. PICK f : ClientTurn(a, e, f)
  BY <1>2
<1>4. a = 1 /\ f = 0
  BY <1>1, <1>3 DEF ClientTurn, ClientStage
<1>5. Counters(a, b, e, g)
  BY <1>2 DEF ServerTurn
<1>6. e \in Nat
  BY <1>5 DEF Counters
<1>7. /\ e >= 2 /\ s2c[1] = ServerScript[1] /\ s2c[2] = ServerScript[2]
      /\ Interval(s2c', ServerScript, 2, e)
  BY <1>3, <1>4, <1>6, IntervalRest DEF ClientTurn
<1>8. s2c[1].block = hs.s0s1_ /\ s2c[2].block = hs.s2_
  BY <1>7, ServerBlocks
<1>9. b # 0 /\ g # 0
  BY ONLY <1>5, <1>7 DEF Counters, Started
<1>10. sstage \in {"s2", "c2", "reading"}
  BY <1>2, <1>9 DEF ServerTurn, ServerStage
<1>11. Proves(hs.s2_, hc.c0c1_, hs.s0s1_) /\ hc.c0c1_.second = 0
  BY <1>10 DEF PeerInv, Blocks
<1>12. hs.s2_.rest = hc.c0c1_.rest /\ hs.s2_.digest = hc.c0c1_.digest
  BY <1>11 DEF Proves, PeerInv, Blocks, ClientBlocks
<1>13. hc' = [hc EXCEPT !.c2_ = hs.s0s1_]
  BY <1>8, <1>12 DEF handle_s0s1s2
<1>14. hc'.c2_ = hs.s0s1_
  BY <1>13 DEF PeerInv, Blocks, IsC
<1>15. ServerTurn(a, b, e, g)'
  BY <1>0, <1>1, <1>2, ServerWaits
<1>16. 2 \in 0 .. e
  BY ONLY <1>6, <1>7
<1>17. f <= 5 /\ 2 <= 5 /\ ~(2 >= 5) /\ 2 # 6 /\ ~(2 >= 7)
  BY ONLY <1>4
<1>18. ClientKnows(2)' /\ ClientStage(a, 2)'
  BY <1>3, <1>4, <1>14, <1>17 DEF ClientTurn, ClientKnows, ClientStage, serverVars
<1>19. ClientTurn(a, e, 2)'
  BY <1>0, <1>7, <1>16, <1>18, Scripts DEF ClientTurn, serverVars
<1> QED
  BY <1>15, <1>19, TurnHolds DEF TurnInv

\* cmd_msg_result_handler: the sixth or the seventh answer, each with its own transaction id
\* and after the chunk size; the next command of the script follows it.
LEMMA ResultTurn ==
    ASSUME PeerInv, TurnInv, ~pipelining, cmd_msg_result_handler
    PROVE  TurnInv'
<1> USE DEF cmd_msg_result_handler, Arrived
<1>0. [Next]_vars
  BY DEF Next, Client
<1>1. cstage = "reading" /\ s2c # <<>> /\ UNCHANGED serverVars
  OBVIOUS
<1>2. PICK a, b, e, g : ServerTurn(a, b, e, g) /\ \E f : ClientTurn(a, e, f)
  BY <1>1 DEF TurnInv, Turn, PeerInv, First
<1>3. PICK f : ClientTurn(a, e, f)
  BY <1>2
<1>4. /\ f + 1 \in 1 .. 8 /\ Head(s2c) = ServerScript[f + 1] /\ f + 1 \in 0 .. e
      /\ Interval(Tail(s2c), ServerScript, f + 1, e)
  BY <1>1, <1>2, <1>3, NextAnswered DEF ServerTurn
<1>5. f + 1 = 6 \/ f + 1 = 7
  BY <1>4, WhichOfServer, ZenonT(60)
<1>6. Counters(a, b, e, g) /\ f \in 0 .. e
  BY <1>2, <1>3 DEF ServerTurn, ClientTurn
<1>9. ConnectTid # CreateStreamTid
  BY ONLY TRUE DEF ConnectTid, CreateStreamTid
<1>10. /\ Append(<<>>, ConnectTid) = <<ConnectTid>>
       /\ Append(<<ConnectTid>>, CreateStreamTid) = <<ConnectTid, CreateStreamTid>>
  <2>1. ConnectTid \in Nat /\ CreateStreamTid \in Nat
    BY ONLY TRUE DEF ConnectTid, CreateStreamTid
  <2>2. Append(<<ConnectTid>>, CreateStreamTid) = <<ConnectTid, CreateStreamTid>>
    BY ONLY <2>1, AppendTwo
  <2> QED
    BY <2>2, LoneMessage
<1>7. CASE f + 1 = 6
  <2>1. /\ f = 5 /\ f \in 2 .. 5 /\ f >= 5 /\ f >= 2 /\ f <= 5 /\ f # 6 /\ f \notin 7 .. 8
        /\ ~(6 <= 5) /\ ~(6 >= 7) /\ 6 >= 5 /\ 6 >= 2
    BY ONLY <1>6, <1>7
  <2>2. a = 4
    BY <1>1, <1>3, <2>1 DEF ClientTurn, ClientStage
  <2>3. a + 1 = 5 /\ Counters(a + 1, b, e, g)
    BY ONLY <1>4, <1>6, <1>7, <2>2 DEF Counters
  <2>4. c_chunk_size = "local" /\ results = <<>>
    BY <1>3, <2>1 DEF ClientTurn, ClientKnows
  <2>5. Head(s2c).tid = ConnectTid /\ ConnectTid # CreateStreamTid
    BY <1>4, <1>7, <1>9, ServerItems
  <2>6. c2s' = Append(c2s, ClientScript[a + 1])
    BY <2>3, <2>5, ClientItems
  <2>7. results' = <<ConnectTid>>
    BY <2>4, <2>5, <1>10
  <2>8. ~broken'
    BY <2>4 DEF Framed, TurnInv
  <2>9. ServerTurn(a + 1, b, e, g)'
    BY <1>0, <1>1, <1>2, <2>3, <2>6, ServerIsSent
  <2>10. ClientKnows(6)' /\ ClientStage(5, 6)'
    BY <1>1, <1>3, <2>1, <2>4, <2>7 DEF ClientTurn, ClientKnows, ClientStage, serverVars
  <2>11. ClientTurn(a + 1, e, 6)'
    BY <1>0, <1>1, <1>4, <1>7, <2>3, <2>10, Scripts DEF ClientTurn, serverVars
  <2>12. Turn'
    BY <2>9, <2>11 DEF Turn
  <2> QED
    BY <2>7, <2>8, <2>12, ResultsArePrefixes DEF TurnInv
<1>8. CASE f + 1 = 7
  <2>1. /\ f = 6 /\ f \notin 2 .. 5 /\ f >= 5 /\ f >= 2 /\ f # 2 /\ f # 0 /\ f \notin 7 .. 8
        /\ ~(7 <= 5) /\ 7 # 6 /\ 7 >= 5 /\ 7 >= 2 /\ 7 >= 7 /\ 7 \in 7 .. 8
    BY ONLY <1>6, <1>8
  <2>2. a = 5
    BY <1>1, <1>3, <2>1 DEF ClientTurn, ClientStage
  <2>3. a + 1 = 6 /\ Counters(a + 1, b, e, g)
    BY ONLY <1>4, <1>6, <1>8, <2>2 DEF Counters
  <2>4. c_chunk_size = "local" /\ results = <<ConnectTid>>
    BY <1>3, <2>1 DEF ClientTurn, ClientKnows
  <2>5. Head(s2c).tid = CreateStreamTid /\ ConnectTid # CreateStreamTid
    BY <1>4, <1>8, <1>9, ServerItems
  <2>6. c2s' = Append(c2s, ClientScript[a + 1])
    BY <2>3, <2>5, ClientItems
  <2>7. results' = <<ConnectTid, CreateStreamTid>>
    BY <2>4, <2>5, <1>10
  <2>8. ~broken'
    BY <2>4 DEF Framed, TurnInv
  <2>9. ServerTurn(a + 1, b, e, g)'
    BY <1>0, <1>1, <1>2, <2>3, <2>6, ServerIsSent
  <2>10. ClientKnows(7)' /\ ClientStage(6, 7)'
    BY <1>1, <1>3, <2>1, <2>4, <2>7 DEF ClientTurn, ClientKnows, ClientStage, serverVars
  <2>11. ClientTurn(a + 1, e, 7)'
    BY <1>0, <1>1, <1>4, <1>8, <2>3, <2>10, Scripts DEF ClientTurn, serverVars
  <2>12. Turn'
    BY <2>9, <2>11 DEF Turn
  <2> QED
    BY <2>7, <2>8, <2>12, ResultsArePrefixes DEF TurnInv
<1> QED
  BY <1>5, <1>7, <1>8

\* Leave: the server goes on with what it has been sent.
LEMMA LeaveTurn ==
    ASSUME PeerInv, TurnInv, ~pipelining, Leave
    PROVE  TurnInv'
<1> USE DEF Leave
<1>0. [Next]_vars
  BY DEF Next
<1>1. UNCHANGED serverVars /\ cstage' = "closed"
  OBVIOUS
<1>2. CASE sstage # "closed"
  <2>1. PICK a, b, e, g : ServerTurn(a, b, e, g)
    BY <1>2 DEF TurnInv, Turn
  <2>2. ServerTurn(a, b, e, g)'
    BY <1>0, <1>1, <2>1, ServerWaits
  <2> QED
    BY <1>1, <2>2 DEF TurnInv, Turn
<1>3. CASE sstage = "closed"
  BY <1>3 DEF TurnInv, serverVars
<1> QED
  BY <1>2, <1>3

\* Nothing has been said.
LEMMA TurnInit ==
    ASSUME Init
    PROVE  TurnInv
<1>1. Counters(0, 0, 0, 0) /\ Started(0, 0) = 0 /\ 0 \in Nat
  BY DEF Counters, Started
<1>2. Interval(<<>>, ClientScript, 0, 0) /\ Interval(<<>>, ServerScript, 0, 0)
  BY <1>1, IntervalEmpty
<1>3. Lists(0, 0, 0, 0)
  BY <1>1, <1>2 DEF Lists, Init
<1>4. ~(0 >= 3) /\ 0 # 4 /\ ~(0 > 2) /\ ~(0 >= 5) /\ 0 # 6 /\ ~(0 >= 7) /\ ~(0 >= 2) /\ 0 \in 0 .. 0
  BY ONLY TRUE
<1>5. ServerTurn(0, 0, 0, 0)
  BY <1>1, <1>3, <1>4 DEF ServerTurn, ServerStage, ServerKnows, Init
<1>6. ClientTurn(0, 0, 0)
  BY <1>2, <1>4 DEF ClientTurn, ClientStage, ClientKnows, Init
<1>7. Turn
  BY <1>5, <1>6 DEF Turn
<1> QED
  BY <1>7, ResultsArePrefixes DEF TurnInv, Init

\* Every step keeps the invariant.
LEMMA TurnStep ==
    ASSUME PeerInv, TurnInv, [Next]_vars
    PROVE  TurnInv'
<1>1. CASE pipelining
  BY <1>1, StillListed DEF TurnInv
<1>2. CASE ~pipelining
  <2>1. CASE Server
    BY <1>2, <2>1, ReadC0C1Turn, ReadC2Turn, SetChunkSizeTurn, ConnectTurn, CreateStreamTurn,
       PublishTurn, PlayTurn, WriteFinishesTurn, OnWrittenTurn, EofTurn DEF Server
  <2>2. CASE Client
    BY <1>2, <2>2, OpeningTurn, ReadS0S1S2Turn, ControlTurn, ResultTurn, StatusTurn DEF Client
  <2>3. CASE Leave
    BY <1>2, <2>3, LeaveTurn
  <2>4. CASE UNCHANGED vars
    BY <1>2, <2>4, TurnStutter
  <2> QED
    BY <2>1, <2>2, <2>3, <2>4 DEF Next
<1> QED
  BY <1>1, <1>2

\* A peer that waits and the server go through their two scripts, message by message, in
\* every interleaving of their handlers and completions.
THEOREM TurnInvariant == Spec => []TurnInv
<1>1. Init => TurnInv
  BY TurnInit
<1>2. PeerInv /\ TurnInv /\ [Next]_vars => TurnInv'
  BY TurnStep
<1> QED
  BY <1>1, <1>2, PeerInvariant, PTL DEF Spec

\* A peer that waits reads its two results in the order of its commands, each with
\* the transaction id of its own (curr_tid_, cmd_msg_result_handler).
THEOREM ResultsInOrder == Spec => []AnswersMatch
<1>1. TurnInv => AnswersMatch
  BY DEF TurnInv, AnswersMatch
<1> QED
  BY <1>1, TurnInvariant, PTL

\* With a peer that waits, one write_buf_ is enough for every answer, and a message
\* longer than a chunk is read after the chunk size of its writer (do_write_chunk_size,
\* set_chunk_size_handler).
THEOREM NothingOverwritten == Spec => []NothingBroken
<1>1. TurnInv => NothingBroken
  BY DEF TurnInv, NothingBroken
<1> QED
  BY <1>1, TurnInvariant, PTL

\* Both sides of the handshake prove that they have read the other's block: the server
\* to any peer, a session of yet to any server of yet (create_s2, handle_s0s1s2).
THEOREM HandshakeIsAnswered == Spec => []HandshakeAnswered
<1>1. PeerInv /\ TurnInv => HandshakeAnswered
  <2> SUFFICES ASSUME PeerInv, TurnInv
               PROVE  HandshakeAnswered
    OBVIOUS
  <2>1. sstage \in {"s2", "c2", "reading"} /\ hc.version = RTMP_VERSION =>
          Proves(hs.s2_, hc.c0c1_, hs.s0s1_)
    BY DEF PeerInv, Blocks
  <2>2. ASSUME ~pipelining, cstage \notin {"c0c1", "s0s1s2", "closed"}
        PROVE  hc.c2_ = hs.s0s1_
    <3>1. PICK a, e, f : ClientTurn(a, e, f)
      BY <2>2 DEF TurnInv, Turn, PeerInv, First
    <3>2. f >= 2
      <4>1. f = 2 \/ f \in 2 .. 5 \/ f = 6 \/ f \in 7 .. 8
        BY <2>2, <3>1 DEF ClientTurn, ClientStage
      <4> QED
        BY ONLY <4>1
    <3> QED
      BY <3>1, <3>2 DEF ClientTurn, ClientKnows
  <2> QED
    BY <2>1, <2>2 DEF HandshakeAnswered
<1> QED
  BY <1>1, PeerInvariant, TurnInvariant, PTL
=============================================================================
