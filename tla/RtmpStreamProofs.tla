-------------------------- MODULE RtmpStreamProofs --------------------------
(***************************************************************************)
(* Theorems about RtmpStream, for any chunk streams, sizes, messages and   *)
(* timestamps, with a writer that has none of the Habits.                  *)
(*                                                                         *)
(* The invariant, StreamInv, says that what is on its way is a path: chunk *)
(* by chunk it takes the reader, from where it is, to the streams, the     *)
(* chunk size and the number of messages that the writer has.  A step of   *)
(* the reader takes the path up at its beginning, one of the writer makes  *)
(* it longer at its end.                                                   *)
(***************************************************************************)
EXTENDS RtmpStream, Integers, WellFoundedInduction, SequenceTheorems, TLAPS

-----------------------------------------------------------------------------
(* Induction: the library's theorem takes a predicate as a parameter,      *)
(* which the provers cannot instantiate; with a set in its place they can. *)

\* The order of the naturals, as a relation.
Below == {ss \in Nat \X Nat : ss[1] < ss[2]}

\* It is well founded.
LEMMA BelowWellFounded == IsWellFoundedOn(Below, Nat)
BY NatLessThanWellFounded DEF OpToRel, Below

\* A set of naturals that is not empty has a least member.
LEMMA LeastNat ==
    ASSUME NEW S, S \subseteq Nat, S # {}
    PROVE  \E m \in S : \A k \in S : m <= k
<1>1. PICK m \in S : \A k \in S : ~(<<k, m>> \in Below)
  BY BelowWellFounded, WFMin
<1>2. ASSUME NEW k \in S PROVE m <= k
  <2>1. <<k, m>> \in Nat \X Nat /\ ~(<<k, m>> \in Below)
    BY <1>1
  <2>2. ~(k < m)
    BY <2>1 DEF Below
  <2> QED
    BY <2>2
<1> QED
  BY <1>2

\* A set that has 0, and the successor of each of its members, has every number.
LEMMA Inductive ==
    ASSUME NEW S, 0 \in S, \A n \in Nat : n \in S => n + 1 \in S
    PROVE  \A n \in Nat : n \in S
<1> DEFINE T == {n \in Nat : n \notin S}
<1> SUFFICES ASSUME T # {} PROVE FALSE
  OBVIOUS
<1>1. T \subseteq Nat
  OBVIOUS
<1>2. PICK m \in T : \A k \in T : m <= k
  <2> HIDE DEF T
  <2> QED
    BY <1>1, LeastNat
<1>3. m \in Nat /\ m \notin S /\ m # 0
  OBVIOUS
<1>4. m - 1 \in Nat /\ ~(m <= m - 1)
  BY <1>3
<1>5. m - 1 \in S
  BY <1>2, <1>4
<1>6. (m - 1) + 1 \in S
  BY <1>4, <1>5
<1>7. (m - 1) + 1 = m
  BY <1>3
<1> QED
  BY <1>3, <1>6, <1>7

-----------------------------------------------------------------------------
(* What is on its way, and the states a reader takes over it *)

\* The values of the fields, as sets.
MsgTypes == {"none", "av", "chunk size", "same"}
HeadKind == {"head"}
ExtKind == {"ext"}
ByteKind == {"byte"}

\* The parts of chunks, and the streams of a reader, as types.
Heads == [k : HeadKind, fmt : 0 .. 3, csid : Csids, ts : Nat, len : Nat, type : MsgTypes]
Exts  == [k : ExtKind, ts : Nat]
Bytes == [k : ByteKind, id : Nat, i : Nat]
Part  == Heads \cup Exts \cup Bytes

Stream == [timestamp : Nat, abs : Nat, len : Nat, type : MsgTypes, msg : Seq(Bytes)]
Chunk  == [head : Heads, ext : Seq(Exts), body : Seq(Bytes)]

\* A chunk, as parts on the wire.
PartsOf(ch) == <<ch.head>> \o (ch.ext \o ch.body)

\* A message the writer has finished.
Message == [type : MsgTypes, ts : Nat, msg : Seq(Bytes), exact : BOOLEAN]

\* The sizes a chunk may have.
Sizes == {DefaultSize, LocalSize}

\* A reader between two chunks: what it has not read, its streams, the size of
\* chunks it goes by and how many messages it has given to the callback.
Node == [rest : Seq(Part), str : [Csids -> Stream], size : Sizes, done : Nat]

\* The header of ch is one the reader takes in whole, and what the stream is then.
HeaderFits(s, ch) ==
    IF MessageHeader(s, ch.head).timestamp = MaxTs
    THEN Len(ch.ext) = 1 /\ ch.head.fmt = 0
    ELSE ch.ext = <<>>

\* What a stream is once the header of ch is read.
Announced(s, ch) ==
    IF ch.ext = <<>> THEN MessageHeader(s, ch.head)
    ELSE ExtendedTimestamp(MessageHeader(s, ch.head), ch.head.fmt, ch.ext[1])

\* needed_size, of any stream.
Needed(s, n) ==
    IF s.len <= n THEN s.len
    ELSE IF Len(s.msg) > s.len THEN n
    ELSE Least(s.len - Len(s.msg), n)

\* The bytes body are those the reader waits for, and no more than the message has.
BodyFits(s, n, body) ==
    /\ Len(body) = Needed(s, n)
    /\ s.len > 0
    /\ Len(s.msg) + Len(body) <= s.len

\* With body the message is whole.
Completes(s, body) == Len(s.msg) + Len(body) = s.len

\* Message k of the sequence f of finished messages is the one s ends with body.
Tells(f, k, s, body) ==
    /\ k \in 1 .. Len(f)
    /\ f[k].msg = s.msg \o body
    /\ f[k].exact => f[k].ts = s.abs
    /\ s.type = "chunk size" => Head(s.msg \o body).id = LocalSize

\* The stream with body in it; a message that is whole is taken out.
StreamAfter(s, body) ==
    [s EXCEPT !.msg = IF Completes(s, body) THEN <<>> ELSE s.msg \o body]

\* With streams str, size n and k messages done, the bytes body of stream c lead
\* to the reader b.
BodyLink(f, str, n, k, c, body, b) ==
    /\ BodyFits(str[c], n, body)
    /\ b.str = [str EXCEPT ![c] = StreamAfter(str[c], body)]
    /\ Completes(str[c], body) =>
         /\ b.done = k + 1
         /\ Tells(f, k + 1, str[c], body)
         /\ b.size = IF str[c].type = "chunk size" THEN LocalSize ELSE n
    /\ ~Completes(str[c], body) => b.done = k /\ b.size = n

\* The streams once the header of ch is read.
HeaderRead(str, ch) ==
    [str EXCEPT ![ch.head.csid] = Announced(str[ch.head.csid], ch)]

\* The chunk ch takes the reader a to the reader b.
ChunkLink(f, a, ch, b) ==
    /\ a.rest = PartsOf(ch) \o b.rest
    /\ HeaderFits(a.str[ch.head.csid], ch)
    /\ BodyLink(f, HeaderRead(a.str, ch), a.size, a.done, ch.head.csid, ch.body, b)

\* The n chunks y take a reader through x[0], ..., x[n], which has read everything.
Chain(f, n, x, y) ==
    /\ n \in Nat
    /\ x \in [0 .. n -> Node]
    /\ y \in [1 .. n -> Chunk]
    /\ \A i \in 1 .. n : ChunkLink(f, x[i - 1], y[i], x[i])
    /\ x[n].rest = <<>>

\* Chunk after chunk, the reader a becomes b, with nothing left to read.
Path(f, a, b) ==
    \E n, x, y : Chain(f, n, x, y) /\ x[0] = a /\ x[n] = b

\* The reader a with more to read.
Longer(a, parts) == [a EXCEPT !.rest = a.rest \o parts]

-----------------------------------------------------------------------------
\* A sequence of bytes is one of parts.
LEMMA BytesAreParts == Seq(Bytes) \subseteq Seq(Part)
<1>1. Bytes \subseteq Part
  BY DEF Part
<1> QED
  BY <1>1, SeqMonotonic

\* So is each component of a chunk.
LEMMA ChunkParts ==
    ASSUME NEW ch \in Chunk
    PROVE  <<ch.head>> \in Seq(Part) /\ ch.ext \in Seq(Part) /\ ch.body \in Seq(Part)
<1>1. ch.ext \in Seq(Exts) /\ ch.body \in Seq(Bytes) /\ ch.head \in Heads
  BY DEF Chunk
<1>2. Exts \subseteq Part /\ Heads \subseteq Part
  BY DEF Part
<1>3. Seq(Exts) \subseteq Seq(Part)
  BY <1>2, SeqMonotonic
<1> QED
  BY <1>1, <1>2, <1>3, BytesAreParts

\* A chunk has a part at least.
LEMMA PartsOfType ==
    ASSUME NEW ch \in Chunk
    PROVE  PartsOf(ch) \in Seq(Part) /\ PartsOf(ch) # <<>>
<1>1. <<ch.head>> \in Seq(Part) /\ ch.ext \in Seq(Part) /\ ch.body \in Seq(Part)
  BY ChunkParts
<1> DEFINE s == <<ch.head>>
           t == ch.ext \o ch.body
<1>2. t \in Seq(Part)
  BY <1>1, ConcatProperties
<1>3. Len(s) = 1
  OBVIOUS
<1>4. PartsOf(ch) = s \o t
  BY DEF PartsOf
<1> HIDE DEF s, t
<1>5. s \o t \in Seq(Part) /\ Len(s \o t) = Len(s) + Len(t) /\ Len(t) \in Nat
  BY <1>1, <1>2, ConcatProperties, LenProperties DEF s
<1>6. Len(s \o t) # 0
  BY <1>3, <1>5
<1> QED
  BY <1>4, <1>5, <1>6, Len(<<>>) = 0

\* A path is between readers, and its end has read everything.
LEMMA PathType ==
    ASSUME NEW f, NEW a, NEW b, Path(f, a, b)
    PROVE  a \in Node /\ b \in Node /\ b.rest = <<>>
BY DEF Path, Chain

\* The path of no chunks.
LEMMA PathEmpty ==
    ASSUME NEW f, NEW a \in Node, a.rest = <<>>
    PROVE  Path(f, a, a)
<1> DEFINE x == [i \in 0 .. 0 |-> a]
           y == [i \in 1 .. 0 |-> a]
<1>1. Chain(f, 0, x, y)
  BY DEF Chain
<1>2. x[0] = a
  OBVIOUS
<1> HIDE DEF x, y
<1> QED
  BY <1>1, <1>2 DEF Path

\* A path that is not empty has a first chunk.
LEMMA PathFirst ==
    ASSUME NEW f, NEW a, NEW b, Path(f, a, b), a.rest # <<>>
    PROVE  \E ch \in Chunk, m \in Node : ChunkLink(f, a, ch, m) /\ Path(f, m, b)
<1>1. PICK n, x, y : Chain(f, n, x, y) /\ x[0] = a /\ x[n] = b
  BY DEF Path
<1>2. n \in Nat /\ n # 0
  BY <1>1 DEF Chain
<1>3. y[1] \in Chunk /\ x[1] \in Node /\ ChunkLink(f, a, y[1], x[1])
  BY <1>1, <1>2 DEF Chain
<1> DEFINE u == [i \in 0 .. n - 1 |-> x[i + 1]]
           v == [i \in 1 .. n - 1 |-> y[i + 1]]
<1>4. Chain(f, n - 1, u, v)
  <2>1. n - 1 \in Nat /\ u \in [0 .. n - 1 -> Node] /\ v \in [1 .. n - 1 -> Chunk]
    BY <1>1, <1>2 DEF Chain
  <2>2. ASSUME NEW i \in 1 .. n - 1 PROVE ChunkLink(f, u[i - 1], v[i], u[i])
    <3>1. u[i - 1] = x[i] /\ v[i] = y[i + 1] /\ u[i] = x[i + 1] /\ i + 1 \in 1 .. n
      BY <1>2
    <3>2. ChunkLink(f, x[(i + 1) - 1], y[i + 1], x[i + 1])
      BY <1>1, <3>1 DEF Chain
    <3>3. (i + 1) - 1 = i
      OBVIOUS
    <3> QED
      BY <3>1, <3>2, <3>3
  <2>3. u[n - 1].rest = <<>>
    BY <1>1, <1>2 DEF Chain
  <2> HIDE DEF u, v
  <2> QED
    BY <2>1, <2>2, <2>3 DEF Chain
<1>5. u[0] = x[1] /\ u[n - 1] = b
  BY <1>1, <1>2
<1>6. Path(f, x[1], b)
  <2> HIDE DEF u, v
  <2> QED
    BY <1>4, <1>5 DEF Path
<1> QED
  BY <1>3, <1>6

\* A chunk before a path.
LEMMA PathBefore ==
    ASSUME NEW f, NEW a \in Node, NEW b, NEW ch \in Chunk, NEW m,
           ChunkLink(f, a, ch, m), Path(f, m, b)
    PROVE  Path(f, a, b)
<1>1. PICK n, x, y : Chain(f, n, x, y) /\ x[0] = m /\ x[n] = b
  BY DEF Path
<1>2. n \in Nat
  BY <1>1 DEF Chain
<1> DEFINE u == [i \in 0 .. n + 1 |-> IF i = 0 THEN a ELSE x[i - 1]]
           v == [i \in 1 .. n + 1 |-> IF i = 1 THEN ch ELSE y[i - 1]]
<1>3. Chain(f, n + 1, u, v)
  <2>1. n + 1 \in Nat /\ u \in [0 .. n + 1 -> Node] /\ v \in [1 .. n + 1 -> Chunk]
    BY <1>1, <1>2 DEF Chain
  <2>2. ASSUME NEW i \in 1 .. n + 1 PROVE ChunkLink(f, u[i - 1], v[i], u[i])
    <3>1. CASE i = 1
      <4>1. u[i - 1] = a /\ v[i] = ch /\ u[i] = m
        BY <1>1, <1>2, <3>1
      <4> QED
        BY <4>1
    <3>2. CASE i # 1
      <4>1. u[i - 1] = x[(i - 1) - 1] /\ v[i] = y[i - 1] /\ u[i] = x[i - 1] /\ i - 1 \in 1 .. n
        BY <1>2, <3>2
      <4>2. ChunkLink(f, x[(i - 1) - 1], y[i - 1], x[i - 1])
        BY <1>1, <4>1 DEF Chain
      <4> QED
        BY <4>1, <4>2
    <3> QED
      BY <3>1, <3>2
  <2>3. u[n + 1].rest = <<>>
    BY <1>1, <1>2 DEF Chain
  <2> HIDE DEF u, v
  <2> QED
    BY <2>1, <2>2, <2>3 DEF Chain
<1>4. u[0] = a /\ u[n + 1] = b
  BY <1>1, <1>2
<1> HIDE DEF u, v
<1> QED
  BY <1>3, <1>4 DEF Path

\* What comes after a chunk does not change where it leads.
LEMMA LongerLink ==
    ASSUME NEW f, NEW a \in Node, NEW b \in Node, NEW ch \in Chunk, NEW parts \in Seq(Part),
           ChunkLink(f, a, ch, b)
    PROVE  ChunkLink(f, Longer(a, parts), ch, Longer(b, parts))
<1>1. Longer(a, parts).rest = a.rest \o parts /\ Longer(b, parts).rest = b.rest \o parts
  BY DEF Longer, Node
<1>2. /\ Longer(a, parts).str = a.str /\ Longer(b, parts).str = b.str
      /\ Longer(a, parts).size = a.size /\ Longer(b, parts).size = b.size
      /\ Longer(a, parts).done = a.done /\ Longer(b, parts).done = b.done
  BY DEF Longer, Node
<1>3. a.rest \o parts = PartsOf(ch) \o (b.rest \o parts)
  <2>1. PartsOf(ch) \in Seq(Part) /\ b.rest \in Seq(Part) /\ a.rest = PartsOf(ch) \o b.rest
    BY PartsOfType DEF Node, ChunkLink
  <2> DEFINE p == PartsOf(ch)
             q == b.rest
  <2>2. p \in Seq(Part) /\ q \in Seq(Part) /\ a.rest = p \o q
    BY <2>1
  <2> HIDE DEF p, q
  <2>3. (p \o q) \o parts = p \o (q \o parts)
    BY <2>2, ConcatAssociative, SMTT(30)
  <2> QED
    BY <2>2, <2>3 DEF p, q
<1>4. HeaderFits(Longer(a, parts).str[ch.head.csid], ch)
  BY <1>2 DEF ChunkLink
<1>5. BodyLink(f, HeaderRead(a.str, ch), a.size, a.done, ch.head.csid, ch.body, b)
  BY DEF ChunkLink
<1>6. BodyLink(f, HeaderRead(a.str, ch), a.size, a.done, ch.head.csid, ch.body, Longer(b, parts))
  BY <1>2, <1>5 DEF BodyLink
<1> HIDE DEF Longer
<1> QED
  BY <1>1, <1>2, <1>3, <1>4, <1>6 DEF ChunkLink

\* What Longer does to each field.
LEMMA LongerType ==
    ASSUME NEW a \in Node, NEW parts \in Seq(Part)
    PROVE  /\ Longer(a, parts) \in Node
           /\ Longer(a, parts).rest = a.rest \o parts
           /\ Longer(a, parts).str = a.str
           /\ Longer(a, parts).size = a.size
           /\ Longer(a, parts).done = a.done
<1> DEFINE r == a.rest
<1>1. r \in Seq(Part)
  BY DEF Node
<1>2. r \o parts \in Seq(Part)
  <2> HIDE DEF r
  <2> QED
    BY <1>1, ConcatProperties
<1> QED
  BY <1>2 DEF Longer, Node

\* A path is extended at its end by one more chunk.
LEMMA PathAppend ==
    ASSUME NEW f, NEW a, NEW b, Path(f, a, b),
           NEW ch \in Chunk, NEW z \in Node, z.rest = <<>>,
           ChunkLink(f, Longer(b, PartsOf(ch)), ch, z)
    PROVE  Path(f, Longer(a, PartsOf(ch)), z)
<1>1. PICK n, x, y : Chain(f, n, x, y) /\ x[0] = a /\ x[n] = b
  BY DEF Path
<1>2. n \in Nat
  BY <1>1 DEF Chain
<1>3. PartsOf(ch) \in Seq(Part)
  BY PartsOfType
<1> DEFINE parts == PartsOf(ch)
           u == [i \in 0 .. n + 1 |-> IF i <= n THEN Longer(x[i], parts) ELSE z]
           v == [i \in 1 .. n + 1 |-> IF i <= n THEN y[i] ELSE ch]
<1>4. ASSUME NEW i \in 0 .. n
      PROVE  u[i] = Longer(x[i], parts) /\ x[i] \in Node /\ Longer(x[i], parts) \in Node
  <2>1. x[i] \in Node
    BY <1>1 DEF Chain
  <2>2. Longer(x[i], parts) \in Node
    BY <2>1, <1>3, LongerType
  <2> QED
    BY <2>1, <2>2, <1>2
<1>5. Chain(f, n + 1, u, v)
  <2>1. n + 1 \in Nat
    BY <1>2
  <2>2. u \in [0 .. n + 1 -> Node]
    <3>1. ASSUME NEW i \in 0 .. n + 1
          PROVE  (IF i <= n THEN Longer(x[i], parts) ELSE z) \in Node
      <4>1. i <= n => i \in 0 .. n
        BY <1>2
      <4>2. i <= n => Longer(x[i], parts) \in Node
        BY <1>4, <4>1
      <4> HIDE DEF u, v, parts
      <4> QED
        BY <4>2
    <3> QED
      BY <3>1
  <2>3. v \in [1 .. n + 1 -> Chunk]
    BY <1>1, <1>2 DEF Chain
  <2>4. ASSUME NEW i \in 1 .. n + 1 PROVE ChunkLink(f, u[i - 1], v[i], u[i])
    <3>1. CASE i <= n
      <4>1. i \in 1 .. n /\ i \in 0 .. n /\ i - 1 \in 0 .. n
        BY <1>2, <3>1
      <4>2. v[i] = y[i] /\ y[i] \in Chunk
        BY <1>1, <4>1 DEF Chain
      <4>3. u[i - 1] = Longer(x[i - 1], parts) /\ u[i] = Longer(x[i], parts)
            /\ x[i - 1] \in Node /\ x[i] \in Node
        BY <1>4, <4>1
      <4>4. ChunkLink(f, x[i - 1], y[i], x[i])
        BY <1>1, <4>1 DEF Chain
      <4>5. ChunkLink(f, Longer(x[i - 1], parts), y[i], Longer(x[i], parts))
        <5> HIDE DEF u, v
        <5> QED
          BY <1>3, <4>2, <4>3, <4>4, LongerLink
      <4> HIDE DEF u, v
      <4> QED
        BY <4>2, <4>3, <4>5
    <3>2. CASE i = n + 1
      <4>1. u[i] = z /\ v[i] = ch
        BY <1>2, <3>2
      <4>2. u[n] = Longer(x[n], parts) /\ i - 1 = n
        BY <1>2, <1>4, <3>2
      <4> HIDE DEF u, v
      <4> QED
        BY <1>1, <4>1, <4>2
    <3> QED
      BY <1>2, <3>1, <3>2
  <2>5. u[n + 1] = z
    BY <1>2
  <2> HIDE DEF u, v
  <2> QED
    BY <2>1, <2>2, <2>3, <2>4, <2>5 DEF Chain
<1>6. u[0] = Longer(a, parts) /\ u[n + 1] = z
  BY <1>1, <1>2, <1>4
<1> HIDE DEF u, v
<1> QED
  BY <1>5, <1>6 DEF Path

\* More messages finished.
Grown(f, g) == f \in Seq(Message) /\ g \in Seq(Message) /\ Len(f) <= Len(g)
               /\ \A k \in 1 .. Len(f) : g[k] = f[k]

\* Messages finished later leave links and paths as they are.
LEMMA GrownBody ==
    ASSUME NEW f, NEW g, Grown(f, g), NEW str, NEW n, NEW k, NEW c, NEW body, NEW b,
           BodyLink(f, str, n, k, c, body, b)
    PROVE  BodyLink(g, str, n, k, c, body, b)
<1>1. ASSUME NEW s, Tells(f, k + 1, s, body)
      PROVE  Tells(g, k + 1, s, body)
  <2>1. k + 1 \in 1 .. Len(f)
    BY <1>1 DEF Tells
  <2>3. Len(f) \in Nat /\ Len(g) \in Nat /\ Len(f) <= Len(g)
    BY LenProperties DEF Grown
  <2>2. k + 1 \in 1 .. Len(g) /\ g[k + 1] = f[k + 1]
    BY <2>1, <2>3 DEF Grown
  <2> QED
    BY <1>1, <2>2 DEF Tells
<1> QED
  BY <1>1 DEF BodyLink

\* The same of a path.
LEMMA PathGrown ==
    ASSUME NEW f, NEW g, Grown(f, g), NEW a, NEW b, Path(f, a, b)
    PROVE  Path(g, a, b)
<1>1. PICK n, x, y : Chain(f, n, x, y) /\ x[0] = a /\ x[n] = b
  BY DEF Path
<1>2. ASSUME NEW i \in 1 .. n PROVE ChunkLink(g, x[i - 1], y[i], x[i])
  <2>1. ChunkLink(f, x[i - 1], y[i], x[i])
    BY <1>1 DEF Chain
  <2> QED
    BY <2>1, GrownBody DEF ChunkLink
<1>3. Chain(g, n, x, y)
  BY <1>1, <1>2 DEF Chain
<1> QED
  BY <1>1, <1>3 DEF Path

-----------------------------------------------------------------------------
(* The invariant *)

\* What the variables are made of.
Composition == [type : MsgTypes, ts : Nat, msg : Seq(Bytes)]
UnderWay    == [msg : Seq(Bytes), ts : Nat, rest : Seq(Bytes), ext : Seq(Exts)]
AvKind      == {"av"}
Previous    == [ts : Nat, len : Nat, type : AvKind, delta : Int]
Payloads    == {Payload(id, len) : id \in 0 .. MaxMessages, len \in Lens}

ReaderTypes ==
    /\ wire \in Seq(Part) /\ read_buf_ \in Seq(Part)
    /\ in_call \in BOOLEAN /\ header_done_ \in BOOLEAN
    /\ curr_csid_ \in Csids
    /\ peer_chunk_size_ \in Sizes
    /\ csid2stream_ \in [Csids -> Stream]
    /\ composed \in Seq(Composition)

WriterTypes ==
    /\ writer \in {"specification", "yet"}
    /\ size \in Sizes
    /\ under_way \in [Csids -> UnderWay]
    /\ prev \in [Csids -> Previous \cup {None}]
    /\ exact \in [Csids -> BOOLEAN]
    /\ count \in 0 .. MaxMessages
    /\ finished \in Seq(Message)

\* The reader as a node: between two chunks.
Here == [rest |-> read_buf_ \o wire, str |-> csid2stream_,
         size |-> peer_chunk_size_, done |-> Len(composed)]

\* The reader has read the header of a chunk and lacks body before it is at a.
HalfWay(body, a) ==
    /\ read_buf_ \o wire = body \o a.rest
    /\ BodyLink(finished, csid2stream_, peer_chunk_size_, Len(composed),
                curr_csid_, body, a)

\* The reader is at a, or on its way there.
ReaderAt(a) ==
    /\ a \in Node
    /\ ~header_done_ => a = Here
    /\ header_done_ => \E body \in Seq(Bytes) : HalfWay(body, a)

\* Stream s holds what is written of the message u, which has a chunk or more to come.
HoldsPart(u, s) ==
    /\ u.msg \in Payloads /\ u.ts \in Clock
    /\ u.ext = <<>> /\ u.rest # <<>>
    /\ u.msg = s.msg \o u.rest
    /\ s.len = Len(u.msg) /\ s.type = "av" /\ s.abs = u.ts
    /\ Len(u.msg) > size

\* Stream s, of chunk stream c, as a reader has it that has read everything written.
StreamAt(c, s) ==
    /\ (under_way[c] # Nothing \/ writer = "yet") => s.timestamp # MaxTs
    /\ under_way[c] = Nothing => s.msg = <<>>
    /\ under_way[c] # Nothing => writer = "specification" /\ HoldsPart(under_way[c], s)
    /\ prev[c] # None =>
         /\ s.len = prev[c].len /\ s.type = "av"
         /\ exact[c] => s.abs = prev[c].ts
    /\ writer = "specification" => exact[c]

\* The reader b has everything the writer has written.
WriterAt(b) ==
    /\ b.done = Len(finished)
    /\ b.size = size
    /\ \A c \in Csids : StreamAt(c, b.str[c])

\* What is on its way takes the reader to where the writer is.
OnItsWay == \E a, b : ReaderAt(a) /\ Path(finished, a, b) /\ WriterAt(b)

\* The callback was given message k as it was written.
Agrees(k) ==
    /\ composed[k].msg = finished[k].msg
    /\ finished[k].exact => composed[k].ts = finished[k].ts

\* What is composed is a prefix of what is finished.
Agreement ==
    /\ Len(composed) <= Len(finished)
    /\ \A k \in 1 .. Len(composed) : Agrees(k)

\* The inductive invariant.
StreamInv ==
    /\ ReaderTypes
    /\ WriterTypes
    /\ ~astray /\ ~asserted
    /\ prev[Control] = None /\ under_way[Control] = Nothing
    /\ Agreement
    /\ OnItsWay

-----------------------------------------------------------------------------
(* The reader *)

\* The parts p at the front of a buffer r that holds them all; w is not received yet.
Begins(r, w, p, t) ==
    /\ r \in Seq(Part) /\ w \in Seq(Part) /\ p \in Seq(Part) /\ t \in Seq(Part)
    /\ Len(r) >= Len(p)
    /\ r \o w = p \o t

\* The buffer, cut after p.
Split(r, w, p, t) ==
    /\ SubSeq(r, 1, Len(p)) = p
    /\ SubSeq(r, Len(p) + 1, Len(r)) \in Seq(Part)
    /\ SubSeq(r, Len(p) + 1, Len(r)) \o w = t

\* The buffer holds p whole, so p can be cut off.
LEMMA SplitFront ==
    ASSUME NEW r, NEW w, NEW p, NEW t, Begins(r, w, p, t)
    PROVE  Split(r, w, p, t)
<1>0. r \in Seq(Part) /\ w \in Seq(Part) /\ p \in Seq(Part) /\ t \in Seq(Part)
  BY DEF Begins
<1>1. /\ Len(r) \in Nat /\ Len(w) \in Nat /\ Len(p) \in Nat /\ Len(t) \in Nat
      /\ Len(r) >= Len(p)
  BY <1>0 DEF Begins
<1>2. /\ r \o w \in Seq(Part) /\ Len(r \o w) = Len(r) + Len(w)
      /\ \A i \in 1 .. Len(r) + Len(w) :
           (r \o w)[i] = IF i <= Len(r) THEN r[i] ELSE w[i - Len(r)]
  BY <1>0, ConcatProperties
<1>12. r \o w = p \o t
  BY DEF Begins
<1>3. /\ Len(p \o t) = Len(p) + Len(t)
      /\ \A i \in 1 .. Len(p) + Len(t) :
           (p \o t)[i] = IF i <= Len(p) THEN p[i] ELSE t[i - Len(p)]
  BY <1>0, ConcatProperties
<1> DEFINE q == SubSeq(r, 1, Len(p))
           u == SubSeq(r, Len(p) + 1, Len(r))
<1>4. /\ q \in Seq(Part) /\ Len(q) = Len(p)
      /\ \A i \in 1 .. Len(p) : q[i] = r[i]
  <2>1. \A i \in 1 .. Len(p) : r[i] \in Part
    BY <1>0, <1>1, ElementOfSeq
  <2> QED
    BY <1>1, <2>1, SubSeqProperties
<1>5. /\ u \in Seq(Part) /\ Len(u) = Len(r) - Len(p)
      /\ \A i \in 1 .. Len(r) - Len(p) : u[i] = r[Len(p) + i]
  <2>1. \A i \in Len(p) + 1 .. Len(r) : r[i] \in Part
    BY <1>0, <1>1, ElementOfSeq
  <2>2. /\ u \in Seq(Part)
        /\ Len(u) = IF Len(p) + 1 <= Len(r) THEN Len(r) - (Len(p) + 1) + 1 ELSE 0
        /\ \A i \in 1 .. Len(r) - (Len(p) + 1) + 1 : u[i] = r[(Len(p) + 1) + i - 1]
    BY <1>1, <2>1, SubSeqProperties
  <2> HIDE DEF u
  <2> QED
    BY <1>1, <2>2
<1> HIDE DEF q, u
<1>6. q = p
  <2>1. ASSUME NEW i \in 1 .. Len(q) PROVE q[i] = p[i]
    BY <1>1, <1>2, <1>3, <1>4, <1>12
  <2> QED
    BY <1>0, <1>4, <2>1, SeqEqual
<1>7. /\ u \o w \in Seq(Part) /\ Len(u \o w) = Len(u) + Len(w)
      /\ \A i \in 1 .. Len(u) + Len(w) :
           (u \o w)[i] = IF i <= Len(u) THEN u[i] ELSE w[i - Len(u)]
  BY <1>0, <1>5, ConcatProperties
<1>8. u \o w = t
  <2>1. Len(u \o w) = Len(t)
    BY <1>1, <1>2, <1>3, <1>5, <1>7, <1>12
  <2>2. ASSUME NEW i \in 1 .. Len(u \o w) PROVE (u \o w)[i] = t[i]
    <3>1. /\ i \in 1 .. Len(t) /\ i + Len(p) \in 1 .. Len(p) + Len(t)
          /\ i + Len(p) \in 1 .. Len(r) + Len(w) /\ i \in 1 .. Len(u) + Len(w)
      BY <1>1, <1>2, <1>3, <1>7, <1>12, <2>1
    <3>2. t[i] = (r \o w)[i + Len(p)]
      <4>1. (p \o t)[i + Len(p)] = t[(i + Len(p)) - Len(p)]
        BY <1>1, <1>3, <3>1
      <4> QED
        BY <1>1, <1>12, <3>1, <4>1
    <3>3. CASE i <= Len(u)
      <4>1. (u \o w)[i] = u[i] /\ u[i] = r[Len(p) + i] /\ i + Len(p) <= Len(r)
        BY <1>1, <1>5, <1>7, <3>1, <3>3
      <4> QED
        BY <1>1, <1>2, <3>1, <3>2, <4>1
    <3>4. CASE i > Len(u)
      <4>1. (u \o w)[i] = w[i - Len(u)] /\ i - Len(u) = (i + Len(p)) - Len(r)
            /\ i + Len(p) > Len(r)
        BY <1>1, <1>5, <1>7, <3>1, <3>4
      <4>2. (r \o w)[i + Len(p)] = w[(i + Len(p)) - Len(r)]
        BY <1>1, <1>2, <3>1, <4>1
      <4> QED
        BY <3>2, <4>1, <4>2
    <3> QED
      BY <1>1, <1>5, <3>1, <3>3, <3>4
  <2> QED
    BY <1>0, <1>7, <2>1, <2>2, SeqEqual
<1>9. SubSeq(r, 1, Len(p)) = p
  BY <1>6 DEF q
<1>10. SubSeq(r, Len(p) + 1, Len(r)) \in Seq(Part)
  BY <1>5 DEF u
<1>11. SubSeq(r, Len(p) + 1, Len(r)) \o w = t
  BY <1>8 DEF u
<1> QED
  BY <1>9, <1>10, <1>11 DEF Split

\* A header of form 0 sets every field.
LEMMA FullHeader ==
    ASSUME NEW s \in Stream, NEW h \in Heads, h.fmt = 0
    PROVE  MessageHeader(s, h) = [timestamp |-> h.ts, abs |-> h.ts, len |-> h.len,
                                  type |-> h.type, msg |-> s.msg]
<1>1. MessageHeader(s, h) = [s EXCEPT !.timestamp = h.ts, !.abs = h.ts,
                                      !.len = h.len, !.type = h.type]
  BY DEF MessageHeader
<1> QED
  BY <1>1 DEF Stream

\* A message header leaves a stream a stream, and the bytes it has alone.
LEMMA HeaderType ==
    ASSUME NEW s \in Stream, NEW h \in Heads
    PROVE  MessageHeader(s, h) \in Stream /\ MessageHeader(s, h).msg = s.msg
<1>1. h.fmt \in 0 .. 3 /\ h.ts \in Nat /\ h.len \in Nat /\ h.type \in MsgTypes
  BY DEF Heads
<1>2. s.abs + h.ts \in Nat
  BY <1>1 DEF Stream
<1>3. CASE h.fmt = 0
  <2> DEFINE r == [timestamp |-> h.ts, abs |-> h.ts, len |-> h.len,
                   type |-> h.type, msg |-> s.msg]
  <2>1. r \in Stream /\ r.msg = s.msg
    BY <1>1 DEF Stream
  <2>2. MessageHeader(s, h) = r
    BY <1>3, FullHeader
  <2> HIDE DEF r
  <2> QED
    BY <2>1, <2>2
<1>4. CASE h.fmt = 1
  BY <1>1, <1>2, <1>4 DEF MessageHeader, Stream
<1>5. CASE h.fmt = 2
  BY <1>1, <1>2, <1>5 DEF MessageHeader, Stream
<1>6. CASE h.fmt = 3
  BY <1>1, <1>6 DEF MessageHeader, Stream
<1> QED
  BY <1>1, <1>3, <1>4, <1>5, <1>6

\* The extended timestamp of a chunk that has one.
LEMMA ExtOne ==
    ASSUME NEW ch \in Chunk, Len(ch.ext) = 1
    PROVE  ch.ext[1] \in Exts /\ ch.ext = <<ch.ext[1]>> /\ ch.ext # <<>>
<1> DEFINE e == ch.ext
<1>1. e \in Seq(Exts) /\ Len(e) = 1
  BY DEF Chunk
<1> HIDE DEF e
<1>2. e[1] \in Exts /\ e = <<e[1]>> /\ e # <<>>
  BY <1>1
<1> QED
  BY <1>2 DEF e

\* A chunk header does the same.
LEMMA AnnouncedType ==
    ASSUME NEW s \in Stream, NEW ch \in Chunk, HeaderFits(s, ch)
    PROVE  Announced(s, ch) \in Stream /\ Announced(s, ch).msg = s.msg
<1> DEFINE s0 == MessageHeader(s, ch.head)
<1>1. ch.head \in Heads
  BY DEF Chunk
<1>2. s0 \in Stream /\ s0.msg = s.msg
  BY <1>1, HeaderType
<1>3. CASE ch.ext = <<>>
  BY <1>2, <1>3 DEF Announced
<1>4. CASE ch.ext # <<>>
  <2>1. Len(ch.ext) = 1 /\ ch.head.fmt = 0
    BY <1>4 DEF HeaderFits
  <2>2. ch.ext[1] \in Exts
    BY <2>1, ExtOne
  <2>3. ch.ext[1].ts \in Nat
    BY <2>2 DEF Exts
  <2>4. Announced(s, ch) = [s0 EXCEPT !.timestamp = ch.ext[1].ts, !.abs = ch.ext[1].ts]
    BY <1>4, <2>1 DEF Announced, ExtendedTimestamp
  <2> HIDE DEF s0
  <2> QED
    BY <1>2, <2>3, <2>4 DEF Stream
<1> QED
  BY <1>3, <1>4

\* A header of form 0 may be read twice.
LEMMA AnnouncedAgain ==
    ASSUME NEW s \in Stream, NEW ch \in Chunk, ch.head.fmt = 0, HeaderFits(s, ch)
    PROVE  /\ HeaderFits(MessageHeader(s, ch.head), ch)
           /\ Announced(MessageHeader(s, ch.head), ch) = Announced(s, ch)
<1> DEFINE h == ch.head
           s0 == MessageHeader(s, h)
<1>1. h \in Heads
  BY DEF Chunk
<1>2. MessageHeader(s0, h) = s0
  <2>1. s0 \in Stream /\ s0.msg = s.msg
    BY <1>1, HeaderType
  <2> QED
    BY <1>1, <2>1, FullHeader
<1> QED
  BY <1>2 DEF HeaderFits, Announced

\* A step of the reader does not move the end of the path.
LEMMA WriterStays ==
    ASSUME WriterTypes, UNCHANGED writerVars
    PROVE  /\ WriterTypes'
           /\ finished' = finished /\ prev' = prev /\ under_way' = under_way
           /\ \A b : WriterAt(b) => WriterAt(b)'
<1>1. /\ writer' = writer /\ size' = size /\ under_way' = under_way /\ prev' = prev
      /\ exact' = exact /\ count' = count /\ finished' = finished
  BY DEF writerVars
<1>2. WriterTypes'
  BY <1>1 DEF WriterTypes
<1>3. ASSUME NEW c, NEW s, StreamAt(c, s) PROVE StreamAt(c, s)'
  BY <1>1, <1>3 DEF StreamAt, HoldsPart
<1>4. ASSUME NEW b, WriterAt(b) PROVE WriterAt(b)'
  BY <1>1, <1>3, <1>4 DEF WriterAt
<1> QED
  BY <1>1, <1>2, <1>4

\* What read_buf_ and wire begin with.
LEMMA NextChunk ==
    ASSUME ReaderTypes, ~header_done_, read_buf_ # <<>>,
           NEW a, NEW b, ReaderAt(a), Path(finished, a, b)
    PROVE  \E ch \in Chunk, m \in Node :
             /\ ChunkLink(finished, Here, ch, m) /\ Path(finished, m, b)
             /\ read_buf_ \o wire = <<ch.head>> \o (ch.ext \o ch.body \o m.rest)
<1>1. a = Here /\ Here \in Node
  BY DEF ReaderAt
<1>2. Here.rest = read_buf_ \o wire
  BY DEF Here
<1>3. read_buf_ \o wire # <<>>
  BY ConcatEqualIffEmpty DEF ReaderTypes
<1>4. PICK ch \in Chunk, m \in Node : ChunkLink(finished, Here, ch, m) /\ Path(finished, m, b)
  BY <1>1, <1>2, <1>3, PathFirst
<1>5. read_buf_ \o wire = PartsOf(ch) \o m.rest
  BY <1>2, <1>4 DEF ChunkLink
<1>6. (<<ch.head>> \o (ch.ext \o ch.body)) \o m.rest = <<ch.head>> \o (ch.ext \o ch.body \o m.rest)
  <2> DEFINE p == <<ch.head>>
             q == ch.ext \o ch.body
             r == m.rest
  <2>1. p \in Seq(Part) /\ ch.ext \in Seq(Part) /\ ch.body \in Seq(Part) /\ r \in Seq(Part)
    BY ChunkParts DEF Node
  <2>2. q \in Seq(Part)
    BY <2>1, ConcatProperties
  <2> HIDE DEF p, q, r
  <2>3. (p \o q) \o r = p \o (q \o r)
    BY <2>1, <2>2, ConcatAssociative, SMTT(30)
  <2> QED
    BY <2>3 DEF p, q, r
<1> QED
  BY <1>4, <1>5, <1>6 DEF PartsOf

\* The header of chunk ch has been read.
LEMMA HeaderTaken ==
    ASSUME StreamInv, UNCHANGED writerVars,
           NEW ch \in Chunk, NEW m \in Node, NEW b, NEW used,
           ChunkLink(finished, Here, ch, m), Path(finished, m, b), WriterAt(b),
           HeaderDone(ch.head.csid, Announced(csid2stream_[ch.head.csid], ch), used),
           read_buf_' \in Seq(Part),
           read_buf_' \o wire = ch.body \o m.rest
    PROVE  StreamInv'
<1> DEFINE c == ch.head.csid
<1>1. c \in Csids /\ ch.body \in Seq(Bytes)
  BY DEF Chunk, Heads
<1>2. /\ csid2stream_' = HeaderRead(csid2stream_, ch)
      /\ curr_csid_' = c /\ header_done_' = TRUE
      /\ UNCHANGED <<wire, in_call, peer_chunk_size_, composed, asserted, astray>>
  BY DEF HeaderDone, HeaderRead
<1>3. csid2stream_ \in [Csids -> Stream]
  BY DEF StreamInv, ReaderTypes
<1>4. HeaderFits(csid2stream_[c], ch)
  BY DEF ChunkLink, Here
<1>5. Announced(csid2stream_[c], ch) \in Stream
  BY <1>1, <1>3, <1>4, AnnouncedType
<1>6. HeaderRead(csid2stream_, ch) \in [Csids -> Stream]
  BY <1>1, <1>3, <1>5 DEF HeaderRead
<1>7. ReaderTypes'
  BY <1>1, <1>2, <1>6 DEF StreamInv, ReaderTypes
<1>8. /\ WriterTypes' /\ WriterAt(b)'
      /\ finished' = finished /\ prev' = prev /\ under_way' = under_way
  BY WriterStays DEF StreamInv
<1>9. BodyLink(finished, HeaderRead(csid2stream_, ch), peer_chunk_size_, Len(composed),
               c, ch.body, m)
  BY DEF ChunkLink, Here
<1>10. HalfWay(ch.body, m)'
  BY <1>2, <1>8, <1>9 DEF HalfWay
<1>11. ReaderAt(m)'
  BY <1>1, <1>2, <1>10 DEF ReaderAt
<1>12. OnItsWay'
  BY <1>8, <1>11 DEF OnItsWay
<1>13. Agreement'
  BY <1>2, <1>8 DEF StreamInv, Agreement, Agrees
<1> QED
  BY <1>2, <1>7, <1>8, <1>12, <1>13 DEF StreamInv

\* The header of chunk ch has been read in part, and will be read again.
LEMMA HeaderAwaited ==
    ASSUME StreamInv, ~header_done_, UNCHANGED writerVars,
           NEW ch \in Chunk, NEW m \in Node, NEW b,
           ChunkLink(finished, Here, ch, m), Path(finished, m, b), WriterAt(b),
           ch.head.fmt = 0,
           HeaderShort(ch.head.csid, MessageHeader(csid2stream_[ch.head.csid], ch.head))
    PROVE  StreamInv'
<1> DEFINE c == ch.head.csid
           s == csid2stream_[c]
           s0 == MessageHeader(s, ch.head)
<1>1. c \in Csids /\ ch.head \in Heads
  BY DEF Chunk, Heads
<1>2. /\ csid2stream_' = [csid2stream_ EXCEPT ![c] = s0]
      /\ curr_csid_' = c /\ in_call' = FALSE
      /\ UNCHANGED <<wire, read_buf_, header_done_, peer_chunk_size_, composed,
                     asserted, astray>>
  BY DEF HeaderShort
<1>3. csid2stream_ \in [Csids -> Stream] /\ s \in Stream
  BY <1>1 DEF StreamInv, ReaderTypes
<1>4. HeaderFits(s, ch)
  BY DEF ChunkLink, Here
<1>5. s0 \in Stream /\ HeaderFits(s0, ch) /\ Announced(s0, ch) = Announced(s, ch)
  BY <1>1, <1>3, <1>4, HeaderType, AnnouncedAgain
<1> HIDE DEF s0
<1>6. csid2stream_' \in [Csids -> Stream] /\ csid2stream_'[c] = s0
  BY <1>1, <1>2, <1>3, <1>5
<1>7. ReaderTypes'
  BY <1>1, <1>2, <1>6 DEF StreamInv, ReaderTypes
<1>8. /\ WriterTypes' /\ WriterAt(b)'
      /\ finished' = finished /\ prev' = prev /\ under_way' = under_way
  BY WriterStays DEF StreamInv
<1>9. HeaderRead(csid2stream_', ch) = HeaderRead(csid2stream_, ch)
  BY <1>1, <1>2, <1>3, <1>5, <1>6 DEF HeaderRead
<1>10. /\ Here'.rest = Here.rest /\ Here'.str = csid2stream_' /\ Here.str = csid2stream_
       /\ Here'.size = Here.size /\ Here'.done = Here.done
  BY <1>2 DEF Here
<1>11. ChunkLink(finished, Here', ch, m)
  BY <1>5, <1>6, <1>9, <1>10 DEF ChunkLink
<1>12. Here' \in Node
  <2>1. read_buf_ \o wire \in Seq(Part)
    BY ConcatProperties DEF StreamInv, ReaderTypes
  <2>2. peer_chunk_size_ \in Sizes /\ Len(composed) \in Nat
    BY DEF StreamInv, ReaderTypes
  <2> QED
    BY <1>2, <1>6, <2>1, <2>2 DEF Here, Node
<1>17. PICK a : a = Here'
  OBVIOUS
<1>13. Path(finished, a, b)
  BY <1>11, <1>12, <1>17, PathBefore
<1>14. ReaderAt(a)'
  BY <1>2, <1>12, <1>17 DEF ReaderAt
<1>15. OnItsWay'
  BY <1>8, <1>13, <1>14 DEF OnItsWay
<1>16. Agreement'
  BY <1>2, <1>8 DEF StreamInv, Agreement, Agrees
<1> QED
  BY <1>2, <1>7, <1>8, <1>15, <1>16 DEF StreamInv

\* A buffer that begins with one part, or with two.
LEMMA BeginsOne ==
    ASSUME NEW r \in Seq(Part), NEW w \in Seq(Part), NEW h \in Part, NEW t \in Seq(Part),
           r # <<>>, r \o w = <<h>> \o t
    PROVE  Begins(r, w, <<h>>, t)
<1>1. <<h>> \in Seq(Part) /\ Len(<<h>>) = 1 /\ Len(r) >= 1
  OBVIOUS
<1> QED
  BY <1>1 DEF Begins

\* One part, cut off.
LEMMA SplitOne ==
    ASSUME NEW r \in Seq(Part), r # <<>>, NEW w, NEW h, NEW t, Split(r, w, <<h>>, t)
    PROVE  /\ Head(r) = h
           /\ SubSeq(r, 2, Len(r)) \in Seq(Part)
           /\ SubSeq(r, 2, Len(r)) \o w = t
<1> DEFINE p == <<h>>
<1>1. Len(p) = 1 /\ Len(r) >= 1 /\ p[1] = h
  OBVIOUS
<1>2. Head(r) = SubSeq(r, 1, 1)[1]
  BY <1>1
<1> HIDE DEF p
<1>3. Split(r, w, p, t)
  BY DEF p
<1>4. Len(p) + 1 = 2
  BY <1>1
<1> QED
  BY <1>1, <1>2, <1>3, <1>4 DEF Split

\* Two parts in front.
LEMMA TwoParts ==
    ASSUME NEW h \in Part, NEW e \in Part, NEW t \in Seq(Part)
    PROVE  <<h>> \o (<<e>> \o t) = <<h, e>> \o t
<1> DEFINE p == <<h>>
           q == <<e>>
           v == <<h, e>>
<1>1. /\ p \in Seq(Part) /\ q \in Seq(Part) /\ v \in Seq(Part) /\ Len(v) = 2
      /\ Len(p) = 1 /\ Len(q) = 1 /\ p[1] = h /\ q[1] = e /\ v[1] = h /\ v[2] = e
  OBVIOUS
<1> HIDE DEF p, q, v
<1>2. (p \o q) \o t = p \o (q \o t)
  BY <1>1, ConcatAssociative, SMTT(30)
<1>3. p \o q = v
  <2>1. /\ p \o q \in Seq(Part) /\ Len(p \o q) = Len(p) + Len(q)
        /\ \A i \in 1 .. Len(p) + Len(q) :
             (p \o q)[i] = IF i <= Len(p) THEN p[i] ELSE q[i - Len(p)]
    BY <1>1, ConcatProperties
  <2>2. (p \o q)[1] = p[1] /\ (p \o q)[2] = q[2 - Len(p)]
    BY <1>1, <2>1
  <2>4. (p \o q)[1] = h /\ (p \o q)[2] = e /\ Len(p \o q) = 2
    BY <1>1, <2>1, <2>2
  <2>3. ASSUME NEW i \in 1 .. Len(v) PROVE v[i] = (p \o q)[i]
    BY <1>1, <2>4
  <2> QED
    BY <1>1, <2>1, <2>3, <2>4, SeqEqual
<1> QED
  BY <1>2, <1>3 DEF p, q, v

\* A buffer of more than one part holds the first two.
LEMMA BeginsTwo ==
    ASSUME NEW r \in Seq(Part), NEW w \in Seq(Part), NEW h \in Part, NEW e \in Part,
           NEW t \in Seq(Part), Len(r) > 1, r \o w = <<h>> \o (<<e>> \o t)
    PROVE  Begins(r, w, <<h, e>>, t)
<1>1. r \o w = <<h, e>> \o t
  BY TwoParts
<1>2. <<h, e>> \in Seq(Part) /\ Len(<<h, e>>) = 2 /\ Len(r) >= 2
  OBVIOUS
<1> QED
  BY <1>1, <1>2 DEF Begins

\* Two parts, cut off.
LEMMA SplitTwo ==
    ASSUME NEW r \in Seq(Part), Len(r) > 1, NEW w, NEW h, NEW e, NEW t,
           Split(r, w, <<h, e>>, t)
    PROVE  /\ r[2] = e
           /\ SubSeq(r, 3, Len(r)) \in Seq(Part)
           /\ SubSeq(r, 3, Len(r)) \o w = t
<1> DEFINE p == <<h, e>>
<1>1. Len(p) = 2 /\ Len(r) >= 2 /\ p[2] = e
  OBVIOUS
<1>2. r[2] = SubSeq(r, 1, 2)[2]
  BY <1>1
<1> HIDE DEF p
<1>3. Split(r, w, p, t)
  BY DEF p
<1>4. Len(p) + 1 = 3
  BY <1>1
<1> QED
  BY <1>1, <1>2, <1>3, <1>4 DEF Split

\* A buffer that is not empty.
LEMMA OneOrMore ==
    ASSUME NEW r \in Seq(Part), r # <<>>
    PROVE  Len(r) = 1 \/ Len(r) > 1
<1>1. Len(r) \in Nat /\ Len(r) # 0
  BY EmptySeq, LenProperties
<1>2. \A n \in Nat : n # 0 => n = 1 \/ n > 1
  OBVIOUS
<1> QED
  BY <1>1, <1>2

\* The first stage of try_compose.
LEMMA ReadHeaderStep ==
    ASSUME StreamInv, ReadHeader, UNCHANGED writerVars
    PROVE  StreamInv'
<1>1. in_call /\ ~header_done_ /\ read_buf_ # <<>>
  BY DEF ReadHeader
<1>2. PICK a, b : ReaderAt(a) /\ Path(finished, a, b) /\ WriterAt(b)
  BY DEF StreamInv, OnItsWay
<1>3. PICK ch \in Chunk, m \in Node :
        /\ ChunkLink(finished, Here, ch, m) /\ Path(finished, m, b)
        /\ read_buf_ \o wire = <<ch.head>> \o (ch.ext \o ch.body \o m.rest)
  BY <1>1, <1>2, NextChunk DEF StreamInv
<1>14. Len(read_buf_) = 1 \/ Len(read_buf_) > 1
  BY <1>1, OneOrMore DEF StreamInv, ReaderTypes
<1> DEFINE h == ch.head
           t == ch.body \o m.rest
<1>4. h \in Heads /\ h.csid \in Csids /\ h.k = "head" /\ h \in Part
  BY DEF Chunk, Heads, HeadKind, Part
<1>5. t \in Seq(Part) /\ ch.ext \in Seq(Part) /\ ch.body \in Seq(Part) /\ m.rest \in Seq(Part)
  BY ChunkParts, ConcatProperties DEF Node
<1>6. read_buf_ \in Seq(Part) /\ wire \in Seq(Part)
  BY DEF StreamInv, ReaderTypes
<1>7. (ch.ext \o ch.body) \o m.rest = ch.ext \o t
  <2> DEFINE p == ch.ext
             q == ch.body
             r == m.rest
  <2>1. p \in Seq(Part) /\ q \in Seq(Part) /\ r \in Seq(Part)
    BY <1>5
  <2> HIDE DEF p, q, r
  <2>2. (p \o q) \o r = p \o (q \o r)
    BY <2>1, ConcatAssociative
  <2> QED
    BY <2>2 DEF p, q, r
<1>8. ch.ext \o t \in Seq(Part)
  BY <1>5, ConcatProperties
<1>9. read_buf_ \o wire = <<h>> \o (ch.ext \o t)
  BY <1>3, <1>7
<1> DEFINE s == csid2stream_[h.csid]
           s0 == MessageHeader(s, h)
<1>10. HeaderFits(s, ch)
  BY <1>3 DEF ChunkLink, Here
<1>11. Head(read_buf_) = h
  <2> DEFINE v == ch.ext \o t
  <2>1. v \in Seq(Part) /\ read_buf_ \o wire = <<h>> \o v
    BY <1>8, <1>9
  <2> HIDE DEF h, t, v
  <2>2. Begins(read_buf_, wire, <<h>>, v)
    BY <1>1, <1>4, <1>6, <2>1, BeginsOne
  <2> QED
    BY <1>1, <1>6, <2>2, SplitFront, SplitOne
<1> HIDE DEF t
<1>12. CASE s0.timestamp # MaxTs
  <2>1. ch.ext = <<>>
    BY <1>10, <1>12 DEF HeaderFits
  <2>2. Announced(s, ch) = s0
    BY <2>1 DEF Announced
  <2>3. HeaderDone(h.csid, Announced(s, ch), 1)
    BY <1>4, <1>11, <1>12, <2>2 DEF ReadHeader
  <2>4. read_buf_' = SubSeq(read_buf_, 2, Len(read_buf_))
    BY <2>3 DEF HeaderDone
  <2>5. <<>> \o t = t
    BY <1>5, ConcatEmptySeq
  <2>6. read_buf_ \o wire = <<h>> \o t
    BY <1>9, <2>1, <2>5
  <2>7. read_buf_' \in Seq(Part) /\ read_buf_' \o wire = t
    <3> HIDE DEF h
    <3>1. Begins(read_buf_, wire, <<h>>, t)
      BY <1>1, <1>4, <1>5, <1>6, <2>6, BeginsOne
    <3>2. /\ SubSeq(read_buf_, 2, Len(read_buf_)) \in Seq(Part)
          /\ SubSeq(read_buf_, 2, Len(read_buf_)) \o wire = t
      BY <1>1, <1>6, <3>1, SplitFront, SplitOne
    <3> QED
      BY <2>4, <3>2
  <2> QED
    BY <1>2, <1>3, <2>3, <2>7, HeaderTaken DEF t
<1>13. CASE s0.timestamp = MaxTs
  <2>1. Len(ch.ext) = 1 /\ h.fmt = 0
    BY <1>10, <1>13 DEF HeaderFits
  <2>2. ch.ext[1] \in Exts /\ ch.ext = <<ch.ext[1]>> /\ ch.ext # <<>>
    BY <2>1, ExtOne
  <2> DEFINE e == ch.ext[1]
  <2>3. e \in Part /\ e.k = "ext"
    BY <2>2 DEF Exts, ExtKind, Part
  <2>4. Announced(s, ch) = ExtendedTimestamp(s0, h.fmt, e)
    BY <2>2 DEF Announced
  <2>5. CASE Len(read_buf_) = 1
    <3>1. HeaderShort(h.csid, s0)
      BY <1>4, <1>11, <1>13, <2>5 DEF ReadHeader
    <3> QED
      BY <1>1, <1>2, <1>3, <2>1, <3>1, HeaderAwaited
  <2>6. CASE Len(read_buf_) > 1
    <3>1. read_buf_ \o wire = <<h>> \o (<<e>> \o t)
      BY <1>9, <2>2
    <3>2. /\ read_buf_[2] = e
          /\ SubSeq(read_buf_, 3, Len(read_buf_)) \in Seq(Part)
          /\ SubSeq(read_buf_, 3, Len(read_buf_)) \o wire = t
      <4> HIDE DEF h, e
      <4>1. Begins(read_buf_, wire, <<h, e>>, t)
        BY <1>4, <1>5, <1>6, <2>3, <2>6, <3>1, BeginsTwo
      <4> QED
        BY <1>6, <2>6, <4>1, SplitFront, SplitTwo
    <3>3. HeaderDone(h.csid, Announced(s, ch), 2)
      BY <1>4, <1>11, <1>13, <2>3, <2>4, <2>6, <3>2 DEF ReadHeader
    <3>4. read_buf_' = SubSeq(read_buf_, 3, Len(read_buf_))
      BY <3>3 DEF HeaderDone
    <3>5. read_buf_' \in Seq(Part) /\ read_buf_' \o wire = ch.body \o m.rest
      BY <3>2, <3>4 DEF t
    <3>6. ChunkLink(finished, Here, ch, m) /\ Path(finished, m, b) /\ WriterAt(b)
      BY <1>2, <1>3
    <3>7. HeaderDone(ch.head.csid, Announced(csid2stream_[ch.head.csid], ch), 2)
      BY <3>3
    <3> QED
      BY <3>5, <3>6, <3>7, HeaderTaken
  <2> QED
    BY <1>14, <2>5, <2>6
<1> QED
  BY <1>12, <1>13

\* The bytes of a body are no headers.
LEMMA BytesOnly ==
    ASSUME NEW body \in Seq(Bytes)
    PROVE  ~ \E x \in Range(body) : x.k # "byte"
<1> SUFFICES ASSUME NEW x \in Range(body) PROVE x.k = "byte"
  OBVIOUS
<1>1. x \in Bytes
  BY DEF Range
<1> QED
  BY <1>1 DEF Bytes, ByteKind

\* A reader that has needed_size parts takes exactly the body of its chunk.
LEMMA BytesTaken ==
    ASSUME ReaderTypes, NEW a \in Node, NEW body \in Seq(Bytes), HalfWay(body, a),
           Len(read_buf_) >= needed_size
    PROVE  /\ needed_size = Len(body)
           /\ SubSeq(read_buf_, 1, needed_size) = body
           /\ SubSeq(read_buf_, needed_size + 1, Len(read_buf_)) \in Seq(Part)
           /\ SubSeq(read_buf_, needed_size + 1, Len(read_buf_)) \o wire = a.rest
<1>1. Len(body) = Needed(stream_, peer_chunk_size_)
  BY DEF HalfWay, BodyLink, BodyFits, stream_
<1>2. needed_size = Len(body)
  BY <1>1 DEF needed_size, Needed
<1>3. body \in Seq(Part) /\ a.rest \in Seq(Part) /\ read_buf_ \in Seq(Part) /\ wire \in Seq(Part)
  BY BytesAreParts DEF Node, ReaderTypes
<1>4. Begins(read_buf_, wire, body, a.rest)
  BY <1>2, <1>3 DEF Begins, HalfWay
<1>5. Split(read_buf_, wire, body, a.rest)
  BY <1>4, SplitFront
<1> QED
  BY <1>2, <1>5 DEF Split

\* The second stage of try_compose.
LEMMA ReadBytesStep ==
    ASSUME StreamInv, ReadBytes, UNCHANGED writerVars
    PROVE  StreamInv'
<1>1. in_call /\ header_done_ /\ Len(read_buf_) >= needed_size
  BY DEF ReadBytes
<1>2. PICK a, b : ReaderAt(a) /\ Path(finished, a, b) /\ WriterAt(b)
  BY DEF StreamInv, OnItsWay
<1>3. a \in Node
  BY <1>2 DEF ReaderAt
<1>4. PICK body \in Seq(Bytes) : HalfWay(body, a)
  BY <1>1, <1>2 DEF ReaderAt
<1> DEFINE c == curr_csid_
           s == csid2stream_[c]
           msg == s.msg \o body
<1>5. /\ needed_size = Len(body)
      /\ SubSeq(read_buf_, 1, needed_size) = body
      /\ SubSeq(read_buf_, needed_size + 1, Len(read_buf_)) \in Seq(Part)
      /\ SubSeq(read_buf_, needed_size + 1, Len(read_buf_)) \o wire = a.rest
  BY <1>1, <1>3, <1>4, BytesTaken DEF StreamInv
<1>6. ~ \E x \in Range(body) : x.k # "byte"
  BY BytesOnly
<1>7. /\ IF Len(msg) = s.len THEN Composed(msg) ELSE Incomplete(msg)
      /\ read_buf_' = SubSeq(read_buf_, needed_size + 1, Len(read_buf_))
      /\ header_done_' = FALSE
      /\ UNCHANGED <<wire, in_call, curr_csid_, astray>>
  <2> HIDE DEF needed_size
  <2> QED
    BY <1>5, <1>6 DEF ReadBytes, stream_
<1>8. c \in Csids /\ s \in Stream /\ csid2stream_ \in [Csids -> Stream]
  BY DEF StreamInv, ReaderTypes
<1>9. /\ s.msg \in Seq(Bytes) /\ s.len \in Nat /\ s.type \in MsgTypes
      /\ s.timestamp \in Nat /\ s.abs \in Nat
  BY <1>8 DEF Stream
<1>10. msg \in Seq(Bytes) /\ Len(msg) = Len(s.msg) + Len(body)
  <2> DEFINE p == s.msg
  <2>1. p \in Seq(Bytes)
    BY <1>9
  <2> HIDE DEF p, s
  <2>2. p \o body \in Seq(Bytes) /\ Len(p \o body) = Len(p) + Len(body)
    BY <2>1, ConcatProperties
  <2> QED
    BY <2>2 DEF p
<1>11. BodyLink(finished, csid2stream_, peer_chunk_size_, Len(composed), c, body, a)
  BY <1>4 DEF HalfWay
<1>12. /\ WriterTypes' /\ WriterAt(b)'
       /\ finished' = finished /\ prev' = prev /\ under_way' = under_way
  BY <1>2, WriterStays DEF StreamInv
<1>13. s.len > 0 /\ Len(s.msg) + Len(body) <= s.len
       /\ a.str = [csid2stream_ EXCEPT ![c] = StreamAfter(s, body)]
  BY <1>11 DEF BodyLink, BodyFits
<1>14. /\ csid2stream_' = a.str /\ peer_chunk_size_' = a.size /\ Len(composed') = a.done
       /\ composed' \in Seq(Composition) /\ ~asserted' /\ Agreement'
  <2>1. composed \in Seq(Composition) /\ ~asserted /\ Agreement /\ finished \in Seq(Message)
    BY DEF StreamInv, ReaderTypes, WriterTypes
  <2>2. Len(msg) \in Nat /\ Len(composed) \in Nat /\ Len(finished) \in Nat
    BY <1>10, <2>1, LenProperties
  <2>3. CASE Completes(s, body)
    <3>1. Len(msg) = s.len
      BY <1>10, <2>3 DEF Completes
    <3>2. Composed(msg)
      BY <1>7, <3>1
    <3> DEFINE r == [type |-> s.type, ts |-> s.abs, msg |-> msg]
    <3>3. /\ composed' = Append(composed, r)
          /\ peer_chunk_size_' = IF s.type = "chunk size" THEN Head(msg).id
                                 ELSE peer_chunk_size_
          /\ csid2stream_' = [csid2stream_ EXCEPT ![c].msg = <<>>]
          /\ asserted' = (asserted \/ 0 >= s.len)
      BY <3>2 DEF Composed, stream_
    <3>4. r \in Composition /\ r.msg = msg /\ r.ts = s.abs
      BY <1>9, <1>10 DEF Composition
    <3>5. Tells(finished, Len(composed) + 1, s, body) /\ a.done = Len(composed) + 1
          /\ a.size = IF s.type = "chunk size" THEN LocalSize ELSE peer_chunk_size_
      BY <1>11, <2>3 DEF BodyLink
    <3>6. csid2stream_' = a.str
      BY <1>13, <2>3, <3>3 DEF StreamAfter
    <3>7. peer_chunk_size_' = a.size
      BY <3>3, <3>5 DEF Tells
    <3>15. msg = s.msg \o body
      OBVIOUS
    <3>16. composed' = Append(composed, r) /\ asserted' = (asserted \/ 0 >= s.len)
      BY <3>3
    <3>17. /\ Len(composed) + 1 \in 1 .. Len(finished)
           /\ finished[Len(composed) + 1].msg = s.msg \o body
           /\ finished[Len(composed) + 1].exact => finished[Len(composed) + 1].ts = s.abs
           /\ a.done = Len(composed) + 1
      BY <3>5 DEF Tells
    <3>18. s.len \in Nat /\ s.len > 0
      BY <1>9, <1>13
    <3> HIDE DEF r, msg, s
    <3>8. /\ composed' \in Seq(Composition) /\ Len(composed') = Len(composed) + 1
          /\ composed'[Len(composed) + 1] = r
          /\ \A k \in 1 .. Len(composed) : composed'[k] = composed[k]
      BY <2>1, <3>4, <3>16, AppendProperties
    <3>9. ~asserted'
      <4>1. ~ (0 >= s.len)
        BY <3>18
      <4> QED
        BY <2>1, <3>16, <4>1
    <3>10. Len(composed) + 1 <= Len(finished)
      <4>1. Len(composed) + 1 \in 1 .. Len(finished)
        BY <3>17
      <4>2. Len(composed) \in Nat /\ Len(finished) \in Nat
        BY <2>2
      <4> QED
        BY <4>1, <4>2
    <3>19. PICK n : n = Len(composed) + 1
      OBVIOUS
    <3>11. Agrees(n)'
      BY <1>12, <3>4, <3>8, <3>15, <3>17, <3>19 DEF Agrees
    <3>12. ASSUME NEW k \in 1 .. Len(composed) PROVE Agrees(k)'
      BY <1>12, <2>1, <3>8 DEF Agreement, Agrees
    <3>13. ASSUME NEW k \in 1 .. Len(composed)' PROVE Agrees(k)'
      <4>1. k \in 1 .. Len(composed) \/ k = Len(composed) + 1
        <5>1. Len(composed)' = Len(composed) + 1
          BY <3>8
        <5>2. Len(composed) \in Nat
          BY <2>2
        <5> QED
          BY <5>1, <5>2
      <4> QED
        BY <3>11, <3>12, <3>19, <4>1
    <3>14. Agreement'
      BY <1>12, <3>8, <3>10, <3>13 DEF Agreement
    <3> QED
      BY <3>6, <3>7, <3>8, <3>9, <3>14, <3>17
  <2>4. CASE ~Completes(s, body)
    <3>1. Len(msg) # s.len
      BY <1>10, <2>4 DEF Completes
    <3>2. Incomplete(msg)
      BY <1>7, <3>1
    <3>3. /\ csid2stream_' = [csid2stream_ EXCEPT ![c].msg = msg]
          /\ asserted' = (asserted \/ Len(msg) >= s.len)
          /\ UNCHANGED <<composed, peer_chunk_size_>>
      BY <3>2 DEF Incomplete, stream_
    <3>4. csid2stream_' = a.str
      BY <1>13, <2>4, <3>3 DEF StreamAfter
    <3>5. ~asserted'
      <4> HIDE DEF msg, s
      <4>1. ~ (Len(msg) >= s.len)
        BY <1>9, <1>10, <1>13, <2>2, <3>1
      <4> QED
        BY <2>1, <3>3, <4>1
    <3>6. peer_chunk_size_' = a.size /\ Len(composed') = a.done
      BY <1>11, <2>4, <3>3 DEF BodyLink
    <3> HIDE DEF msg, s
    <3>7. Agreement'
      BY <1>12, <2>1, <3>3 DEF Agreement, Agrees
    <3> QED
      BY <2>1, <3>3, <3>4, <3>5, <3>6, <3>7
  <2> QED
    BY <2>3, <2>4
<1>15. read_buf_' \in Seq(Part) /\ read_buf_' \o wire' = a.rest
  BY <1>5, <1>7
<1>16. a.str \in [Csids -> Stream] /\ a.size \in Sizes
  BY <1>3 DEF Node
<1>17. ReaderTypes'
  BY <1>7, <1>14, <1>15, <1>16 DEF StreamInv, ReaderTypes
<1>18. (Here = a)'
  BY <1>3, <1>14, <1>15 DEF Here, Node
<1>19. ReaderAt(a)'
  BY <1>3, <1>7, <1>18 DEF ReaderAt
<1>20. OnItsWay'
  BY <1>2, <1>12, <1>19 DEF OnItsWay
<1> QED
  BY <1>7, <1>12, <1>14, <1>17, <1>20 DEF StreamInv

\* try_compose returns.
LEMMA ReturnStep ==
    ASSUME StreamInv, Return, UNCHANGED writerVars
    PROVE  StreamInv'
<1>1. /\ in_call' = FALSE
      /\ UNCHANGED <<wire, read_buf_, header_done_, curr_csid_, peer_chunk_size_,
                     csid2stream_, composed, asserted, astray>>
  BY DEF Return
<1>2. PICK a, b : ReaderAt(a) /\ Path(finished, a, b) /\ WriterAt(b)
  BY DEF StreamInv, OnItsWay
<1>3. /\ WriterTypes' /\ WriterAt(b)'
      /\ finished' = finished /\ prev' = prev /\ under_way' = under_way
  BY <1>2, WriterStays DEF StreamInv
<1>4. ReaderAt(a)'
  BY <1>1, <1>2, <1>3 DEF ReaderAt, Here, HalfWay
<1>5. OnItsWay'
  BY <1>2, <1>3, <1>4 DEF OnItsWay
<1>6. ReaderTypes' /\ Agreement'
  BY <1>1, <1>3 DEF StreamInv, ReaderTypes, Agreement, Agrees
<1> QED
  BY <1>1, <1>3, <1>5, <1>6 DEF StreamInv

\* What moves from one sequence to the other stays in place.
LEMMA Moved ==
    ASSUME NEW r \in Seq(Part), NEW w \in Seq(Part), NEW k \in DOMAIN w
    PROVE  /\ r \o SubSeq(w, 1, k) \in Seq(Part)
           /\ SubSeq(w, k + 1, Len(w)) \in Seq(Part)
           /\ (r \o SubSeq(w, 1, k)) \o SubSeq(w, k + 1, Len(w)) = r \o w
<1> DEFINE u == SubSeq(w, 1, k)
           v == SubSeq(w, k + 1, Len(w))
<1>0. k \in 1 .. Len(w)
  BY LenProperties
<1>1. u \in Seq(Part) /\ v \in Seq(Part)
  <2>1. \A i \in 1 .. Len(w) : w[i] \in Part
    BY ElementOfSeq
  <2>2. Len(w) \in Nat
    BY LenProperties
  <2> QED
    BY <1>0, <2>1, <2>2, SubSeqProperties
<1>2. u \o v = w
  <2>1. Len(w) \in Nat
    BY LenProperties
  <2>2. /\ 1 \in 1 .. Len(w) + 1 /\ k \in 1 - 1 .. Len(w) /\ Len(w) \in k .. Len(w)
    BY <1>0, <2>1
  <2>3. u \o v = SubSeq(w, 1, Len(w))
    BY <2>2, ConcatAdjacentSubSeq
  <2>4. SubSeq(w, 1, Len(w)) = w
    BY SubSeqFull
  <2> QED
    BY <2>3, <2>4
<1> HIDE DEF u, v
<1>3. (r \o u) \o v = r \o (u \o v)
  BY <1>1, ConcatAssociative, SMTT(30)
<1>4. r \o u \in Seq(Part)
  BY <1>1, ConcatProperties
<1> QED
  BY <1>1, <1>2, <1>3, <1>4 DEF u, v

\* A read completes.
LEMMA ReceiveStep ==
    ASSUME StreamInv, NEW k \in 1 .. Len(wire), Receive(k), UNCHANGED writerVars
    PROVE  StreamInv'
<1>1. /\ in_call' = TRUE
      /\ read_buf_' = read_buf_ \o SubSeq(wire, 1, k)
      /\ wire' = SubSeq(wire, k + 1, Len(wire))
      /\ UNCHANGED <<header_done_, curr_csid_, peer_chunk_size_,
                     csid2stream_, composed, asserted, astray>>
  BY DEF Receive
<1>2. PICK a, b : ReaderAt(a) /\ Path(finished, a, b) /\ WriterAt(b)
  BY DEF StreamInv, OnItsWay
<1>3. /\ WriterTypes' /\ WriterAt(b)'
      /\ finished' = finished /\ prev' = prev /\ under_way' = under_way
  BY <1>2, WriterStays DEF StreamInv
<1>7. read_buf_' \in Seq(Part) /\ wire' \in Seq(Part) /\ read_buf_' \o wire' = read_buf_ \o wire
  <2>1. wire \in Seq(Part) /\ read_buf_ \in Seq(Part)
    BY DEF StreamInv, ReaderTypes
  <2>2. k \in DOMAIN wire
    BY <2>1, LenProperties
  <2> QED
    BY <1>1, <2>1, <2>2, Moved
<1>4. ReaderAt(a)'
  BY <1>1, <1>2, <1>3, <1>7 DEF ReaderAt, Here, HalfWay
<1>5. OnItsWay'
  BY <1>2, <1>3, <1>4 DEF OnItsWay
<1>6. ReaderTypes' /\ Agreement'
  BY <1>1, <1>3, <1>7 DEF StreamInv, ReaderTypes, Agreement, Agrees
<1> QED
  BY <1>1, <1>3, <1>5, <1>6 DEF StreamInv

-----------------------------------------------------------------------------
(* FlattenSeq, of any number of sequences *)

\* f is the function FlattenSeq defines for the first n members of s.
Flattens(s, f, n) ==
    f = [i \in 1 .. n |-> IF i = 1 THEN s[i] ELSE f[i - 1] \o s[i]]

\* There is such a function, of n sequences, by induction on n.
LEMMA FlattensExists ==
    ASSUME NEW s, NEW n \in Nat
    PROVE  \E f : Flattens(s, f, n)
<1> DEFINE S == {m \in Nat : \E f : Flattens(s, f, m)}
<1>1. 0 \in S
  <2> DEFINE f == [i \in 1 .. 0 |-> 0]
  <2>1. Flattens(s, f, 0)
    BY DEF Flattens
  <2> HIDE DEF f
  <2> QED
    BY <2>1
<1>2. ASSUME NEW m \in Nat, m \in S PROVE m + 1 \in S
  <2>1. PICK f : Flattens(s, f, m)
    BY <1>2
  <2> DEFINE last == IF m + 1 = 1 THEN s[m + 1] ELSE f[m] \o s[m + 1]
             g == [i \in 1 .. m + 1 |-> IF i = m + 1 THEN last ELSE f[i]]
  <2>2. Flattens(s, g, m + 1)
    <3>1. ASSUME NEW i \in 1 .. m + 1
          PROVE  g[i] = IF i = 1 THEN s[i] ELSE g[i - 1] \o s[i]
      <4>1. CASE i = m + 1
        <5>1. g[i] = last /\ (i # 1 => i - 1 = m /\ i - 1 \in 1 .. m + 1 /\ i - 1 # m + 1)
          BY <4>1
        <5>2. i # 1 => g[i - 1] = f[m]
          BY <5>1
        <5> QED
          BY <4>1, <5>1, <5>2
      <4>2. CASE i # m + 1
        <5>1. i \in 1 .. m /\ g[i] = f[i]
          BY <4>2
        <5>2. f[i] = IF i = 1 THEN s[i] ELSE f[i - 1] \o s[i]
          BY <2>1, <5>1 DEF Flattens
        <5>3. i # 1 => g[i - 1] = f[i - 1]
          BY <5>1
        <5> QED
          BY <5>1, <5>2, <5>3
      <4> QED
        BY <4>1, <4>2
    <3>2. g = [i \in 1 .. m + 1 |-> g[i]]
      OBVIOUS
    <3> HIDE DEF g
    <3> QED
      BY <3>1, <3>2 DEF Flattens
  <2> HIDE DEF g
  <2> QED
    BY <2>2
<1>3. \A m \in Nat : m \in S
  <2> HIDE DEF S
  <2> QED
    BY <1>1, <1>2, Inductive
<1> QED
  BY <1>3

\* FlattenSeq puts the sequences together one by one.
LEMMA FlattenParts ==
    ASSUME NEW s, Len(s) \in Nat \ {0}
    PROVE  \E f : /\ f[1] = s[1]
                  /\ \A i \in 2 .. Len(s) : f[i] = f[i - 1] \o s[i]
                  /\ FlattenSeq(s) = f[Len(s)]
<1> DEFINE g == CHOOSE f : Flattens(s, f, Len(s))
<1>1. Flattens(s, g, Len(s))
  BY FlattensExists
<1>2. FlattenSeq(s) = g[Len(s)]
  BY DEF FlattenSeq, Flattens
<1> HIDE DEF g
<1>3. ASSUME NEW i \in 1 .. Len(s)
      PROVE  g[i] = IF i = 1 THEN s[i] ELSE g[i - 1] \o s[i]
  BY <1>1 DEF Flattens
<1>4. g[1] = s[1]
  <2>1. 1 \in 1 .. Len(s)
    OBVIOUS
  <2> QED
    BY <1>3, <2>1
<1>5. ASSUME NEW i \in 2 .. Len(s) PROVE g[i] = g[i - 1] \o s[i]
  <2>1. i \in 1 .. Len(s) /\ i # 1
    OBVIOUS
  <2> QED
    BY <1>3, <2>1
<1> QED
  BY <1>2, <1>4, <1>5

-----------------------------------------------------------------------------
(* The writers *)

\* The reader b, with nothing left to read, after the chunk ch.
After(b, ch) ==
    LET c    == ch.head.csid
        s    == Announced(b.str[c], ch)
        last == Completes(s, ch.body)
    IN  [rest |-> <<>>,
         str  |-> [b.str EXCEPT ![c] = StreamAfter(s, ch.body)],
         size |-> IF last /\ s.type = "chunk size" THEN LocalSize ELSE b.size,
         done |-> IF last THEN b.done + 1 ELSE b.done]

\* The reader b can take the chunk ch, and what ends with it is told in f.
Takes(f, b, ch) ==
    LET s == Announced(b.str[ch.head.csid], ch)
    IN  /\ HeaderFits(b.str[ch.head.csid], ch)
        /\ BodyFits(s, b.size, ch.body)
        /\ Completes(s, ch.body) => Tells(f, b.done + 1, s, ch.body)

\* Bytes leave a stream a stream.
LEMMA StreamAfterType ==
    ASSUME NEW s \in Stream, NEW body \in Seq(Bytes)
    PROVE  StreamAfter(s, body) \in Stream
<1> DEFINE p == s.msg
<1>1. p \in Seq(Bytes)
  BY DEF Stream
<1>2. <<>> \in Seq(Bytes) /\ p \o body \in Seq(Bytes)
  <2> HIDE DEF p
  <2> QED
    BY <1>1, EmptySeq, ConcatProperties
<1>3. (IF Completes(s, body) THEN <<>> ELSE s.msg \o body) \in Seq(Bytes)
  BY <1>2
<1> HIDE DEF p
<1> QED
  BY <1>3 DEF StreamAfter, Stream

\* A chunk leaves a reader a reader.
LEMMA AfterType ==
    ASSUME NEW b \in Node, NEW ch \in Chunk, HeaderFits(b.str[ch.head.csid], ch)
    PROVE  After(b, ch) \in Node
<1> DEFINE c == ch.head.csid
           s == Announced(b.str[c], ch)
<1>1. c \in Csids /\ ch.body \in Seq(Bytes)
  BY DEF Chunk, Heads
<1>2. b.str \in [Csids -> Stream] /\ b.size \in Sizes /\ b.done \in Nat /\ b.str[c] \in Stream
  BY <1>1 DEF Node
<1>3. s \in Stream
  BY <1>2, AnnouncedType
<1>4. StreamAfter(s, ch.body) \in Stream
  BY <1>1, <1>3, StreamAfterType
<1> DEFINE x == StreamAfter(s, ch.body)
           st == [b.str EXCEPT ![c] = x]
           sz == IF Completes(s, ch.body) /\ s.type = "chunk size" THEN LocalSize ELSE b.size
           dn == IF Completes(s, ch.body) THEN b.done + 1 ELSE b.done
<1>5. st \in [Csids -> Stream]
  <2> HIDE DEF x
  <2> QED
    BY <1>1, <1>2, <1>4 DEF x
<1>6. sz \in Sizes
  BY <1>2 DEF Sizes
<1>7. dn \in Nat
  BY <1>2
<1>8. <<>> \in Seq(Part)
  BY EmptySeq
<1>9. After(b, ch) = [rest |-> <<>>, str |-> st, size |-> sz, done |-> dn]
  BY DEF After
<1> HIDE DEF st, sz, dn
<1> QED
  BY <1>5, <1>6, <1>7, <1>8, <1>9 DEF Node

\* A chunk the end of a path takes is a link.
LEMMA AfterReached ==
    ASSUME NEW f, NEW b \in Node, b.rest = <<>>, NEW ch \in Chunk, Takes(f, b, ch)
    PROVE  /\ After(b, ch) \in Node
           /\ After(b, ch).rest = <<>>
           /\ ChunkLink(f, Longer(b, PartsOf(ch)), ch, After(b, ch))
<1> DEFINE c == ch.head.csid
           s == Announced(b.str[c], ch)
           z == After(b, ch)
<1>1. c \in Csids
  BY DEF Chunk, Heads
<1>2. HeaderFits(b.str[c], ch)
  BY DEF Takes
<1>3. z \in Node
  BY <1>2, AfterType
<1>4. z.rest = <<>>
  BY DEF After
<1>5. PartsOf(ch) \in Seq(Part)
  BY PartsOfType
<1> DEFINE a == Longer(b, PartsOf(ch))
<1>6. a.str = b.str /\ a.size = b.size /\ a.done = b.done /\ a.rest = b.rest \o PartsOf(ch)
  BY <1>5, LongerType
<1>7. a.rest = PartsOf(ch) \o z.rest
  BY <1>4, <1>5, <1>6, ConcatEmptySeq
<1>8. HeaderRead(b.str, ch)[c] = s
  BY <1>1 DEF HeaderRead, Node
<1>9. BodyFits(s, b.size, ch.body)
  BY DEF Takes
<1>10. z.str = [b.str EXCEPT ![c] = StreamAfter(s, ch.body)]
  BY DEF After
<1>11. z.str = [HeaderRead(b.str, ch) EXCEPT ![c] = StreamAfter(s, ch.body)]
  <2> HIDE DEF s, z
  <2> QED
    BY <1>1, <1>10 DEF HeaderRead, Node
<1>12. ASSUME Completes(s, ch.body)
       PROVE  /\ z.done = b.done + 1
              /\ Tells(f, b.done + 1, s, ch.body)
              /\ z.size = IF s.type = "chunk size" THEN LocalSize ELSE b.size
  BY <1>12 DEF Takes, After
<1>13. ASSUME ~Completes(s, ch.body)
       PROVE  z.done = b.done /\ z.size = b.size
  BY <1>13 DEF After
<1> HIDE DEF s, z, a
<1>14. BodyLink(f, HeaderRead(a.str, ch), a.size, a.done, c, ch.body, z)
  BY <1>6, <1>8, <1>9, <1>11, <1>12, <1>13 DEF BodyLink
<1>15. HeaderFits(a.str[c], ch)
  BY <1>2, <1>6
<1>16. ChunkLink(f, a, ch, z)
  BY <1>7, <1>14, <1>15 DEF ChunkLink
<1> QED
  BY <1>3, <1>4, <1>16 DEF a, z

\* A chunk at the end of a path.
LEMMA PathTakes ==
    ASSUME NEW f, NEW a, NEW b, Path(f, a, b), NEW ch \in Chunk, Takes(f, b, ch)
    PROVE  Path(f, Longer(a, PartsOf(ch)), After(b, ch))
<1>1. b \in Node /\ b.rest = <<>>
  BY PathType
<1>2. /\ After(b, ch) \in Node
      /\ After(b, ch).rest = <<>>
      /\ ChunkLink(f, Longer(b, PartsOf(ch)), ch, After(b, ch))
  BY <1>1, AfterReached
<1> QED
  BY <1>2, PathAppend

\* The reader has all that follows.
LEMMA ReaderLonger ==
    ASSUME ReaderTypes, UNCHANGED readerVars, NEW a, ReaderAt(a),
           NEW parts \in Seq(Part), wire' = wire \o parts, Grown(finished, finished')
    PROVE  \A x : x = Longer(a, parts) => ReaderAt(x)'
<1> SUFFICES ASSUME NEW x, x = Longer(a, parts) PROVE ReaderAt(x)'
  OBVIOUS
<1>1. a \in Node
  BY DEF ReaderAt
<1>2. x \in Node /\ x.rest = a.rest \o parts /\ x.str = a.str /\ x.size = a.size /\ x.done = a.done
  BY <1>1, LongerType
<1>3. /\ read_buf_' = read_buf_ /\ header_done_' = header_done_ /\ curr_csid_' = curr_csid_
      /\ peer_chunk_size_' = peer_chunk_size_ /\ csid2stream_' = csid2stream_
      /\ composed' = composed
  BY DEF readerVars
<1>4. read_buf_ \in Seq(Part) /\ wire \in Seq(Part) /\ parts \in Seq(Part) /\ a.rest \in Seq(Part)
  BY <1>1 DEF ReaderTypes, Node
<1>5. read_buf_ \o wire' = (read_buf_ \o wire) \o parts
  <2>1. (read_buf_ \o wire) \o parts = read_buf_ \o (wire \o parts)
    BY ONLY <1>4, ConcatAssociative, SMTT(30)
  <2> QED
    BY <2>1
<1>6. CASE ~header_done_
  <2>1. a = Here
    BY <1>6 DEF ReaderAt
  <2>2. x.rest = read_buf_ \o wire'
    BY <1>2, <1>5, <2>1 DEF Here
  <2>3. (Here = x)'
    <3>1. /\ x.str = csid2stream_' /\ x.size = peer_chunk_size_' /\ x.done = Len(composed')
          /\ x.rest = read_buf_' \o wire'
      BY <1>2, <1>3, <2>1, <2>2 DEF Here
    <3> QED
      BY <1>2, <3>1 DEF Here, Node
  <2> QED
    BY <1>2, <1>3, <1>6, <2>3 DEF ReaderAt
<1>7. CASE header_done_
  <2>1. PICK body \in Seq(Bytes) : HalfWay(body, a)
    BY <1>7 DEF ReaderAt
  <2>2. read_buf_ \o wire = body \o a.rest
    BY <2>1 DEF HalfWay
  <2>3. BodyLink(finished, csid2stream_, peer_chunk_size_, Len(composed), curr_csid_, body, a)
    BY <2>1 DEF HalfWay
  <2>4. BodyLink(finished', csid2stream_, peer_chunk_size_, Len(composed), curr_csid_, body, a)
    BY <2>3, GrownBody
  <2>5. BodyLink(finished', csid2stream_, peer_chunk_size_, Len(composed), curr_csid_, body, x)
    BY <1>2, <2>4 DEF BodyLink
  <2>6. read_buf_ \o wire' = body \o x.rest
    <3>1. body \in Seq(Part)
      BY BytesAreParts
    <3> DEFINE r == a.rest
    <3>2. r \in Seq(Part)
      BY <1>4
    <3> HIDE DEF r
    <3>3. (body \o r) \o parts = body \o (r \o parts)
      BY <3>1, <3>2, ConcatAssociative
    <3> QED
      BY <1>2, <1>5, <2>2, <3>3 DEF r
  <2>7. HalfWay(body, x)'
    BY <1>3, <2>5, <2>6 DEF HalfWay
  <2> QED
    BY <1>2, <1>3, <1>7, <2>7 DEF ReaderAt
<1> QED
  BY <1>6, <1>7

\* A step of the writer that makes the path longer.
LEMMA StillOnItsWay ==
    ASSUME ReaderTypes, UNCHANGED readerVars, NEW a, NEW z, ReaderAt(a),
           NEW parts \in Seq(Part), wire' = wire \o parts, Grown(finished, finished'),
           Path(finished', Longer(a, parts), z), WriterAt(z)'
    PROVE  OnItsWay'
<1>1. PICK x : x = Longer(a, parts)
  OBVIOUS
<1>2. ReaderAt(x)'
  BY <1>1, ReaderLonger
<1>3. Path(finished', x, z)
  BY <1>1
<1> QED
  BY <1>2, <1>3 DEF OnItsWay

\* Messages finished later leave those composed as they are.
LEMMA StillAgrees ==
    ASSUME ReaderTypes, UNCHANGED readerVars, Agreement, Grown(finished, finished')
    PROVE  Agreement'
<1>1. composed' = composed
  BY DEF readerVars
<1>2. /\ Len(finished) \in Nat /\ Len(finished') \in Nat /\ Len(composed) \in Nat
      /\ Len(finished) <= Len(finished') /\ Len(composed) <= Len(finished)
  <2>1. composed \in Seq(Composition)
    BY DEF ReaderTypes
  <2> QED
    BY <2>1, LenProperties DEF Grown, Agreement
<1>3. ASSUME NEW k \in 1 .. Len(composed) PROVE Agrees(k)'
  <2>1. k \in 1 .. Len(finished)
    BY <1>2
  <2>2. finished'[k] = finished[k]
    BY <2>1 DEF Grown
  <2>3. Agrees(k)
    BY DEF Agreement
  <2> QED
    BY <1>1, <2>2, <2>3 DEF Agrees
<1> QED
  BY <1>1, <1>2, <1>3 DEF Agreement

\* A step of the writer keeps the invariant when what it adds takes the reader to
\* where the writer then is.
LEMMA WriterStep ==
    ASSUME StreamInv, UNCHANGED readerVars, NEW a, NEW z, ReaderAt(a),
           NEW parts \in Seq(Part), wire' = wire \o parts, Grown(finished, finished'),
           Path(finished', Longer(a, parts), z), WriterAt(z)', WriterTypes',
           prev'[Control] = None, under_way'[Control] = Nothing
    PROVE  StreamInv'
<1>1. ReaderTypes /\ Agreement /\ ~astray /\ ~asserted
  BY DEF StreamInv
<1>2. OnItsWay'
  BY <1>1, StillOnItsWay
<1>3. Agreement'
  BY <1>1, StillAgrees
<1>4. wire' \in Seq(Part)
  BY <1>1, ConcatProperties DEF ReaderTypes
<1>5. ReaderTypes' /\ ~astray' /\ ~asserted'
  BY <1>1, <1>4 DEF readerVars, ReaderTypes
<1> QED
  BY <1>2, <1>3, <1>5 DEF StreamInv

\* Nothing finished.
LEMMA GrownSame ==
    ASSUME WriterTypes
    PROVE  Grown(finished, finished)
BY LenProperties DEF WriterTypes, Grown

\* One message finished.
LEMMA GrownByOne ==
    ASSUME NEW f \in Seq(Message), NEW e \in Message
    PROVE  /\ Append(f, e) \in Seq(Message)
           /\ Grown(f, Append(f, e))
           /\ Len(Append(f, e)) = Len(f) + 1
           /\ Append(f, e)[Len(f) + 1] = e
<1>1. /\ Append(f, e) \in Seq(Message) /\ Len(Append(f, e)) = Len(f) + 1
      /\ Append(f, e)[Len(f) + 1] = e
      /\ \A k \in 1 .. Len(f) : Append(f, e)[k] = f[k]
  BY AppendProperties
<1>2. Len(f) \in Nat
  BY LenProperties
<1>3. Len(f) <= Len(Append(f, e))
  BY <1>1, <1>2
<1> QED
  BY <1>1, <1>3 DEF Grown

\* The sequence r is cut into body, of length n, and what is left.
Cut(r, n, body, left) ==
    /\ r \in Seq(Bytes) /\ body \in Seq(Bytes) /\ left \in Seq(Bytes)
    /\ n \in Nat /\ Len(body) = n
    /\ Len(r) = n + Len(left)
    /\ body \o left = r

\* A sequence of bytes, cut anywhere.
LEMMA CutAt ==
    ASSUME NEW r, r \in Seq(Bytes), NEW n \in Nat, n <= Len(r)
    PROVE  Cut(r, n, SubSeq(r, 1, n), SubSeq(r, n + 1, Len(r)))
<1> DEFINE u == SubSeq(r, 1, n)
           v == SubSeq(r, n + 1, Len(r))
<1>1. Len(r) \in Nat
  BY LenProperties
<1>2. \A i \in 1 .. Len(r) : r[i] \in Bytes
  BY ElementOfSeq
<1>3. u \in Seq(Bytes) /\ Len(u) = n
  <2>1. \A i \in 1 .. n : r[i] \in Bytes
    BY <1>1, <1>2
  <2>2. u \in Seq(Bytes) /\ Len(u) = IF 1 <= n THEN n - 1 + 1 ELSE 0
    BY <2>1, SubSeqProperties
  <2> QED
    BY <2>2
<1>4. v \in Seq(Bytes) /\ Len(v) = Len(r) - n
  <2>1. \A i \in n + 1 .. Len(r) : r[i] \in Bytes
    BY <1>1, <1>2
  <2>2. v \in Seq(Bytes) /\ Len(v) = IF n + 1 <= Len(r) THEN Len(r) - (n + 1) + 1 ELSE 0
    BY <1>1, <2>1, SubSeqProperties
  <2> QED
    BY <1>1, <2>2
<1>5. u \o v = r
  <2>1. /\ 1 \in 1 .. Len(r) + 1 /\ n \in 1 - 1 .. Len(r) /\ Len(r) \in n .. Len(r)
    BY <1>1
  <2>2. u \o v = SubSeq(r, 1, Len(r))
    BY <2>1, ConcatAdjacentSubSeq
  <2>3. SubSeq(r, 1, Len(r)) = r
    BY SubSeqFull
  <2> QED
    BY <2>2, <2>3
<1>6. Len(r) = n + Len(v)
  <2> HIDE DEF v
  <2> QED
    BY <1>1, <1>4
<1> HIDE DEF u, v
<1>7. Cut(r, n, u, v)
  BY <1>3, <1>4, <1>5, <1>6 DEF Cut
<1> QED
  BY <1>7 DEF u, v

\* The message w, of which the stream s, with its header read, holds what is before w.rest.
Carries(w, s) ==
    /\ s \in Stream /\ w \in UnderWay
    /\ w.msg \in Payloads /\ w.ts \in Clock /\ w.rest # <<>>
    /\ w.msg = s.msg \o w.rest
    /\ s.len = Len(w.msg) /\ s.type = "av" /\ s.abs = w.ts
    /\ Len(w.msg) > size \/ s.msg = <<>>

\* n bytes are the next piece of a message of len bytes, of which the reader has has.
Piece(n, len, has, rest, sz) ==
    /\ n \in Nat /\ n <= rest /\ len > 0 /\ has + n <= len
    /\ n = IF len <= sz THEN len ELSE IF has > len THEN sz ELSE Least(len - has, sz)
    /\ (has + n = len) <=> (n = rest)
    /\ (n # rest) => len > sz

\* How long a piece is, in numbers: a message of len bytes of which has are there.
LEMMA PieceLength ==
    ASSUME NEW len \in Nat, NEW has \in Nat, NEW rest \in Nat \ {0}, NEW sz \in Nat \ {0},
           len = has + rest, len > sz \/ has = 0,
           NEW n, n = Least(sz, rest)
    PROVE  Piece(n, len, has, rest, sz)
BY DEF Least, Piece

\* A chunk has room for a byte.
LEMMA SizesPositive == \A n \in Sizes : n \in Nat \ {0}
BY RtmpProtocolAssumption, RtmpStreamAssumption DEF Sizes

\* The piece the writer cuts is the one the reader waits for.
LEMMA PieceFits ==
    ASSUME WriterTypes, NEW w, NEW s, Carries(w, s), NEW n, n = Least(size, Len(w.rest)),
           NEW body, NEW left, Cut(w.rest, n, body, left)
    PROVE  /\ BodyFits(s, size, body)
           /\ Completes(s, body) <=> left = <<>>
           /\ left # <<>> => Len(w.msg) > size
           /\ (s.msg \o body) \o left = w.msg
           /\ left = <<>> => s.msg \o body = w.msg
<1> DEFINE m == s.msg
           r == w.rest
<1>1. m \in Seq(Bytes) /\ r \in Seq(Bytes) /\ r # <<>> /\ w.msg = m \o r /\ s.len = Len(w.msg)
  BY DEF Carries, Stream, UnderWay
<1>2. body \in Seq(Bytes) /\ left \in Seq(Bytes) /\ Len(body) = n /\ Len(r) = n + Len(left)
      /\ body \o left = r /\ n \in Nat
  BY DEF Cut
<1>3. size \in Nat \ {0}
  BY SizesPositive DEF WriterTypes
<1>4. Len(w.msg) > size \/ m = <<>>
  BY DEF Carries
<1>5. n = Least(size, Len(r))
  OBVIOUS
<1>6. s.len = Len(m \o r)
  BY <1>1
<1>7. BodyFits(s, size, body) <=>
        /\ Len(body) = (IF s.len <= size THEN s.len
                        ELSE IF Len(m) > s.len THEN size
                        ELSE Least(s.len - Len(m), size))
        /\ s.len > 0
        /\ Len(m) + Len(body) <= s.len
  BY DEF BodyFits, Needed
<1>8. Completes(s, body) <=> Len(m) + Len(body) = s.len
  BY DEF Completes
<1> HIDE DEF m, r
<1>9. Len(m \o r) = Len(m) + Len(r)
  BY <1>1, ConcatProperties
<1>10. Len(m) \in Nat /\ Len(r) \in Nat \ {0} /\ Len(left) \in Nat /\ (m = <<>> => Len(m) = 0)
  BY <1>1, <1>2, EmptySeq, LenProperties
<1> DEFINE len == Len(m) + Len(r)
           has == Len(m)
           rest == Len(r)
<1>11. s.len = len /\ Len(w.msg) = len
  BY <1>1, <1>6, <1>9
<1>12. Piece(n, len, has, rest, size)
  <2>1. len \in Nat /\ has \in Nat /\ rest \in Nat \ {0} /\ len = has + rest
    BY <1>10
  <2>2. len > size \/ has = 0
    BY <1>4, <1>10, <1>11
  <2> HIDE DEF len, has, rest
  <2>3. n = Least(size, rest)
    BY <1>5 DEF rest
  <2>4. n = Least(size, rest) /\ (len > size \/ has = 0) /\ len = has + rest
    BY <2>1, <2>2, <2>3
  <2>5. len \in Nat /\ has \in Nat /\ rest \in Nat \ {0} /\ size \in Nat \ {0}
    BY <1>3, <2>1
  <2> QED
    BY <2>4, <2>5, PieceLength
<1>13. left = <<>> <=> n = rest
  <2>1. left = <<>> <=> Len(left) = 0
    BY <1>2, EmptySeq
  <2> QED
    BY <1>2, <1>10, <2>1
<1> HIDE DEF len, has, rest
<1>14. BodyFits(s, size, body)
  BY <1>2, <1>7, <1>11, <1>12 DEF has, Piece
<1>15. Completes(s, body) <=> left = <<>>
  BY <1>2, <1>8, <1>11, <1>12, <1>13 DEF has, Piece
<1>16. left # <<>> => Len(w.msg) > size
  BY <1>11, <1>12, <1>13 DEF Piece
<1>17. (m \o body) \o left = w.msg
  <2>2. m \in Seq(Bytes) /\ body \in Seq(Bytes) /\ left \in Seq(Bytes)
    BY <1>1, <1>2
  <2>1. (m \o body) \o left = m \o (body \o left)
    BY <2>2, ConcatAssociative, SMTT(30)
  <2> QED
    BY <1>1, <1>2, <2>1
<1>18. ASSUME left = <<>> PROVE m \o body = w.msg
  <2>1. m \o body \in Seq(Bytes)
    BY <1>1, <1>2, ConcatProperties
  <2>2. (m \o body) \o <<>> = m \o body
    BY <2>1, ConcatEmptySeq
  <2> QED
    BY <1>17, <1>18, <2>2
<1> QED
  BY <1>14, <1>15, <1>16, <1>17, <1>18 DEF m

\* The last chunk of the message w, or one that leaves left of it, is written on c.
Wrote(c, w, body, left) ==
    /\ Cut(w.rest, Least(size, Len(w.rest)), body, left)
    /\ left = <<>> =>
         /\ under_way' = [under_way EXCEPT ![c] = Nothing]
         /\ finished' = Append(finished, Sent("av", w.ts, w.msg, TRUE))
    /\ left # <<>> =>
         /\ under_way' = [under_way EXCEPT ![c] = [w EXCEPT !.rest = left]]
         /\ finished' = finished

\* The chunk of three components.
ChunkOf(head, ext, body) == [head |-> head, ext |-> ext, body |-> body]

\* WriteChunk puts the parts of a chunk behind each other.
LEMMA PartsInOrder ==
    ASSUME WriterTypes, wire \in Seq(Part), NEW head \in Heads, NEW ext \in Seq(Exts),
           NEW body \in Seq(Bytes)
    PROVE  /\ ChunkOf(head, ext, body) \in Chunk
           /\ wire \o <<head>> \o ext \o body = wire \o PartsOf(ChunkOf(head, ext, body))
<1> DEFINE ch == ChunkOf(head, ext, body)
           p == <<head>>
<1>1. ch \in Chunk /\ ch.head = head /\ ch.ext = ext /\ ch.body = body
  BY DEF Chunk, ChunkOf
<1> HIDE DEF ch
<1>2. p \in Seq(Part) /\ ext \in Seq(Part) /\ body \in Seq(Part) /\ wire \in Seq(Part)
  BY <1>1, ChunkParts
<1>3. PartsOf(ch) = p \o (ext \o body)
  BY <1>1 DEF PartsOf
<1> HIDE DEF p
<1>4. p \o ext \in Seq(Part) /\ ext \o body \in Seq(Part)
  BY <1>2, ConcatProperties
<1>5. (wire \o p) \o ext = wire \o (p \o ext)
  BY <1>2, ConcatAssociative
<1>6. (wire \o (p \o ext)) \o body = wire \o ((p \o ext) \o body)
  <2> DEFINE q == p \o ext
  <2>1. q \in Seq(Part)
    BY <1>4
  <2> HIDE DEF q
  <2>3. wire \in Seq(Part) /\ q \in Seq(Part) /\ body \in Seq(Part)
    BY <1>2, <2>1
  <2>2. (wire \o q) \o body = wire \o (q \o body)
    BY ONLY <2>3, ConcatAssociative, SMTT(30)
  <2> QED
    BY <2>2 DEF q
<1>7. (p \o ext) \o body = p \o (ext \o body)
  BY <1>2, ConcatAssociative
<1> QED
  BY <1>1, <1>3, <1>5, <1>6, <1>7 DEF p, ch

\* WriteChunk writes a chunk, and what it leaves is the rest of the message.
LEMMA ChunkWritten ==
    ASSUME WriterTypes, wire \in Seq(Part), NEW c, NEW head \in Heads, NEW w \in UnderWay,
           w.rest # <<>>, WriteChunk(c, head, w)
    PROVE  \E body \in Seq(Bytes), left \in Seq(Bytes) :
             /\ Wrote(c, w, body, left)
             /\ wire' = wire \o PartsOf(ChunkOf(head, w.ext, body))
<1> DEFINE r == w.rest
           n == Least(size, Len(r))
           body == SubSeq(r, 1, n)
           left == SubSeq(r, n + 1, Len(r))
<1>1. r \in Seq(Bytes) /\ w.ext \in Seq(Exts)
  BY DEF UnderWay
<1>2. n \in Nat /\ n <= Len(r)
  <2>1. size \in Nat /\ Len(r) \in Nat
    BY <1>1, SizesPositive, LenProperties DEF WriterTypes
  <2> HIDE DEF r
  <2> QED
    BY <2>1 DEF Least
<1>3. Cut(r, n, body, left)
  <2> HIDE DEF r, n
  <2> QED
    BY <1>1, <1>2, CutAt
<1>4. [w EXCEPT !.rest = left].rest = left
  BY DEF UnderWay
<1>5. /\ wire' = wire \o <<head>> \o w.ext \o body
      /\ IF left = <<>>
         THEN /\ under_way' = [under_way EXCEPT ![c] = Nothing]
              /\ finished' = Append(finished, Sent("av", w.ts, w.msg, TRUE))
         ELSE /\ under_way' = [under_way EXCEPT ![c] = [w EXCEPT !.rest = left]]
              /\ UNCHANGED finished
  BY <1>4 DEF WriteChunk
<1> HIDE DEF body, left
<1>6. Wrote(c, w, body, left)
  BY <1>3, <1>5 DEF Wrote
<1>7. body \in Seq(Bytes) /\ left \in Seq(Bytes)
  BY <1>3 DEF Cut
<1>8. wire' = wire \o PartsOf(ChunkOf(head, w.ext, body))
  BY <1>1, <1>5, <1>7, PartsInOrder
<1> QED
  BY <1>6, <1>7, <1>8

\* What a chunk stream other than the one written on is like.
OthersStay(c) ==
    /\ UNCHANGED writer
    /\ \A d \in Csids : d # c => /\ under_way'[d] = under_way[d] /\ prev'[d] = prev[d]
                                /\ exact'[d] = exact[d]
    /\ size' = size \/ \A d \in Csids : under_way[d] = Nothing

\* A chunk on c leaves what is known of the other streams.
LEMMA OtherStream ==
    ASSUME NEW c, OthersStay(c), NEW d \in Csids, d # c, NEW s, StreamAt(d, s)
    PROVE  StreamAt(d, s)'
<1>1. under_way'[d] = under_way[d] /\ prev'[d] = prev[d] /\ writer' = writer /\ exact'[d] = exact[d]
  BY DEF OthersStay
<1>2. under_way[d] # Nothing => HoldsPart(under_way[d], s)'
  <2>1. ASSUME under_way[d] # Nothing PROVE size' = size
    BY <2>1 DEF OthersStay
  <2> QED
    BY <1>1, <2>1 DEF StreamAt, HoldsPart
<1> QED
  BY <1>1, <1>2 DEF StreamAt

\* After the chunk ch every stream is as the writer has it, when its own is.
LEMMA WriterAfter ==
    ASSUME NEW b \in Node, WriterAt(b), NEW ch \in Chunk, OthersStay(ch.head.csid),
           StreamAt(ch.head.csid, After(b, ch).str[ch.head.csid])',
           After(b, ch).done = Len(finished'), After(b, ch).size = size'
    PROVE  WriterAt(After(b, ch))'
<1> DEFINE c == ch.head.csid
<1>1. PICK z : z = After(b, ch)
  OBVIOUS
<1>2. ASSUME NEW d \in Csids PROVE StreamAt(d, z.str[d])'
  <2>1. CASE d = c
    BY <1>1, <2>1
  <2>2. CASE d # c
    <3>1. z.str[d] = b.str[d]
      BY <1>1, <2>2 DEF After, Node
    <3>2. StreamAt(d, b.str[d])
      BY DEF WriterAt
    <3>3. PICK s : s = b.str[d]
      OBVIOUS
    <3>4. StreamAt(d, s)'
      BY <2>2, <3>2, <3>3, OtherStream
    <3> QED
      BY <3>1, <3>3, <3>4
  <2> QED
    BY <2>1, <2>2
<1>3. WriterAt(z)'
  BY <1>1, <1>2 DEF WriterAt
<1> QED
  BY <1>1, <1>3

\* What is known of the message before on c fits the stream s.
PrevFits(c, s) == prev'[c] # None => s.len = prev'[c].len /\ s.abs = prev'[c].ts

\* After the piece the stream is where the writer is.
LEMMA PieceStream ==
    ASSUME WriterTypes, NEW c \in Csids, NEW w, NEW s, Carries(w, s),
           NEW body, NEW left, Wrote(c, w, body, left),
           writer = "specification", UNCHANGED <<writer, size, exact>>, exact[c],
           PrevFits(c, s), left # <<>> => s.timestamp # MaxTs /\ w.ext = <<>>
    PROVE  StreamAt(c, StreamAfter(s, body))'
<1>1. PICK t : t = StreamAfter(s, body)
  OBVIOUS
<1>2. s \in Stream /\ s.type = "av" /\ w \in UnderWay
  BY DEF Carries
<1>3. /\ t.timestamp = s.timestamp /\ t.abs = s.abs /\ t.len = s.len /\ t.type = s.type
      /\ t.msg = IF Completes(s, body) THEN <<>> ELSE s.msg \o body
  BY <1>1, <1>2 DEF StreamAfter, Stream
<1>4. PICK n : n = Least(size, Len(w.rest))
  OBVIOUS
<1>5. Cut(w.rest, n, body, left)
  BY <1>4 DEF Wrote
<1>6. /\ Completes(s, body) <=> left = <<>>
      /\ left # <<>> => Len(w.msg) > size
      /\ (s.msg \o body) \o left = w.msg
  <2>1. Carries(w, s) /\ WriterTypes
    OBVIOUS
  <2> QED
    BY ONLY <1>4, <1>5, <2>1, PieceFits
<1>7. under_way \in [Csids -> UnderWay]
  BY DEF WriterTypes
<1>8. prev'[c] # None => t.len = prev'[c].len /\ t.type = "av" /\ t.abs = prev'[c].ts
  BY <1>2, <1>3 DEF PrevFits
<1>9. CASE left = <<>>
  <2>1. under_way'[c] = Nothing
    BY <1>7, <1>9 DEF Wrote
  <2>2. t.msg = <<>>
    BY <1>3, <1>6, <1>9
  <2>3. StreamAt(c, t)'
    BY <1>8, <2>1, <2>2 DEF StreamAt
  <2> QED
    BY <1>1, <2>3
<1>10. CASE left # <<>>
  <2> DEFINE u == [w EXCEPT !.rest = left]
  <2>1. under_way'[c] = u
    BY <1>7, <1>10 DEF Wrote
  <2>2. u.rest = left /\ u.msg = w.msg /\ u.ts = w.ts /\ u.ext = <<>>
    BY <1>2, <1>10 DEF UnderWay
  <2> HIDE DEF u
  <2>3. u # Nothing
    BY <1>10, <2>2 DEF Nothing
  <2>4. t.msg = s.msg \o body
    BY <1>3, <1>6, <1>10
  <2>5. HoldsPart(u, t)
    BY <1>3, <1>6, <1>10, <2>2, <2>4 DEF HoldsPart, Carries
  <2>6. HoldsPart(u, t)'
    BY <2>5 DEF HoldsPart
  <2>7. StreamAt(c, t)'
    BY <1>3, <1>8, <1>10, <2>1, <2>3, <2>6 DEF StreamAt
  <2> QED
    BY <1>1, <2>7
<1> QED
  BY <1>9, <1>10

\* The stream s0 is one that can take a chunk of the message w with the header head.
Opens(c, head, w, s0) ==
    LET ch == ChunkOf(head, w.ext, <<>>)
        s  == Announced(s0, ch)
    IN  /\ HeaderFits(s0, ch) /\ Carries(w, s) /\ PrevFits(c, s)
        /\ (s.timestamp # MaxTs /\ w.ext = <<>>) \/ Len(w.rest) <= size

\* The same, of whatever stream the reader has on c.
AlwaysOpens(c, head, w) == \A s \in Stream : StreamAt(c, s) => Opens(c, head, w, s)

\* A finished message is one.
LEMMA SentType ==
    ASSUME NEW w \in UnderWay
    PROVE  Sent("av", w.ts, w.msg, TRUE) \in Message
BY DEF Sent, UnderWay, Message, MsgTypes

\* The message w ends with the chunk of body.
LEMMA PieceTold ==
    ASSUME WriterTypes, NEW c, NEW w, NEW s, Carries(w, s), NEW body,
           Wrote(c, w, body, <<>>)
    PROVE  Tells(finished', Len(finished) + 1, s, body)
<1> DEFINE e == Sent("av", w.ts, w.msg, TRUE)
<1>1. w \in UnderWay /\ s.type = "av" /\ s.abs = w.ts
  BY DEF Carries
<1>2. e \in Message /\ e.msg = w.msg /\ e.ts = w.ts
  BY <1>1, SentType DEF Sent
<1>3. finished' = Append(finished, e)
  BY DEF Wrote
<1> HIDE DEF e
<1>4. finished \in Seq(Message)
  BY DEF WriterTypes
<1>5. /\ Len(finished') = Len(finished) + 1 /\ finished'[Len(finished) + 1] = e
      /\ Len(finished) \in Nat
  BY <1>2, <1>3, <1>4, GrownByOne, LenProperties
<1>6. Len(finished) + 1 \in 1 .. Len(finished')
  BY <1>5
<1>7. PICK n : n = Least(size, Len(w.rest))
  OBVIOUS
<1>8. Cut(w.rest, n, body, <<>>)
  BY <1>7 DEF Wrote
<1>9. s.msg \o body = w.msg
  <2>1. Carries(w, s) /\ WriterTypes
    OBVIOUS
  <2> QED
    BY ONLY <1>7, <1>8, <2>1, PieceFits, SMTT(30)
<1> QED
  BY <1>1, <1>2, <1>5, <1>6, <1>9 DEF Tells

\* The types of what WriteChunk changes.
LEMMA WroteTypes ==
    ASSUME WriterTypes, NEW c \in Csids, NEW w \in UnderWay, NEW body, NEW left,
           Wrote(c, w, body, left)
    PROVE  /\ under_way' \in [Csids -> UnderWay]
           /\ \A d \in Csids : d # c => under_way'[d] = under_way[d]
           /\ finished' \in Seq(Message)
           /\ Grown(finished, finished')
           /\ Len(finished') = IF left = <<>> THEN Len(finished) + 1 ELSE Len(finished)
<1>1. finished \in Seq(Message) /\ under_way \in [Csids -> UnderWay]
  BY DEF WriterTypes
<1>2. CASE left = <<>>
  <2> DEFINE e == Sent("av", w.ts, w.msg, TRUE)
  <2>1. e \in Message
    BY SentType
  <2>2. finished' = Append(finished, e) /\ under_way' = [under_way EXCEPT ![c] = Nothing]
    BY <1>2 DEF Wrote
  <2> HIDE DEF e
  <2>3. /\ Append(finished, e) \in Seq(Message) /\ Grown(finished, Append(finished, e))
        /\ Len(Append(finished, e)) = Len(finished) + 1
    BY <1>1, <2>1, GrownByOne
  <2>4. Nothing \in UnderWay
    BY EmptySeq DEF Nothing, UnderWay
  <2> QED
    BY <1>1, <1>2, <2>2, <2>3, <2>4
<1>3. CASE left # <<>>
  <2>1. left \in Seq(Bytes)
    BY DEF Wrote, Cut
  <2>2. finished' = finished
        /\ under_way' = [under_way EXCEPT ![c] = [w EXCEPT !.rest = left]]
    BY <1>3 DEF Wrote
  <2>3. [w EXCEPT !.rest = left] \in UnderWay
    BY <2>1 DEF UnderWay
  <2>4. Grown(finished, finished)
    BY GrownSame
  <2> QED
    BY <1>1, <1>3, <2>2, <2>3, <2>4
<1> QED
  BY <1>2, <1>3

\* A chunk of a writer that follows the specification keeps the invariant.
LEMMA PieceStep ==
    ASSUME StreamInv, UNCHANGED readerVars, writer = "specification",
           UNCHANGED <<writer, size, exact>>,
           NEW c \in Media, NEW head \in Heads, head.csid = c,
           NEW w \in UnderWay, w.rest # <<>>, WriteChunk(c, head, w),
           prev' \in [Csids -> Previous \cup {None}],
           \A d \in Csids : d # c => prev'[d] = prev[d],
           count' \in 0 .. MaxMessages,
           AlwaysOpens(c, head, w)
    PROVE  StreamInv'
<1>1. /\ ReaderTypes /\ WriterTypes /\ prev[Control] = None
      /\ under_way[Control] = Nothing /\ wire \in Seq(Part)
  BY DEF StreamInv, ReaderTypes
<1>2. PICK a, b : ReaderAt(a) /\ Path(finished, a, b) /\ WriterAt(b)
  BY DEF StreamInv, OnItsWay
<1>3. b \in Node
  BY <1>2, PathType
<1>4. PICK body \in Seq(Bytes), left \in Seq(Bytes) :
        /\ Wrote(c, w, body, left)
        /\ wire' = wire \o PartsOf(ChunkOf(head, w.ext, body))
  BY <1>1, ChunkWritten
<1> DEFINE ch == ChunkOf(head, w.ext, body)
           s0 == b.str[c]
           s == Announced(s0, ch)
           z == After(b, ch)
<1>5. c \in Csids /\ c # Control
  BY RtmpStreamAssumption DEF Media
<1>6. ch \in Chunk /\ ch.head = head /\ ch.ext = w.ext /\ ch.body = body
  BY DEF ChunkOf, Chunk, UnderWay
<1>7. s0 \in Stream /\ StreamAt(c, s0) /\ b.done = Len(finished) /\ b.size = size
  BY <1>2, <1>3, <1>5 DEF Node, WriterAt
<1>8. Opens(c, head, w, s0)
  BY <1>7 DEF AlwaysOpens
<1>9. /\ HeaderFits(s0, ch) /\ Carries(w, s) /\ PrevFits(c, s)
      /\ (s.timestamp # MaxTs /\ w.ext = <<>>) \/ Len(w.rest) <= size
  BY <1>8 DEF Opens, ChunkOf, HeaderFits, Announced
<1> HIDE DEF ch, s0, s, z
<1>10. /\ under_way' \in [Csids -> UnderWay]
       /\ \A d \in Csids : d # c => under_way'[d] = under_way[d]
       /\ finished' \in Seq(Message)
       /\ Grown(finished, finished')
       /\ Len(finished') = IF left = <<>> THEN Len(finished) + 1 ELSE Len(finished)
  BY <1>1, <1>4, <1>5, WroteTypes
<1>11. PICK n : n = Least(size, Len(w.rest))
  OBVIOUS
<1>12. Cut(w.rest, n, body, left)
  BY <1>4, <1>11 DEF Wrote
<1>13. /\ BodyFits(s, size, body)
       /\ Completes(s, body) <=> left = <<>>
  BY ONLY <1>1, <1>9, <1>11, <1>12, PieceFits
<1>14. left # <<>> => s.timestamp # MaxTs /\ w.ext = <<>>
  <2> SUFFICES ASSUME Len(w.rest) <= size PROVE left = <<>>
    BY <1>9
  <2> DEFINE k == Len(w.rest)
  <2>1. k = n + Len(left) /\ n \in Nat /\ left \in Seq(Bytes)
    BY <1>12 DEF Cut
  <2>5. k \in Nat /\ size \in Nat
    <3>1. w.rest \in Seq(Bytes)
      BY DEF UnderWay
    <3> QED
      BY <1>1, <3>1, SizesPositive, LenProperties DEF WriterTypes
  <2>6. n = Least(size, k) /\ k <= size
    BY <1>11
  <2> HIDE DEF k
  <2>2. n = k
    BY <2>5, <2>6 DEF Least
  <2>3. Len(left) \in Nat
    BY <2>1, LenProperties
  <2>4. Len(left) = 0
    BY <2>1, <2>2, <2>3
  <2> QED
    BY <2>1, <2>4, EmptySeq
<1>15. exact[c]
  BY <1>7 DEF StreamAt
<1>16. StreamAt(c, StreamAfter(s, body))'
  <2>1. PICK t : t = s
    OBVIOUS
  <2>2. StreamAt(c, StreamAfter(t, body))'
    BY <1>1, <1>4, <1>5, <1>9, <1>14, <1>15, <2>1, PieceStream
  <2>3. PICK u : u = StreamAfter(t, body)
    OBVIOUS
  <2> QED
    BY <2>1, <2>2
<1>17. Takes(finished', b, ch)
  <2>1. Completes(s, body) => Tells(finished', b.done + 1, s, body)
    <3>1. ASSUME left = <<>> PROVE Tells(finished', Len(finished) + 1, s, body)
      BY <1>1, <1>4, <1>9, <3>1, PieceTold
    <3> QED
      BY <1>7, <1>13, <3>1
  <2>2. BodyFits(s, b.size, body)
    BY <1>7, <1>13
  <2> QED
    BY <1>6, <1>9, <2>1, <2>2 DEF Takes, s, s0
<1>18. Path(finished', Longer(a, PartsOf(ch)), z)
  <2>1. Path(finished', a, b)
    BY <1>2, <1>10, PathGrown
  <2> QED
    BY <1>6, <1>17, <2>1, PathTakes DEF z
<1>19. z.str[c] = StreamAfter(s, body) /\ z.done = Len(finished') /\ z.size = size'
  <2>1. z.str[c] = StreamAfter(s, body)
    BY <1>3, <1>5, <1>6 DEF z, After, Node, s, s0
  <2>2. s.type = "av"
    BY <1>9 DEF Carries
  <2>3. z.size = b.size
    BY <1>6, <2>2 DEF z, After, s, s0
  <2>4. z.done = IF Completes(s, body) THEN b.done + 1 ELSE b.done
    BY <1>6 DEF z, After, s, s0
  <2> QED
    BY <1>7, <1>10, <1>13, <2>1, <2>3, <2>4
<1>20. WriterAt(z)'
  <2>1. OthersStay(c)
    BY <1>10 DEF OthersStay
  <2>2. PICK x : x = z.str[c]
    OBVIOUS
  <2>3. StreamAt(c, x)'
    BY <1>16, <1>19, <2>2
  <2> QED
    BY <1>2, <1>3, <1>6, <1>19, <2>1, <2>2, <2>3, WriterAfter DEF z
<1>21. WriterTypes'
  BY <1>1, <1>10 DEF WriterTypes
<1>22. prev'[Control] = None /\ under_way'[Control] = Nothing
  BY <1>1, <1>5, <1>10, RtmpStreamAssumption
<1>23. PartsOf(ch) \in Seq(Part) /\ wire' = wire \o PartsOf(ch)
  BY <1>4, <1>6, PartsOfType DEF ch
<1>24. PICK x : x = z
  OBVIOUS
<1>25. WriterAt(x)' /\ Path(finished', Longer(a, PartsOf(ch)), x)
  BY <1>18, <1>20, <1>24
<1> QED
  BY <1>2, <1>10, <1>21, <1>22, <1>23, <1>25, WriterStep

\* HeadPart makes a header.
LEMMA HeadPartType ==
    ASSUME NEW fmt \in 0 .. 3, NEW c \in Csids, NEW ts \in Nat, NEW len \in Nat,
           NEW type \in MsgTypes
    PROVE  HeadPart(fmt, c, ts, len, type) \in Heads
<1>1. (IF fmt <= 1 THEN len ELSE 0) \in Nat
  OBVIOUS
<1>2. (IF fmt <= 1 THEN type ELSE "same") \in MsgTypes
  BY DEF MsgTypes
<1> QED
  BY <1>1, <1>2 DEF HeadPart, Heads, HeadKind

\* ContinueMessage keeps the invariant.
LEMMA ContinueMessageStep ==
    ASSUME StreamInv, NEW c \in Media, ContinueMessage(c)
    PROVE  StreamInv'
<1> DEFINE w == under_way[c]
           head == HeadPart(3, c, 0, 0, "av")
<1>1. /\ writer = "specification" /\ w # Nothing /\ WriteChunk(c, head, w)
      /\ UNCHANGED readerVars /\ UNCHANGED <<writer, size, exact>>
      /\ prev' = prev /\ count' = count
  BY DEF ContinueMessage
<1>2. WriterTypes
  BY DEF StreamInv
<1>3. c \in Csids
  BY DEF Media
<1>4. PICK a, b : Path(finished, a, b) /\ WriterAt(b)
  BY DEF StreamInv, OnItsWay
<1>5. HoldsPart(w, b.str[c])
  BY <1>1, <1>3, <1>4 DEF WriterAt, StreamAt
<1>6. w \in UnderWay /\ w.rest # <<>>
  BY <1>2, <1>3, <1>5 DEF HoldsPart, WriterTypes
<1>7. head \in Heads /\ head.csid = c /\ head.fmt = 3
  <2>1. "av" \in MsgTypes
    BY DEF MsgTypes
  <2>2. head \in Heads
    BY <1>3, <2>1, HeadPartType
  <2> QED
    BY <2>2 DEF HeadPart
<1> HIDE DEF head
<1>8. ASSUME NEW s \in Stream, StreamAt(c, s)
      PROVE  Opens(c, head, w, s)
  <2>1. HoldsPart(w, s) /\ s.timestamp # MaxTs /\ exact[c]
    BY <1>1, <1>8 DEF StreamAt
  <2> DEFINE ch == ChunkOf(head, w.ext, <<>>)
  <2>2. ch.head = head /\ ch.ext = <<>> /\ w.ext = <<>>
    BY <2>1 DEF ChunkOf, HoldsPart
  <2>3. MessageHeader(s, head) = s
    BY <1>7 DEF MessageHeader
  <2> HIDE DEF ch
  <2>4. HeaderFits(s, ch) /\ Announced(s, ch) = s
    BY <2>1, <2>2, <2>3 DEF HeaderFits, Announced
  <2>5. Carries(w, s)
    <3> HIDE DEF w
    <3> QED
      BY <1>6, <2>1 DEF Carries, HoldsPart
  <2>6. PrevFits(c, s)
    BY <1>1, <1>8, <2>1 DEF PrevFits, StreamAt
  <2> QED
    BY <2>1, <2>2, <2>4, <2>5, <2>6 DEF Opens, ch
<1>9. AlwaysOpens(c, head, w)
  BY <1>8 DEF AlwaysOpens
<1>10. prev' \in [Csids -> Previous \cup {None}] /\ count' \in 0 .. MaxMessages
       /\ \A d \in Csids : d # c => prev'[d] = prev[d]
  BY <1>1, <1>2 DEF WriterTypes
<1> HIDE DEF w
<1> QED
  BY <1>1, <1>6, <1>7, <1>9, <1>10, PieceStep

-----------------------------------------------------------------------------
(* The first chunk of a message *)

\* The bytes of a message.
LEMMA PayloadType ==
    ASSUME NEW id \in 0 .. MaxMessages, NEW len \in Lens
    PROVE  /\ Payload(id, len) \in Seq(Bytes) /\ Len(Payload(id, len)) = len
           /\ Payload(id, len) \in Payloads /\ len \in Nat
<1>1. len \in Nat /\ id \in Nat
  BY RtmpStreamAssumption
<1>2. \A i \in 1 .. len : Byte(id, i) \in Bytes
  BY <1>1 DEF Byte, Bytes, ByteKind
<1>3. Payload(id, len) \in Seq(Bytes) /\ Len(Payload(id, len)) = len
  <2> DEFINE F(i) == Byte(id, i)
  <2>1. \A i \in 1 .. len : F(i) \in Bytes
    BY <1>2
  <2>2. Payload(id, len) = [i \in 1 .. len |-> F(i)]
    BY DEF Payload
  <2> HIDE DEF F
  <2>3. [i \in 1 .. len |-> F(i)] \in Seq(Bytes) /\ Len([i \in 1 .. len |-> F(i)]) = len
    BY <1>1, <2>1, IsASeq
  <2> QED
    BY <2>2, <2>3
<1> QED
  BY <1>1, <1>3 DEF Payloads

\* The header of a message on c, that of the message before being p.
LEMMA FirstHeader ==
    ASSUME NEW c \in Csids, NEW s \in Stream, s.msg = <<>>,
           NEW fmt \in 0 .. 2, NEW ts \in Nat, NEW len \in Nat, NEW before \in Int,
           fmt # 0 => s.abs = before, fmt = 2 => s.len = len /\ s.type = "av",
           NEW field \in Nat, field = (IF fmt = 0 THEN ts ELSE ts - before),
           NEW ext, ext = (IF field >= MaxTs THEN <<Ext(field)>> ELSE <<>>),
           field >= MaxTs => fmt = 0,
           NEW ch, ch.head = HeadPart(fmt, c, Least(field, MaxTs), len, "av"), ch.ext = ext
    PROVE  /\ HeaderFits(s, ch)
           /\ Announced(s, ch) \in Stream
           /\ Announced(s, ch).msg = <<>> /\ Announced(s, ch).len = len
           /\ Announced(s, ch).type = "av" /\ Announced(s, ch).abs = ts
           /\ field < MaxTs => Announced(s, ch).timestamp # MaxTs
<1> DEFINE low == Least(field, MaxTs)
           h == ch.head
           s0 == MessageHeader(s, h)
<1>1. low \in Nat /\ (low = MaxTs <=> field >= MaxTs) /\ (field < MaxTs => low = field)
  <2>1. field \in Nat /\ MaxTs \in Nat
    BY RtmpChunkAssumption
  <2>2. \A x \in Nat, y \in Nat : Least(x, y) \in Nat
          /\ (Least(x, y) = y <=> x >= y) /\ (x < y => Least(x, y) = x)
    BY ONLY DEF Least
  <2> QED
    BY ONLY <2>1, <2>2 DEF low
<1>2. "av" \in MsgTypes
  BY DEF MsgTypes
<1> HIDE DEF low
<1>3. /\ h.fmt = fmt /\ h.ts = low
      /\ fmt <= 1 => h.len = len /\ h.type = "av"
  BY DEF HeadPart, low
<1>4. h \in Heads
  <2>1. HeadPart(fmt, c, low, len, "av") \in Heads
    BY <1>1, <1>2, HeadPartType
  <2> QED
    BY <2>1 DEF low
<1>5. s0 \in Stream /\ s0.msg = <<>>
  BY <1>4, HeaderType
<1>6. s.abs \in Nat
  BY DEF Stream
<1>7. s0.timestamp = low /\ s0.len = len /\ s0.type = "av"
      /\ s0.abs = IF fmt = 0 THEN low ELSE s.abs + low
  <2>1. CASE fmt = 0
    BY <1>3, <2>1 DEF MessageHeader, Stream
  <2>2. CASE fmt = 1
    BY <1>3, <2>2 DEF MessageHeader, Stream
  <2>3. CASE fmt = 2
    BY <1>3, <2>3 DEF MessageHeader, Stream
  <2> QED
    BY <2>1, <2>2, <2>3
<1> HIDE DEF h, s0
<1>8. CASE field < MaxTs
  <2>1. ch.ext = <<>> /\ low = field /\ low # MaxTs
    BY <1>1, <1>8, RtmpChunkAssumption
  <2>2. HeaderFits(s, ch) /\ Announced(s, ch) = s0
    BY <1>7, <2>1 DEF HeaderFits, Announced, s0, h
  <2>3. s0.abs = ts
    BY <1>6, <1>7, <2>1
  <2> QED
    BY <1>5, <1>7, <2>1, <2>2, <2>3
<1>9. CASE field >= MaxTs
  <2> DEFINE e == Ext(field)
  <2>1. fmt = 0 /\ field = ts /\ low = MaxTs
    BY <1>1, <1>9
  <2>2. ch.ext = <<e>> /\ ch.ext # <<>> /\ Len(ch.ext) = 1 /\ ch.ext[1] = e
    BY <1>9
  <2>3. e.ts = ts
    BY <2>1 DEF Ext
  <2> HIDE DEF e
  <2>4. HeaderFits(s, ch)
    BY <1>3, <1>7, <2>1, <2>2 DEF HeaderFits, s0, h
  <2>5. Announced(s, ch) = ExtendedTimestamp(s0, h.fmt, e)
    BY <2>2 DEF Announced, s0, h
  <2>6. Announced(s, ch) = [s0 EXCEPT !.timestamp = ts, !.abs = ts]
    BY <1>3, <2>1, <2>3, <2>5 DEF ExtendedTimestamp
  <2>7. ~ (field < MaxTs)
    BY <1>9, RtmpChunkAssumption
  <2>8. /\ Announced(s, ch) \in Stream
        /\ Announced(s, ch).msg = s0.msg /\ Announced(s, ch).len = s0.len
        /\ Announced(s, ch).type = s0.type /\ Announced(s, ch).abs = ts
    BY <1>5, <2>6 DEF Stream
  <2> QED
    BY <1>5, <1>7, <2>4, <2>7, <2>8
<1>10. field < MaxTs \/ field >= MaxTs
  BY RtmpChunkAssumption
<1> QED
  BY <1>8, <1>9, <1>10

\* Without the habits, a message begins with form 0, 1 or 2.
LEMMA FormsAre ==
    ASSUME Habits = {}, NEW h, NEW p, NEW fmt \in Forms(h, p)
    PROVE  fmt \in 0 .. 2 /\ (fmt # 0 => p # None) /\ (fmt = 2 => h.len = p.len)
BY DEF Forms

\* StartMessage keeps the invariant.
LEMMA StartMessageStep ==
    ASSUME Habits = {}, StreamInv, NEW c \in Media, NEW len \in Lens, NEW ts \in Clock,
           StartMessage(c, len, ts)
    PROVE  StreamInv'
<1>1. /\ writer = "specification" /\ count < MaxMessages /\ under_way[c] = Nothing
      /\ count' = count + 1
      /\ UNCHANGED readerVars /\ UNCHANGED <<writer, size, exact>>
  BY DEF StartMessage
<1>0. len > 0 /\ (prev[c] # None => ts >= prev[c].ts)
  BY DEF StartMessage
<1> DEFINE field(fmt) == IF fmt = 0 THEN ts ELSE IF fmt = 3 THEN 0 ELSE ts - prev[c].ts
           msg == Payload(count, len)
           headOf(fmt) == HeadPart(fmt, c, Least(field(fmt), MaxTs), len, "av")
           extOf(fmt) == IF field(fmt) >= MaxTs THEN <<Ext(field(fmt))>> ELSE <<>>
           wOf(fmt) == [msg |-> msg, ts |-> ts, rest |-> msg, ext |-> extOf(fmt)]
<1>2. PICK fmt \in Forms(Header(c, ts, len, "av"), prev[c]) :
        /\ field(fmt) >= MaxTs => fmt = 0 /\ len <= size
        /\ WriteChunk(c, headOf(fmt), wOf(fmt))
        /\ prev' = [prev EXCEPT ![c] =
             [ts |-> ts, len |-> len, type |-> "av",
              delta |-> IF fmt = 0 THEN ts ELSE ts - prev[c].ts]]
  BY DEF StartMessage
<1>3. fmt \in 0 .. 2 /\ (fmt # 0 => prev[c] # None) /\ (fmt = 2 => len = prev[c].len)
  BY FormsAre DEF Header
<1>4. WriterTypes
  BY DEF StreamInv
<1>5. c \in Csids
  BY DEF Media
<1>6. ts \in Nat /\ count \in 0 .. MaxMessages /\ prev[c] \in Previous \cup {None}
  BY <1>4, <1>5, RtmpStreamAssumption DEF WriterTypes
<1>7. msg \in Seq(Bytes) /\ Len(msg) = len /\ msg \in Payloads /\ len \in Nat
  BY <1>6, PayloadType
<1> DEFINE before == IF prev[c] = None THEN 0 ELSE prev[c].ts
           f == field(fmt)
           head == headOf(fmt)
           ext == extOf(fmt)
           w == wOf(fmt)
<1>8. before \in Int /\ (prev[c] # None => prev[c].ts \in Nat)
  BY <1>6 DEF Previous
<1>9. f \in Nat /\ f = IF fmt = 0 THEN ts ELSE ts - before
  <2>1. CASE fmt = 0
    BY <1>6, <2>1
  <2>2. CASE fmt # 0
    <3>2. prev[c] # None /\ fmt # 3
      BY <1>3, <2>2
    <3>1. f = ts - prev[c].ts /\ before = prev[c].ts /\ ts >= prev[c].ts
      BY <1>0, <2>2, <3>2
    <3> HIDE DEF f, before
    <3> QED
      BY <1>6, <1>8, <2>2, <3>1
  <2> QED
    BY <2>1, <2>2
<1>10. ext = (IF f >= MaxTs THEN <<Ext(f)>> ELSE <<>>)
       /\ head = HeadPart(fmt, c, Least(f, MaxTs), len, "av")
  OBVIOUS
<1>11. f >= MaxTs => fmt = 0 /\ len <= size
  BY <1>2
<1>12. prev' = [prev EXCEPT ![c] = [ts |-> ts, len |-> len, type |-> "av",
                                   delta |-> IF fmt = 0 THEN ts ELSE ts - prev[c].ts]]
  BY <1>2
<1>13. w = [msg |-> msg, ts |-> ts, rest |-> msg, ext |-> ext]
  OBVIOUS
<1>14. WriteChunk(c, head, w)
  BY <1>2
<1> HIDE DEF before, f, field, head, headOf, ext, extOf, w, wOf, msg
<1>15. ext \in Seq(Exts)
  <2>1. Ext(f) \in Exts
    BY <1>9 DEF Ext, Exts, ExtKind
  <2> DEFINE e == Ext(f)
  <2> HIDE DEF e
  <2>2. <<e>> \in Seq(Exts) /\ <<>> \in Seq(Exts)
    BY <2>1 DEF e
  <2> QED
    BY <1>10, <2>2 DEF e
<1>16. w \in UnderWay /\ w.msg = msg /\ w.ts = ts /\ w.rest = msg /\ w.ext = ext
  BY <1>6, <1>7, <1>13, <1>15 DEF UnderWay
<1>17. msg # <<>>
  <2>1. len > 0
    BY <1>0
  <2>2. Len(msg) # 0
    BY <1>7, <2>1
  <2> QED
    BY <2>2, EmptySeq
<1>18. head \in Heads /\ head.csid = c
  <2>1. Least(f, MaxTs) \in Nat
    BY <1>9, RtmpChunkAssumption DEF Least
  <2>2. "av" \in MsgTypes /\ fmt \in 0 .. 3
    BY <1>3 DEF MsgTypes
  <2>3. head \in Heads
    BY <1>5, <1>7, <1>10, <2>1, <2>2, HeadPartType
  <2> QED
    BY <1>10, <2>3 DEF HeadPart
<1>19. prev' \in [Csids -> Previous \cup {None}] /\ prev'[c].ts = ts /\ prev'[c].len = len
       /\ \A d \in Csids : d # c => prev'[d] = prev[d]
  <2> DEFINE delta == IF fmt = 0 THEN ts ELSE ts - prev[c].ts
             r == [ts |-> ts, len |-> len, type |-> "av", delta |-> delta]
  <2>1. delta \in Int
    BY <1>3, <1>6, <1>8
  <2> HIDE DEF delta
  <2>2. r \in Previous /\ r.ts = ts /\ r.len = len
    BY <1>6, <1>7, <2>1 DEF Previous, AvKind
  <2>3. prev' = [prev EXCEPT ![c] = r] /\ prev \in [Csids -> Previous \cup {None}]
    BY <1>4, <1>12 DEF delta, WriterTypes
  <2> HIDE DEF r
  <2> QED
    BY <1>5, <2>2, <2>3
<1>20. ASSUME NEW s \in Stream, StreamAt(c, s)
       PROVE  Opens(c, head, w, s)
  <2>1. s.msg = <<>>
    BY <1>1, <1>20 DEF StreamAt
  <2>2. prev[c] # None => s.len = prev[c].len /\ s.type = "av" /\ s.abs = prev[c].ts
    BY <1>1, <1>20 DEF StreamAt
  <2>3. /\ fmt # 0 => s.abs = before
        /\ fmt = 2 => s.len = len /\ s.type = "av"
    BY <1>3, <2>2 DEF before
  <2> DEFINE ch == ChunkOf(head, ext, <<>>)
             t == Announced(s, ch)
  <2>4. ch.head = HeadPart(fmt, c, Least(f, MaxTs), len, "av") /\ ch.ext = ext
    BY <1>10 DEF ChunkOf
  <2> HIDE DEF ch
  <2>5. /\ HeaderFits(s, ch) /\ t \in Stream
        /\ t.msg = <<>> /\ t.len = len /\ t.type = "av" /\ t.abs = ts
        /\ f < MaxTs => t.timestamp # MaxTs
    <3>1. s \in Stream /\ fmt \in 0 .. 2 /\ ts \in Nat /\ len \in Nat /\ before \in Int
          /\ c \in Csids /\ f \in Nat
      BY <1>3, <1>5, <1>6, <1>7, <1>8, <1>9
    <3>2. f = (IF fmt = 0 THEN ts ELSE ts - before)
      BY <1>9
    <3>3. ext = (IF f >= MaxTs THEN <<Ext(f)>> ELSE <<>>)
      BY <1>10
    <3>4. f >= MaxTs => fmt = 0
      BY <1>11
    <3> QED
      BY ONLY <2>1, <2>3, <2>4, <3>1, <3>2, <3>3, <3>4, FirstHeader DEF t
  <2> HIDE DEF t
  <2>6. Carries(w, t)
    <3>1. msg = t.msg \o msg
      BY <1>7, <2>5, ConcatEmptySeq
    <3> QED
      BY <1>7, <1>16, <1>17, <2>5, <3>1 DEF Carries
  <2>7. PrevFits(c, t)
    BY <1>19, <2>5 DEF PrevFits
  <2>8. (t.timestamp # MaxTs /\ w.ext = <<>>) \/ Len(w.rest) <= size
    <3>1. CASE f < MaxTs
      <4>1. ~ (f >= MaxTs)
        BY <1>9, <3>1, RtmpChunkAssumption
      <4> QED
        BY <1>10, <1>16, <2>5, <3>1, <4>1
    <3>2. CASE f >= MaxTs
      BY <1>7, <1>11, <1>16, <3>2
    <3>3. f < MaxTs \/ f >= MaxTs
      BY <1>9, RtmpChunkAssumption
    <3> QED
      BY <3>1, <3>2, <3>3
  <2> QED
    BY <1>16, <2>5, <2>6, <2>7, <2>8 DEF Opens, ch, t
<1>21. AlwaysOpens(c, head, w)
  BY <1>20 DEF AlwaysOpens
<1>22. count' \in 0 .. MaxMessages
  BY <1>1, <1>6, RtmpStreamAssumption
<1> QED
  BY <1>1, <1>14, <1>16, <1>17, <1>18, <1>19, <1>21, <1>22, PieceStep

\* SetChunkSize keeps the invariant: no message is half written.
LEMMA SetChunkSizeStep ==
    ASSUME Habits = {}, StreamInv, SetChunkSize
    PROVE  StreamInv'
<1> DEFINE e == Byte(LocalSize, 0)
           msg == <<e>>
           head == HeadPart(0, Control, 0, 1, "chunk size")
           ch == ChunkOf(head, <<>>, msg)
           m == Sent("chunk size", 0, msg, TRUE)
<1>1. /\ size = DefaultSize /\ count < MaxMessages
      /\ \A c \in Csids : under_way[c] = Nothing
      /\ wire' = wire \o <<head>> \o msg
      /\ finished' = Append(finished, m)
      /\ size' = LocalSize /\ count' = count + 1
      /\ UNCHANGED readerVars /\ UNCHANGED <<writer, under_way, prev, exact>>
  BY DEF SetChunkSize
<1>2. ReaderTypes /\ WriterTypes /\ prev[Control] = None /\ under_way[Control] = Nothing
  BY DEF StreamInv
<1>3. PICK a, b : ReaderAt(a) /\ Path(finished, a, b) /\ WriterAt(b)
  BY DEF StreamInv, OnItsWay
<1>4. b \in Node
  BY <1>3, PathType
<1>5. Control \in Csids /\ LocalSize \in Nat
  BY RtmpStreamAssumption
<1>6. e \in Bytes /\ e.id = LocalSize
  BY <1>5 DEF Byte, Bytes, ByteKind
<1> HIDE DEF e
<1>7. msg \in Seq(Bytes) /\ Len(msg) = 1 /\ Head(msg).id = LocalSize /\ msg # <<>>
  BY <1>6
<1> HIDE DEF msg
<1>8. head \in Heads /\ head.csid = Control
      /\ head.fmt = 0 /\ head.ts = 0 /\ head.len = 1 /\ head.type = "chunk size"
  <2>1. "chunk size" \in MsgTypes
    BY DEF MsgTypes
  <2>2. 0 \in 0 .. 3 /\ 0 \in Nat /\ 1 \in Nat
    OBVIOUS
  <2>3. head \in Heads
    BY <1>5, <2>1, <2>2, HeadPartType
  <2>4. head = [k |-> "head", fmt |-> 0, csid |-> Control, ts |-> 0, len |-> 1,
                type |-> "chunk size"]
    BY DEF HeadPart
  <2> HIDE DEF head
  <2> QED
    BY <2>3, <2>4
<1> HIDE DEF head
<1>9. <<>> \in Seq(Exts)
  BY EmptySeq
<1>10. ch \in Chunk /\ wire \o <<head>> \o <<>> \o msg = wire \o PartsOf(ch)
       /\ ch.head = head /\ ch.ext = <<>> /\ ch.body = msg
  BY <1>2, <1>7, <1>8, <1>9, PartsInOrder DEF ReaderTypes, ChunkOf
<1> HIDE DEF ch
<1>11. wire' = wire \o PartsOf(ch)
  <2> DEFINE v == wire \o <<head>>
  <2>1. head \in Part
    BY <1>8 DEF Part
  <2>2. <<head>> \in Seq(Part) /\ wire \in Seq(Part)
    BY <1>2, <2>1 DEF ReaderTypes
  <2>3. v \in Seq(Part)
    BY <2>2, ConcatProperties
  <2> HIDE DEF v
  <2>4. v \o <<>> = v
    BY <2>3, ConcatEmptySeq
  <2> QED
    BY <1>1, <1>10, <2>4 DEF v
<1> DEFINE s0 == b.str[Control]
           s == Announced(s0, ch)
           z == After(b, ch)
<1>12. s0 \in Stream /\ s0.msg = <<>> /\ b.done = Len(finished) /\ b.size = DefaultSize
       /\ \A d \in Csids : StreamAt(d, b.str[d])
  BY <1>1, <1>2, <1>3, <1>4, <1>5 DEF Node, WriterAt, StreamAt
<1> HIDE DEF s0
<1>13. MessageHeader(s0, head) = [timestamp |-> 0, abs |-> 0, len |-> 1,
                                 type |-> "chunk size", msg |-> <<>>]
  BY <1>8, <1>12, FullHeader
<1>14. HeaderFits(s0, ch)
  <2>3. ch.head = head
    BY <1>10
  <2> DEFINE r == [timestamp |-> 0, abs |-> 0, len |-> 1, type |-> "chunk size", msg |-> <<>>]
  <2>4. r.timestamp = 0
    OBVIOUS
  <2>5. MessageHeader(s0, head) = r
    BY <1>13
  <2> HIDE DEF r
  <2>1. MessageHeader(s0, ch.head).timestamp = 0
    BY <2>3, <2>4, <2>5
  <2>2. 0 # MaxTs
    BY RtmpChunkAssumption
  <2> QED
    BY <1>10, <2>1, <2>2 DEF HeaderFits
<1>15. s = [timestamp |-> 0, abs |-> 0, len |-> 1, type |-> "chunk size", msg |-> <<>>]
  BY <1>10, <1>13 DEF Announced
<1> HIDE DEF s, z
<1>16. s.timestamp = 0 /\ s.abs = 0 /\ s.len = 1 /\ s.type = "chunk size" /\ s.msg = <<>>
       /\ StreamAfter(s, msg).timestamp = 0
       /\ StreamAfter(s, msg).msg = IF Completes(s, msg) THEN <<>> ELSE s.msg \o msg
  BY <1>15 DEF StreamAfter
<1>17. Completes(s, msg) /\ <<>> \o msg = msg
  <2>1. Len(s.msg) = 0 /\ Len(msg) = 1 /\ s.len = 1
    BY <1>7, <1>16, EmptySeq
  <2>2. <<>> \o msg = msg
    BY <1>7, ConcatEmptySeq
  <2> QED
    BY <2>1, <2>2 DEF Completes
<1>18. BodyFits(s, DefaultSize, msg)
  <2>1. DefaultSize \in Nat /\ 1 <= DefaultSize /\ Len(<<>>) = 0
    BY RtmpProtocolAssumption, EmptySeq
  <2>2. s.len = 1 /\ Len(s.msg) = 0 /\ Len(msg) = 1
    BY <1>7, <1>16, <2>1
  <2>3. Needed(s, DefaultSize) = 1
    BY <2>1, <2>2 DEF Needed
  <2> QED
    BY <2>2, <2>3 DEF BodyFits
<1>19. m \in Message /\ m.msg = msg /\ m.ts = 0
  BY <1>7 DEF Sent, Message, MsgTypes
<1> HIDE DEF m
<1>20. finished \in Seq(Message) /\ Len(finished) \in Nat
  BY <1>2, LenProperties DEF WriterTypes
<1>21. /\ finished' \in Seq(Message) /\ Grown(finished, finished')
       /\ Len(finished') = Len(finished) + 1 /\ finished'[Len(finished) + 1] = m
  BY <1>1, <1>19, <1>20, GrownByOne
<1>22. Tells(finished', Len(finished) + 1, s, msg)
  <2>1. Len(finished) + 1 \in 1 .. Len(finished')
    BY <1>20, <1>21
  <2> QED
    BY <1>7, <1>16, <1>17, <1>19, <1>21, <2>1 DEF Tells
<1>23. Takes(finished', b, ch)
  BY <1>8, <1>10, <1>12, <1>14, <1>18, <1>22 DEF Takes, s, s0
<1>24. Path(finished', Longer(a, PartsOf(ch)), z)
  <2>1. Path(finished', a, b)
    BY <1>3, <1>21, PathGrown
  <2> QED
    BY <1>10, <1>23, <2>1, PathTakes DEF z
<1>25. z.str[Control] = StreamAfter(s, msg) /\ z.done = Len(finished') /\ z.size = size'
  <2>1. z.str[Control] = StreamAfter(s, msg)
    BY <1>4, <1>5, <1>8, <1>10 DEF z, After, Node, s, s0
  <2>2. z.size = LocalSize
    BY <1>8, <1>10, <1>16, <1>17 DEF z, After, s, s0
  <2>3. z.done = b.done + 1
    BY <1>8, <1>10, <1>17 DEF z, After, s, s0
  <2> QED
    BY <1>1, <1>12, <1>21, <2>1, <2>2, <2>3
<1>26. WriterAt(z)'
  <2>1. OthersStay(Control)
    BY <1>1 DEF OthersStay
  <2>2. PICK x : x = z.str[Control]
    OBVIOUS
  <2>3. x.msg = <<>> /\ x.timestamp # MaxTs
    BY <1>16, <1>17, <1>25, <2>2, RtmpChunkAssumption
  <2>4. writer = "specification" => exact[Control]
    BY <1>5, <1>12 DEF StreamAt
  <2>5. StreamAt(Control, x)'
    BY <1>1, <1>2, <2>3, <2>4 DEF StreamAt
  <2> QED
    BY <1>3, <1>4, <1>8, <1>10, <1>25, <2>1, <2>2, <2>5, WriterAfter DEF z
<1>27. WriterTypes'
  <2>1. count' \in 0 .. MaxMessages
    BY <1>1, <1>2, RtmpStreamAssumption DEF WriterTypes
  <2>2. size' \in Sizes
    BY <1>1 DEF Sizes
  <2> QED
    BY <1>1, <1>2, <1>21, <2>1, <2>2 DEF WriterTypes
<1>28. prev'[Control] = None /\ under_way'[Control] = Nothing
  BY <1>1, <1>2
<1>29. PartsOf(ch) \in Seq(Part)
  BY <1>10, PartsOfType
<1>30. PICK x : x = z
  OBVIOUS
<1>31. WriterAt(x)' /\ Path(finished', Longer(a, PartsOf(ch)), x)
  BY <1>24, <1>26, <1>30
<1> QED
  BY <1>1, <1>3, <1>11, <1>21, <1>27, <1>28, <1>29, <1>31, WriterStep

-----------------------------------------------------------------------------
(* A message that a yet relays *)

\* The stream s when a message with header h, that of the one before being p, is
\* written: e says that the reader can know its timestamp.
Ready(s, h, p, e) ==
    /\ s.timestamp # MaxTs
    /\ p # None /\ Fmt(h, p) >= 2 => s.len = h.len /\ s.type = "av"
    /\ p # None /\ e => s.abs + Delta(h, p) = h.ts

\* The header HeaderOf begins with, and the extended timestamp behind it.
RelayHead(h, p) ==
    HeadPart(Fmt(h, p), h.csid, IF Fmt(h, p) <= 2 THEN Least(Delta(h, p), MaxTs) ELSE 0,
             h.len, h.type)

RelayExt(h, p) == IF Delta(h, p) > MaxTs THEN <<Ext(Delta(h, p))>> ELSE <<>>

\* The timestamp or the delta is not one that the reader takes for another.
InTime(h, p) ==
    /\ Delta(h, p) \in Nat
    /\ Delta(h, p) < MaxTs \/ (p = None /\ h.ts > MaxTs)

\* The headers of audio and video messages.
AvHeaders == [csid : Csids, ts : Nat, len : Nat, type : AvKind]

\* What each form of Fmt says of the header before.
LEMMA RelayForm ==
    ASSUME NEW h \in AvHeaders, NEW p \in Previous \cup {None}
    PROVE  /\ Fmt(h, p) \in 0 .. 3
           /\ p = None => Fmt(h, p) = 0 /\ Delta(h, p) = h.ts
           /\ p # None => Fmt(h, p) # 0
           /\ Fmt(h, p) = 3 => Delta(h, p) = 0
           /\ p # None /\ Fmt(h, p) >= 2 => h.len = p.len
<1>1. h.type = "av" /\ h.ts \in Nat
  BY DEF AvHeaders, AvKind
<1>2. p # None => p.type = "av" /\ p.ts \in Nat /\ p.len \in Nat
  BY DEF Previous, AvKind
<1>3. p = None => Fmt(h, p) = 0 /\ Delta(h, p) = h.ts
  BY DEF Fmt, Delta
<1>4. p # None => Fmt(h, p) = IF h.len # p.len THEN 1 ELSE IF h.ts # p.ts THEN 2 ELSE 3
  BY <1>1, <1>2 DEF Fmt
<1>5. p # None => Delta(h, p) = h.ts - p.ts
  BY DEF Delta
<1>6. h.ts \in Nat /\ (p # None => p.ts \in Nat)
  BY <1>1, <1>2
<1>7. CASE p = None
  BY <1>3, <1>7
<1>8. CASE p # None
  <2>1. Fmt(h, p) = 3 => h.ts = p.ts
    BY <1>4, <1>8
  <2>2. Fmt(h, p) = 3 => Delta(h, p) = 0
    BY <1>5, <1>6, <1>8, <2>1
  <2>3. Fmt(h, p) \in 1 .. 3 /\ (Fmt(h, p) >= 2 => h.len = p.len)
    BY <1>4, <1>8
  <2> QED
    BY <1>8, <2>2, <2>3
<1> QED
  BY <1>7, <1>8

\* The header a relay writes is one.
LEMMA RelayHeadType ==
    ASSUME NEW h \in AvHeaders, NEW p \in Previous \cup {None}, InTime(h, p)
    PROVE  /\ RelayHead(h, p) \in Heads /\ RelayExt(h, p) \in Seq(Exts)
           /\ RelayHead(h, p).csid = h.csid /\ RelayHead(h, p).fmt = Fmt(h, p)
           /\ RelayHead(h, p).ts = IF Fmt(h, p) <= 2 THEN Least(Delta(h, p), MaxTs) ELSE 0
           /\ Fmt(h, p) <= 1 => RelayHead(h, p).len = h.len /\ RelayHead(h, p).type = "av"
<1> DEFINE fmt == Fmt(h, p)
           delta == Delta(h, p)
           ts == IF fmt <= 2 THEN Least(delta, MaxTs) ELSE 0
<1>1. h.type = "av" /\ h.csid \in Csids /\ h.len \in Nat /\ "av" \in MsgTypes
  BY DEF AvHeaders, AvKind, MsgTypes
<1>2. fmt \in 0 .. 3 /\ delta \in Nat
  BY RelayForm DEF InTime
<1>3. RelayHead(h, p) = HeadPart(fmt, h.csid, ts, h.len, "av")
  BY <1>1 DEF RelayHead
<1>4. RelayExt(h, p) = IF delta > MaxTs THEN <<Ext(delta)>> ELSE <<>>
  BY DEF RelayExt
<1> HIDE DEF fmt, delta
<1>5. ts \in Nat
  BY <1>2, RtmpChunkAssumption DEF Least
<1> HIDE DEF ts
<1>6. HeadPart(fmt, h.csid, ts, h.len, "av") \in Heads
  BY <1>1, <1>2, <1>5, HeadPartType
<1>7. RelayExt(h, p) \in Seq(Exts)
  <2> DEFINE e == Ext(delta)
  <2>1. e \in Exts
    BY <1>2 DEF Ext, Exts, ExtKind
  <2> HIDE DEF e
  <2>2. <<e>> \in Seq(Exts) /\ <<>> \in Seq(Exts)
    BY <2>1
  <2> QED
    BY <1>4, <2>2 DEF e
<1>8. /\ RelayHead(h, p).csid = h.csid /\ RelayHead(h, p).fmt = fmt /\ RelayHead(h, p).ts = ts
      /\ fmt <= 1 => RelayHead(h, p).len = h.len /\ RelayHead(h, p).type = "av"
  BY <1>3 DEF HeadPart
<1> QED
  BY <1>3, <1>6, <1>7, <1>8 DEF fmt, ts, delta

\* The header of each chunk of the message.
LEMMA RelayHeader ==
    ASSUME NEW h \in AvHeaders, NEW p \in Previous \cup {None}, InTime(h, p),
           NEW e \in BOOLEAN, NEW s \in Stream, Ready(s, h, p, e),
           NEW ch, ch.head = RelayHead(h, p), ch.ext = RelayExt(h, p)
    PROVE  /\ HeaderFits(s, ch)
           /\ Announced(s, ch) \in Stream
           /\ Announced(s, ch).msg = s.msg /\ Announced(s, ch).len = h.len
           /\ Announced(s, ch).type = "av" /\ Announced(s, ch).timestamp # MaxTs
           /\ (p = None \/ e) => Announced(s, ch).abs = h.ts
<1> DEFINE fmt == Fmt(h, p)
           delta == Delta(h, p)
           hd == RelayHead(h, p)
           s0 == MessageHeader(s, hd)
           t == Announced(s, ch)
<1>1. /\ fmt \in 0 .. 3
      /\ p = None => fmt = 0 /\ delta = h.ts
      /\ p # None => fmt # 0
      /\ fmt = 3 => delta = 0
  BY RelayForm
<1>2. hd \in Heads /\ hd.fmt = fmt
  BY RelayHeadType
<1>12. hd.ts = IF fmt <= 2 THEN Least(delta, MaxTs) ELSE 0
  BY RelayHeadType
<1>13. fmt \in {0, 1} => hd.len = h.len /\ hd.type = "av"
  <2>1. fmt <= 1 => hd.len = h.len /\ hd.type = "av"
    BY RelayHeadType
  <2>2. fmt \in {0, 1} => fmt <= 1
    OBVIOUS
  <2> QED
    BY ONLY <2>1, <2>2
<1>3. delta \in Nat /\ MaxTs \in Nat /\ h.ts \in Nat /\ h.len \in Nat
  BY RtmpChunkAssumption DEF InTime, AvHeaders
<1>4. delta < MaxTs \/ (p = None /\ h.ts > MaxTs)
  BY DEF InTime
<1>5. ch.head = hd /\ ch.ext = IF delta > MaxTs THEN <<Ext(delta)>> ELSE <<>>
  BY DEF RelayExt
<1>6. s0 \in Stream /\ s0.msg = s.msg
  BY <1>2, HeaderType
<1>7. s.timestamp # MaxTs /\ s.abs \in Nat
  BY DEF Ready, Stream
<1>8. p # None /\ fmt >= 2 => s.len = h.len /\ s.type = "av"
  BY DEF Ready
<1>9. p # None /\ e => s.abs + delta = h.ts
  BY DEF Ready
<1> HIDE DEF fmt, delta, hd
<1>14. fmt = 0 => s0 = [s EXCEPT !.timestamp = hd.ts, !.abs = hd.ts,
                                !.len = hd.len, !.type = hd.type]
  BY <1>2 DEF MessageHeader
<1>15. fmt = 1 => s0 = [s EXCEPT !.timestamp = hd.ts, !.abs = s.abs + hd.ts,
                                !.len = hd.len, !.type = hd.type]
  BY <1>2 DEF MessageHeader
<1>16. fmt = 2 => s0 = [s EXCEPT !.timestamp = hd.ts, !.abs = s.abs + hd.ts]
  BY <1>2 DEF MessageHeader
<1>17. fmt = 3 => s0 = s
  BY <1>2 DEF MessageHeader
<1>18. fmt = 0 \/ fmt = 1 => hd.len = h.len /\ hd.type = "av"
  BY <1>13
<1> HIDE DEF s0
<1>10. CASE delta < MaxTs
  <2>1. ch.ext = <<>>
    BY <1>3, <1>5, <1>10
  <2>2. Least(delta, MaxTs) = delta /\ delta # MaxTs
    BY <1>3, <1>10 DEF Least
  <2>3. /\ s0.timestamp # MaxTs /\ s0.len = h.len /\ s0.type = "av"
        /\ s0.abs = IF fmt = 0 THEN delta ELSE s.abs + delta
    <3>1. CASE fmt = 0
      <4>1. hd.ts = delta
        BY <1>12, <2>2, <3>1
      <4> QED
        BY <1>18, <1>14, <2>2, <3>1, <4>1 DEF Stream
    <3>2. CASE fmt = 1
      <4>1. hd.ts = delta
        BY <1>12, <2>2, <3>2
      <4>2. s0 = [s EXCEPT !.timestamp = delta, !.abs = s.abs + delta,
                           !.len = h.len, !.type = "av"]
        BY <1>15, <1>18, <3>2, <4>1
      <4>3. s0.timestamp = delta /\ s0.abs = s.abs + delta /\ s0.len = h.len /\ s0.type = "av"
        BY <4>2 DEF Stream
      <4>4. fmt # 0
        BY <3>2
      <4> QED
        BY <2>2, <4>3, <4>4
    <3>3. CASE fmt = 2
      <4>1. s0 = [s EXCEPT !.timestamp = delta, !.abs = s.abs + delta]
        BY <1>12, <1>16, <2>2, <3>3
      <4>2. p # None /\ s.len = h.len /\ s.type = "av"
        BY <1>1, <1>8, <3>3
      <4> QED
        BY <2>2, <3>3, <4>1, <4>2 DEF Stream
    <3>4. CASE fmt = 3
      <4>1. s0 = s
        BY <1>17, <3>4
      <4>2. p # None /\ s.len = h.len /\ s.type = "av"
        BY <1>1, <1>8, <3>4
      <4>3. s.abs + delta = s.abs
        BY <1>1, <1>7, <3>4
      <4> QED
        BY <1>7, <3>4, <4>1, <4>2, <4>3
    <3> QED
      BY <1>1, <3>1, <3>2, <3>3, <3>4
  <2>4. HeaderFits(s, ch) /\ t = s0
    BY <1>5, <2>1, <2>3 DEF HeaderFits, Announced, s0
  <2> HIDE DEF t
  <2>5. (p = None \/ e) => s0.abs = h.ts
    BY <1>1, <1>9, <2>3
  <2> QED
    BY <1>6, <2>3, <2>4, <2>5 DEF t
<1>11. CASE ~(delta < MaxTs)
  <2>1. p = None /\ fmt = 0 /\ delta = h.ts /\ delta > MaxTs
    BY <1>1, <1>4, <1>11
  <2> DEFINE x == Ext(delta)
  <2>2. ch.ext = <<x>> /\ ch.ext # <<>> /\ Len(ch.ext) = 1 /\ ch.ext[1] = x
    BY <1>5, <2>1
  <2>3. x.ts = h.ts
    BY <2>1 DEF Ext
  <2> HIDE DEF x
  <2>4. hd.ts = MaxTs
    <3>1. Least(delta, MaxTs) = MaxTs
      BY <1>3, <2>1 DEF Least
    <3> QED
      BY <1>12, <2>1, <3>1
  <2>5. s0.timestamp = MaxTs /\ s0.len = h.len /\ s0.type = "av"
    BY <1>18, <1>14, <2>1, <2>4 DEF Stream
  <2>6. HeaderFits(s, ch)
    BY <1>2, <1>5, <2>1, <2>2, <2>5 DEF HeaderFits, s0
  <2>7. t = ExtendedTimestamp(s0, hd.fmt, x)
    BY <1>5, <2>2 DEF Announced, s0
  <2>8. t = [s0 EXCEPT !.timestamp = h.ts, !.abs = h.ts]
    BY <1>2, <2>1, <2>3, <2>7 DEF ExtendedTimestamp
  <2> HIDE DEF t
  <2>9. /\ t \in Stream /\ t.msg = s0.msg /\ t.len = s0.len
        /\ t.type = s0.type /\ t.abs = h.ts /\ t.timestamp = h.ts
    BY <1>3, <1>6, <2>8 DEF Stream
  <2>10. h.ts # MaxTs
    BY <1>3, <2>1
  <2> QED
    BY <1>6, <2>5, <2>6, <2>9, <2>10 DEF t
<1> QED
  BY <1>10, <1>11

\* The chunks are as many as it takes.
LEMMA ChunkCount ==
    ASSUME NEW len \in Nat \ {0}, NEW cs \in Nat \ {0}
    PROVE  /\ Chunks(len, cs) \in Nat \ {0}
           /\ (Chunks(len, cs) - 1) * cs < len
           /\ len <= Chunks(len, cs) * cs
<1> DEFINE n == len + cs - 1
           K == n \div cs
           r == n % cs
<1>1. n \in Nat
  OBVIOUS
<1>2. K \in Int /\ r \in 0 .. cs - 1 /\ n = cs * K + r
  BY <1>1
<1>3. n = len + cs - 1
  OBVIOUS
<1> HIDE DEF n, K, r
<1>4. K * cs = cs * K /\ (K - 1) * cs = cs * K - cs
  BY <1>2
<1>5. (K - 1) * cs < len /\ len <= K * cs
  BY <1>2, <1>3, <1>4
<1>6. K > 0
  <2> SUFFICES ASSUME K <= 0 PROVE FALSE
    BY <1>2
  <2>1. -K \in Nat
    BY <1>2
  <2>2. cs * (-K) \in Nat /\ cs * (-K) = -(cs * K)
    BY <1>2, <2>1
  <2> QED
    BY <1>2, <1>4, <1>5, <2>2
<1>7. Chunks(len, cs) = K
  BY DEF Chunks, K, n
<1> QED
  BY <1>2, <1>5, <1>6, <1>7

\* Where chunk j + 1 begins and ends.
LEMMA ChunkEnds ==
    ASSUME NEW len \in Nat \ {0}, NEW cs \in Nat \ {0}, NEW K, K = Chunks(len, cs),
           NEW j \in 0 .. K - 1
    PROVE  /\ j * cs \in Nat /\ j * cs < len /\ (j + 1) * cs = j * cs + cs
           /\ j + 1 < K => j * cs + cs < len
           /\ j + 1 = K => len <= j * cs + cs
           /\ j * cs > 0 => len > cs
<1>1. K \in Nat \ {0} /\ (K - 1) * cs < len /\ len <= K * cs
  BY ChunkCount
<1> HIDE DEF Chunks
<1>2. j \in Nat /\ j <= K - 1
  BY <1>1
<1>3. (K - 1) * cs \in Int /\ K * cs \in Int /\ j * cs \in Nat /\ (j + 1) * cs = j * cs + cs
  BY <1>1, <1>2
<1>4. ASSUME NEW i \in Int, i <= K - 1 PROVE i * cs \in Int /\ i * cs <= (K - 1) * cs
  <2>1. K - 1 - i \in Nat
    BY <1>1, <1>4
  <2>2. (K - 1 - i) * cs \in Nat /\ (K - 1 - i) * cs = (K - 1) * cs - i * cs
    BY <1>1, <2>1
  <2>3. i * cs \in Int
    BY <1>4
  <2> QED
    BY <1>3, <2>2, <2>3
<1>5. j * cs < len
  BY <1>1, <1>2, <1>3, <1>4
<1>6. ASSUME j + 1 < K PROVE j * cs + cs < len
  <2>1. j + 1 \in Int /\ j + 1 <= K - 1
    BY <1>1, <1>2, <1>6
  <2>2. (j + 1) * cs <= (K - 1) * cs
    BY <1>4, <2>1
  <2> QED
    BY <1>1, <1>3, <2>2
<1>7. ASSUME j + 1 = K PROVE len <= j * cs + cs
  BY <1>1, <1>3, <1>7
<1>8. ASSUME j * cs > 0 PROVE len > cs
  <2>1. j >= 1
    <3> SUFFICES ASSUME j = 0 PROVE FALSE
      BY <1>2
    <3>1. j * cs = 0
      OBVIOUS
    <3> QED
      BY <1>8, <3>1
  <2>2. (j - 1) \in Nat
    BY <1>2, <2>1
  <2>3. (j - 1) * cs \in Nat /\ (j - 1) * cs = j * cs - cs
    BY <2>2
  <2> QED
    BY <1>3, <1>5, <2>3
<1> QED
  BY <1>3, <1>5, <1>6, <1>7, <1>8

\* The bytes of msg up to x, and those from there up to y.
Adjacent(msg, x, y) ==
    /\ SubSeq(msg, 1, x) \in Seq(Bytes) /\ Len(SubSeq(msg, 1, x)) = x
    /\ SubSeq(msg, x + 1, y) \in Seq(Bytes) /\ Len(SubSeq(msg, x + 1, y)) = y - x
    /\ SubSeq(msg, 1, x) \o SubSeq(msg, x + 1, y) = SubSeq(msg, 1, y)

\* Two pieces next to each other.
LEMMA AdjacentBytes ==
    ASSUME NEW msg, msg \in Seq(Bytes), NEW x \in Nat, NEW y \in Nat, x <= y, y <= Len(msg)
    PROVE  Adjacent(msg, x, y)
<1>1. Len(msg) \in Nat
  BY LenProperties
<1>2. \A i \in 1 .. Len(msg) : msg[i] \in Bytes
  BY ElementOfSeq
<1> DEFINE u == SubSeq(msg, 1, x)
           v == SubSeq(msg, x + 1, y)
<1>3. u \in Seq(Bytes) /\ Len(u) = x
  <2>1. \A i \in 1 .. x : msg[i] \in Bytes
    BY <1>1, <1>2
  <2>2. u \in Seq(Bytes) /\ Len(u) = IF 1 <= x THEN x - 1 + 1 ELSE 0
    BY <2>1, SubSeqProperties
  <2> QED
    BY <2>2
<1>4. v \in Seq(Bytes) /\ Len(v) = y - x
  <2>1. \A i \in x + 1 .. y : msg[i] \in Bytes
    BY <1>1, <1>2
  <2>2. v \in Seq(Bytes) /\ Len(v) = IF x + 1 <= y THEN y - (x + 1) + 1 ELSE 0
    BY <2>1, SubSeqProperties
  <2> QED
    BY <2>2
<1>5. u \o v = SubSeq(msg, 1, y)
  <2>1. 1 \in 1 .. Len(msg) + 1 /\ x \in 1 - 1 .. Len(msg) /\ y \in x .. Len(msg)
    BY <1>1
  <2> QED
    BY <2>1, ConcatAdjacentSubSeq
<1> QED
  BY <1>3, <1>4, <1>5 DEF Adjacent

\* With body the stream t has the first y bytes of msg.
Continues(msg, t, cs, x, y, body) ==
    /\ body \in Seq(Bytes) /\ BodyFits(t, cs, body)
    /\ t.msg \o body = SubSeq(msg, 1, y)
    /\ Completes(t, body) <=> y = Len(msg)
    /\ y # Len(msg) => y = x + cs /\ Len(msg) > cs
    /\ y \in Nat /\ y <= Len(msg)

\* The stream t holds the first x bytes of msg, and gets those up to y.
LEMMA RelayPiece ==
    ASSUME NEW msg, msg \in Seq(Bytes), NEW t, t.len = Len(msg),
           NEW x \in Nat, x < Len(msg), t.msg = SubSeq(msg, 1, x),
           NEW cs \in Nat \ {0}, x > 0 => Len(msg) > cs,
           NEW y, y = Least(x + cs, Len(msg)), NEW body, body = SubSeq(msg, x + 1, y)
    PROVE  Continues(msg, t, cs, x, y, body)
<1> DEFINE n == Len(msg)
           has == Len(t.msg)
<1>1. n \in Nat /\ x < n /\ (x > 0 => n > cs) /\ y = Least(x + cs, n)
  BY LenProperties
<1>6. /\ body \in Seq(Bytes) /\ Len(body) = y - x
      /\ has = x /\ t.msg \o body = SubSeq(msg, 1, y)
      /\ y \in Nat /\ x <= y /\ y <= n
  <2>1. y \in Nat /\ x <= y /\ y <= n
    <3> HIDE DEF n
    <3> QED
      BY <1>1 DEF Least
  <2>2. y <= Len(msg)
    BY <2>1
  <2>5. msg \in Seq(Bytes) /\ x \in Nat
    OBVIOUS
  <2>3. Adjacent(msg, x, y)
    BY ONLY <2>1, <2>2, <2>5, AdjacentBytes
  <2>4. body = SubSeq(msg, x + 1, y) /\ t.msg = SubSeq(msg, 1, x)
    OBVIOUS
  <2> QED
    BY ONLY <2>1, <2>3, <2>4 DEF has, Adjacent
<1>7. t.len = n
  OBVIOUS
<1>8. BodyFits(t, cs, body) <=>
        /\ Len(body) = (IF n <= cs THEN n ELSE IF has > n THEN cs ELSE Least(n - has, cs))
        /\ n > 0
        /\ has + Len(body) <= n
  BY <1>7 DEF BodyFits, Needed
<1>9. Completes(t, body) <=> has + Len(body) = n
  BY <1>7 DEF Completes
<1> HIDE DEF n, has
<1>2. y - x = (IF n <= cs THEN n ELSE IF x > n THEN cs ELSE Least(n - x, cs))
  BY ONLY <1>1, x \in Nat, cs \in Nat \ {0} DEF Least
<1>3. n > 0 /\ x + (y - x) <= n
  BY ONLY <1>1, <1>6, x \in Nat
<1>4. x + (y - x) = n <=> y = n
  BY ONLY <1>1, <1>6, x \in Nat
<1>5. y # n => y = x + cs /\ n > cs
  BY ONLY <1>1, x \in Nat, cs \in Nat \ {0} DEF Least
<1> QED
  BY <1>2, <1>3, <1>4, <1>5, <1>6, <1>8, <1>9 DEF n, Continues

\* Before its first chunk, a relay finds the stream ready for it.
LEMMA RelayReady ==
    ASSUME WriterTypes, writer = "yet", NEW c \in Csids, NEW s, StreamAt(c, s),
           NEW len \in Lens, NEW ts \in Clock, NEW p \in {None, prev[c]},
           NEW h, h = Header(c, ts, len, "av"),
           NEW e, e = (p = None \/ (exact[c] /\ (len <= LocalSize \/ ts = prev[c].ts)))
    PROVE  /\ h \in AvHeaders /\ p \in Previous \cup {None} /\ e \in BOOLEAN
           /\ Ready(s, h, p, e)
           /\ p # None /\ e /\ len > LocalSize => Delta(h, p) = 0
<1>1. len \in Nat /\ ts \in Nat /\ LocalSize \in Nat
  BY RtmpStreamAssumption
<1>2. h \in AvHeaders /\ h.len = len /\ h.ts = ts
  BY <1>1 DEF AvHeaders, Header, AvKind
<1>3. p \in Previous \cup {None} /\ exact[c] \in BOOLEAN
  BY DEF WriterTypes
<1>4. e \in BOOLEAN
  BY <1>3
<1>5. p # None /\ Fmt(h, p) >= 2 => h.len = p.len
  BY <1>2, <1>3, RelayForm
<1>6. p # None => p = prev[c] /\ p.ts \in Nat
  BY <1>3 DEF Previous
<1>7. p # None => Delta(h, p) = ts - p.ts
  BY <1>2 DEF Delta
<1>8. p # None => s.len = p.len /\ s.type = "av" /\ (exact[c] => s.abs = p.ts)
  BY <1>6 DEF StreamAt
<1>9. p # None /\ e => exact[c] /\ (len <= LocalSize \/ ts = p.ts)
  BY <1>3, <1>6
<1>10. p # None /\ e => s.abs + Delta(h, p) = h.ts
  <2> SUFFICES ASSUME p # None, e PROVE s.abs + Delta(h, p) = h.ts
    OBVIOUS
  <2>1. s.abs = p.ts /\ p.ts \in Nat
    BY <1>6, <1>8, <1>9
  <2>2. Delta(h, p) = ts - p.ts /\ h.ts = ts
    BY <1>2, <1>7
  <2> QED
    BY ONLY <1>1, <2>1, <2>2
<1>11. p # None /\ e /\ len > LocalSize => Delta(h, p) = 0
  <2> SUFFICES ASSUME p # None, e, len > LocalSize PROVE Delta(h, p) = 0
    OBVIOUS
  <2>1. ~(len <= LocalSize)
    BY <1>1
  <2>2. ts = p.ts
    BY <1>9, <2>1
  <2>3. Delta(h, p) = ts - p.ts
    BY <1>7
  <2> QED
    BY ONLY <1>1, <2>2, <2>3
<1>12. s.timestamp # MaxTs
  BY DEF StreamAt
<1> QED
  BY <1>2, <1>3, <1>4, <1>5, <1>8, <1>10, <1>11, <1>12 DEF Ready

\* The reader z, that was b, has the first x bytes of msg.
Has(b, h, p, e, msg, x, z) ==
    /\ z \in Node /\ z.rest = <<>> /\ z.done = b.done /\ z.size = b.size
    /\ z.str = [b.str EXCEPT ![h.csid] = z.str[h.csid]]
    /\ z.str[h.csid].msg = SubSeq(msg, 1, x)
    /\ Ready(z.str[h.csid], h, p, e)

\* The reader z, that was b, has given msg to the callback.
Gave(b, h, e, z) ==
    /\ z \in Node /\ z.rest = <<>> /\ z.done = b.done + 1 /\ z.size = b.size
    /\ z.str = [b.str EXCEPT ![h.csid] = z.str[h.csid]]
    /\ z.str[h.csid].msg = <<>> /\ z.str[h.csid].timestamp # MaxTs
    /\ z.str[h.csid].len = h.len /\ z.str[h.csid].type = "av"
    /\ e => z.str[h.csid].abs = h.ts

\* What the relay of the message msg with header h knows of itself.
Relays(h, p, e, msg) ==
    /\ h \in AvHeaders /\ p \in Previous \cup {None} /\ e \in BOOLEAN
    /\ InTime(h, p)
    /\ p = None => e
    /\ p # None /\ e /\ Len(msg) > LocalSize => Delta(h, p) = 0
    /\ msg \in Seq(Bytes) /\ h.len = Len(msg)

\* Message k of f is the one that is relayed.
Told(f, k, h, e, msg) ==
    /\ k \in 1 .. Len(f)
    /\ f[k].msg = msg
    /\ f[k].exact => e /\ f[k].ts = h.ts

\* A chunk of the relay.
RelayChunk(h, p, body) == ChunkOf(RelayHead(h, p), RelayExt(h, p), body)

\* Where a chunk that begins at x ends.
Upto(msg, x) == Least(x + LocalSize, Len(msg))

\* The reader takes one more chunk of the message.
LEMMA RelayOne ==
    ASSUME NEW b \in Node, b.size = LocalSize, NEW h, NEW p, NEW e, NEW msg, Relays(h, p, e, msg),
           NEW x \in Nat, x < Len(msg), x > 0 => Len(msg) > LocalSize,
           NEW z, Has(b, h, p, e, msg, x, z),
           NEW y, y = Upto(msg, x), NEW body, body = SubSeq(msg, x + 1, y),
           NEW f,
           Told(f, b.done + 1, h, e, msg),
           NEW ch, ch = RelayChunk(h, p, body)
    PROVE  /\ ch \in Chunk /\ body \in Seq(Bytes)
           /\ Takes(f, z, ch)
           /\ y # Len(msg) => Has(b, h, p, e, msg, y, After(z, ch))
           /\ y = Len(msg) => Gave(b, h, e, After(z, ch))
<1> DEFINE c == h.csid
           s == z.str[c]
           t == Announced(s, ch)
           w == After(z, ch)
           head == RelayHead(h, p)
           ext == RelayExt(h, p)
<1>1. /\ h \in AvHeaders /\ p \in Previous \cup {None} /\ e \in BOOLEAN
      /\ InTime(h, p) /\ msg \in Seq(Bytes) /\ h.len = Len(msg)
  BY DEF Relays
<1>2. c \in Csids /\ h.ts \in Nat /\ h.len \in Nat
  BY <1>1 DEF AvHeaders
<1>3. /\ z \in Node /\ z.rest = <<>> /\ z.done = b.done /\ z.size = LocalSize
      /\ s.msg = SubSeq(msg, 1, x) /\ Ready(s, h, p, e)
  BY DEF Has
<1>4. z.str = [b.str EXCEPT ![c] = s] /\ s \in Stream
  BY <1>2, <1>3 DEF Has, Node
<1>5. head \in Heads /\ ext \in Seq(Exts) /\ head.csid = c
  BY <1>1, RelayHeadType
<1>6. ch.head = head /\ ch.ext = ext /\ ch.body = body
  BY DEF RelayChunk, ChunkOf
<1>7. ch.head = RelayHead(h, p) /\ ch.ext = RelayExt(h, p)
  BY <1>6
<1> HIDE DEF s, t, w, head, ext, c
<1>8. /\ HeaderFits(s, ch) /\ t \in Stream
      /\ t.msg = s.msg /\ t.len = h.len
      /\ t.type = "av" /\ t.timestamp # MaxTs
      /\ (p = None \/ e) => t.abs = h.ts
  BY <1>1, <1>3, <1>4, <1>7, RelayHeader DEF t
<1>9. /\ body \in Seq(Bytes) /\ BodyFits(t, LocalSize, body)
      /\ t.msg \o body = SubSeq(msg, 1, y)
      /\ Completes(t, body) <=> y = Len(msg)
      /\ y # Len(msg) => Len(msg) > LocalSize
  <2>1. LocalSize \in Nat \ {0} /\ y = Least(x + LocalSize, Len(msg))
    BY RtmpStreamAssumption DEF Upto
  <2>2. t.len = Len(msg) /\ t.msg = SubSeq(msg, 1, x) /\ msg \in Seq(Bytes)
    BY <1>1, <1>3, <1>8
  <2>3. x < Len(msg) /\ (x > 0 => Len(msg) > LocalSize) /\ x \in Nat
    OBVIOUS
  <2>4. body = SubSeq(msg, x + 1, y)
    OBVIOUS
  <2>5. Continues(msg, t, LocalSize, x, y, body)
    BY ONLY <2>1, <2>2, <2>3, <2>4, RelayPiece
  <2> QED
    BY <2>5 DEF Continues
<1>10. SubSeq(msg, 1, Len(msg)) = msg
  BY <1>1, SubSeqFull
<1>11. ch \in Chunk
  BY <1>5, <1>6, <1>9 DEF Chunk, RelayChunk, ChunkOf, head, ext
<1>12. ASSUME y = Len(msg) PROVE Tells(f, z.done + 1, t, body)
  <2>1. t.msg \o body = msg
    BY <1>9, <1>10, <1>12
  <2>2. /\ b.done + 1 \in 1 .. Len(f) /\ f[b.done + 1].msg = msg
        /\ f[b.done + 1].exact => f[b.done + 1].ts = t.abs
    BY <1>8 DEF Told
  <2>3. t.type # "chunk size"
    BY <1>8
  <2> QED
    BY <1>3, <1>12, <2>1, <2>2, <2>3 DEF Tells
<1>13. ch.head.csid = c
  BY <1>5, <1>6
<1>14. Takes(f, z, ch)
  BY <1>3, <1>6, <1>8, <1>9, <1>12, <1>13 DEF Takes, s, t
<1>15. w \in Node /\ w.rest = <<>>
  BY <1>3, <1>11, <1>14, AfterReached DEF w
<1> DEFINE u == StreamAfter(t, body)
<1>16. /\ u.msg = IF Completes(t, body) THEN <<>> ELSE t.msg \o body
       /\ u.len = t.len /\ u.type = t.type /\ u.timestamp = t.timestamp /\ u.abs = t.abs
  BY <1>8 DEF StreamAfter, Stream
<1>17. /\ w.str = [z.str EXCEPT ![c] = u]
       /\ w.size = z.size
       /\ w.done = IF Completes(t, body) THEN z.done + 1 ELSE z.done
  BY <1>6, <1>8, <1>13 DEF w, After, s, t
<1> HIDE DEF u
<1>18. w.str[c] = u /\ w.str = [b.str EXCEPT ![c] = w.str[c]]
  <2>1. b.str \in [Csids -> Stream]
    BY DEF Node
  <2>2. w.str[c] = u
    BY <1>2, <1>4, <1>17, <2>1
  <2> QED
    BY <1>2, <1>4, <1>17, <2>1, <2>2
<1>19. ASSUME y # Len(msg) PROVE Has(b, h, p, e, msg, y, w)
  <2>1. u.msg = SubSeq(msg, 1, y)
    BY <1>9, <1>16, <1>19
  <2>2. Ready(u, h, p, e)
    <3>1. p # None /\ e => u.abs + Delta(h, p) = h.ts
      <4> SUFFICES ASSUME p # None, e PROVE u.abs + Delta(h, p) = h.ts
        OBVIOUS
      <4>1. Delta(h, p) = 0
        BY <1>9, <1>19 DEF Relays
      <4>2. u.abs = h.ts
        BY <1>8, <1>16
      <4> QED
        BY ONLY <1>2, <4>1, <4>2
    <3> QED
      BY <1>8, <1>16, <3>1 DEF Ready
  <2>3. w.done = b.done /\ w.size = b.size
    BY <1>3, <1>9, <1>17, <1>19
  <2> QED
    BY <1>15, <1>18, <2>1, <2>2, <2>3 DEF Has, c
<1>20. ASSUME y = Len(msg) PROVE Gave(b, h, e, w)
  <2>1. u.msg = <<>>
    BY <1>9, <1>16, <1>20
  <2>2. w.done = b.done + 1 /\ w.size = b.size
    BY <1>3, <1>9, <1>17, <1>20
  <2> QED
    BY <1>8, <1>15, <1>16, <1>18, <2>1, <2>2 DEF Gave, c
<1> QED
  BY <1>9, <1>11, <1>14, <1>19, <1>20 DEF w

\* HeaderOf and a piece, as a chunk.
LEMMA RelayChunkParts ==
    ASSUME NEW h \in AvHeaders, NEW p \in Previous \cup {None}, InTime(h, p),
           NEW body \in Seq(Bytes)
    PROVE  /\ RelayChunk(h, p, body) \in Chunk
           /\ HeaderOf(h, p) \o body = PartsOf(RelayChunk(h, p, body))
<1> DEFINE head == RelayHead(h, p)
           ext == RelayExt(h, p)
           ch == RelayChunk(h, p, body)
           first == <<head>>
<1>1. head \in Heads /\ ext \in Seq(Exts)
  BY RelayHeadType
<1>2. HeaderOf(h, p) = first \o ext
  BY DEF HeaderOf, RelayHead, RelayExt
<1>3. ch.head = head /\ ch.ext = ext /\ ch.body = body /\ ch \in Chunk
  BY <1>1 DEF RelayChunk, ChunkOf, Chunk
<1> HIDE DEF ch, head, ext
<1>4. first \in Seq(Part) /\ ext \in Seq(Part) /\ body \in Seq(Part)
  BY <1>3, ChunkParts
<1>5. PartsOf(ch) = first \o (ext \o body)
  BY <1>3 DEF PartsOf
<1> HIDE DEF first
<1>6. (first \o ext) \o body = first \o (ext \o body)
  BY ONLY <1>4, ConcatAssociative
<1> QED
  BY <1>2, <1>3, <1>5, <1>6 DEF ch

\* Chunk j + 1 of a message that a yet relays.
ChunkFrom(msg, h, p, x) == RelayChunk(h, p, SubSeq(msg, x + 1, Upto(msg, x)))

Count(msg) == Chunks(Len(msg), LocalSize)

\* G[j] is the first j chunks.
Puts(msg, h, p, G) ==
    /\ G[0] = <<>>
    /\ \A j \in 0 .. Count(msg) - 1 :
         G[j + 1] = G[j] \o PartsOf(ChunkFrom(msg, h, p, j * LocalSize))
    /\ G[Count(msg)] = msg2chunks(msg, h, p, LocalSize)

\* The bytes of a chunk.
LEMMA ChunkBytes ==
    ASSUME NEW msg, msg \in Seq(Bytes), Len(msg) > 0, NEW j \in 0 .. Count(msg) - 1
    PROVE  /\ j * LocalSize \in Nat /\ j * LocalSize < Len(msg)
           /\ j * LocalSize > 0 => Len(msg) > LocalSize
           /\ (j + 1) * LocalSize = j * LocalSize + LocalSize
           /\ j + 1 < Count(msg) => /\ Upto(msg, j * LocalSize) = (j + 1) * LocalSize
                                    /\ Upto(msg, j * LocalSize) # Len(msg)
           /\ j + 1 = Count(msg) => Upto(msg, j * LocalSize) = Len(msg)
           /\ Upto(msg, j * LocalSize) = Least((j + 1) * LocalSize, Len(msg))
           /\ SubSeq(msg, j * LocalSize + 1, Upto(msg, j * LocalSize)) \in Seq(Bytes)
<1> DEFINE n == Len(msg)
           K == Count(msg)
           x == j * LocalSize
           y == Upto(msg, x)
<1>1. n \in Nat \ {0} /\ LocalSize \in Nat \ {0}
  BY LenProperties, RtmpStreamAssumption
<1>2. K = Chunks(n, LocalSize) /\ j \in 0 .. K - 1
  BY DEF Count
<1>3. y = Least(x + LocalSize, n)
  BY DEF Upto
<1> HIDE DEF n, K, y
<1>4. /\ x \in Nat /\ x < n /\ (j + 1) * LocalSize = x + LocalSize
      /\ j + 1 < K => x + LocalSize < n
      /\ j + 1 = K => n <= x + LocalSize
      /\ x > 0 => n > LocalSize
  BY ONLY <1>1, <1>2, ChunkEnds
<1> HIDE DEF x
<1>5. /\ j + 1 < K => y = x + LocalSize /\ y # n
      /\ j + 1 = K => y = n
      /\ y \in Nat /\ x <= y /\ y <= n
  BY ONLY <1>1, <1>3, <1>4 DEF Least
<1>6. Adjacent(msg, x, y)
  <2>1. msg \in Seq(Bytes) /\ y <= Len(msg)
    BY <1>5 DEF n
  <2> QED
    BY ONLY <1>4, <1>5, <2>1, AdjacentBytes
<1>7. SubSeq(msg, x + 1, y) \in Seq(Bytes)
  BY <1>6 DEF Adjacent
<1> QED
  BY <1>3, <1>4, <1>5, <1>7 DEF n, K, x, y

\* msg2chunks puts its chunks behind each other.
LEMMA MessageParts ==
    ASSUME NEW h, NEW p, NEW e, NEW msg, Relays(h, p, e, msg), Len(msg) > 0
    PROVE  Count(msg) \in Nat \ {0} /\ \E G : Puts(msg, h, p, G)
<1>1. h \in AvHeaders /\ p \in Previous \cup {None} /\ InTime(h, p) /\ msg \in Seq(Bytes)
  BY DEF Relays
<1> DEFINE K == Count(msg)
<1>2. K \in Nat \ {0}
  <2>1. Len(msg) \in Nat \ {0} /\ LocalSize \in Nat \ {0}
    BY <1>1, LenProperties, RtmpStreamAssumption
  <2> QED
    BY <2>1, ChunkCount DEF Count
<1> DEFINE part(i) == HeaderOf(h, p) \o SubSeq(msg, (i - 1) * LocalSize + 1,
                                              Least(i * LocalSize, Len(msg)))
           s == [i \in 1 .. K |-> part(i)]
<1>3. msg2chunks(msg, h, p, LocalSize) = FlattenSeq(s)
  BY DEF msg2chunks, Count
<1>4. ASSUME NEW j \in 0 .. K - 1
      PROVE  /\ s[j + 1] = PartsOf(ChunkFrom(msg, h, p, j * LocalSize))
             /\ s[j + 1] \in Seq(Part)
  <2> DEFINE body == SubSeq(msg, j * LocalSize + 1, Upto(msg, j * LocalSize))
  <2>1. j + 1 \in 1 .. K /\ (j + 1) - 1 = j
    BY <1>2
  <2>2. s[j + 1] = part(j + 1)
    BY <2>1
  <2>3. body \in Seq(Bytes) /\ Upto(msg, j * LocalSize) = Least((j + 1) * LocalSize, Len(msg))
    BY <1>1, ChunkBytes
  <2>4. part(j + 1) = HeaderOf(h, p) \o body
    BY <2>1, <2>3
  <2> HIDE DEF body, s, part
  <2>5. /\ RelayChunk(h, p, body) \in Chunk
        /\ HeaderOf(h, p) \o body = PartsOf(RelayChunk(h, p, body))
    BY <1>1, <2>3, RelayChunkParts
  <2>6. PartsOf(RelayChunk(h, p, body)) \in Seq(Part)
    BY <2>5, PartsOfType
  <2> QED
    BY <2>2, <2>4, <2>5, <2>6 DEF ChunkFrom, body
<1>5. Len(s) = K
  <2> HIDE DEF part, K
  <2> QED
    BY <1>2
<1> HIDE DEF s, part, K
<1>6. PICK g : /\ g[1] = s[1]
               /\ \A i \in 2 .. K : g[i] = g[i - 1] \o s[i]
               /\ FlattenSeq(s) = g[K]
  BY <1>2, <1>5, FlattenParts
<1> DEFINE G == [j \in 0 .. K |-> IF j = 0 THEN <<>> ELSE g[j]]
<1>7. G[0] = <<>> /\ G[K] = msg2chunks(msg, h, p, LocalSize)
  BY <1>2, <1>3, <1>6
<1>8. ASSUME NEW j \in 0 .. K - 1
      PROVE  G[j + 1] = G[j] \o PartsOf(ChunkFrom(msg, h, p, j * LocalSize))
  <2>1. G[j + 1] = g[j + 1]
    BY <1>2
  <2>2. CASE j = 0
    <3>1. s[1] \in Seq(Part) /\ s[1] = PartsOf(ChunkFrom(msg, h, p, j * LocalSize))
      BY <1>4, <2>2
    <3>2. <<>> \o s[1] = s[1]
      BY <3>1, ConcatEmptySeq
    <3>3. G[j] = <<>> /\ G[j + 1] = s[1]
      BY <1>6, <1>7, <2>1, <2>2
    <3> QED
      BY <3>1, <3>2, <3>3
  <2>3. CASE j # 0
    <3>1. j + 1 \in 2 .. K /\ (j + 1) - 1 = j /\ G[j] = g[j]
      BY <1>2, <2>3
    <3>2. g[j + 1] = g[j] \o s[j + 1]
      BY <1>6, <3>1
    <3> QED
      BY <1>4, <2>1, <3>1, <3>2
  <2> QED
    BY <2>2, <2>3
<1> HIDE DEF G
<1>9. Puts(msg, h, p, G)
  BY <1>7, <1>8 DEF Puts, K
<1> QED
  BY <1>2, <1>9 DEF K

\* Longer, and longer again.
LEMMA LongerTwice ==
    ASSUME NEW a \in Node, NEW q \in Seq(Part), NEW r \in Seq(Part)
    PROVE  /\ Longer(Longer(a, q), r) = Longer(a, q \o r)
           /\ Longer(a, <<>>) = a
<1> DEFINE d == a.rest
<1>1. d \in Seq(Part)
  BY DEF Node
<1>2. Longer(a, q).rest = d \o q
  BY LongerType
<1>3. Longer(Longer(a, q), r) = [a EXCEPT !.rest = (d \o q) \o r]
  BY <1>2 DEF Longer, Node
<1>4. Longer(a, q \o r) = [a EXCEPT !.rest = d \o (q \o r)]
  BY DEF Longer
<1>5. Longer(a, <<>>) = [a EXCEPT !.rest = d \o <<>>]
  BY DEF Longer
<1>6. [a EXCEPT !.rest = d] = a
  BY DEF Node
<1> HIDE DEF d
<1>7. (d \o q) \o r = d \o (q \o r) /\ d \o <<>> = d
  BY <1>1, ConcatAssociative, ConcatEmptySeq
<1> QED
  BY <1>3, <1>4, <1>5, <1>6, <1>7

\* Over the first j chunks the reader that was to be at b is at z.
Reaches(f, a, b, h, p, e, msg, j, parts, z) ==
    /\ Has(b, h, p, e, msg, j * LocalSize, z)
    /\ Path(f, Longer(a, parts), z)

\* The chunks of a message that a yet relays take the reader over it.
LEMMA RelayPath ==
    ASSUME NEW f, NEW a, NEW b, Path(f, a, b), b.size = LocalSize,
           NEW h, NEW p, NEW e, NEW msg, Relays(h, p, e, msg), Len(msg) > 0,
           b.str[h.csid].msg = <<>>, Ready(b.str[h.csid], h, p, e),
           Told(f, b.done + 1, h, e, msg)
    PROVE  /\ msg2chunks(msg, h, p, LocalSize) \in Seq(Part)
           /\ \E z : /\ Gave(b, h, e, z)
                     /\ Path(f, Longer(a, msg2chunks(msg, h, p, LocalSize)), z)
<1>1. /\ h \in AvHeaders /\ p \in Previous \cup {None} /\ InTime(h, p) /\ msg \in Seq(Bytes)
      /\ h.csid \in Csids
  BY DEF Relays, AvHeaders
<1>2. a \in Node /\ b \in Node /\ b.rest = <<>>
  BY PathType
<1> DEFINE K == Count(msg)
<1>3. PICK G : Puts(msg, h, p, G)
  BY MessageParts
<1>4. K \in Nat \ {0}
  BY MessageParts
<1>5. /\ G[0] = <<>>
      /\ G[K] = msg2chunks(msg, h, p, LocalSize)
      /\ \A j \in 0 .. K - 1 :
           G[j + 1] = G[j] \o PartsOf(ChunkFrom(msg, h, p, j * LocalSize))
  BY <1>3 DEF Puts
<1>6. LocalSize \in Nat \ {0}
  BY RtmpStreamAssumption
<1> HIDE DEF K
<1>7. ASSUME NEW j \in 0 .. K - 1, G[j] \in Seq(Part), NEW z,
             Reaches(f, a, b, h, p, e, msg, j, G[j], z)
      PROVE  /\ G[j + 1] \in Seq(Part)
             /\ \E w : /\ Path(f, Longer(a, G[j + 1]), w)
                       /\ j + 1 < K => Has(b, h, p, e, msg, (j + 1) * LocalSize, w)
                       /\ j + 1 = K => Gave(b, h, e, w)
  <2> DEFINE x == j * LocalSize
             y == Upto(msg, x)
             body == SubSeq(msg, x + 1, y)
             ch == RelayChunk(h, p, body)
             w == After(z, ch)
  <2>1. /\ x \in Nat /\ x < Len(msg) /\ (x > 0 => Len(msg) > LocalSize)
        /\ j + 1 < K => y = (j + 1) * LocalSize /\ y # Len(msg)
        /\ j + 1 = K => y = Len(msg)
    BY <1>1, ChunkBytes DEF K
  <2>2. Has(b, h, p, e, msg, x, z) /\ Path(f, Longer(a, G[j]), z)
    BY <1>7 DEF Reaches
  <2>3. ch = ChunkFrom(msg, h, p, j * LocalSize)
    BY DEF ChunkFrom
  <2>4. y = Upto(msg, x) /\ body = SubSeq(msg, x + 1, y) /\ ch = RelayChunk(h, p, body)
    OBVIOUS
  <2> HIDE DEF x, y, body, ch, w
  <2>6. /\ ch \in Chunk /\ body \in Seq(Bytes)
        /\ Takes(f, z, ch)
        /\ y # Len(msg) => Has(b, h, p, e, msg, y, w)
        /\ y = Len(msg) => Gave(b, h, e, w)
    BY <1>2, <2>1, <2>2, <2>4, RelayOne DEF w
  <2>7. Path(f, Longer(Longer(a, G[j]), PartsOf(ch)), w)
    BY <2>2, <2>6, PathTakes DEF w
  <2> DEFINE q == PartsOf(ch)
             g == G[j]
  <2>8. q \in Seq(Part) /\ g \in Seq(Part) /\ G[j + 1] = g \o q
    BY <1>5, <1>7, <2>3, <2>6, PartsOfType
  <2>9. Longer(Longer(a, g), q) = Longer(a, g \o q) /\ g \o q \in Seq(Part)
    <3> HIDE DEF q, g
    <3> QED
      BY <1>2, <2>8, LongerTwice, ConcatProperties
  <2>10. Path(f, Longer(a, G[j + 1]), w)
    BY <2>7, <2>8, <2>9
  <2> QED
    BY <2>1, <2>6, <2>8, <2>9, <2>10
<1> DEFINE S == {j \in Nat : j < K =>
                   /\ G[j] \in Seq(Part)
                   /\ \E z : Reaches(f, a, b, h, p, e, msg, j, G[j], z)}
<1>8. 0 \in S
  <2>1. G[0] \in Seq(Part) /\ Longer(a, G[0]) = a
    <3>1. <<>> \in Seq(Part)
      BY EmptySeq
    <3> QED
      BY <1>2, <1>5, <3>1, LongerTwice
  <2>2. Has(b, h, p, e, msg, 0, b)
    <3>1. SubSeq(msg, 1, 0) = <<>>
      BY SubSeqEmpty
    <3>2. b.str = [b.str EXCEPT ![h.csid] = b.str[h.csid]]
      BY <1>1, <1>2 DEF Node
    <3> QED
      BY <1>2, <3>1, <3>2 DEF Has
  <2>3. 0 * LocalSize = 0
    BY <1>6
  <2>4. Reaches(f, a, b, h, p, e, msg, 0, G[0], b)
    BY <2>1, <2>2, <2>3 DEF Reaches
  <2> QED
    BY <2>1, <2>4
<1>9. ASSUME NEW j \in Nat, j \in S PROVE j + 1 \in S
  <2> SUFFICES ASSUME j + 1 < K
               PROVE  /\ G[j + 1] \in Seq(Part)
                      /\ \E z : Reaches(f, a, b, h, p, e, msg, j + 1, G[j + 1], z)
    OBVIOUS
  <2>1. j \in 0 .. K - 1 /\ j < K
    BY <1>4
  <2>2. PICK z : Reaches(f, a, b, h, p, e, msg, j, G[j], z)
    BY <1>9, <2>1
  <2>3. G[j] \in Seq(Part)
    BY <1>9, <2>1
  <2>4. /\ G[j + 1] \in Seq(Part)
        /\ \E w : /\ Path(f, Longer(a, G[j + 1]), w)
                  /\ j + 1 < K => Has(b, h, p, e, msg, (j + 1) * LocalSize, w)
    BY <1>7, <2>1, <2>2, <2>3
  <2> QED
    BY <2>4 DEF Reaches
<1>10. K - 1 \in Nat /\ K - 1 < K /\ K - 1 \in 0 .. K - 1 /\ (K - 1) + 1 = K
  BY <1>4
<1>11. K - 1 \in S
  <2> HIDE DEF S
  <2>1. \A j \in Nat : j \in S
    BY <1>8, <1>9, Inductive
  <2> QED
    BY <1>10, <2>1
<1>12. PICK z : Reaches(f, a, b, h, p, e, msg, K - 1, G[K - 1], z)
  BY <1>10, <1>11
<1>13. G[K - 1] \in Seq(Part)
  BY <1>10, <1>11
<1>14. G[K] \in Seq(Part) /\ \E w : Path(f, Longer(a, G[K]), w) /\ Gave(b, h, e, w)
  BY <1>7, <1>10, <1>12, <1>13
<1> QED
  BY <1>5, <1>14

\* RelayMessage keeps the invariant.
LEMMA RelayMessageStep ==
    ASSUME Habits = {}, StreamInv, NEW c \in Media, NEW len \in Lens, NEW ts \in Clock,
           NEW p \in {None, prev[c]}, RelayMessage(c, len, ts, p)
    PROVE  StreamInv'
<1> DEFINE h == Header(c, ts, len, "av")
           msg == Payload(count, len)
           e == p = None \/ (exact[c] /\ (len <= LocalSize \/ ts = prev[c].ts))
           parts == msg2chunks(msg, h, p, LocalSize)
           m == Sent("av", ts, msg, e)
           r == [ts |-> ts, len |-> len, type |-> "av", delta |-> 0]
<1>1. WriterTypes /\ ReaderTypes /\ prev[Control] = None /\ under_way[Control] = Nothing
  BY DEF StreamInv
<1>2. c \in Csids /\ c # Control
  BY DEF Media
<1>3. /\ count \in 0 .. MaxMessages /\ exact \in [Csids -> BOOLEAN]
      /\ prev \in [Csids -> Previous \cup {None}] /\ finished \in Seq(Message)
  BY <1>1 DEF WriterTypes
<1>4. msg \in Seq(Bytes) /\ Len(msg) = len /\ len \in Nat /\ ts \in Nat
  BY <1>3, PayloadType, RtmpStreamAssumption
<1>5. /\ writer = "yet" /\ count < MaxMessages /\ size = LocalSize
      /\ prev[c] # None => ts >= prev[c].ts
      /\ len > 0
      /\ Delta(h, p) < MaxTs \/ (p = None /\ ts > MaxTs)
  BY DEF RelayMessage
<1>6. /\ wire' = wire \o parts
      /\ exact' = [exact EXCEPT ![c] = p = None \/
                     (exact[c] /\ (Len(msg) <= LocalSize \/ ts = prev[c].ts))]
      /\ finished' = Append(finished, Sent("av", ts, msg, exact'[c]))
      /\ prev' = [prev EXCEPT ![c] = r]
      /\ count' = count + 1
      /\ UNCHANGED readerVars /\ UNCHANGED <<writer, size, under_way>>
  BY DEF RelayMessage
<1>7. exact'[c] = e /\ e \in BOOLEAN /\ exact' = [exact EXCEPT ![c] = e]
  <2>1. e \in BOOLEAN
    BY <1>2, <1>3
  <2>2. exact' = [exact EXCEPT ![c] = e]
    BY <1>4, <1>6
  <2> HIDE DEF e
  <2> QED
    BY <1>2, <1>3, <2>1, <2>2
<1>8. finished' = Append(finished, m)
  BY <1>6, <1>7
<1>9. h = Header(c, ts, len, "av") /\ h.csid = c /\ h.ts = ts /\ h.len = len
      /\ e = (p = None \/ (exact[c] /\ (len <= LocalSize \/ ts = prev[c].ts)))
  BY DEF Header
<1> HIDE DEF msg, h, e
<1>10. m \in Message /\ m.msg = msg /\ m.ts = ts /\ m.exact = e
  BY <1>4, <1>7 DEF Sent, Message, MsgTypes
<1> HIDE DEF m
<1>11. r \in Previous /\ r.ts = ts /\ r.len = len
  BY <1>4 DEF Previous, AvKind
<1> HIDE DEF r, parts
<1>12. PICK a, b : ReaderAt(a) /\ Path(finished, a, b) /\ WriterAt(b)
  BY DEF StreamInv, OnItsWay
<1>13. b \in Node /\ a \in Node
  BY <1>12, PathType
<1>14. /\ b.done = Len(finished) /\ b.size = LocalSize /\ b.str[c] \in Stream
       /\ \A d \in Csids : StreamAt(d, b.str[d])
  BY <1>2, <1>5, <1>12, <1>13 DEF WriterAt, Node
<1>15. \A d \in Csids : under_way[d] = Nothing
  BY <1>5, <1>14 DEF StreamAt
<1>16. StreamAt(c, b.str[c]) /\ b.str[c].msg = <<>>
  BY <1>2, <1>14, <1>15 DEF StreamAt
<1>17. /\ h \in AvHeaders /\ p \in Previous \cup {None} /\ e \in BOOLEAN
       /\ Ready(b.str[c], h, p, e)
       /\ p # None /\ e /\ len > LocalSize => Delta(h, p) = 0
  BY <1>1, <1>2, <1>5, <1>9, <1>16, RelayReady
<1>18. Relays(h, p, e, msg)
  <2>1. Delta(h, p) \in Nat
    <3>1. CASE p = None
      BY <1>4, <1>9, <3>1 DEF Delta
    <3>2. CASE p # None
      <4>1. p = prev[c] /\ p \in Previous
        BY <1>17, <3>2
      <4>2. p.ts \in Nat /\ ts >= p.ts
        BY <1>5, <3>2, <4>1 DEF Previous
      <4>3. Delta(h, p) = ts - p.ts
        BY <1>9, <3>2 DEF Delta
      <4> QED
        BY ONLY <1>4, <4>2, <4>3
    <3> QED
      BY <3>1, <3>2
  <2>2. InTime(h, p)
    BY <1>5, <1>9, <2>1 DEF InTime
  <2>3. p = None => e
    BY <1>9
  <2> QED
    BY <1>4, <1>9, <1>17, <2>2, <2>3 DEF Relays
<1>19. /\ finished' \in Seq(Message) /\ Grown(finished, finished')
       /\ Len(finished') = Len(finished) + 1 /\ finished'[Len(finished) + 1] = m
       /\ Len(finished) \in Nat
  BY <1>3, <1>8, <1>10, GrownByOne, LenProperties
<1>20. Told(finished', b.done + 1, h, e, msg)
  <2>1. b.done + 1 \in 1 .. Len(finished')
    BY <1>14, <1>19
  <2>2. finished'[b.done + 1] = m
    BY <1>14, <1>19
  <2> QED
    BY <1>9, <1>10, <2>1, <2>2 DEF Told
<1>21. Path(finished', a, b)
  BY <1>12, <1>19, PathGrown
<1>22. /\ parts \in Seq(Part)
       /\ \E z : Gave(b, h, e, z) /\ Path(finished', Longer(a, parts), z)
  <2>1. Len(msg) > 0 /\ b.str[h.csid].msg = <<>> /\ Ready(b.str[h.csid], h, p, e)
    BY <1>4, <1>5, <1>9, <1>16, <1>17
  <2> QED
    BY <1>14, <1>18, <1>20, <1>21, <2>1, RelayPath DEF parts
<1>23. PICK z : Gave(b, h, e, z) /\ Path(finished', Longer(a, parts), z)
  BY <1>22
<1>24. /\ z.done = Len(finished') /\ z.size = size' /\ z.str = [b.str EXCEPT ![c] = z.str[c]]
       /\ z.str[c].msg = <<>> /\ z.str[c].timestamp # MaxTs
       /\ z.str[c].len = len /\ z.str[c].type = "av" /\ (e => z.str[c].abs = ts)
  BY <1>5, <1>6, <1>9, <1>14, <1>19, <1>23 DEF Gave
<1>25. prev' \in [Csids -> Previous \cup {None}] /\ prev'[c] = r
       /\ \A d \in Csids : d # c => prev'[d] = prev[d]
  BY <1>2, <1>3, <1>6, <1>11
<1>26. exact' \in [Csids -> BOOLEAN] /\ \A d \in Csids : d # c => exact'[d] = exact[d]
  BY <1>2, <1>3, <1>7
<1>27. WriterAt(z)'
  <2>1. OthersStay(c)
    BY <1>6, <1>25, <1>26 DEF OthersStay
  <2>2. ASSUME NEW d \in Csids, NEW s, s = z.str[d] PROVE StreamAt(d, s)'
    <3>1. CASE d = c
      <4>1. s.msg = <<>> /\ s.timestamp # MaxTs /\ s.len = len /\ s.type = "av"
        BY <1>24, <2>2, <3>1
      <4>2. exact'[d] => s.abs = ts
        BY <1>7, <1>24, <2>2, <3>1
      <4>3. under_way'[d] = Nothing /\ writer' = "yet"
        BY <1>5, <1>6, <1>15
      <4>4. s.len = prev'[d].len /\ prev'[d].ts = ts
        BY <1>11, <1>25, <3>1, <4>1
      <4> QED
        BY <4>1, <4>2, <4>3, <4>4 DEF StreamAt
    <3>2. CASE d # c
      <4>1. s = b.str[d]
        BY <1>13, <1>24, <2>2, <3>2 DEF Node
      <4>2. StreamAt(d, s)
        BY <1>14, <4>1
      <4> QED
        BY <2>1, <3>2, <4>2, OtherStream
    <3> QED
      BY <3>1, <3>2
  <2>3. \A d \in Csids : \A s : s = z.str[d] => StreamAt(d, s)'
    BY <2>2
  <2>4. \A d \in Csids : StreamAt(d, z.str[d])'
    BY <2>3
  <2> QED
    BY <1>24, <2>4 DEF WriterAt
<1>28. WriterTypes'
  <2>1. count' \in 0 .. MaxMessages
    BY <1>3, <1>5, <1>6, RtmpStreamAssumption
  <2> QED
    BY <1>1, <1>6, <1>19, <1>25, <1>26, <2>1 DEF WriterTypes
<1>29. prev'[Control] = None /\ under_way'[Control] = Nothing
  BY <1>1, <1>2, <1>6, <1>25, RtmpStreamAssumption
<1> QED
  BY <1>6, <1>12, <1>19, <1>22, <1>23, <1>27, <1>28, <1>29, WriterStep

\* The invariant holds at the beginning: the path is empty.
LEMMA StreamInit == Init => StreamInv
<1> SUFFICES ASSUME Init PROVE StreamInv
  OBVIOUS
<1>1. /\ read_buf_ = <<>> /\ in_call = FALSE /\ header_done_ = FALSE /\ curr_csid_ \in Csids
      /\ peer_chunk_size_ = DefaultSize
      /\ csid2stream_ = [c \in Csids |-> NewStream]
      /\ composed = <<>> /\ asserted = FALSE /\ astray = FALSE
  BY DEF Init, ReaderInit
<1>2. /\ wire = <<>> /\ writer \in {"specification", "yet"} /\ size = DefaultSize
      /\ under_way = [c \in Csids |-> Nothing] /\ prev = [c \in Csids |-> None]
      /\ exact = [c \in Csids |-> TRUE] /\ count = 0 /\ finished = <<>>
  BY DEF Init
<1>3. NewStream \in Stream
  BY EmptySeq DEF NewStream, Stream, MsgTypes
<1>4. ReaderTypes
  BY <1>1, <1>2, <1>3, EmptySeq DEF ReaderTypes, Sizes
<1>5. Nothing \in UnderWay
  BY EmptySeq DEF Nothing, UnderWay
<1>6. WriterTypes
  BY <1>2, <1>5, EmptySeq, RtmpStreamAssumption DEF WriterTypes, Sizes
<1>7. Agreement
  BY <1>1, <1>2, EmptySeq DEF Agreement
<1> DEFINE here == Here
<1>8. <<>> \o <<>> = <<>> /\ Len(<<>>) = 0 /\ <<>> \in Seq(Part)
  BY EmptySeq, ConcatEmptySeq
<1>9. here = [rest |-> <<>>, str |-> csid2stream_, size |-> DefaultSize, done |-> 0]
  BY <1>1, <1>2, <1>8 DEF Here
<1>10. here \in Node /\ here.rest = <<>>
  <2>1. csid2stream_ \in [Csids -> Stream] /\ DefaultSize \in Sizes
    BY <1>4 DEF ReaderTypes, Sizes
  <2> HIDE DEF here
  <2> QED
    BY <1>8, <1>9, <2>1 DEF Node
<1>11. ReaderAt(here)
  BY <1>1, <1>10 DEF ReaderAt
<1>12. Path(finished, here, here)
  BY <1>10, PathEmpty
<1>13. WriterAt(here)
  <2>1. here.str = csid2stream_ /\ here.size = DefaultSize /\ here.done = 0
    BY <1>9
  <2>2. ASSUME NEW c \in Csids PROVE StreamAt(c, here.str[c])
    <3>1. here.str[c] = NewStream
      BY <1>1, <2>1
    <3>2. NewStream.timestamp # MaxTs /\ NewStream.msg = <<>>
      BY RtmpChunkAssumption DEF NewStream
    <3> HIDE DEF here
    <3> QED
      BY <1>2, <3>1, <3>2 DEF StreamAt
  <2> QED
    BY <1>2, <1>8, <2>1, <2>2 DEF WriterAt
<1>14. OnItsWay
  BY <1>11, <1>12, <1>13 DEF OnItsWay
<1>15. prev[Control] = None /\ under_way[Control] = Nothing
  BY <1>2, RtmpStreamAssumption
<1> QED
  BY <1>1, <1>4, <1>6, <1>7, <1>14, <1>15 DEF StreamInv

\* It holds while nothing changes.
LEMMA StreamStutter ==
    ASSUME StreamInv, UNCHANGED vars
    PROVE  StreamInv'
<1>1. /\ UNCHANGED writerVars /\ wire' = wire
      /\ UNCHANGED <<in_call, read_buf_, header_done_, curr_csid_, peer_chunk_size_,
                     csid2stream_, composed, asserted, astray>>
  BY DEF vars, readerVars
<1>2. PICK a, b : ReaderAt(a) /\ Path(finished, a, b) /\ WriterAt(b)
  BY DEF StreamInv, OnItsWay
<1>3. /\ WriterTypes' /\ WriterAt(b)'
      /\ finished' = finished /\ prev' = prev /\ under_way' = under_way
  BY <1>1, <1>2, WriterStays DEF StreamInv
<1>4. ReaderAt(a)'
  BY <1>1, <1>2, <1>3 DEF ReaderAt, Here, HalfWay
<1>5. OnItsWay'
  BY <1>2, <1>3, <1>4 DEF OnItsWay
<1>6. ReaderTypes' /\ Agreement'
  BY <1>1, <1>3 DEF StreamInv, ReaderTypes, Agreement, Agrees
<1> QED
  BY <1>1, <1>3, <1>5, <1>6 DEF StreamInv

\* Every step keeps it.
LEMMA StreamStep ==
    ASSUME Habits = {}, StreamInv, [Next]_vars
    PROVE  StreamInv'
<1>1. CASE SetChunkSize
  BY <1>1, SetChunkSizeStep
<1>2. ASSUME NEW c \in Media, ContinueMessage(c) PROVE StreamInv'
  BY <1>2, ContinueMessageStep
<1>3. ASSUME NEW c \in Media, NEW len \in Lens, NEW ts \in Clock, StartMessage(c, len, ts)
      PROVE  StreamInv'
  BY <1>3, StartMessageStep
<1>4. ASSUME NEW c \in Media, NEW len \in Lens, NEW ts \in Clock, NEW p \in {None, prev[c]},
             RelayMessage(c, len, ts, p)
      PROVE  StreamInv'
  BY <1>4, RelayMessageStep
<1>5. ASSUME NEW k \in 1 .. Len(wire), Receive(k), UNCHANGED writerVars PROVE StreamInv'
  BY <1>5, ReceiveStep
<1>6. CASE try_compose /\ UNCHANGED writerVars
  BY <1>6, ReadHeaderStep, ReadBytesStep, ReturnStep DEF try_compose
<1>7. CASE UNCHANGED vars
  BY <1>7, StreamStutter
<1> QED
  BY <1>1, <1>2, <1>3, <1>4, <1>5, <1>6, <1>7 DEF Next, Write, Read

\* What is on its way takes the reader to where the writer is, and what the
\* callback was given is what the writer finished (StreamInv), in every state a
\* writer leads to that has none of the habits.
THEOREM StreamInvariant == ASSUME Habits = {} PROVE Spec => []StreamInv
<1>1. Init => StreamInv
  BY StreamInit
<1>2. StreamInv /\ [Next]_vars => StreamInv'
  BY StreamStep
<1> QED
  BY <1>1, <1>2, PTL DEF Spec

\* The two flags of the reader; a negation alone does not say so.
Flags == astray \in BOOLEAN /\ asserted \in BOOLEAN

\* Of every behaviour, with habits or without.
LEMMA FlagsAreFlags == Spec => []Flags
<1>1. Init => Flags
  BY DEF Init, ReaderInit, Flags
<1>2. Flags /\ [Next]_vars => Flags'
  <2> SUFFICES ASSUME Flags, [Next]_vars PROVE Flags'
    OBVIOUS
  <2> DEFINE Same == UNCHANGED <<astray, asserted>>
  <2>1. ASSUME Same PROVE Flags'
    BY <2>1 DEF Flags
  <2>2. SetChunkSize => Same
    BY DEF SetChunkSize, readerVars
  <2>3. ASSUME NEW c \in Media, ContinueMessage(c) PROVE Same
    BY <2>3 DEF ContinueMessage, readerVars
  <2>4. ASSUME NEW c \in Media, NEW len \in Lens, NEW ts \in Clock, StartMessage(c, len, ts)
        PROVE  Same
    BY <2>4 DEF StartMessage, readerVars
  <2>5. ASSUME NEW c \in Media, NEW len \in Lens, NEW ts \in Clock, NEW p \in {None, prev[c]},
               RelayMessage(c, len, ts, p)
        PROVE  Same
    BY <2>5 DEF RelayMessage, readerVars
  <2>6. ASSUME NEW k \in 1 .. Len(wire), Receive(k) PROVE Same
    BY <2>6 DEF Receive
  <2>7. ReadHeader => Flags'
    BY DEF ReadHeader, HeaderDone, HeaderShort, GoAstray, Flags
  <2>8. ReadBytes => Flags'
    BY DEF ReadBytes, Composed, Incomplete, GoAstray, Flags
  <2>9. Return => Same
    BY DEF Return
  <2>10. UNCHANGED vars => Same
    BY DEF vars, readerVars
  <2> QED
    BY <2>1, <2>2, <2>3, <2>4, <2>5, <2>6, <2>7, <2>8, <2>9, <2>10
       DEF Next, Write, Read, try_compose
<1> QED
  BY <1>1, <1>2, PTL DEF Spec

\* The reader, the writer and the chunks keep their types.
THEOREM StreamTypeCorrect == ASSUME Habits = {} PROVE Spec => []TypeOK
<1>1. StreamInv /\ Flags => TypeOK
  <2> SUFFICES ASSUME StreamInv, Flags PROVE TypeOK
    OBVIOUS
  <2>1. ReaderTypes /\ WriterTypes /\ ~astray /\ ~asserted
    BY DEF StreamInv
  <2>2. ASSUME NEW c \in Csids
        PROVE  csid2stream_[c].abs \in Nat /\ csid2stream_[c].len \in Nat
    <3>1. csid2stream_[c] \in Stream
      BY <2>1 DEF ReaderTypes
    <3> QED
      BY <3>1 DEF Stream
  <2>4. ReaderTypeOK
    BY <2>1, <2>2 DEF ReaderTypeOK, Flags, ReaderTypes
  <2>5. ASSUME NEW c \in Csids PROVE under_way[c].ts \in Clock \cup {0} /\ exact[c] \in BOOLEAN
    <3>1. PICK b : WriterAt(b)
      BY DEF StreamInv, OnItsWay
    <3>2. StreamAt(c, b.str[c])
      BY <3>1 DEF WriterAt
    <3>3. under_way[c] = Nothing => under_way[c].ts = 0
      BY DEF Nothing
    <3>4. under_way[c] # Nothing => under_way[c].ts \in Clock
      BY <3>2 DEF StreamAt, HoldsPart
    <3> QED
      BY <2>1, <3>3, <3>4 DEF WriterTypes
  <2> QED
    BY <2>1, <2>4, <2>5 DEF TypeOK, ReaderTypes, WriterTypes, Sizes
<1> QED
  BY <1>1, FlagsAreFlags, StreamInvariant, PTL

\* try_compose never takes bytes of a message for a header or a header for bytes,
\* however the chunks interleave and the reads split them.
THEOREM ReaderKeepsItsPlace == ASSUME Habits = {} PROVE Spec => []KeepsItsPlace
<1>1. StreamInv => KeepsItsPlace
  BY DEF StreamInv, KeepsItsPlace
<1> QED
  BY <1>1, StreamInvariant, PTL

\* The assertion of try_compose, readable_size < msg_len, does not fail while the
\* chunk size changes between messages only.
THEOREM AssertionHolds == ASSUME Habits = {} PROVE Spec => []ReadableBelowLen
<1>1. StreamInv => ReadableBelowLen
  BY DEF StreamInv, ReadableBelowLen
<1> QED
  BY <1>1, StreamInvariant, PTL

-----------------------------------------------------------------------------
(* The connection is a FIFO *)

\* What a message is to the FIFO: its timestamp counts only where it is meant.
Seen(m, meant) == [msg |-> m.msg, ts |-> IF meant THEN m.ts ELSE None]

Accepted  == [i \in 1 .. Len(finished) |-> Seen(finished[i], Meant(i))]
\* What the channel has delivered.
Delivered == [i \in 1 .. Len(composed) |-> Seen(composed[i], Meant(i))]

\* A message that the writer may finish.
Sendable(m) ==
    /\ m \in Message
    /\ m.msg \in Payloads \cup {<<Byte(LocalSize, 0)>>} /\ m.ts \in Clock \cup {0}

\* A message that can be sent is one of the channel.
LEMMA SeenIsMessage ==
    ASSUME NEW m, Sendable(m), NEW meant \in BOOLEAN
    PROVE  Seen(m, meant) \in Messages
BY DEF Sendable, Seen, Messages, Payloads

\* A sequence that is given index by index.
LEMMA SeqByIndex ==
    ASSUME NEW n \in Nat, NEW f, NEW e, NEW g,
           g = [i \in 1 .. n + 1 |-> IF i = n + 1 THEN e ELSE f[i]],
           f = [i \in 1 .. n |-> f[i]]
    PROVE  g = Append(f, e)
<1> DEFINE S == {f[i] : i \in 1 .. n} \cup {e}
<1>1. f \in Seq(S) /\ Len(f) = n
  <2>1. f \in [1 .. n -> S]
    OBVIOUS
  <2> HIDE DEF S
  <2> QED
    BY <2>1
<1>2. e \in S
  OBVIOUS
<1> HIDE DEF S
<1>3. /\ Append(f, e) \in Seq(S) /\ Len(Append(f, e)) = n + 1
      /\ Append(f, e)[n + 1] = e
      /\ \A i \in 1 .. n : Append(f, e)[i] = f[i]
  BY <1>1, <1>2, AppendProperties
<1>4. Append(f, e) = [i \in 1 .. n + 1 |-> Append(f, e)[i]]
  BY <1>3, LenProperties
<1>5. ASSUME NEW i \in 1 .. n + 1
      PROVE  Append(f, e)[i] = IF i = n + 1 THEN e ELSE f[i]
  BY <1>3
<1> QED
  BY <1>4, <1>5

\* Meant, of a finished message.
LEMMA MeantIs ==
    ASSUME StreamInv, NEW i \in 1 .. Len(finished)
    PROVE  Meant(i) = finished[i].exact /\ Meant(i) \in BOOLEAN
<1>1. finished \in Seq(Message)
  BY DEF StreamInv, WriterTypes
<1>2. finished[i] \in Message /\ Len(finished) \in Nat
  BY <1>1, ElementOfSeq, LenProperties
<1>3. ~(i > Len(finished))
  BY <1>2
<1>4. finished[i].exact \in BOOLEAN
  BY <1>2 DEF Message
<1> QED
  BY <1>3, <1>4 DEF Meant

\* How many messages the two ends have.
LEMMA Counts ==
    ASSUME StreamInv
    PROVE  Len(finished) \in Nat /\ Len(composed) \in Nat /\ Len(composed) <= Len(finished)
<1>1. finished \in Seq(Message) /\ composed \in Seq(Composition)
  BY DEF StreamInv, WriterTypes, ReaderTypes
<1> QED
  BY <1>1, LenProperties DEF StreamInv, Agreement

\* A message the writer finishes is put into the FIFO.
LEMMA FinishedIsPut ==
    ASSUME StreamInv, StreamInv', UNCHANGED composed, NEW m, Sendable(m),
           finished' = Append(finished, m)
    PROVE  \E x \in Messages : Accepted' = Append(Accepted, x) /\ Delivered' = Delivered
<1>1. PICK n : n = Len(finished)
  OBVIOUS
<1>2. finished \in Seq(Message) /\ m \in Message /\ n \in Nat /\ Len(composed) \in Nat
      /\ Len(composed) <= n
  BY <1>1, Counts DEF StreamInv, WriterTypes, Sendable
<1>3. Len(finished') = n + 1 /\ finished'[n + 1] = m
      /\ \A i \in 1 .. n : finished'[i] = finished[i]
  BY <1>1, <1>2, AppendProperties
<1> DEFINE A(i) == Seen(finished[i], Meant(i))
           e == Seen(m, m.exact)
           f == [i \in 1 .. n |-> A(i)]
           g == [i \in 1 .. n + 1 |-> IF i = n + 1 THEN e ELSE f[i]]
<1>4. ASSUME NEW i \in 1 .. n + 1
      PROVE  Meant(i)' = IF i = n + 1 THEN m.exact ELSE Meant(i)
  <2>1. i \in 1 .. Len(finished')
    BY <1>3
  <2>2. Meant(i)' = finished'[i].exact
    <3>1. finished' \in Seq(Message)
      BY DEF StreamInv, WriterTypes
    <3>2. finished'[i] \in Message
      BY <2>1, <3>1, ElementOfSeq
    <3>3. ~(i > Len(finished'))
      BY <1>2, <1>3
    <3>4. finished'[i].exact \in BOOLEAN
      BY <3>2 DEF Message
    <3> QED
      BY <3>3, <3>4 DEF Meant
  <2>3. i # n + 1 => i \in 1 .. Len(finished)
    BY <1>1, <1>2
  <2>4. i # n + 1 => Meant(i) = finished[i].exact
    BY <2>3, MeantIs
  <2>5. i # n + 1 => finished'[i] = finished[i]
    BY <1>1, <1>3, <2>3
  <2> QED
    BY <1>3, <2>2, <2>4, <2>5
<1>5. Accepted = f
  BY <1>1 DEF Accepted
<1>6. Accepted' = g
  <2>1. Accepted' = [i \in 1 .. n + 1 |-> Seen(finished'[i], Meant(i)')]
    BY <1>3 DEF Accepted
  <2>2. ASSUME NEW i \in 1 .. n + 1
        PROVE  Seen(finished'[i], Meant(i)') = IF i = n + 1 THEN e ELSE f[i]
    <3>1. CASE i = n + 1
      BY <1>3, <1>4, <3>1
    <3>2. CASE i # n + 1
      <4>1. i \in 1 .. n
        BY <1>2, <3>2
      <4> QED
        BY <1>3, <1>4, <3>2, <4>1
    <3> QED
      BY <3>1, <3>2
  <2> QED
    BY <2>1, <2>2
<1>7. f = [i \in 1 .. n |-> f[i]]
  OBVIOUS
<1>8. Delivered' = Delivered
  <2>1. ASSUME NEW i \in 1 .. Len(composed) PROVE Meant(i)' = Meant(i)
    <3>1. i \in 1 .. n + 1 /\ i # n + 1
      BY <1>2
    <3> QED
      BY <1>4, <3>1
  <2> QED
    BY <2>1 DEF Delivered
<1>9. e \in Messages
  <2>1. m.exact \in BOOLEAN
    BY <1>2 DEF Message
  <2> QED
    BY <2>1, SeenIsMessage
<1> HIDE DEF A, e, f
<1>10. g = Append(f, e)
  <2>1. g = [i \in 1 .. n + 1 |-> IF i = n + 1 THEN e ELSE f[i]]
    OBVIOUS
  <2> HIDE DEF g
  <2> QED
    BY <1>2, <1>7, <2>1, SeqByIndex
<1> QED
  BY <1>5, <1>6, <1>8, <1>9, <1>10

\* A message given to the callback is the next one of the FIFO.
LEMMA ComposedIsDelivered ==
    ASSUME StreamInv, StreamInv', UNCHANGED finished, NEW x,
           composed' = Append(composed, x)
    PROVE  /\ Len(Delivered) < Len(Accepted)
           /\ Delivered' = Append(Delivered, Accepted[Len(Delivered) + 1])
           /\ Accepted' = Accepted
<1>1. PICK n : n = Len(composed)
  OBVIOUS
<1>2. composed \in Seq(Composition) /\ n \in Nat /\ Len(finished) \in Nat
  BY <1>1, Counts DEF StreamInv, ReaderTypes
<1>3. Len(composed') = n + 1 /\ composed'[n + 1] = x
      /\ \A i \in 1 .. n : composed'[i] = composed[i]
  <2> DEFINE S == Composition \cup {x}
  <2>1. composed \in Seq(S) /\ x \in S
    BY <1>2, SeqMonotonic
  <2> HIDE DEF S
  <2> QED
    BY <1>1, <2>1, AppendProperties
<1>4. n + 1 <= Len(finished)
  <2>1. Len(composed') <= Len(finished')
    BY DEF StreamInv, Agreement
  <2> QED
    BY <1>3, <2>1
<1>5. PICK k : k = n + 1
  OBVIOUS
<1>6. Agrees(k)'
  <2>1. k \in 1 .. Len(composed')
    BY <1>2, <1>3, <1>5
  <2> QED
    BY <2>1 DEF StreamInv, Agreement
<1>7. k \in 1 .. Len(finished) /\ x.msg = finished[k].msg
      /\ (finished[k].exact => x.ts = finished[k].ts)
  BY <1>2, <1>3, <1>4, <1>5, <1>6 DEF Agrees
<1>8. Meant(k) = finished[k].exact
  BY <1>7, MeantIs
<1>9. \A i : Meant(i)' = Meant(i)
  BY DEF Meant
<1> DEFINE D(i) == Seen(composed[i], Meant(i))
           e == Seen(x, Meant(k))
           f == [i \in 1 .. n |-> D(i)]
           g == [i \in 1 .. n + 1 |-> IF i = n + 1 THEN e ELSE f[i]]
<1>10. Accepted' = Accepted
  BY <1>9 DEF Accepted
<1>11. Accepted[n + 1] = e /\ Len(Accepted) = Len(finished)
  <2>1. Len(Accepted) = Len(finished)
    BY <1>2 DEF Accepted
  <2>2. Accepted[k] = Seen(finished[k], Meant(k))
    BY <1>7 DEF Accepted
  <2>3. Seen(finished[k], Meant(k)) = e
    BY <1>7, <1>8 DEF Seen
  <2> QED
    BY <1>5, <2>1, <2>2, <2>3
<1>12. Delivered = f /\ Len(Delivered) = n
  BY <1>1, <1>2 DEF Delivered
<1>13. Delivered' = g
  <2>1. Delivered' = [i \in 1 .. n + 1 |-> Seen(composed'[i], Meant(i)')]
    BY <1>3 DEF Delivered
  <2>2. ASSUME NEW i \in 1 .. n + 1
        PROVE  Seen(composed'[i], Meant(i)') = IF i = n + 1 THEN e ELSE f[i]
    <3>1. CASE i = n + 1
      BY <1>3, <1>5, <1>9, <3>1
    <3>2. CASE i # n + 1
      <4>1. i \in 1 .. n
        BY <1>2, <3>2
      <4> QED
        BY <1>3, <1>9, <3>2, <4>1
    <3> QED
      BY <3>1, <3>2
  <2> QED
    BY <2>1, <2>2
<1>14. f = [i \in 1 .. n |-> f[i]]
  OBVIOUS
<1> HIDE DEF D, e, f
<1>15. g = Append(f, e)
  <2>1. g = [i \in 1 .. n + 1 |-> IF i = n + 1 THEN e ELSE f[i]]
    OBVIOUS
  <2> HIDE DEF g
  <2> QED
    BY <1>2, <1>14, <2>1, SeqByIndex
<1>16. Len(Delivered) < Len(Accepted)
  BY <1>2, <1>4, <1>11, <1>12
<1>17. Delivered' = Append(Delivered, Accepted[Len(Delivered) + 1])
  BY <1>11, <1>12, <1>13, <1>15
<1> QED
  BY <1>10, <1>16, <1>17

\* What a step does to the FIFO.
FifoStep ==
    \/ \E x \in Messages : Accepted' = Append(Accepted, x) /\ Delivered' = Delivered
    \/ /\ Len(Delivered) < Len(Accepted)
       /\ Delivered' = Append(Delivered, Accepted[Len(Delivered) + 1])
       /\ Accepted' = Accepted
    \/ Accepted' = Accepted /\ Delivered' = Delivered

\* Steps without a message.
LEMMA NothingHappens ==
    ASSUME UNCHANGED <<finished, composed>>
    PROVE  Accepted' = Accepted /\ Delivered' = Delivered
BY DEF Accepted, Delivered, Meant

\* The writer leaves what is composed alone.
LEMMA WriterIsComposed ==
    ASSUME UNCHANGED readerVars
    PROVE  UNCHANGED composed
BY DEF readerVars

\* A chunk is a step of the channel if it is the last of its message.
LEMMA ChunkOfMessage ==
    ASSUME StreamInv, StreamInv', UNCHANGED readerVars, NEW c, NEW head, NEW w,
           WriteChunk(c, head, w), Sendable(Sent("av", w.ts, w.msg, TRUE))
    PROVE  FifoStep
<1> DEFINE m == Sent("av", w.ts, w.msg, TRUE)
<1>1. finished' = Append(finished, m) \/ finished' = finished
  BY DEF WriteChunk
<1>2. UNCHANGED composed
  BY WriterIsComposed
<1>3. Sendable(m)
  OBVIOUS
<1> HIDE DEF m
<1>4. CASE finished' = Append(finished, m)
  BY <1>2, <1>3, <1>4, FinishedIsPut DEF FifoStep
<1>5. CASE finished' = finished
  BY <1>2, <1>5, NothingHappens DEF FifoStep
<1> QED
  BY <1>1, <1>4, <1>5

\* Audio and video messages can be sent.
LEMMA AvIsSendable ==
    ASSUME NEW msg \in Payloads, NEW ts \in Clock, NEW e \in BOOLEAN
    PROVE  Sendable(Sent("av", ts, msg, e))
<1>1. msg \in Seq(Bytes)
  <2>1. PICK id \in 0 .. MaxMessages, len \in Lens : msg = Payload(id, len)
    BY DEF Payloads
  <2> QED
    BY <2>1, PayloadType
<1>2. ts \in Nat
  BY RtmpStreamAssumption
<1>3. Sent("av", ts, msg, e) \in Message
  BY <1>1, <1>2 DEF Sent, Message, MsgTypes
<1> QED
  BY <1>3 DEF Sendable, Sent

\* The writer accepts a message or stutters.
LEMMA WriteIsFifoStep ==
    ASSUME StreamInv, StreamInv', Write
    PROVE  FifoStep
<1>1. CASE SetChunkSize
  <2> DEFINE m == Sent("chunk size", 0, <<Byte(LocalSize, 0)>>, TRUE)
  <2>1. finished' = Append(finished, m) /\ UNCHANGED readerVars
    BY <1>1 DEF SetChunkSize
  <2>2. Sendable(m)
    <3>1. Byte(LocalSize, 0) \in Bytes
      BY RtmpStreamAssumption DEF Byte, Bytes, ByteKind
    <3> DEFINE y == Byte(LocalSize, 0)
    <3>2. y \in Bytes
      BY <3>1
    <3> HIDE DEF y
    <3>3. <<y>> \in Seq(Bytes)
      BY <3>2
    <3>4. Sent("chunk size", 0, <<y>>, TRUE) \in Message
      BY <3>3 DEF Sent, Message, MsgTypes
    <3>5. Sent("chunk size", 0, <<y>>, TRUE).msg = <<y>> /\ Sent("chunk size", 0, <<y>>, TRUE).ts = 0
      BY DEF Sent
    <3> QED
      BY <3>4, <3>5 DEF Sendable, y
  <2> HIDE DEF m
  <2> QED
    BY <2>1, <2>2, WriterIsComposed, FinishedIsPut DEF FifoStep
<1>2. ASSUME NEW c \in Media, ContinueMessage(c) PROVE FifoStep
  <2> DEFINE w == under_way[c]
             head == HeadPart(3, c, 0, 0, "av")
  <2>1. /\ w # Nothing /\ WriteChunk(c, head, w) /\ UNCHANGED readerVars
    BY <1>2 DEF ContinueMessage
  <2>2. w.msg \in Payloads /\ w.ts \in Clock
    <3>1. PICK b : WriterAt(b)
      BY DEF StreamInv, OnItsWay
    <3>2. c \in Csids
      BY DEF Media
    <3>3. StreamAt(c, b.str[c])
      BY <3>1, <3>2 DEF WriterAt
    <3> QED
      BY <2>1, <3>3 DEF StreamAt, HoldsPart
  <2> HIDE DEF w, head
  <2>3. Sendable(Sent("av", w.ts, w.msg, TRUE))
    BY <2>2, AvIsSendable
  <2> QED
    BY <2>1, <2>3, ChunkOfMessage
<1>3. ASSUME NEW c \in Media, NEW len \in Lens, NEW ts \in Clock, StartMessage(c, len, ts)
      PROVE  FifoStep
  <2> DEFINE msg == Payload(count, len)
  <2>1. \E head, ext : WriteChunk(c, head, [msg |-> msg, ts |-> ts, rest |-> msg, ext |-> ext])
    BY <1>3 DEF StartMessage
  <2>2. UNCHANGED readerVars
    BY <1>3 DEF StartMessage
  <2>3. msg \in Payloads
    <3>1. count \in 0 .. MaxMessages
      BY DEF StreamInv, WriterTypes
    <3> QED
      BY <3>1, PayloadType
  <2> HIDE DEF msg
  <2>4. PICK head, ext : WriteChunk(c, head, [msg |-> msg, ts |-> ts, rest |-> msg, ext |-> ext])
    BY <2>1
  <2> DEFINE w == [msg |-> msg, ts |-> ts, rest |-> msg, ext |-> ext]
  <2>5. w.msg = msg /\ w.ts = ts /\ WriteChunk(c, head, w)
    BY <2>4
  <2> HIDE DEF w
  <2>6. Sendable(Sent("av", w.ts, w.msg, TRUE))
    BY <2>3, <2>5, AvIsSendable
  <2> QED
    BY <2>2, <2>5, <2>6, ChunkOfMessage
<1>4. ASSUME NEW c \in Media, NEW len \in Lens, NEW ts \in Clock, NEW p \in {None, prev[c]},
             RelayMessage(c, len, ts, p)
      PROVE  FifoStep
  <2>1. PICK e : e = exact'[c]
    OBVIOUS
  <2> DEFINE msg == Payload(count, len)
             m == Sent("av", ts, msg, e)
  <2>2. finished' = Append(finished, m) /\ UNCHANGED readerVars
    BY <1>4, <2>1 DEF RelayMessage
  <2>3. msg \in Payloads
    <3>1. count \in 0 .. MaxMessages
      BY DEF StreamInv, WriterTypes
    <3> QED
      BY <3>1, PayloadType
  <2>4. e \in BOOLEAN
    <3>1. c \in Csids /\ exact' \in [Csids -> BOOLEAN]
      BY DEF Media, StreamInv, WriterTypes
    <3> QED
      BY <2>1, <3>1
  <2> HIDE DEF msg
  <2>5. Sendable(m)
    BY <2>3, <2>4, AvIsSendable
  <2> HIDE DEF m
  <2> QED
    BY <2>2, <2>5, WriterIsComposed, FinishedIsPut DEF FifoStep
<1> QED
  BY <1>1, <1>2, <1>3, <1>4 DEF Write

\* The reader delivers a message or stutters.
LEMMA ReadIsFifoStep ==
    ASSUME StreamInv, StreamInv', Read
    PROVE  FifoStep
<1>1. UNCHANGED finished
  BY DEF Read, writerVars
<1>2. ASSUME UNCHANGED composed PROVE FifoStep
  BY <1>1, <1>2, NothingHappens DEF FifoStep
<1>3. ASSUME NEW k \in 1 .. Len(wire), Receive(k) PROVE FifoStep
  BY <1>2, <1>3 DEF Receive
<1>4. CASE ReadHeader
  BY <1>2, <1>4 DEF ReadHeader, HeaderDone, HeaderShort, GoAstray
<1>5. CASE Return
  BY <1>2, <1>5 DEF Return
<1>6. CASE ReadBytes
  <2>1. PICK n : n = needed_size
    OBVIOUS
  <2> DEFINE msg == stream_.msg \o SubSeq(read_buf_, 1, n)
             x == [type |-> stream_.type, ts |-> stream_.abs, msg |-> msg]
  <2>2. composed' = composed \/ composed' = Append(composed, x)
    BY <1>6, <2>1 DEF ReadBytes, Composed, Incomplete, GoAstray
  <2> HIDE DEF x
  <2>3. ASSUME composed' = Append(composed, x) PROVE FifoStep
    BY <1>1, <2>3, ComposedIsDelivered DEF FifoStep
  <2> QED
    BY <1>2, <2>2, <2>3
<1> QED
  BY <1>3, <1>4, <1>5, <1>6 DEF Read, try_compose

\* The connection is a FIFO: the message whose last chunk is written is Put, the
\* message given to the callback is Deliver, and every other step is neither.
THEOREM StreamIsFifo == ASSUME Habits = {} PROVE Spec => ImplementsChannel
<1>1. Init => Channel!Init
  BY EmptySeq DEF Init, ReaderInit, Channel!Init
<1>2. StreamInv /\ StreamInv' /\ [Next]_vars => [Channel!Next]_(Channel!fifoVars)
  <2> SUFFICES ASSUME StreamInv, StreamInv', [Next]_vars
               PROVE  [Channel!Next]_(Channel!fifoVars)
    OBVIOUS
  <2>1. Write => FifoStep
    BY WriteIsFifoStep
  <2>2. Read => FifoStep
    BY ReadIsFifoStep
  <2>3. UNCHANGED vars => FifoStep
    BY NothingHappens DEF vars, readerVars, writerVars, FifoStep
  <2>4. FifoStep
    BY <2>1, <2>2, <2>3 DEF Next
  <2> QED
    BY <2>4 DEF FifoStep, Channel!Next, Channel!Put, Channel!Deliver, Channel!fifoVars,
            Accepted, Delivered, Seen
<1> QED
  BY <1>1, <1>2, StreamInvariant, PTL DEF Spec, ImplementsChannel, Channel!Spec
=============================================================================
