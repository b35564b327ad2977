-------------------------- MODULE FlvSessionProofs --------------------------
(***************************************************************************)
(* Theorems about SendQueue, for any buffers, parts and number of sends,   *)
(* about FlvSession, which uses it, for any uris, and about what           *)
(* HttpRequest takes from a request line.                                  *)
(***************************************************************************)
EXTENDS FlvSession, Integers, SequenceTheorems, FiniteSetTheorems,
        WellFoundedInduction, TLAPS

-----------------------------------------------------------------------------
(* Numbers *)

\* A quotient and a remainder are the only ones.
LEMMA DivUnique ==
    ASSUME NEW d \in Nat \ {0}, NEW q \in Nat, NEW r \in 0 .. d - 1
    PROVE  (d * q + r) \div d = q /\ (d * q + r) % d = r
<1> DEFINE n == d * q + r
           p == n \div d
           s == n % d
<1>1. n \in Nat
  OBVIOUS
<1>2. p \in Nat /\ s \in 0 .. d - 1 /\ n = d * p + s
  BY <1>1
<1>3. d * (p - q) = r - s
  BY <1>1, <1>2
<1> HIDE DEF n, p, s
<1>4. ASSUME p > q PROVE FALSE
  <2>1. p - q >= 1
    BY <1>2, <1>4
  <2>2. d * (p - q) >= d
    BY <1>2, <2>1
  <2> QED
    BY <1>2, <1>3, <2>2
<1>5. ASSUME p < q PROVE FALSE
  <2>1. q - p >= 1
    BY <1>2, <1>5
  <2>2. d * (q - p) >= d
    BY <1>2, <2>1
  <2>3. d * (q - p) = s - r
    BY <1>2, <1>3
  <2> QED
    BY <1>2, <2>2, <2>3
<1>6. p = q
  BY <1>2, <1>4, <1>5
<1>7. s = r
  BY <1>2, <1>3, <1>6
<1> QED
  BY <1>6, <1>7 DEF n, p, s

\* Place i of m rows of d.
LEMMA RowAndColumn ==
    ASSUME NEW d \in Nat \ {0}, NEW m \in Nat, NEW i \in 1 .. d * m
    PROVE  /\ (i - 1) \div d \in 0 .. m - 1 /\ (i - 1) % d \in 0 .. d - 1
           /\ i = d * ((i - 1) \div d) + ((i - 1) % d) + 1
<1> DEFINE q == (i - 1) \div d
           s == (i - 1) % d
<1>1. d * m \in Nat
  OBVIOUS
<1>2. i - 1 \in Nat /\ i - 1 < d * m
  BY <1>1
<1>3. q \in Int /\ s \in 0 .. d - 1 /\ i - 1 = d * q + s
  BY <1>2
<1> HIDE DEF q, s
<1>4. ASSUME q <= -1 PROVE FALSE
  <2>1. -q - 1 \in Nat
    BY <1>3, <1>4
  <2>2. d * (-q - 1) \in Nat /\ d * (-q - 1) = -(d * q) - d
    BY <1>3, <2>1
  <2> QED
    BY <1>2, <1>3, <2>2
<1>5. ASSUME q >= m PROVE FALSE
  <2>1. q - m \in Nat
    BY <1>3, <1>5
  <2>2. d * (q - m) \in Nat /\ d * (q - m) = d * q - d * m
    BY <1>3, <2>1
  <2> QED
    BY <1>1, <1>2, <1>3, <2>2
<1>6. q \in 0 .. m - 1
  BY <1>3, <1>4, <1>5
<1> QED
  BY <1>2, <1>3, <1>6 DEF q, s

-----------------------------------------------------------------------------
(* The queue: Spec, vars, Next are those of SendQueue *)

\* Appending commutes with concatenation on the left.
LEMMA AppendRight ==
    ASSUME NEW p \in Seq(Buffers), NEW q \in Seq(Buffers), NEW b \in Buffers
    PROVE  Append(p \o q, b) = p \o Append(q, b)
OBVIOUS

\* Moving the head of the second sequence to the first keeps the whole.
LEMMA MoveHead ==
    ASSUME NEW p \in Seq(Buffers), NEW q \in Seq(Buffers), q # <<>>
    PROVE  p \o q = Append(p, Head(q)) \o Tail(q)
OBVIOUS

LEMMA HeadTailType ==
    ASSUME NEW q \in Seq(Buffers), q # <<>>
    PROVE  Head(q) \in Buffers /\ Tail(q) \in Seq(Buffers)
BY HeadTailProperties

LEMMA TailAppend ==
    ASSUME NEW q \in Seq(Buffers), q # <<>>, NEW b \in Buffers
    PROVE  Tail(Append(q, b)) = Append(Tail(q), b)
OBVIOUS

LEMMA AppendNonEmpty ==
    ASSUME NEW q \in Seq(Buffers), NEW b \in Buffers
    PROVE  Append(q, b) \in Seq(Buffers) /\ Append(q, b) # <<>>
BY AppendProperties

-----------------------------------------------------------------------------
\* What the properties need to be inductive: the types, that a write is always
\* that of a buffer still queued, and that part counts only what is written.
QueueInv ==
    /\ TypeOK
    /\ NothingLost
    /\ WriteIffQueued
    /\ write = "busy" => part < Parts

LEMMA QueueInit == Init => QueueInv
BY SendQueueAssumption DEF Init, QueueInv, TypeOK, NothingLost, WriteIffQueued, Pending

LEMMA QueueStep == QueueInv /\ [Next]_vars => QueueInv'
<1> SUFFICES ASSUME QueueInv, [Next]_vars PROVE QueueInv'
  OBVIOUS
<1>t. /\ sent \in Seq(Buffers) /\ send_buffers \in Seq(Buffers) /\ wire \in Seq(Buffers)
      /\ write \in {"none", "busy", "done", "failed"} /\ part \in 0 .. Parts
      /\ conn \in {"up", "lost"}
  BY DEF QueueInv, TypeOK
<1>n. sent = wire \o Pending /\ WriteIffQueued /\ (write = "busy" => part < Parts)
  BY DEF QueueInv, NothingLost
<1>1. ASSUME NEW b \in Buffers, async_send(b) PROVE QueueInv'
  <2>1. /\ sent' = Append(sent, b) /\ send_buffers' = Append(send_buffers, b)
        /\ wire' = wire /\ conn' = conn
    BY <1>1 DEF async_send
  <2>2. /\ sent' \in Seq(Buffers) /\ send_buffers' \in Seq(Buffers) /\ send_buffers' # <<>>
    BY <2>1, <1>t, AppendNonEmpty
  <2>3. CASE send_buffers = <<>>
    <3>1. write' = "busy" /\ part' = 0 /\ write = "none"
      BY <1>1, <2>3, <1>n, <1>t DEF async_send, do_send, WriteIffQueued
    <3>2. sent = wire \o send_buffers
      BY <3>1, <1>n DEF Pending
    <3>3. Append(sent, b) = wire \o Append(send_buffers, b)
      BY <3>2, <1>t, AppendRight
    <3>4. NothingLost'
      BY <2>1, <3>1, <3>3 DEF NothingLost, Pending
    <3>5. TypeOK'
      BY <2>1, <2>2, <3>1, <1>t, SendQueueAssumption DEF TypeOK
    <3>6. WriteIffQueued' /\ (write' = "busy" => part' < Parts)
      BY <2>2, <3>1, SendQueueAssumption DEF WriteIffQueued
    <3> QED
      BY <3>4, <3>5, <3>6 DEF QueueInv
  <2>4. CASE send_buffers # <<>>
    <3>1. write' = write /\ part' = part
      BY <1>1, <2>4 DEF async_send
    <3>2. Pending \in Seq(Buffers)
      BY <1>t, <2>4, HeadTailType DEF Pending
    <3>3. Pending' = Append(Pending, b)
      BY <2>1, <3>1, <2>4, <1>t, TailAppend DEF Pending
    <3>4. NothingLost'
      BY <2>1, <3>2, <3>3, <1>n, <1>t, AppendRight DEF NothingLost
    <3>5. TypeOK'
      BY <2>1, <2>2, <3>1, <1>t DEF TypeOK
    <3>6. WriteIffQueued' /\ (write' = "busy" => part' < Parts)
      BY <2>1, <2>2, <2>4, <3>1, <1>n DEF WriteIffQueued
    <3> QED
      BY <3>4, <3>5, <3>6 DEF QueueInv
  <2> QED
    BY <2>3, <2>4
<1>2. ASSUME WriteSome PROVE QueueInv'
  <2>1. send_buffers # <<>> /\ part < Parts /\ write = "busy" /\ conn = "up"
    BY <1>2, <1>n DEF WriteSome, WriteIffQueued
  <2>2. part' = part + 1 /\ UNCHANGED <<sent, send_buffers, conn>>
    BY <1>2 DEF WriteSome
  <2>3. CASE part + 1 < Parts
    <3>1. UNCHANGED <<write, wire>>
      BY <1>2, <2>3 DEF WriteSome
    <3> QED
      BY <2>1, <2>2, <2>3, <3>1, <1>t, <1>n, SendQueueAssumption
      DEF QueueInv, TypeOK, NothingLost, WriteIffQueued, Pending
  <2>4. CASE part + 1 = Parts
    <3>1. write' = "done" /\ wire' = Append(wire, Head(send_buffers))
      BY <1>2, <2>4 DEF WriteSome
    <3>2. sent = wire' \o Tail(send_buffers)
      BY <2>1, <3>1, <1>n, <1>t, MoveHead DEF Pending
    <3>3. wire' \in Seq(Buffers)
      BY <2>1, <3>1, <1>t, HeadTailType, AppendNonEmpty
    <3> QED
      BY <2>1, <2>2, <2>4, <3>1, <3>2, <3>3, <1>t, SendQueueAssumption
      DEF QueueInv, TypeOK, NothingLost, WriteIffQueued, Pending
  <2> QED
    BY <2>1, <2>3, <2>4, <1>2 DEF WriteSome
<1>3. ASSUME WriteFails PROVE QueueInv'
  BY <1>3, <1>t, <1>n DEF WriteFails, QueueInv, TypeOK, NothingLost, WriteIffQueued, Pending
<1>4. ASSUME OnWritten PROVE QueueInv'
  <2>1. write = "done" /\ send_buffers # <<>>
    BY <1>4, <1>n DEF OnWritten, WriteIffQueued
  <2>2. /\ send_buffers' = Tail(send_buffers) /\ send_buffers' \in Seq(Buffers)
        /\ UNCHANGED <<sent, wire, conn>>
    BY <1>4, <2>1, <1>t, HeadTailType DEF OnWritten
  <2>3. sent' = wire' \o send_buffers'
    BY <2>1, <2>2, <1>n DEF Pending
  <2>4. \/ send_buffers' # <<>> /\ write' = "busy" /\ part' = 0
        \/ send_buffers' = <<>> /\ write' = "none" /\ part' = part
    BY <1>4 DEF OnWritten, do_send
  <2> QED
    BY <2>2, <2>3, <2>4, <1>t, SendQueueAssumption, SMTT(30)
    DEF QueueInv, TypeOK, NothingLost, WriteIffQueued, Pending
<1>5. ASSUME OnFailed PROVE QueueInv'
  BY <1>5, <1>t, <1>n DEF OnFailed, QueueInv, TypeOK, NothingLost, WriteIffQueued, Pending
<1>6. ASSUME Lose PROVE QueueInv'
  BY <1>6, <1>t, <1>n DEF Lose, QueueInv, TypeOK, NothingLost, WriteIffQueued, Pending
<1>7. CASE UNCHANGED vars
  BY <1>7, <1>t, <1>n DEF vars, QueueInv, TypeOK, NothingLost, WriteIffQueued, Pending
<1> QED
  BY <1>1, <1>2, <1>3, <1>4, <1>5, <1>6, <1>7 DEF Next

\* The inductive invariant holds in every execution.
LEMMA QueueInvariant == Spec => []QueueInv
<1> QED
  BY QueueInit, QueueStep, PTL DEF Spec

\* No buffer is lost, duplicated or overtaken.
THEOREM NoBufferLost == Spec => []NothingLost
<1>1. QueueInv => NothingLost
  BY DEF QueueInv
<1> QED
  BY <1>1, QueueInvariant, PTL

\* A write is in progress exactly while the connection has something to send.
THEOREM WritesWhatIsQueued == Spec => []WriteIffQueued
<1>1. QueueInv => WriteIffQueued
  BY DEF QueueInv
<1> QED
  BY <1>1, QueueInvariant, PTL

\* A queue whose write failed writes nothing more: what the peer received of the
\* torn buffer is the end of the stream.
THEOREM TornIsLast == Spec => NothingAfterTear
<1> DEFINE Step ==
      (write = "failed" \/ (write = "none" /\ send_buffers # <<>>)
         => wire' = wire /\ part' = part /\ write' \in {"failed", "none"})
<1>1. QueueInv /\ [Next]_vars => [Step]_vars
  <2> SUFFICES ASSUME QueueInv, Next, write = "failed" \/ (write = "none" /\ send_buffers # <<>>)
               PROVE  wire' = wire /\ part' = part /\ write' \in {"failed", "none"}
    OBVIOUS
  <2>1. send_buffers # <<>> /\ write \in {"failed", "none"}
    BY DEF QueueInv, WriteIffQueued
  <2> QED
    BY <2>1 DEF Next, async_send, WriteSome, WriteFails, OnWritten, OnFailed, Lose
<1> QED
  BY <1>1, QueueInvariant, PTL DEF Spec, NothingAfterTear

\* Where the queue meets the wire: the front buffer is the next one the peer is
\* owed.
LEMMA FrontIsNext ==
    ASSUME NEW p \in Seq(Buffers), NEW q \in Seq(Buffers), q # <<>>
    PROVE  Len(p) < Len(p \o q) /\ (p \o q)[Len(p) + 1] = Head(q)
OBVIOUS

\* The queue implements the FIFO it promises: async_send is Put, the last part of
\* a write is Deliver, and every other step changes neither.
THEOREM QueueIsFifo == Spec => ImplementsFifo
<1>1. Init => F!Init
  BY DEF Init, F!Init
<1>2. QueueInv /\ [Next]_vars => [F!Next]_(F!fifoVars)
  <2> SUFFICES ASSUME QueueInv, [Next]_vars PROVE [F!Next]_(F!fifoVars)
    OBVIOUS
  <2> USE DEF F!fifoVars
  <2>1. ASSUME NEW b \in Buffers, async_send(b) PROVE F!Next
    BY <2>1 DEF async_send, F!Next, F!Put
  <2>2. ASSUME WriteSome PROVE F!Next \/ UNCHANGED F!fifoVars
    <3>1. CASE part + 1 < Parts
      BY <2>2, <3>1, SendQueueAssumption DEF WriteSome, QueueInv, TypeOK
    <3>2. CASE part + 1 = Parts
      <4>1. send_buffers # <<>> /\ send_buffers \in Seq(Buffers) /\ wire \in Seq(Buffers)
            /\ sent = wire \o send_buffers
        BY <2>2 DEF WriteSome, QueueInv, TypeOK, NothingLost, WriteIffQueued, Pending
      <4>2. Len(wire) < Len(sent) /\ sent[Len(wire) + 1] = Head(send_buffers)
        BY <4>1, FrontIsNext
      <4>3. wire' = Append(wire, Head(send_buffers)) /\ sent' = sent
        BY <2>2, <3>2 DEF WriteSome
      <4> QED
        BY <4>2, <4>3 DEF F!Next, F!Deliver
    <3> QED
      BY <2>2, <3>1, <3>2 DEF WriteSome
  <2>3. CASE WriteFails \/ OnWritten \/ OnFailed \/ Lose \/ UNCHANGED vars
    BY <2>3 DEF WriteFails, OnWritten, OnFailed, Lose, vars
  <2> QED
    BY <2>1, <2>2, <2>3 DEF Next
<1> QED
  BY <1>1, <1>2, QueueInvariant, PTL DEF Spec, ImplementsFifo, F!Spec

-----------------------------------------------------------------------------
(* The session *)

\* The tags of a session go through its queue and nothing else touches it.
LEMMA FlvStepIsQueueStep == [FlvNext]_flvVars => [Next]_vars
BY DEF FlvNext, Request, Refuse, WriteHeader, OnHeaderWritten, HeaderFails, GroupSends,
       QueueWrites, QueueHandlers, ConnectionLost, Next, queueVars, flvVars

\* The queue of an HTTP-FLV session behaves as one on its own: the header chain,
\* which uses the same socket, does not disturb it (HttpFlvSub::async_send, do_send).
THEOREM SessionKeepsQueue == FlvSpec => Spec
<1>1. FlvInit => Init
  BY DEF FlvInit
<1> QED
  BY <1>1, FlvStepIsQueueStep, PTL DEF FlvSpec, Spec

-----------------------------------------------------------------------------
(* Parts of buffers *)

Item == Buffers \cup HeaderNames
Part == Item \X Nat

LEMMA PartsOfItems ==
    ASSUME NEW items \in Seq(Item)
    PROVE  /\ PartsOf(items) \in Seq(Part)
           /\ Len(PartsOf(items)) = Parts * Len(items)
           /\ \A i \in 1 .. Parts * Len(items) :
                /\ (i - 1) \div Parts \in 0 .. Len(items) - 1
                /\ PartsOf(items)[i] =
                     <<items[((i - 1) \div Parts) + 1], ((i - 1) % Parts) + 1>>
<1> DEFINE n == Len(items)
           p == PartsOf(items)
           E(i) == <<items[((i - 1) \div Parts) + 1], ((i - 1) % Parts) + 1>>
<1>1. n \in Nat /\ Parts \in Nat \ {0} /\ n * Parts \in Nat /\ n * Parts = Parts * n
  BY SendQueueAssumption
<1>2. ASSUME NEW i \in 1 .. Parts * n
      PROVE  (i - 1) \div Parts \in 0 .. n - 1 /\ E(i) \in Part
  <2>1. (i - 1) \div Parts \in 0 .. n - 1 /\ (i - 1) % Parts \in 0 .. Parts - 1
    <3> HIDE DEF n
    <3> QED
      BY <1>1, RowAndColumn
  <2> DEFINE q == (i - 1) \div Parts
             s == (i - 1) % Parts
  <2>2. q \in 0 .. n - 1 /\ s \in 0 .. Parts - 1
    BY <2>1
  <2> HIDE DEF q, s
  <2>3. items[q + 1] \in Item /\ s + 1 \in Nat
    BY <1>1, <2>2
  <2> QED
    BY <2>1, <2>3 DEF Part, q, s
<1>3. p = [i \in 1 .. Parts * n |-> E(i)]
  BY <1>1 DEF PartsOf
<1> HIDE DEF p, n, E
<1>4. p \in Seq(Part) /\ Len(p) = Parts * n /\ \A i \in 1 .. Parts * n : p[i] = E(i)
  BY <1>1, <1>2, <1>3, SMTT(30)
<1> QED
  BY <1>2, <1>4 DEF p, n, E

\* What was due stays due when more is sent.
LEMMA PartsGrow ==
    ASSUME NEW items \in Seq(Item), NEW x \in Item
    PROVE  /\ Append(items, x) \in Seq(Item)
           /\ \A i \in 1 .. Parts * Len(items) :
                /\ i \in 1 .. Parts * Len(Append(items, x))
                /\ PartsOf(Append(items, x))[i] = PartsOf(items)[i]
<1> DEFINE more == Append(items, x)
           n == Len(items)
<1>1. more \in Seq(Item) /\ Len(more) = n + 1 /\ n \in Nat
      /\ \A j \in 1 .. n : more[j] = items[j]
  BY AppendProperties
<1>2. Parts \in Nat \ {0} /\ Parts * n \in Nat /\ Parts * (n + 1) = Parts * n + Parts
  BY <1>1, SendQueueAssumption
<1> SUFFICES ASSUME NEW i \in 1 .. Parts * n
             PROVE  i \in 1 .. Parts * Len(more) /\ PartsOf(more)[i] = PartsOf(items)[i]
  BY <1>1
<1> HIDE DEF more
<1>3. i \in 1 .. Parts * (n + 1)
  BY <1>2
<1> DEFINE q == (i - 1) \div Parts
<1>4. /\ q \in 0 .. n - 1
      /\ PartsOf(items)[i] = <<items[q + 1], ((i - 1) % Parts) + 1>>
  BY PartsOfItems
<1>5. PartsOf(more)[i] = <<more[q + 1], ((i - 1) % Parts) + 1>>
  BY <1>1, <1>3, PartsOfItems
<1> HIDE DEF q, n
<1>6. more[q + 1] = items[q + 1]
  BY <1>1, <1>4
<1> QED
  BY <1>1, <1>3, <1>4, <1>5, <1>6

\* Part b of item a.
LEMMA PartAt ==
    ASSUME NEW items \in Seq(Item), NEW a \in 0 .. Len(items) - 1, NEW b \in 0 .. Parts - 1
    PROVE  /\ Parts * a + b + 1 \in 1 .. Parts * Len(items)
           /\ PartsOf(items)[Parts * a + b + 1] = <<items[a + 1], b + 1>>
<1> DEFINE i == Parts * a + b + 1
           n == Len(items)
<1>1. Parts \in Nat \ {0} /\ n \in Nat /\ a \in Nat /\ b \in Nat /\ n - a - 1 \in Nat
  BY SendQueueAssumption
<1>2. Parts * a \in Nat /\ Parts * (n - a - 1) \in Nat
      /\ Parts * n = Parts * a + Parts + Parts * (n - a - 1)
  BY <1>1
<1>3. i \in 1 .. Parts * n
  BY <1>1, <1>2
<1>4. i - 1 = Parts * a + b
  BY <1>1, <1>2
<1>5. (i - 1) \div Parts = a /\ (i - 1) % Parts = b
  <2>1. (Parts * a + b) \div Parts = a /\ (Parts * a + b) % Parts = b
    BY <1>1, DivUnique
  <2> HIDE DEF i
  <2> QED
    BY <1>4, <2>1
<1> HIDE DEF i
<1> QED
  BY <1>3, <1>5, PartsOfItems DEF i

-----------------------------------------------------------------------------
(* What the player received, when the group waits for the headers *)

Items == Headers \o sent

LEMMA Pair ==
    ASSUME NEW S, NEW a \in S, NEW b \in S
    PROVE  <<a, b>> \in Seq(S) /\ Len(<<a, b>>) = 2 /\ <<a, b>>[1] = a /\ <<a, b>>[2] = b
OBVIOUS

LEMMA Wider ==
    ASSUME NEW S, NEW T, S \subseteq T, NEW s \in Seq(S)
    PROVE  s \in Seq(T) /\ Len(s) \in Nat
OBVIOUS

LEMMA AfterPair ==
    ASSUME NEW S, NEW h \in Seq(S), Len(h) = 2, NEW t \in Seq(S)
    PROVE  /\ h \o t \in Seq(S) /\ Len(h \o t) = 2 + Len(t)
           /\ (h \o t)[1] = h[1] /\ (h \o t)[2] = h[2]
           /\ \A i \in 1 .. Len(t) : (h \o t)[2 + i] = t[i]
<1>1. /\ h \o t \in Seq(S) /\ Len(h \o t) = 2 + Len(t) /\ Len(t) \in Nat
      /\ \A i \in 1 .. 2 + Len(t) : (h \o t)[i] = IF i <= 2 THEN h[i] ELSE t[i - 2]
  <2>1. /\ h \o t \in Seq(S) /\ Len(h \o t) = Len(h) + Len(t) /\ Len(t) \in Nat
        /\ \A i \in 1 .. Len(h) + Len(t) :
             (h \o t)[i] = IF i <= Len(h) THEN h[i] ELSE t[i - Len(h)]
    BY ConcatProperties, LenProperties
  <2> QED
    BY <2>1
<1> DEFINE c == h \o t
           n == Len(t)
<1> HIDE DEF c, n
<1>2. ASSUME NEW i \in 1 .. n PROVE c[2 + i] = t[i]
  <2>1. 2 + i \in 1 .. 2 + n /\ ~(2 + i <= 2) /\ (2 + i) - 2 = i
    BY <1>1 DEF n
  <2> QED
    BY <1>1, <2>1 DEF c, n
<1>3. c[1] = h[1] /\ c[2] = h[2]
  BY <1>1 DEF c, n
<1> QED
  BY <1>1, <1>2, <1>3 DEF c, n

LEMMA AppendToSecond ==
    ASSUME NEW S, NEW s \in Seq(S), NEW t \in Seq(S), NEW x \in S
    PROVE  s \o Append(t, x) = Append(s \o t, x)
OBVIOUS

\* out is the beginning of what is due.
Sofar ==
    /\ out \in Seq(Part)
    /\ Len(out) <= Parts * Len(Items)
    /\ \A i \in 1 .. Len(out) : out[i] = PartsOf(Items)[i]

LEMMA ItemsType ==
    ASSUME sent \in Seq(Buffers)
    PROVE  /\ Items \in Seq(Item) /\ Len(Items) = 2 + Len(sent)
           /\ Items[1] = "http headers" /\ Items[2] = "flv header"
           /\ \A i \in 1 .. Len(sent) : Items[2 + i] = sent[i]
<1>1. "http headers" \in Item /\ "flv header" \in Item /\ Buffers \subseteq Item
  BY DEF Item, HeaderNames
<1>2. /\ Headers \in Seq(Item) /\ Len(Headers) = 2
      /\ Headers[1] = "http headers" /\ Headers[2] = "flv header"
  BY <1>1, Pair, Zenon DEF Headers
<1>3. sent \in Seq(Item) /\ Len(sent) \in Nat
  BY <1>1, Wider
<1> QED
  BY <1>2, <1>3, AfterPair, ZenonT(30) DEF Items

LEMMA SofarIsPrefix ==
    ASSUME sent \in Seq(Buffers), Sofar PROVE IsPrefix(out, PartsOf(Items))
<1> DEFINE due == PartsOf(Items)
<1>1. due \in Seq(Part) /\ Len(due) = Parts * Len(Items)
  BY ItemsType, PartsOfItems
<1>2. out \in Seq(Part) /\ Len(out) <= Len(due) /\ \A i \in 1 .. Len(out) : out[i] = due[i]
  BY <1>1 DEF Sofar
<1> HIDE DEF due
<1>3. SubSeq(out, 1, Len(out)) = SubSeq(due, 1, Len(out))
  BY <1>1, <1>2
<1> QED
  BY <1>2, <1>3 DEF IsPrefix, due

\* The part that is due next is written.
LEMMA OutGrows ==
    ASSUME sent \in Seq(Buffers), Sofar, UNCHANGED sent,
           NEW a \in 0 .. Len(Items) - 1, NEW b \in 0 .. Parts - 1,
           Len(out) = Parts * a + b,
           out' = Append(out, <<Items[a + 1], b + 1>>)
    PROVE  Sofar' /\ Len(out') = Parts * a + b + 1
<1> DEFINE new == <<Items[a + 1], b + 1>>
           n == Len(out)
<1>1. /\ Items \in Seq(Item) /\ Len(Items) \in Nat
      /\ Items' = Items
  <2>1. Items \in Seq(Item)
    BY ItemsType
  <2>2. Items' = Items
    BY DEF Items
  <2> QED
    BY <2>1, <2>2, LenProperties
<1>2. n + 1 \in 1 .. Parts * Len(Items) /\ PartsOf(Items)[n + 1] = new
  BY <1>1, PartAt
<1>3. new \in Part
  BY <1>1, SendQueueAssumption DEF Part
<1>4. out \in Seq(Part) /\ \A i \in 1 .. n : out[i] = PartsOf(Items)[i]
  BY DEF Sofar
<1> HIDE DEF new
<1>5. /\ out' \in Seq(Part) /\ Len(out') = n + 1 /\ out'[n + 1] = new
      /\ \A i \in 1 .. n : out'[i] = out[i]
  BY <1>3, <1>4, AppendProperties DEF new
<1>6. n \in Nat
  BY <1>4
<1>7. PartsOf(Items') = PartsOf(Items) /\ Len(Items') = Len(Items)
  BY <1>1
<1> HIDE DEF n
<1>8. \A i \in 1 .. n + 1 : out'[i] = PartsOf(Items)[i]
  BY <1>2, <1>4, <1>5, <1>6
<1>9. n + 1 <= Parts * Len(Items)
  BY <1>2, <1>6
<1>10. Sofar'
  BY <1>5, <1>7, <1>8, <1>9 DEF Sofar
<1> QED
  BY <1>5, <1>10 DEF n

\* Nothing of what was due is taken back.
LEMMA SentGrows ==
    ASSUME sent \in Seq(Buffers), Sofar, UNCHANGED out,
           NEW x \in Buffers, sent' = Append(sent, x)
    PROVE  Sofar'
<1>1. Items \in Seq(Item) /\ Len(Items) \in Nat /\ x \in Item
  <2>1. Items \in Seq(Item)
    BY ItemsType
  <2>2. x \in Item
    BY DEF Item, HeaderNames
  <2> QED
    BY <2>1, <2>2, LenProperties
<1>2. Items' = Append(Items, x)
  <2>1. "http headers" \in Item /\ "flv header" \in Item /\ Buffers \subseteq Item
    BY DEF Item, HeaderNames
  <2>2. Headers \in Seq(Item)
    BY <2>1, Pair, Zenon DEF Headers
  <2>3. sent \in Seq(Item)
    BY <2>1, Wider
  <2>4. Headers \o Append(sent, x) = Append(Headers \o sent, x)
    BY <1>1, <2>2, <2>3, AppendToSecond
  <2> QED
    BY <2>4, Zenon DEF Items
<1>3. /\ Append(Items, x) \in Seq(Item) /\ Len(Append(Items, x)) = Len(Items) + 1
      /\ \A i \in 1 .. Parts * Len(Items) :
           /\ i \in 1 .. Parts * Len(Append(Items, x))
           /\ PartsOf(Append(Items, x))[i] = PartsOf(Items)[i]
  BY <1>1, PartsGrow, AppendProperties
<1>4. /\ Parts * (Len(Items) + 1) = Parts * Len(Items) + Parts
      /\ Parts \in Nat /\ Parts * Len(Items) \in Nat
  BY <1>1, SendQueueAssumption
<1>5. out \in Seq(Part) /\ Len(out) \in Nat /\ Len(out) <= Parts * Len(Items)
      /\ \A i \in 1 .. Len(out) : out[i] = PartsOf(Items)[i]
  BY DEF Sofar
<1>6. Len(out) <= Parts * (Len(Items) + 1)
  BY <1>4, <1>5
<1>7. ASSUME NEW i \in 1 .. Len(out) PROVE out[i] = PartsOf(Append(Items, x))[i]
  BY <1>3, <1>4, <1>5
<1> QED
  BY <1>2, <1>3, <1>5, <1>6, <1>7 DEF Sofar

\* The parts of the front buffer that the player has.
InPart ==
    IF write \in {"busy", "failed"} \/ (write = "none" /\ send_buffers # <<>>) THEN part ELSE 0

\* How much was written, phase by phase.
Written ==
    /\ phase \in {"request", "refused"} => Len(out) = 0
    /\ phase = "http headers" => Len(out) = Parts * 0 + hpart /\ hpart < Parts
    /\ phase = "http headers written" => Len(out) = Parts
    /\ phase = "flv header" => Len(out) = Parts * 1 + hpart /\ hpart < Parts
    /\ phase = "flv header written" => Len(out) = 2 * Parts
    /\ phase = "ready" => Len(out) = Parts * (2 + Len(wire)) + InPart

\* With a group that waits, no tag is sent before the headers or written after one
\* of them failed.
Waits ==
    /\ phase \notin {"ready", "failed"} => sent = <<>> /\ send_buffers = <<>> /\ wire = <<>>
    /\ phase = "failed" => conn = "lost"
    /\ Written
    /\ Sofar

\* What the stream needs to be inductive: how much was written.
FlvInv ==
    /\ QueueInv
    /\ phase \in Phases /\ hpart \in Nat
    /\ ~eager => Waits

LEMMA FlvInitInv == FlvInit => FlvInv
<1> SUFFICES ASSUME FlvInit PROVE FlvInv
  OBVIOUS
<1>1. QueueInv
  BY QueueInit DEF FlvInit
<1>2. /\ sent = <<>> /\ send_buffers = <<>> /\ wire = <<>> /\ out = <<>>
      /\ phase = "request" /\ hpart = 0
  BY DEF FlvInit, Init
<1>3. Sofar
  <2>1. Len(Items) \in Nat
    <3>1. sent \in Seq(Buffers)
      BY <1>2
    <3> QED
      BY <3>1, ItemsType, LenProperties
  <2>2. Parts * Len(Items) \in Nat
    BY <2>1, SendQueueAssumption
  <2> QED
    BY <1>2, <2>2 DEF Sofar
<1> QED
  BY <1>1, <1>2, <1>3 DEF FlvInv, Waits, Written, Phases

LEMMA SofarSame == ASSUME Sofar, UNCHANGED <<sent, out>> PROVE Sofar'
BY DEF Sofar, Items

LEMMA FlvTypes ==
    ASSUME phase \in Phases, hpart \in Nat, [FlvNext]_flvVars
    PROVE  eager' = eager /\ phase' \in Phases /\ hpart' \in Nat
<1>1. ASSUME Request PROVE eager' = eager /\ phase' \in Phases /\ hpart' \in Nat
  BY <1>1 DEF Request, Phases
<1>2. ASSUME Refuse PROVE eager' = eager /\ phase' \in Phases /\ hpart' \in Nat
  BY <1>2 DEF Refuse, Phases
<1>3. ASSUME WriteHeader PROVE eager' = eager /\ phase' \in Phases /\ hpart' \in Nat
  <2>1. /\ \/ phase' = phase
           \/ phase' = "http headers written"
           \/ phase' = "flv header written"
    BY <1>3, Zenon DEF WriteHeader
  <2>2. hpart' = hpart + 1 /\ eager' = eager
    BY <1>3, Zenon DEF WriteHeader
  <2>3. phase' \in Phases
    BY <2>1 DEF Phases
  <2>4. hpart' \in Nat
    BY <2>2
  <2> QED
    BY <2>2, <2>3, <2>4
<1>4. ASSUME OnHeaderWritten PROVE eager' = eager /\ phase' \in Phases /\ hpart' \in Nat
  BY <1>4 DEF OnHeaderWritten, Phases
<1>5. ASSUME HeaderFails PROVE eager' = eager /\ phase' \in Phases /\ hpart' \in Nat
  BY <1>5 DEF HeaderFails, Phases
<1>6. ASSUME \/ \E b \in Buffers : GroupSends(b)
             \/ QueueWrites \/ QueueHandlers \/ ConnectionLost \/ UNCHANGED flvVars
      PROVE  UNCHANGED <<eager, phase, hpart>>
  BY <1>6 DEF GroupSends, QueueWrites, QueueHandlers, ConnectionLost, flvVars
<1> QED
  BY <1>1, <1>2, <1>3, <1>4, <1>5, <1>6 DEF FlvNext

LEMMA HeadersKeep ==
    ASSUME QueueInv, phase \in Phases, hpart \in Nat, Waits,
           Request \/ Refuse \/ OnHeaderWritten \/ HeaderFails
    PROVE  Waits'
<1>1. UNCHANGED <<sent, send_buffers, wire, out, conn, write, part>>
  BY DEF Request, Refuse, OnHeaderWritten, HeaderFails, queueVars, vars
<1>2. Sofar'
  BY <1>1, SofarSame DEF Waits
<1>3. out \in Seq(Part) /\ Parts \in Nat \ {0} /\ wire \in Seq(Buffers)
  BY SendQueueAssumption DEF Waits, Sofar, QueueInv, TypeOK
<1>4. ASSUME Request PROVE Written'
  <2>1. phase' = "http headers"
    BY <1>4 DEF Request
  <2>2. hpart' = 0 /\ Len(out) = 0
    BY <1>4 DEF Request, Waits, Written
  <2>3. Len(out') = Parts * 0 + hpart' /\ hpart' < Parts
    BY <1>1, <1>3, <2>2
  <2> QED
    BY <2>1, <2>3 DEF Written
<1>5. ASSUME Refuse PROVE Written'
  BY <1>1, <1>3, <1>5 DEF Refuse, Waits, Written
<1>6. ASSUME OnHeaderWritten, phase = "http headers written" PROVE Written'
  <2>1. phase' = "flv header"
    BY <1>6 DEF OnHeaderWritten
  <2>2. hpart' = 0 /\ Len(out) = Parts
    BY <1>6 DEF OnHeaderWritten, Waits, Written
  <2>3. Len(out') = Parts * 1 + hpart' /\ hpart' < Parts
    BY <1>1, <1>3, <2>2
  <2> QED
    BY <2>1, <2>3 DEF Written
<1>7. ASSUME OnHeaderWritten, phase = "flv header written" PROVE Written'
  <2>1. wire = <<>> /\ send_buffers = <<>> /\ Len(out) = 2 * Parts /\ phase' = "ready"
    BY <1>7 DEF Waits, Written, OnHeaderWritten
  <2>2. write = "none"
    BY <2>1 DEF QueueInv, TypeOK, WriteIffQueued
  <2>3. InPart' = 0
    BY <1>1, <2>1, <2>2 DEF InPart
  <2>4. Len(out') = Parts * (2 + Len(wire')) + InPart'
    BY <1>1, <1>3, <2>1, <2>3
  <2> QED
    BY <2>1, <2>4 DEF Written
<1>8. ASSUME HeaderFails PROVE Written' /\ (phase' = "failed" => conn' = "lost")
  BY <1>1, <1>8 DEF HeaderFails, Written
<1>9. phase' \notin {"ready", "failed"} =>
        sent' = <<>> /\ send_buffers' = <<>> /\ wire' = <<>>
  BY <1>1 DEF Waits, Request, Refuse, OnHeaderWritten, HeaderFails
<1>10. phase' = "failed" => conn' = "lost"
  BY <1>8 DEF Request, Refuse, OnHeaderWritten
<1> QED
  BY <1>2, <1>4, <1>5, <1>6, <1>7, <1>8, <1>9, <1>10 DEF OnHeaderWritten, Waits

LEMMA WriteHeaderKeeps ==
    ASSUME QueueInv, phase \in Phases, hpart \in Nat, Waits, WriteHeader
    PROVE  Waits'
<1>1. UNCHANGED <<sent, send_buffers, wire, conn, write, part>> /\ hpart' = hpart + 1
  BY DEF WriteHeader, queueVars, vars
<1>2. /\ phase \in {"http headers", "flv header"}
      /\ phase' = IF hpart + 1 < Parts THEN phase
                  ELSE IF phase = "http headers" THEN "http headers written"
                  ELSE "flv header written"
  BY DEF WriteHeader
<1>3. sent = <<>> /\ send_buffers = <<>> /\ wire = <<>> /\ Sofar
  BY <1>2 DEF Waits
<1>4. Parts \in Nat \ {0} /\ sent \in Seq(Buffers) /\ Len(sent) = 0
  BY <1>3, SendQueueAssumption
<1>5. Len(Items) = 2
  <2>1. Len(Items) = 2 + Len(sent)
    BY <1>4, ItemsType
  <2> QED
    BY <1>4, <2>1
<1>6. Items[1] = "http headers" /\ Items[2] = "flv header"
  BY <1>4, ItemsType
<1>7. ASSUME NEW a \in {0, 1}, Len(out) = Parts * a + hpart, hpart < Parts,
             NEW x, x = Items[a + 1], out' = Append(out, <<x, hpart + 1>>)
      PROVE  Sofar' /\ Len(out') = Parts * a + hpart + 1
  <2>1. a \in 0 .. Len(Items) - 1 /\ hpart \in 0 .. Parts - 1
    BY <1>4, <1>5, <1>7
  <2> QED
    BY <1>1, <1>3, <1>4, <1>7, <2>1, OutGrows
<1>8. CASE phase = "http headers"
  <2>1. Len(out) = Parts * 0 + hpart /\ hpart < Parts
    BY <1>8, Zenon DEF Waits, Written
  <2>2. phase = Items[0 + 1] /\ out' = Append(out, <<phase, hpart + 1>>)
    <3>1. 0 + 1 = 1
      OBVIOUS
    <3> QED
      BY <1>6, <1>8, <3>1, Zenon DEF WriteHeader
  <2>3. Sofar' /\ Len(out') = Parts * 0 + hpart + 1
    BY <1>7, <2>1, <2>2
  <2>4. CASE hpart + 1 < Parts
    <3>1. phase' = "http headers"
      BY <1>2, <1>8, <2>4, Zenon
    <3>2. Len(out') = Parts * 0 + hpart' /\ hpart' < Parts
      BY <1>1, <1>4, <2>3, <2>4
    <3> QED
      BY <1>1, <1>3, <2>3, <3>1, <3>2 DEF Waits, Written
  <2>5. CASE ~(hpart + 1 < Parts)
    <3>1. phase' = "http headers written"
      BY <1>2, <1>8, <2>5
    <3>2. Len(out') = Parts
      BY <1>4, <2>1, <2>3, <2>5
    <3> QED
      BY <1>1, <1>3, <2>3, <3>1, <3>2 DEF Waits, Written
  <2> QED
    BY <2>4, <2>5
<1>9. CASE phase = "flv header"
  <2>1. Len(out) = Parts * 1 + hpart /\ hpart < Parts
    BY <1>9, Zenon DEF Waits, Written
  <2>2. phase = Items[1 + 1] /\ out' = Append(out, <<phase, hpart + 1>>)
    <3>1. 1 + 1 = 2
      OBVIOUS
    <3> QED
      BY <1>6, <1>9, <3>1, Zenon DEF WriteHeader
  <2>3. Sofar' /\ Len(out') = Parts * 1 + hpart + 1
    BY <1>7, <2>1, <2>2
  <2>4. CASE hpart + 1 < Parts
    <3>1. phase' = "flv header"
      BY <1>2, <1>9, <2>4, Zenon
    <3>2. Len(out') = Parts * 1 + hpart' /\ hpart' < Parts
      BY <1>1, <1>4, <2>3, <2>4
    <3> QED
      BY <1>1, <1>3, <2>3, <3>1, <3>2 DEF Waits, Written
  <2>5. CASE ~(hpart + 1 < Parts)
    <3>1. phase' = "flv header written"
      BY <1>2, <1>9, <2>5
    <3>2. Len(out') = 2 * Parts
      BY <1>4, <2>1, <2>3, <2>5
    <3> QED
      BY <1>1, <1>3, <2>3, <3>1, <3>2 DEF Waits, Written
  <2> QED
    BY <2>4, <2>5
<1> QED
  BY <1>2, <1>8, <1>9

LEMMA SendKeeps ==
    ASSUME QueueInv, phase \in Phases, Waits, ~eager, NEW b \in Buffers, GroupSends(b)
    PROVE  Waits'
<1>1. /\ phase \in {"ready", "failed"} /\ sent' = Append(sent, b)
      /\ UNCHANGED <<phase, hpart, out, wire, conn>>
      /\ send_buffers' = Append(send_buffers, b)
      /\ IF send_buffers = <<>> THEN write' = "busy" /\ part' = 0 ELSE UNCHANGED <<write, part>>
  BY DEF GroupSends, async_send, do_send
<1>2. sent \in Seq(Buffers) /\ send_buffers \in Seq(Buffers) /\ part \in Nat
  BY SendQueueAssumption DEF QueueInv, TypeOK
<1>3. Sofar'
  BY <1>1, <1>2, SentGrows DEF Waits
<1>4. InPart' = InPart
  <2>1. send_buffers' # <<>>
    BY <1>1, <1>2, AppendNonEmpty
  <2>2. CASE send_buffers = <<>>
    <3>1. write = "none"
      BY <2>2 DEF QueueInv, TypeOK, WriteIffQueued
    <3> QED
      BY <1>1, <2>2, <3>1 DEF InPart
  <2>3. CASE send_buffers # <<>>
    BY <1>1, <2>1, <2>3 DEF InPart
  <2> QED
    BY <2>2, <2>3
<1>5. Written'
  BY <1>1, <1>4 DEF Waits, Written
<1> QED
  BY <1>1, <1>3, <1>5 DEF Waits

LEMMA QueueWritesKeeps ==
    ASSUME QueueInv, phase \in Phases, Waits, QueueWrites PROVE Waits'
<1>1. /\ write = "busy" /\ conn = "up" /\ part' = part + 1
      /\ out' = Append(out, <<Head(send_buffers), part + 1>>)
      /\ UNCHANGED <<sent, send_buffers, conn, phase, hpart>>
  BY DEF QueueWrites, WriteSome
<1>2. /\ send_buffers # <<>> /\ sent = wire \o send_buffers
      /\ send_buffers \in Seq(Buffers) /\ wire \in Seq(Buffers)
  BY <1>1 DEF QueueInv, TypeOK, WriteIffQueued, NothingLost, Pending
<1>3. sent \in Seq(Buffers) /\ part \in Nat /\ part < Parts /\ Parts \in Nat \ {0}
  BY <1>1, SendQueueAssumption DEF QueueInv, TypeOK
<1>4. phase = "ready"
  BY <1>1, <1>2, Zenon DEF Waits
<1>5. InPart = part
  BY <1>1, Zenon DEF InPart
<1>6. Len(out) = Parts * (2 + Len(wire)) + part
  BY <1>4, <1>5, Zenon DEF Waits, Written
<1>7. Len(wire) \in Nat /\ Len(wire) < Len(sent) /\ sent[Len(wire) + 1] = Head(send_buffers)
  BY <1>2, FrontIsNext, LenProperties
<1> DEFINE a == 2 + Len(wire)
<1>8. a \in 0 .. Len(Items) - 1 /\ Items[a + 1] = Head(send_buffers)
  <2>1. /\ Len(Items) = 2 + Len(sent)
        /\ \A i \in 1 .. Len(sent) : Items[2 + i] = sent[i]
    BY <1>3, ItemsType
  <2>2. Len(wire) + 1 \in 1 .. Len(sent) /\ 2 + (Len(wire) + 1) = a + 1
    BY <1>3, <1>7
  <2>3. Items[a + 1] = sent[Len(wire) + 1]
    <3> HIDE DEF a
    <3> QED
      BY <2>1, <2>2
  <2>4. a \in 0 .. Len(Items) - 1
    BY <1>3, <1>7, <2>1
  <2> QED
    BY <1>7, <2>3, <2>4
<1>9. Sofar' /\ Len(out') = Parts * a + part + 1
  <2>1. part \in 0 .. Parts - 1
    BY <1>3
  <2>2. UNCHANGED sent /\ Sofar
    BY <1>1 DEF Waits
  <2>3. Len(out) = Parts * a + part
    BY <1>6
  <2>4. out' = Append(out, <<Items[a + 1], part + 1>>)
    BY <1>1, <1>8
  <2> HIDE DEF a
  <2> QED
    BY <1>3, <1>8, <2>1, <2>2, <2>3, <2>4, OutGrows
<1>10. CASE part + 1 < Parts
  <2>1. write' = "busy" /\ wire' = wire
    <3>1. part + 1 # Parts
      BY <1>3, <1>10
    <3> QED
      BY <1>1, <3>1, Zenon DEF QueueWrites, WriteSome
  <2>2. InPart' = part + 1
    BY <1>1, <2>1, Zenon DEF InPart
  <2>3. Len(out') = Parts * (2 + Len(wire')) + InPart'
    <3>1. Parts * a \in Nat
      BY <1>3, <1>7
    <3> QED
      BY <1>3, <1>9, <2>1, <2>2, <3>1
  <2> QED
    BY <1>1, <1>4, <1>9, <2>3, Zenon DEF Waits, Written
<1>11. CASE part + 1 = Parts
  <2>1. write' = "done" /\ wire' = Append(wire, Head(send_buffers))
    <3>1. ~(part + 1 < Parts)
      BY <1>3, <1>11
    <3> QED
      BY <1>1, <3>1, Zenon DEF QueueWrites, WriteSome
  <2>2. InPart' = 0
    BY <2>1 DEF InPart
  <2>3. Len(wire') = Len(wire) + 1
    BY <1>2, <2>1, HeadTailType, AppendProperties
  <2>4. Parts * (2 + (Len(wire) + 1)) = Parts * a + Parts /\ Parts * a \in Nat
    BY <1>3, <1>7
  <2>5. Len(out') = Parts * (2 + Len(wire')) + InPart'
    BY <1>3, <1>9, <1>11, <2>2, <2>3, <2>4
  <2> QED
    BY <1>1, <1>4, <1>9, <2>5, Zenon DEF Waits, Written
<1> QED
  BY <1>3, <1>10, <1>11

LEMMA HandlersKeep ==
    ASSUME QueueInv, QueueInv', phase \in Phases, Waits,
           QueueHandlers \/ ConnectionLost \/ UNCHANGED flvVars
    PROVE  Waits'
<1>1. UNCHANGED <<sent, wire, out, phase, hpart>> /\ (conn' = conn \/ conn' = "lost")
  BY DEF QueueHandlers, ConnectionLost, OnWritten, OnFailed, WriteFails, Lose, flvVars,
         queueVars, vars
<1>2. Sofar'
  BY <1>1, SofarSame DEF Waits
<1>3. send_buffers = <<>> => send_buffers' = <<>>
  BY DEF QueueInv, TypeOK, WriteIffQueued, QueueHandlers, ConnectionLost, OnWritten, OnFailed,
         WriteFails, Lose, flvVars, queueVars, vars
<1>4. InPart' = InPart
  <2>1. ASSUME OnWritten PROVE InPart' = 0 /\ InPart = 0
    BY <2>1 DEF OnWritten, do_send, InPart
  <2>2. ASSUME OnFailed PROVE InPart' = InPart
    BY <2>2 DEF OnFailed, InPart, QueueInv, WriteIffQueued
  <2>3. ASSUME WriteFails PROVE InPart' = InPart
    BY <2>3 DEF WriteFails, InPart
  <2>4. ASSUME Lose \/ UNCHANGED flvVars PROVE InPart' = InPart
    BY <2>4 DEF Lose, InPart, flvVars, queueVars, vars
  <2> QED
    BY <2>1, <2>2, <2>3, <2>4 DEF QueueHandlers, ConnectionLost
<1>5. Written'
  BY <1>1, <1>4, Zenon DEF Waits, Written
<1> QED
  BY <1>1, <1>2, <1>3, <1>5, Zenon DEF Waits

LEMMA FlvStepInv == FlvInv /\ [FlvNext]_flvVars => FlvInv'
<1> SUFFICES ASSUME FlvInv, [FlvNext]_flvVars PROVE FlvInv'
  OBVIOUS
<1>1. QueueInv /\ QueueInv'
  BY FlvStepIsQueueStep, QueueStep DEF FlvInv
<1>2. phase \in Phases /\ hpart \in Nat
  BY DEF FlvInv
<1>3. eager' = eager /\ phase' \in Phases /\ hpart' \in Nat
  BY <1>2, FlvTypes
<1>4. ASSUME ~eager PROVE Waits'
  <2>1. Waits
    BY <1>4 DEF FlvInv
  <2> QED
    BY <1>1, <1>2, <1>4, <2>1, HeadersKeep, WriteHeaderKeeps, SendKeeps, QueueWritesKeeps,
       HandlersKeep DEF FlvNext
<1> QED
  BY <1>1, <1>3, <1>4 DEF FlvInv

LEMMA FlvInvariant == FlvSpec => []FlvInv
BY FlvInitInv, FlvStepInv, PTL DEF FlvSpec

-----------------------------------------------------------------------------
(* Each kind in order, whether the group waits or not *)

\* How many of the first n parts of o are of a kind.
Of(o, n, kind) == {j \in 1 .. n : Kind(o[j]) = kind}
Number(o, kind) == Cardinality(Of(o, Len(o), kind))

LEMMA OfIsFinite ==
    ASSUME NEW o, NEW n \in Nat, NEW kind
    PROVE  IsFiniteSet(Of(o, n, kind)) /\ Cardinality(Of(o, n, kind)) \in Nat
<1>1. IsFiniteSet(1 .. n)
  BY FS_Interval
<1>2. Of(o, n, kind) \in SUBSET (1 .. n)
  BY DEF Of
<1> QED
  BY <1>1, <1>2, FS_Subset, FS_CardinalityType

\* A part counts for its kind, and where the parts before it were they are.
LEMMA CountOne ==
    ASSUME NEW o \in Seq(Part), NEW x \in Part
    PROVE  /\ \A n \in 0 .. Len(o), kind \in {"tag", "header"} :
                Of(Append(o, x), n, kind) = Of(o, n, kind)
           /\ Number(Append(o, x), Kind(x)) = Number(o, Kind(x)) + 1
           /\ \A kind \in {"tag", "header"} :
                kind # Kind(x) => Number(Append(o, x), kind) = Number(o, kind)
<1> DEFINE m == Append(o, x)
           n == Len(o)
<1>1. /\ n \in Nat /\ Len(m) = n + 1 /\ m[n + 1] = x
      /\ \A i \in 1 .. n : m[i] = o[i]
  BY AppendProperties, LenProperties
<1> HIDE DEF m, n
<1>2. \A k \in 0 .. n, kind \in {"tag", "header"} : Of(m, k, kind) = Of(o, k, kind)
  BY <1>1 DEF Of
<1>3. Kind(x) \in {"tag", "header"}
  BY DEF Kind
<1>4. Of(m, n + 1, Kind(x)) = Of(o, n, Kind(x)) \cup {n + 1}
  BY <1>1 DEF Of
<1>5. n + 1 \notin Of(o, n, Kind(x))
  BY <1>1 DEF Of
<1>6. Number(m, Kind(x)) = Number(o, Kind(x)) + 1
  BY <1>1, <1>4, <1>5, OfIsFinite, FS_AddElement DEF Number, n
<1>7. ASSUME NEW kind, kind # Kind(x) PROVE Of(m, n + 1, kind) = Of(o, n, kind)
  BY <1>1, <1>7 DEF Of
<1> QED
  BY <1>1, <1>2, <1>6, <1>7 DEF m, n, Number

\* What is due of a kind.
Due(kind) == IF kind = "tag" THEN sent ELSE Headers

\* The parts in order.
Ordered ==
    /\ out \in Seq(Part)
    /\ OrderWithinKind

\* How much of the headers is written, phase by phase.
HeaderParts ==
    /\ phase \in {"request", "refused"} => Number(out, "header") = 0
    /\ phase = "http headers" => Number(out, "header") = Parts * 0 + hpart /\ hpart < Parts
    /\ phase = "http headers written" => Number(out, "header") = Parts
    /\ phase = "flv header" => Number(out, "header") = Parts * 1 + hpart /\ hpart < Parts

TagParts == Number(out, "tag") = Parts * Len(wire) + InPart

KindInv ==
    /\ QueueInv
    /\ phase \in Phases /\ hpart \in Nat
    /\ Ordered
    /\ HeaderParts
    /\ TagParts

LEMMA DueType ==
    ASSUME sent \in Seq(Buffers), NEW kind
    PROVE  /\ Due(kind) \in Seq(Item)
           /\ Len(Headers) = 2 /\ Headers[1] = "http headers" /\ Headers[2] = "flv header"
<1>1. "http headers" \in Item /\ "flv header" \in Item /\ Buffers \subseteq Item
  BY DEF Item, HeaderNames
<1>2. Headers \in Seq(Item) /\ Len(Headers) = 2
      /\ Headers[1] = "http headers" /\ Headers[2] = "flv header"
  BY <1>1, Pair, Zenon DEF Headers
<1>3. sent \in Seq(Item)
  BY <1>1, Wider
<1> QED
  BY <1>2, <1>3 DEF Due

\* The next part of its kind is written.
LEMMA OrderGrows ==
    ASSUME sent \in Seq(Buffers), Ordered, UNCHANGED sent,
           NEW kind \in {"tag", "header"},
           NEW a \in 0 .. Len(Due(kind)) - 1, NEW b \in 0 .. Parts - 1,
           Number(out, kind) = Parts * a + b,
           NEW x, x = <<Due(kind)[a + 1], b + 1>>, Kind(x) = kind,
           out' = Append(out, x)
    PROVE  /\ Ordered'
           /\ Number(out', kind) = Parts * a + b + 1
           /\ \A other \in {"tag", "header"} :
                other # kind => Number(out', other) = Number(out, other)
<1>1. \A k : Due(k) \in Seq(Item) /\ Due(k)' = Due(k)
  BY DueType DEF Due
<1>2. /\ Parts * a + b + 1 \in 1 .. Parts * Len(Due(kind))
      /\ PartsOf(Due(kind))[Parts * a + b + 1] = x
  BY <1>1, PartAt
<1>3. x \in Part /\ out \in Seq(Part)
  <2>1. Due(kind)[a + 1] \in Item
    BY <1>1
  <2> QED
    BY <2>1, SendQueueAssumption DEF Part, Ordered
<1> DEFINE n == Len(out)
<1>4. /\ n \in Nat /\ out' \in Seq(Part) /\ Len(out') = n + 1 /\ out'[n + 1] = x
      /\ \A i \in 1 .. n : out'[i] = out[i]
  BY <1>3, AppendProperties, LenProperties
<1>5. /\ \A k \in 0 .. n, other \in {"tag", "header"} : Of(out', k, other) = Of(out, k, other)
      /\ Number(out', kind) = Number(out, kind) + 1
      /\ \A other \in {"tag", "header"} :
           other # kind => Number(out', other) = Number(out, other)
  BY <1>3, CountOne
<1> HIDE DEF n
<1>6. ASSUME NEW i \in 1 .. n + 1
      PROVE  LET due == PartsOf(Due(Kind(out'[i])))
                 place == Cardinality(Of(out', i, Kind(out'[i])))
             IN  place <= Len(due) /\ out'[i] = due[place]
  <2>1. CASE i = n + 1
    <3>1. Cardinality(Of(out', i, kind)) = Parts * a + b + 1
      BY <1>4, <1>5, <2>1 DEF Number
    <3>2. Len(PartsOf(Due(kind))) = Parts * Len(Due(kind))
      BY <1>1, PartsOfItems
    <3>3. out'[i] = x /\ Kind(out'[i]) = kind
      BY <1>4, <2>1
    <3> DEFINE m == Parts * a + b + 1
    <3>4. m <= Len(PartsOf(Due(kind))) /\ x = PartsOf(Due(kind))[m]
      BY <1>2, <3>2
    <3> HIDE DEF m
    <3>5. Cardinality(Of(out', i, kind)) = m
      BY <3>1 DEF m
    <3> QED
      BY <3>3, <3>4, <3>5
  <2>2. CASE i # n + 1
    <3>1. i \in 1 .. n /\ i \in 0 .. n
      BY <1>4, <2>2, SMTT(30)
    <3>2. Kind(out[i]) \in {"tag", "header"} /\ out'[i] = out[i]
      BY <1>4, <3>1 DEF Kind
    <3>3. Of(out', i, Kind(out[i])) = Of(out, i, Kind(out[i]))
      BY <1>5, <3>1, <3>2
    <3>4. /\ Cardinality(Of(out, i, Kind(out[i]))) <= Len(PartsOf(Due(Kind(out[i]))))
          /\ out[i] = PartsOf(Due(Kind(out[i])))[Cardinality(Of(out, i, Kind(out[i])))]
      BY <3>1 DEF Ordered, OrderWithinKind, Place, Of, Due, n
    <3> QED
      BY <3>2, <3>3, <3>4
  <2> QED
    BY <2>1, <2>2
<1>7. OrderWithinKind'
  BY <1>1, <1>4, <1>6, ZenonT(30) DEF OrderWithinKind, Place, Of, Due
<1> QED
  BY <1>4, <1>5, <1>7 DEF Ordered

\* Parts that were received stay in order when more is sent.
LEMMA OrderKept ==
    ASSUME sent \in Seq(Buffers), Ordered, UNCHANGED out,
           NEW b \in Buffers, sent' = Append(sent, b)
    PROVE  Ordered'
<1>1. b \in Item /\ sent \in Seq(Item) /\ \A k : Due(k) \in Seq(Item)
  <2>1. Buffers \subseteq Item
    BY DEF Item
  <2>2. sent \in Seq(Item)
    BY <2>1, Wider
  <2> QED
    BY <2>1, <2>2, DueType
<1>2. ASSUME NEW i \in 1 .. Len(out)
      PROVE  LET due == PartsOf(Due(Kind(out[i]))')
             IN  Place(i) <= Len(due) /\ out[i] = due[Place(i)]
  <2> DEFINE kind == Kind(out[i])
             k    == Place(i)
  <2>1. k <= Len(PartsOf(Due(kind))) /\ out[i] = PartsOf(Due(kind))[k]
    BY DEF Ordered, OrderWithinKind, Due
  <2>2. CASE kind = "tag"
    <3>1. Due(kind) = sent /\ Due(kind)' = Append(sent, b)
      BY <2>2 DEF Due
    <3>2. k \in Nat /\ k >= 1
      <4>1. Len(out) \in Nat
        BY LenProperties DEF Ordered
      <4>2. i \in Nat /\ i \in Of(out, i, kind) /\ IsFiniteSet(Of(out, i, kind))
            /\ Cardinality(Of(out, i, kind)) \in Nat
        <5>1. i \in Nat /\ i \in 1 .. i
          BY <4>1
        <5>2. IsFiniteSet(Of(out, i, kind)) /\ Cardinality(Of(out, i, kind)) \in Nat
          BY <5>1, OfIsFinite
        <5> QED
          BY <5>1, <5>2, Zenon DEF Of
      <4>3. Cardinality(Of(out, i, kind)) # 0
        BY <4>2, FS_EmptySet
      <4>4. k = Cardinality(Of(out, i, kind))
        BY DEF Place, Of
      <4> QED
        BY <4>2, <4>3, <4>4
    <3>3. Len(PartsOf(sent)) = Parts * Len(sent)
      BY <1>1, PartsOfItems
    <3>4. /\ Len(PartsOf(Append(sent, b))) = Parts * Len(Append(sent, b))
          /\ \A j \in 1 .. Parts * Len(sent) :
               /\ j \in 1 .. Parts * Len(Append(sent, b))
               /\ PartsOf(Append(sent, b))[j] = PartsOf(sent)[j]
      BY <1>1, PartsGrow, PartsOfItems
    <3>5. Parts * Len(sent) \in Nat /\ Parts * Len(Append(sent, b)) \in Nat
      BY <1>1, PartsGrow, SendQueueAssumption, LenProperties
    <3> HIDE DEF k
    <3>6. k \in 1 .. Parts * Len(sent)
      BY <2>1, <3>1, <3>2, <3>3, <3>5
    <3>7. k <= Len(PartsOf(Append(sent, b))) /\ out[i] = PartsOf(Append(sent, b))[k]
      BY <2>1, <3>1, <3>4, <3>5, <3>6
    <3> QED
      BY <3>1, <3>7 DEF k
  <2>3. CASE kind # "tag"
    BY <2>1, <2>3 DEF Due
  <2> QED
    BY <2>2, <2>3
<1>3. OrderWithinKind'
  BY <1>2 DEF OrderWithinKind, Due, Place
<1> QED
  BY <1>3 DEF Ordered

LEMMA OrderSame == ASSUME Ordered, UNCHANGED <<sent, out>> PROVE Ordered'
BY DEF Ordered, OrderWithinKind, Place

LEMMA KindInit == FlvInit => KindInv
<1> SUFFICES ASSUME FlvInit PROVE KindInv
  OBVIOUS
<1>1. QueueInv
  BY QueueInit DEF FlvInit
<1>2. /\ wire = <<>> /\ send_buffers = <<>> /\ write = "none" /\ out = <<>>
      /\ phase = "request" /\ hpart = 0
  BY DEF FlvInit, Init
<1>3. \A kind : Number(out, kind) = 0
  <2>1. \A kind : Of(<<>>, 0, kind) = {}
    BY DEF Of
  <2> QED
    BY <1>2, <2>1, FS_EmptySet DEF Number
<1>4. Ordered
  BY <1>2 DEF Ordered, OrderWithinKind
<1>5. TagParts
  BY <1>2, <1>3, SendQueueAssumption DEF TagParts, InPart
<1>6. HeaderParts
  BY <1>2, <1>3 DEF HeaderParts
<1> QED
  BY <1>1, <1>2, <1>4, <1>5, <1>6 DEF KindInv, Phases

\* A header goes on: a part is written.
LEMMA KindWriteHeader ==
    ASSUME KindInv, WriteHeader PROVE Ordered' /\ HeaderParts' /\ TagParts'
<1>1. UNCHANGED <<sent, send_buffers, wire, write, part>> /\ hpart' = hpart + 1
      /\ out' = Append(out, <<phase, hpart + 1>>)
  BY DEF WriteHeader, queueVars, vars
<1>2. /\ phase \in {"http headers", "flv header"}
      /\ phase' = IF hpart + 1 < Parts THEN phase
                  ELSE IF phase = "http headers" THEN "http headers written"
                  ELSE "flv header written"
  BY DEF WriteHeader
<1>3. sent \in Seq(Buffers) /\ Parts \in Nat \ {0} /\ hpart \in Nat /\ hpart < Parts
  BY <1>2, SendQueueAssumption DEF KindInv, QueueInv, TypeOK, HeaderParts
<1>4. Due("header") = Headers /\ Len(Headers) = 2
      /\ Headers[1] = "http headers" /\ Headers[2] = "flv header"
  <2>1. Due("header") = Headers
    BY Zenon DEF Due
  <2> QED
    BY <1>3, <2>1, DueType
<1>5. ASSUME NEW a \in {0, 1}, Number(out, "header") = Parts * a + hpart,
             phase = Headers[a + 1]
      PROVE  /\ Ordered' /\ Number(out', "tag") = Number(out, "tag")
             /\ Number(out', "header") = Parts * a + hpart + 1
  <2> DEFINE x == <<Due("header")[a + 1], hpart + 1>>
  <2>1. a \in 0 .. Len(Due("header")) - 1 /\ hpart \in 0 .. Parts - 1
    <3>1. Len(Due("header")) = 2
      BY <1>4
    <3> QED
      BY <1>3, <3>1
  <2>2. x = <<phase, hpart + 1>>
    BY <1>4, <1>5
  <2>3. Kind(x) = "header"
    BY <1>2, <2>2, Zenon DEF Kind, HeaderNames
  <2>4. out' = Append(out, x) /\ UNCHANGED sent /\ Ordered
    BY <1>1, <2>2 DEF KindInv
  <2>5. "header" \in {"tag", "header"} /\ "tag" # "header"
    OBVIOUS
  <2> HIDE DEF x
  <2>6. x = <<Due("header")[a + 1], hpart + 1>>
    BY DEF x
  <2> QED
    BY <1>3, <1>5, <2>1, <2>3, <2>4, <2>5, <2>6, OrderGrows
<1>6. TagParts' <=> Number(out', "tag") = Parts * Len(wire) + InPart
  BY <1>1 DEF TagParts, InPart
<1>7. CASE phase = "http headers"
  <2>1. Number(out, "header") = Parts * 0 + hpart
    BY <1>7, Zenon DEF KindInv, HeaderParts
  <2>2. phase = Headers[0 + 1]
    <3>1. 0 + 1 = 1
      OBVIOUS
    <3> QED
      BY <1>4, <1>7, <3>1, Zenon
  <2>3. /\ Ordered' /\ Number(out', "tag") = Number(out, "tag")
        /\ Number(out', "header") = Parts * 0 + hpart + 1
    BY <1>5, <2>1, <2>2
  <2>4. CASE hpart + 1 < Parts
    <3>1. phase' = "http headers"
      BY <1>2, <1>7, <2>4
    <3>2. Number(out', "header") = Parts * 0 + hpart' /\ hpart' < Parts
      BY <1>1, <1>3, <2>3, <2>4
    <3> QED
      BY <1>6, <2>3, <3>1, <3>2 DEF KindInv, TagParts, HeaderParts
  <2>5. CASE ~(hpart + 1 < Parts)
    <3>1. phase' = "http headers written"
      BY <1>2, <1>7, <2>5
    <3>2. Number(out', "header") = Parts
      BY <1>3, <2>3, <2>5
    <3> QED
      BY <1>6, <2>3, <3>1, <3>2 DEF KindInv, TagParts, HeaderParts
  <2> QED
    BY <2>4, <2>5
<1>8. CASE phase = "flv header"
  <2>1. Number(out, "header") = Parts * 1 + hpart
    BY <1>8, Zenon DEF KindInv, HeaderParts
  <2>2. phase = Headers[1 + 1]
    <3>1. 1 + 1 = 2
      OBVIOUS
    <3> QED
      BY <1>4, <1>8, <3>1, Zenon
  <2>3. /\ Ordered' /\ Number(out', "tag") = Number(out, "tag")
        /\ Number(out', "header") = Parts * 1 + hpart + 1
    BY <1>5, <2>1, <2>2
  <2>4. CASE hpart + 1 < Parts
    <3>1. phase' = "flv header"
      BY <1>2, <1>8, <2>4
    <3>2. Number(out', "header") = Parts * 1 + hpart' /\ hpart' < Parts
      BY <1>1, <1>3, <2>3, <2>4
    <3> QED
      BY <1>6, <2>3, <3>1, <3>2 DEF KindInv, TagParts, HeaderParts
  <2>5. CASE ~(hpart + 1 < Parts)
    <3>1. phase' = "flv header written"
      BY <1>2, <1>8, <2>5
    <3> QED
      BY <1>6, <2>3, <3>1 DEF KindInv, TagParts, HeaderParts
  <2> QED
    BY <2>4, <2>5
<1> QED
  BY <1>2, <1>7, <1>8

\* The other steps of the header chain write nothing.
LEMMA KindHeaders ==
    ASSUME KindInv, Request \/ Refuse \/ OnHeaderWritten \/ HeaderFails
    PROVE  Ordered' /\ HeaderParts' /\ TagParts'
<1>1. UNCHANGED <<sent, send_buffers, wire, out, write, part>>
  BY DEF Request, Refuse, OnHeaderWritten, HeaderFails, queueVars, vars
<1>2. Ordered' /\ (TagParts' <=> TagParts)
  <2>1. Ordered'
    BY <1>1, OrderSame DEF KindInv
  <2> QED
    BY <1>1, <2>1 DEF TagParts, InPart
<1>3. Number(out, "header") \in Nat /\ Parts \in Nat \ {0}
  <2>1. Len(out) \in Nat
    BY LenProperties DEF KindInv, Ordered
  <2> QED
    BY <2>1, OfIsFinite, SendQueueAssumption DEF Number
<1>4. ASSUME Request PROVE HeaderParts'
  <2>1. phase' = "http headers" /\ hpart' = 0 /\ Number(out, "header") = 0
    BY <1>4, Zenon DEF Request, KindInv, HeaderParts
  <2>2. Number(out', "header") = Number(out, "header")
    BY <1>1, Zenon DEF Number, Of
  <2>3. hpart' = 0 /\ Number(out, "header") = 0
    BY <2>1
  <2>4. Number(out', "header") = Parts * 0 + hpart' /\ hpart' < Parts
    BY <1>3, <2>2, <2>3
  <2> QED
    BY <2>1, <2>4 DEF HeaderParts
<1>5. ASSUME Refuse PROVE HeaderParts'
  BY <1>1, <1>5 DEF Refuse, KindInv, HeaderParts
<1>6. ASSUME OnHeaderWritten PROVE HeaderParts'
  <2>1. CASE phase = "http headers written"
    <3>1. phase' = "flv header" /\ hpart' = 0 /\ Number(out, "header") = Parts
      BY <1>6, <2>1 DEF OnHeaderWritten, KindInv, HeaderParts
    <3>2. Number(out', "header") = Number(out, "header")
      BY <1>1, Zenon DEF Number, Of
    <3>3. hpart' = 0 /\ Number(out, "header") = Parts
      BY <3>1
    <3>4. Number(out', "header") = Parts * 1 + hpart' /\ hpart' < Parts
      BY <1>3, <3>2, <3>3
    <3> QED
      BY <3>1, <3>4 DEF HeaderParts
  <2>2. CASE phase # "http headers written"
    BY <1>6, <2>2 DEF OnHeaderWritten, HeaderParts
  <2> QED
    BY <2>1, <2>2
<1>7. ASSUME HeaderFails PROVE HeaderParts'
  BY <1>7 DEF HeaderFails, HeaderParts
<1> QED
  BY <1>2, <1>4, <1>5, <1>6, <1>7 DEF KindInv

\* The group sends a tag.
LEMMA KindSends ==
    ASSUME KindInv, NEW b \in Buffers, GroupSends(b)
    PROVE  Ordered' /\ HeaderParts' /\ TagParts'
<1>1. /\ sent' = Append(sent, b) /\ UNCHANGED <<phase, hpart, out, wire>>
      /\ send_buffers' = Append(send_buffers, b)
      /\ IF send_buffers = <<>> THEN write' = "busy" /\ part' = 0 ELSE UNCHANGED <<write, part>>
  BY DEF GroupSends, async_send, do_send
<1>2. sent \in Seq(Buffers) /\ send_buffers \in Seq(Buffers) /\ part \in Nat
  BY SendQueueAssumption DEF KindInv, QueueInv, TypeOK
<1>3. Ordered'
  BY <1>1, <1>2, OrderKept DEF KindInv
<1>4. InPart' = InPart
  <2>1. send_buffers' # <<>>
    BY <1>1, <1>2, AppendNonEmpty
  <2>2. CASE send_buffers = <<>>
    <3>1. write = "none"
      BY <2>2 DEF KindInv, QueueInv, TypeOK, WriteIffQueued
    <3> QED
      BY <1>1, <2>2, <3>1 DEF InPart
  <2>3. CASE send_buffers # <<>>
    BY <1>1, <2>1, <2>3 DEF InPart
  <2> QED
    BY <2>2, <2>3
<1> QED
  BY <1>1, <1>3, <1>4 DEF KindInv, HeaderParts, TagParts

\* A tag goes on: a part is written.
LEMMA KindQueueWrites ==
    ASSUME KindInv, QueueWrites PROVE Ordered' /\ HeaderParts' /\ TagParts'
<1>1. /\ write = "busy" /\ part' = part + 1
      /\ out' = Append(out, <<Head(send_buffers), part + 1>>)
      /\ UNCHANGED <<sent, send_buffers, phase, hpart>>
  BY DEF QueueWrites, WriteSome
<1>2. /\ send_buffers # <<>> /\ sent = wire \o send_buffers
      /\ send_buffers \in Seq(Buffers) /\ wire \in Seq(Buffers)
  BY <1>1 DEF KindInv, QueueInv, TypeOK, WriteIffQueued, NothingLost, Pending
<1>3. sent \in Seq(Buffers) /\ part \in Nat /\ part < Parts /\ Parts \in Nat \ {0}
  BY <1>1, SendQueueAssumption DEF KindInv, QueueInv, TypeOK
<1>4. Number(out, "tag") = Parts * Len(wire) + part
  BY <1>1 DEF KindInv, TagParts, InPart
<1>5. Len(wire) \in Nat /\ Len(wire) < Len(sent) /\ sent[Len(wire) + 1] = Head(send_buffers)
      /\ Len(sent) \in Nat
  BY <1>2, <1>3, FrontIsNext, LenProperties
<1>6. Due("tag") = sent
  BY DEF Due
<1> DEFINE x == <<Due("tag")[Len(wire) + 1], part + 1>>
<1>7. x = <<Head(send_buffers), part + 1>> /\ Kind(x) = "tag"
  <2>1. x = <<Head(send_buffers), part + 1>>
    BY <1>5, <1>6
  <2>2. Head(send_buffers) \in Buffers
    BY <1>2, HeadTailType
  <2>3. Head(send_buffers) \notin HeaderNames
    BY <2>2, FlvSessionAssumption
  <2> QED
    BY <2>1, <2>3, Zenon DEF Kind
<1> HIDE DEF x
<1>8. /\ Ordered' /\ Number(out', "tag") = Parts * Len(wire) + part + 1
      /\ Number(out', "header") = Number(out, "header")
  <2>1. Len(wire) \in 0 .. Len(Due("tag")) - 1 /\ part \in 0 .. Parts - 1
    BY <1>3, <1>5, <1>6
  <2>2. "tag" \in {"tag", "header"} /\ "header" \in {"tag", "header"} /\ "header" # "tag"
    OBVIOUS
  <2>3. out' = Append(out, x) /\ UNCHANGED sent /\ Ordered
        /\ x = <<Due("tag")[Len(wire) + 1], part + 1>>
    BY <1>1, <1>7 DEF KindInv, x
  <2> QED
    BY <1>3, <1>4, <1>7, <2>1, <2>2, <2>3, OrderGrows
<1>9. HeaderParts'
  BY <1>1, <1>8, Zenon DEF KindInv, HeaderParts
<1>10. CASE part + 1 < Parts
  <2>1. write' = "busy" /\ wire' = wire
    <3>1. part + 1 # Parts
      BY <1>3, <1>10
    <3> QED
      BY <1>1, <3>1, Zenon DEF QueueWrites, WriteSome
  <2>2. InPart' = part + 1
    BY <1>1, <2>1, Zenon DEF InPart
  <2>3. Parts * Len(wire) \in Nat
    BY <1>3, <1>5
  <2>4. Parts * Len(wire') + InPart' = Parts * Len(wire) + part + 1
    BY <1>3, <2>1, <2>2, <2>3
  <2> QED
    BY <1>8, <1>9, <2>4 DEF TagParts
<1>11. CASE part + 1 = Parts
  <2>1. write' = "done" /\ wire' = Append(wire, Head(send_buffers))
    <3>1. ~(part + 1 < Parts)
      BY <1>3, <1>11
    <3> QED
      BY <1>1, <3>1, Zenon DEF QueueWrites, WriteSome
  <2>2. InPart' = 0
    BY <2>1 DEF InPart
  <2>3. Len(wire') = Len(wire) + 1
    BY <1>2, <2>1, HeadTailType, AppendProperties
  <2>4. Parts * (Len(wire) + 1) = Parts * Len(wire) + Parts /\ Parts * Len(wire) \in Nat
    BY <1>3, <1>5
  <2>5. Parts * Len(wire') + InPart' = Parts * Len(wire) + part + 1
    BY <1>3, <1>11, <2>2, <2>3, <2>4
  <2> QED
    BY <1>8, <1>9, <2>5 DEF TagParts
<1> QED
  BY <1>3, <1>10, <1>11

\* The completion handlers.
LEMMA KindHandlers ==
    ASSUME KindInv, QueueHandlers \/ ConnectionLost \/ UNCHANGED flvVars
    PROVE  Ordered' /\ HeaderParts' /\ TagParts'
<1>1. UNCHANGED <<sent, wire, out, phase, hpart>>
  BY DEF QueueHandlers, ConnectionLost, OnWritten, OnFailed, WriteFails, Lose, flvVars,
         queueVars, vars
<1>2. Ordered'
  BY <1>1, OrderSame DEF KindInv
<1>3. InPart' = InPart
  <2>1. ASSUME OnWritten PROVE InPart' = 0 /\ InPart = 0
    BY <2>1 DEF OnWritten, do_send, InPart
  <2>2. ASSUME OnFailed PROVE InPart' = InPart
    BY <2>2 DEF OnFailed, InPart, KindInv, QueueInv, WriteIffQueued
  <2>3. ASSUME WriteFails PROVE InPart' = InPart
    BY <2>3 DEF WriteFails, InPart
  <2>4. ASSUME Lose \/ UNCHANGED flvVars PROVE InPart' = InPart
    BY <2>4 DEF Lose, InPart, flvVars, queueVars, vars
  <2> QED
    BY <2>1, <2>2, <2>3, <2>4 DEF QueueHandlers, ConnectionLost
<1> QED
  BY <1>1, <1>2, <1>3, Zenon DEF KindInv, HeaderParts, TagParts

LEMMA KindStep == KindInv /\ [FlvNext]_flvVars => KindInv'
<1> SUFFICES ASSUME KindInv, [FlvNext]_flvVars PROVE KindInv'
  OBVIOUS
<1>1. QueueInv'
  BY FlvStepIsQueueStep, QueueStep DEF KindInv
<1>2. phase' \in Phases /\ hpart' \in Nat
  BY FlvTypes DEF KindInv
<1>3. Ordered' /\ HeaderParts' /\ TagParts'
  BY KindHeaders, KindWriteHeader, KindSends, KindQueueWrites, KindHandlers DEF FlvNext
<1> QED
  BY <1>1, <1>2, <1>3 DEF KindInv

LEMMA KindInvariant == FlvSpec => []KindInv
BY KindInit, KindStep, PTL DEF FlvSpec

-----------------------------------------------------------------------------
(* Theorems *)

\* The player of a group that waits for the headers receives the HTTP headers, the FLV
\* header and the tags, whole and in order, and a torn tag only at the end
\* (request_handler, do_send_http_headers, do_send_flv_header, do_send).
THEOREM PlayersSeeAStream == FlvSpec => []WellFormedStream
<1>1. FlvInv => WellFormedStream
  <2> SUFFICES ASSUME FlvInv, ~eager PROVE IsPrefix(out, PartsOf(Headers \o sent))
    BY DEF WellFormedStream
  <2>1. sent \in Seq(Buffers) /\ Sofar
    BY DEF FlvInv, Waits, QueueInv, TypeOK
  <2> QED
    BY <2>1, SofarIsPrefix DEF Items
<1> QED
  BY <1>1, FlvInvariant, PTL

\* If the group waits for the headers, two writes never meet on the socket: only its
\* early tags break the rule of asio.
THEOREM WaitingWritesAlone == FlvSpec => [](~eager => SingleWriter)
<1>1. FlvInv => (~eager => SingleWriter)
  BY DEF FlvInv, Waits, QueueInv, WriteIffQueued, SingleWriter
<1> QED
  BY <1>1, FlvInvariant, PTL

\* Of the parts that are due of a kind, headers or tags, each part the player receives
\* is the next, whether the group waits for the headers or not (async_send, do_send,
\* do_send_http_headers, do_send_flv_header).
THEOREM KindsStayInOrder == FlvSpec => []OrderWithinKind
<1>1. KindInv => OrderWithinKind
  BY DEF KindInv, Ordered
<1> QED
  BY <1>1, KindInvariant, PTL

\* What the session has besides the types of its queue.
SessionTypes ==
    /\ eager \in BOOLEAN
    /\ phase = "request" => group = NoGroup
    /\ hpart \in 0 .. Parts
    /\ \A i \in 1 .. Len(out) : out[i][2] \in 1 .. Parts

LEMMA SessionTypesKept ==
    ASSUME KindInv, SessionTypes, [FlvNext]_flvVars PROVE SessionTypes'
<1>1. /\ eager' = eager /\ Parts \in Nat \ {0} /\ hpart \in Nat /\ part \in 0 .. Parts
      /\ write = "busy" => part < Parts
  BY FlvTypes, SendQueueAssumption DEF KindInv, QueueInv, TypeOK
<1>2. ASSUME NEW x \in Part, x[2] \in 1 .. Parts, out' = Append(out, x)
      PROVE  \A i \in 1 .. Len(out') : out'[i][2] \in 1 .. Parts
  <2>1. out \in Seq(Part) /\ Len(out) \in Nat
    BY LenProperties DEF KindInv, Ordered
  <2>2. Len(out') = Len(out) + 1 /\ out'[Len(out) + 1] = x
        /\ \A i \in 1 .. Len(out) : out'[i] = out[i]
    BY <1>2, <2>1, AppendProperties
  <2>3. ASSUME NEW i \in 1 .. Len(out) + 1 PROVE out'[i][2] \in 1 .. Parts
    <3>1. CASE i = Len(out) + 1
      BY <1>2, <2>2, <3>1
    <3>2. CASE i # Len(out) + 1
      <4>1. i \in 1 .. Len(out)
        BY <2>1, <3>2
      <4> QED
        BY <2>2, <4>1 DEF SessionTypes
    <3> QED
      BY <3>1, <3>2
  <2> QED
    BY <2>2, <2>3
<1>3. ASSUME WriteHeader PROVE SessionTypes'
  <2>1. hpart' = hpart + 1 /\ out' = Append(out, <<phase, hpart + 1>>)
        /\ phase \in {"http headers", "flv header"}
    BY <1>3 DEF WriteHeader
  <2>2. hpart < Parts
    BY <2>1 DEF KindInv, HeaderParts
  <2>3. <<phase, hpart + 1>> \in Part /\ <<phase, hpart + 1>>[2] = hpart + 1
        /\ hpart + 1 \in 1 .. Parts
    <3>1. phase \in Item
      BY <2>1 DEF Item, HeaderNames
    <3>2. hpart + 1 \in Nat /\ hpart + 1 \in 1 .. Parts
      <4>1. hpart \in Nat /\ Parts \in Nat
        BY <1>1
      <4> QED
        BY <2>2, <4>1
    <3> QED
      BY <3>1, <3>2 DEF Part
  <2>4. \A i \in 1 .. Len(out') : out'[i][2] \in 1 .. Parts
    BY <1>2, <2>1, <2>3
  <2>5. phase' # "request"
    BY <1>3 DEF WriteHeader
  <2>6. hpart' \in 0 .. Parts
    <3>1. hpart' = hpart + 1 /\ hpart \in Nat /\ Parts \in Nat
      BY <1>1, <2>1
    <3> QED
      BY <2>2, <3>1
  <2> QED
    BY <1>1, <2>4, <2>5, <2>6 DEF SessionTypes
<1>4. ASSUME QueueWrites PROVE SessionTypes'
  <2>1. /\ part' = part + 1 /\ write = "busy" /\ UNCHANGED <<phase, hpart, group>>
        /\ out' = Append(out, <<Head(send_buffers), part + 1>>)
    BY <1>4 DEF QueueWrites, WriteSome
  <2>2. Head(send_buffers) \in Item
    <3>1. send_buffers \in Seq(Buffers) /\ send_buffers # <<>>
      BY <2>1 DEF KindInv, QueueInv, TypeOK, WriteIffQueued
    <3> QED
      BY <3>1, HeadTailType DEF Item
  <2>3. <<Head(send_buffers), part + 1>> \in Part /\ part + 1 \in 1 .. Parts
        /\ <<Head(send_buffers), part + 1>>[2] = part + 1
    BY <1>1, <2>1, <2>2 DEF Part
  <2>4. \A i \in 1 .. Len(out') : out'[i][2] \in 1 .. Parts
    BY <1>2, <2>1, <2>3
  <2> QED
    BY <1>1, <2>1, <2>4 DEF SessionTypes
<1>5. ASSUME Request \/ Refuse \/ OnHeaderWritten PROVE SessionTypes'
  <2>1. phase' # "request" /\ (hpart' = hpart \/ hpart' = 0) /\ UNCHANGED out
    BY <1>5 DEF Request, Refuse, OnHeaderWritten
  <2>2. hpart' \in 0 .. Parts
    BY <1>1, <2>1 DEF SessionTypes
  <2> QED
    BY <1>1, <2>1, <2>2 DEF SessionTypes
<1>6. ASSUME \/ HeaderFails \/ \E b \in Buffers : GroupSends(b)
             \/ QueueHandlers \/ ConnectionLost \/ UNCHANGED flvVars
      PROVE  SessionTypes'
  <2>1. UNCHANGED <<group, hpart, out>> /\ (phase' = "request" => phase = "request")
    BY <1>6 DEF HeaderFails, GroupSends, QueueHandlers, ConnectionLost, flvVars
  <2> QED
    BY <1>1, <2>1 DEF SessionTypes
<1> QED
  BY <1>3, <1>4, <1>5, <1>6 DEF FlvNext

\* The session and its queue keep their types, and no part of a buffer is counted that
\* it does not have (do_send_http_headers, do_send_flv_header, do_send).
THEOREM FlvTypeCorrect == FlvSpec => []FlvTypeOK
<1>1. FlvInit => SessionTypes
  BY SendQueueAssumption DEF FlvInit, SessionTypes
<1>2. KindInv /\ SessionTypes /\ [FlvNext]_flvVars => SessionTypes'
  BY SessionTypesKept
<1>3. FlvSpec => []SessionTypes
  BY <1>1, <1>2, KindInvariant, PTL DEF FlvSpec
<1>4. KindInv /\ SessionTypes => FlvTypeOK
  BY DEF KindInv, QueueInv, SessionTypes, FlvTypeOK
<1> QED
  BY <1>3, <1>4, KindInvariant, PTL

\* A write of a tag is in progress exactly while the session has one to send.
THEOREM SessionWritesWhatIsQueued == FlvSpec => []WriteIffQueued
BY SessionKeepsQueue, WritesWhatIsQueued, PTL

\* After a torn tag the session writes no other.
THEOREM SessionTornIsLast == FlvSpec => NothingAfterTear
BY SessionKeepsQueue, TornIsLast

\* The tags of a session are delivered whole, once and in order.
THEOREM SessionIsFifo == FlvSpec => ImplementsFifo
BY SessionKeepsQueue, QueueIsFifo

-----------------------------------------------------------------------------
(* Induction: the library's theorem takes a predicate as a parameter,      *)
(* which the provers cannot instantiate; with a set in its place they can. *)

\* The order of the naturals, as a relation.
Below == {ss \in Nat \X Nat : ss[1] < ss[2]}

\* It is well founded.
LEMMA BelowWellFounded == IsWellFoundedOn(Below, Nat)
BY NatLessThanWellFounded DEF OpToRel, Below

\* A set of naturals that is not empty has a least member.
LEMMA LeastNat ==
    ASSUME NEW S, S \subseteq Nat, S # {}
    PROVE  \E m \in S : \A k \in S : m <= k
<1>1. PICK m \in S : \A k \in S : ~(<<k, m>> \in Below)
  BY BelowWellFounded, WFMin
<1>2. ASSUME NEW k \in S PROVE m <= k
  <2>1. <<k, m>> \in Nat \X Nat /\ ~(<<k, m>> \in Below)
    BY <1>1
  <2>2. ~(k < m)
    BY <2>1 DEF Below
  <2> QED
    BY <2>2
<1> QED
  BY <1>2

\* A set that has 0, and the successor of each of its members, has every number.
LEMMA Inductive ==
    ASSUME NEW S, 0 \in S, \A n \in Nat : n \in S => n + 1 \in S
    PROVE  \A n \in Nat : n \in S
<1> DEFINE T == {n \in Nat : n \notin S}
<1> SUFFICES ASSUME T # {} PROVE FALSE
  OBVIOUS
<1>1. T \subseteq Nat
  OBVIOUS
<1>2. PICK m \in T : \A k \in T : m <= k
  <2> HIDE DEF T
  <2> QED
    BY <1>1, LeastNat
<1>3. m \in Nat /\ m \notin S /\ m # 0
  OBVIOUS
<1>4. m - 1 \in Nat /\ ~(m <= m - 1)
  BY <1>3
<1>5. m - 1 \in S
  BY <1>2, <1>4
<1>6. (m - 1) + 1 \in S
  BY <1>4, <1>5
<1>7. (m - 1) + 1 = m
  BY <1>3
<1> QED
  BY <1>3, <1>6, <1>7

-----------------------------------------------------------------------------
(* split *)

\* f is the function split defines for the first n characters of s.
Splits(s, sep, keep, f, n) ==
    f = [k \in 0 .. n |-> IF k = 0 THEN ItemsStart ELSE Taking(f[k - 1], s[k], sep, keep)]

\* There is such a function, by induction on n.
LEMMA SplitsExists ==
    ASSUME NEW s, NEW sep, NEW keep, NEW n \in Nat
    PROVE  \E f : Splits(s, sep, keep, f, n)
<1> DEFINE S == {m \in Nat : \E f : Splits(s, sep, keep, f, m)}
<1>1. 0 \in S
  <2> DEFINE f == [k \in 0 .. 0 |-> ItemsStart]
  <2>1. Splits(s, sep, keep, f, 0)
    BY DEF Splits
  <2> HIDE DEF f
  <2> QED
    BY <2>1
<1>2. ASSUME NEW m \in Nat, m \in S PROVE m + 1 \in S
  <2>1. PICK f : Splits(s, sep, keep, f, m)
    BY <1>2
  <2> DEFINE last == Taking(f[m], s[m + 1], sep, keep)
             g == [k \in 0 .. m + 1 |-> IF k = m + 1 THEN last ELSE f[k]]
  <2>2. Splits(s, sep, keep, g, m + 1)
    <3>1. ASSUME NEW k \in 0 .. m + 1
          PROVE  g[k] = IF k = 0 THEN ItemsStart ELSE Taking(g[k - 1], s[k], sep, keep)
      <4>1. CASE k = m + 1
        <5>1. g[k] = last /\ k # 0 /\ k - 1 = m /\ k - 1 \in 0 .. m + 1 /\ k - 1 # m + 1
          BY <4>1
        <5>2. g[k - 1] = f[m]
          BY <5>1
        <5> QED
          BY <4>1, <5>1, <5>2
      <4>2. CASE k # m + 1
        <5>1. k \in 0 .. m /\ g[k] = f[k]
          BY <4>2
        <5>2. f[k] = IF k = 0 THEN ItemsStart ELSE Taking(f[k - 1], s[k], sep, keep)
          BY <2>1, <5>1 DEF Splits
        <5>3. k # 0 => g[k - 1] = f[k - 1]
          BY <5>1
        <5> QED
          BY <5>1, <5>2, <5>3
      <4> QED
        BY <4>1, <4>2
    <3>2. g = [k \in 0 .. m + 1 |-> g[k]]
      OBVIOUS
    <3> HIDE DEF g
    <3> QED
      BY <3>1, <3>2 DEF Splits
  <2> HIDE DEF g
  <2> QED
    BY <2>2
<1>3. \A m \in Nat : m \in S
  <2> HIDE DEF S
  <2> QED
    BY <1>1, <1>2, Inductive
<1> QED
  BY <1>3

\* split goes through a string character by character.
LEMMA SplitIs ==
    ASSUME NEW s, NEW sep, NEW keep, s # <<>>, Len(s) \in Nat
    PROVE  \E f : /\ f[0] = ItemsStart
                  /\ \A k \in 1 .. Len(s) : f[k] = Taking(f[k - 1], s[k], sep, keep)
                  /\ split(s, sep, keep) = Kept(f[Len(s)], keep)
<1> DEFINE g == CHOOSE f : Splits(s, sep, keep, f, Len(s))
<1>1. Splits(s, sep, keep, g, Len(s))
  BY SplitsExists
<1>2. split(s, sep, keep) = Kept(g[Len(s)], keep)
  BY DEF split, Splits
<1> HIDE DEF g
<1>3. ASSUME NEW k \in 0 .. Len(s)
      PROVE  g[k] = IF k = 0 THEN ItemsStart ELSE Taking(g[k - 1], s[k], sep, keep)
  BY <1>1 DEF Splits
<1>4. g[0] = ItemsStart
  <2>1. 0 \in 0 .. Len(s)
    OBVIOUS
  <2> QED
    BY <1>3, <2>1
<1>5. ASSUME NEW k \in 1 .. Len(s) PROVE g[k] = Taking(g[k - 1], s[k], sep, keep)
  <2>1. k \in 0 .. Len(s) /\ k # 0
    OBVIOUS
  <2> QED
    BY <1>3, <2>1
<1> QED
  BY <1>2, <1>4, <1>5

\* What split has read are items, strings of characters of C.
Typed(C, at) ==
    at.ret \in Seq(Seq(C)) /\ at.item \in Seq(C) /\ at = [ret |-> at.ret, item |-> at.item]

\* What a character does to the items, and the end of one.
LEMMA TakingIs ==
    ASSUME NEW C, NEW at, Typed(C, at), NEW keep \in BOOLEAN, NEW c \in C, NEW sep
    PROVE  /\ Typed(C, Taking(at, c, sep, keep))
           /\ c # sep => /\ Taking(at, c, sep, keep).ret = at.ret
                         /\ Taking(at, c, sep, keep).item = Append(at.item, c)
           /\ c = sep => /\ Taking(at, c, sep, keep).ret = Kept(at, keep)
                         /\ Taking(at, c, sep, keep).item = <<>>
<1>0. at.ret \in Seq(Seq(C)) /\ at.item \in Seq(C) /\ at = [ret |-> at.ret, item |-> at.item]
  BY DEF Typed
<1> DEFINE next == Taking(at, c, sep, keep)
<1>1. Kept(at, keep) \in Seq(Seq(C))
  BY <1>0 DEF Kept
<1>2. Append(at.item, c) \in Seq(C) /\ <<>> \in Seq(C)
  BY <1>0
<1>3. CASE c = sep
  <2>1. next = [ret |-> Kept(at, keep), item |-> <<>>]
    BY <1>3 DEF Taking
  <2> QED
    BY <1>1, <1>2, <1>3, <2>1 DEF Typed
<1>4. CASE c # sep
  <2>1. next = [at EXCEPT !.item = Append(at.item, c)]
    BY <1>4 DEF Taking
  <2>2. next = [ret |-> at.ret, item |-> Append(at.item, c)]
    <3> DEFINE r == at.ret
               i == at.item
    <3>1. at = [ret |-> r, item |-> i]
      BY <1>0
    <3> QED
      BY <2>1, <3>1
  <2> QED
    BY <1>0, <1>1, <1>2, <1>4, <2>2 DEF Typed
<1> QED
  BY <1>3, <1>4

\* A piece of a string, one character longer, and one with none.
LEMMA PieceMore ==
    ASSUME NEW C, NEW s \in Seq(C), NEW k \in 0 .. Len(s), NEW a \in 1 .. k + 1
    PROVE  /\ SubSeq(s, a, k) \in Seq(C) /\ Len(SubSeq(s, a, k)) = k + 1 - a
           /\ \A i \in 1 .. k + 1 - a : SubSeq(s, a, k)[i] = s[a + i - 1]
           /\ a = k + 1 => SubSeq(s, a, k) = <<>>
           /\ k < Len(s) => Append(SubSeq(s, a, k), s[k + 1]) = SubSeq(s, a, k + 1)
<1>1. Len(s) \in Nat
  BY LenProperties
<1>2. /\ SubSeq(s, a, k) \in Seq(C) /\ Len(SubSeq(s, a, k)) = k + 1 - a
      /\ \A i \in 1 .. k + 1 - a : SubSeq(s, a, k)[i] = s[a + i - 1]
  BY <1>1
<1>3. a = k + 1 => SubSeq(s, a, k) = <<>>
  <2>1. a = k + 1 => Len(SubSeq(s, a, k)) = 0
    BY <1>1, <1>2
  <2> QED
    BY <1>2, <2>1, EmptySeq
<1>4. ASSUME k < Len(s) PROVE Append(SubSeq(s, a, k), s[k + 1]) = SubSeq(s, a, k + 1)
  <2> DEFINE x == Append(SubSeq(s, a, k), s[k + 1])
             y == SubSeq(s, a, k + 1)
  <2>1. s[k + 1] \in C /\ k + 1 \in 0 .. Len(s)
    BY <1>1, <1>4
  <2>2. /\ y \in Seq(C) /\ Len(y) = (k + 1) + 1 - a
        /\ \A i \in 1 .. (k + 1) + 1 - a : y[i] = s[a + i - 1]
    BY <1>1, <2>1
  <2>3. /\ x \in Seq(C) /\ Len(x) = (k + 1 - a) + 1
        /\ \A i \in 1 .. k + 1 - a : x[i] = SubSeq(s, a, k)[i]
        /\ x[(k + 1 - a) + 1] = s[k + 1]
    BY <1>2, <2>1
  <2> HIDE DEF x, y
  <2>4. Len(x) = Len(y)
    BY <1>1, <2>2, <2>3
  <2>5. ASSUME NEW i \in 1 .. Len(x) PROVE x[i] = y[i]
    <3>1. i \in 1 .. (k + 1) + 1 - a /\ y[i] = s[a + i - 1]
      BY <1>1, <2>2, <2>3
    <3>2. CASE i = (k + 1 - a) + 1
      <4>1. a + i - 1 = k + 1
        BY <1>1, <3>2
      <4> QED
        BY <2>3, <3>1, <3>2, <4>1
    <3>3. CASE i # (k + 1 - a) + 1
      <4>1. i \in 1 .. k + 1 - a
        BY <1>1, <3>1, <3>3
      <4> QED
        BY <1>2, <2>3, <3>1, <4>1
    <3> QED
      BY <3>2, <3>3
  <2> QED
    BY <2>2, <2>3, <2>4, <2>5, SeqEqual DEF x, y
<1> QED
  BY <1>2, <1>3, <1>4

\* So it is all the way.
LEMMA SplitTyped ==
    ASSUME NEW C, NEW s \in Seq(C), NEW sep, NEW keep \in BOOLEAN, NEW f,
           f[0] = ItemsStart,
           \A k \in 1 .. Len(s) : f[k] = Taking(f[k - 1], s[k], sep, keep)
    PROVE  \A k \in 0 .. Len(s) : Typed(C, f[k])
<1> DEFINE S == {k \in Nat : k <= Len(s) => Typed(C, f[k])}
<1>1. Len(s) \in Nat
  BY LenProperties
<1>2. 0 \in S
  <2>1. f[0] = [ret |-> <<>>, item |-> <<>>]
    BY DEF ItemsStart
  <2>2. <<>> \in Seq(Seq(C)) /\ <<>> \in Seq(C)
    OBVIOUS
  <2>3. f[0].ret = <<>> /\ f[0].item = <<>>
    BY <2>1
  <2> QED
    BY <2>1, <2>2, <2>3 DEF Typed
<1>3. ASSUME NEW k \in Nat, k \in S PROVE k + 1 \in S
  <2> SUFFICES ASSUME k + 1 <= Len(s) PROVE Typed(C, f[k + 1])
    OBVIOUS
  <2>1. Typed(C, f[k]) /\ k + 1 \in 1 .. Len(s) /\ (k + 1) - 1 = k /\ s[k + 1] \in C
    BY <1>1, <1>3
  <2>2. f[k + 1] = Taking(f[k], s[k + 1], sep, keep)
    BY <2>1
  <2> QED
    BY <2>1, <2>2, TakingIs
<1>4. \A k \in Nat : k \in S
  <2> HIDE DEF S
  <2> QED
    BY <1>2, <1>3, Inductive
<1> QED
  BY <1>1, <1>4

-----------------------------------------------------------------------------
(* split with empty items *)

\* c has the places of sep among the first k characters of s, in order, after 0.
CutsAre(s, sep, k, m, c) ==
    /\ m \in Nat /\ c[0] = 0
    /\ \A j \in 1 .. m : c[j] \in 1 .. k /\ c[j - 1] < c[j] /\ s[c[j]] = sep
    /\ \A i \in 1 .. k : s[i] = sep => \E j \in 1 .. m : c[j] = i

\* After k characters, split has the pieces between the cuts, and reads what follows the
\* last one.
CutSoFar(s, sep, at, k) ==
    \E m, c : /\ CutsAre(s, sep, k, m, c) /\ c[m] \in 0 .. k
              /\ Len(at.ret) = m
              /\ \A j \in 1 .. m : at.ret[j] = SubSeq(s, c[j - 1] + 1, c[j] - 1)
              /\ at.item = SubSeq(s, c[m] + 1, k)

\* Another character keeps it so.
LEMMA CutMore ==
    ASSUME NEW C, NEW s \in Seq(C), NEW sep, NEW at, Typed(C, at), NEW k \in Nat,
           k + 1 <= Len(s), CutSoFar(s, sep, at, k)
    PROVE  CutSoFar(s, sep, Taking(at, s[k + 1], sep, TRUE), k + 1)
<1> DEFINE x == s[k + 1]
           next == Taking(at, x, sep, TRUE)
<1>1. Len(s) \in Nat /\ k \in 0 .. Len(s) /\ k < Len(s) /\ x \in C
  BY LenProperties
<1>2. PICK m, c : /\ CutsAre(s, sep, k, m, c) /\ c[m] \in 0 .. k
                  /\ Len(at.ret) = m
                  /\ \A j \in 1 .. m : at.ret[j] = SubSeq(s, c[j - 1] + 1, c[j] - 1)
                  /\ at.item = SubSeq(s, c[m] + 1, k)
  BY DEF CutSoFar
<1>3. m \in Nat /\ c[0] = 0 /\ c[m] \in 0 .. k /\ c[m] + 1 \in 1 .. k + 1
  BY <1>2 DEF CutsAre
<1>4. /\ at.ret \in Seq(Seq(C)) /\ at.item \in Seq(C)
      /\ x # sep => next.ret = at.ret /\ next.item = Append(at.item, x)
      /\ x = sep => next.ret = Kept(at, TRUE) /\ next.item = <<>>
  <2>1. at.ret \in Seq(Seq(C)) /\ at.item \in Seq(C)
    BY DEF Typed
  <2>2. /\ x # sep => /\ Taking(at, x, sep, TRUE).ret = at.ret
                      /\ Taking(at, x, sep, TRUE).item = Append(at.item, x)
        /\ x = sep => /\ Taking(at, x, sep, TRUE).ret = Kept(at, TRUE)
                      /\ Taking(at, x, sep, TRUE).item = <<>>
    <3> HIDE DEF x
    <3>1. \A keep \in BOOLEAN :
            /\ x # sep => /\ Taking(at, x, sep, keep).ret = at.ret
                          /\ Taking(at, x, sep, keep).item = Append(at.item, x)
            /\ x = sep => /\ Taking(at, x, sep, keep).ret = Kept(at, keep)
                          /\ Taking(at, x, sep, keep).item = <<>>
      BY <1>1, TakingIs
    <3> QED
      BY <3>1
  <2> QED
    BY <2>1, <2>2
<1>5. CASE x # sep
  <2>1. next.item = SubSeq(s, c[m] + 1, k + 1)
    BY <1>1, <1>2, <1>3, <1>4, <1>5, PieceMore, ZenonT(30)
  <2>2. CutsAre(s, sep, k + 1, m, c)
    <3>1. \A j \in 1 .. m : c[j] \in 1 .. k + 1 /\ c[j - 1] < c[j] /\ s[c[j]] = sep
      BY <1>2 DEF CutsAre
    <3>2. ASSUME NEW i \in 1 .. k + 1, s[i] = sep PROVE \E j \in 1 .. m : c[j] = i
      <4>1. i # k + 1
        BY <1>5, <3>2
      <4>2. i \in 1 .. k
        BY <4>1
      <4> QED
        BY <1>2, <3>2, <4>2 DEF CutsAre
    <3> QED
      BY <1>3, <3>1, <3>2 DEF CutsAre
  <2>3. c[m] \in 0 .. k + 1
    BY <1>3
  <2> HIDE DEF next
  <2>4. /\ Len(next.ret) = m
        /\ \A j \in 1 .. m : next.ret[j] = SubSeq(s, c[j - 1] + 1, c[j] - 1)
    BY <1>2, <1>4, <1>5
  <2>5. CutSoFar(s, sep, next, k + 1)
    BY <2>1, <2>2, <2>3, <2>4 DEF CutSoFar
  <2> QED
    BY <2>5 DEF next
<1>6. CASE x = sep
  <2> DEFINE d == [j \in 0 .. m + 1 |-> IF j = m + 1 THEN k + 1 ELSE c[j]]
  <2>1. m + 1 \in Nat /\ d[m + 1] = k + 1 /\ \A j \in 0 .. m : d[j] = c[j]
    BY <1>3
  <2> HIDE DEF d
  <2>2. CutsAre(s, sep, k + 1, m + 1, d)
    <3>1. ASSUME NEW j \in 1 .. m + 1
          PROVE  d[j] \in 1 .. k + 1 /\ d[j - 1] < d[j] /\ s[d[j]] = sep
      <4>1. CASE j = m + 1
        <5>1. d[j - 1] = c[m] /\ d[j] = k + 1
          BY <1>3, <2>1, <4>1
        <5> QED
          BY <1>3, <1>6, <5>1
      <4>2. CASE j # m + 1
        <5>1. j \in 1 .. m /\ j \in 0 .. m /\ j - 1 \in 0 .. m
          BY <1>3, <4>2
        <5>2. d[j] = c[j] /\ d[j - 1] = c[j - 1]
          BY <2>1, <5>1
        <5>3. c[j] \in 1 .. k /\ c[j - 1] < c[j] /\ s[c[j]] = sep
          BY <1>2, <5>1 DEF CutsAre
        <5> QED
          BY <5>2, <5>3
      <4> QED
        BY <4>1, <4>2
    <3>2. ASSUME NEW i \in 1 .. k + 1, s[i] = sep PROVE \E j \in 1 .. m + 1 : d[j] = i
      <4>1. CASE i = k + 1
        <5>1. m + 1 \in 1 .. m + 1
          BY <1>3
        <5> QED
          BY <2>1, <4>1, <5>1
      <4>2. CASE i # k + 1
        <5>1. i \in 1 .. k
          BY <4>2
        <5>2. PICK j \in 1 .. m : c[j] = i
          BY <1>2, <3>2, <5>1 DEF CutsAre
        <5>3. j \in 1 .. m + 1 /\ j \in 0 .. m
          BY <1>3
        <5> QED
          BY <2>1, <5>2, <5>3
      <4> QED
        BY <4>1, <4>2
    <3>3. d[0] = 0
      <4>1. 0 \in 0 .. m
        BY <1>3
      <4> QED
        BY <1>3, <2>1, <4>1
    <3> QED
      BY <2>1, <3>1, <3>2, <3>3 DEF CutsAre
  <2>3. next.ret = Append(at.ret, at.item) /\ next.item = <<>>
    BY <1>4, <1>6 DEF Kept
  <2> HIDE DEF next
  <2>4. /\ Len(next.ret) = m + 1 /\ next.ret[m + 1] = at.item
        /\ \A j \in 1 .. m : next.ret[j] = at.ret[j]
    <3> DEFINE a == at.ret
               i == at.item
    <3>1. a \in Seq(Seq(C)) /\ i \in Seq(C) /\ Len(a) = m
      BY <1>2, <1>4
    <3> HIDE DEF a, i
    <3>2. /\ Len(Append(a, i)) = m + 1 /\ Append(a, i)[m + 1] = i
          /\ \A j \in 1 .. m : Append(a, i)[j] = a[j]
      BY <3>1, AppendProperties
    <3> QED
      BY <2>3, <3>2 DEF a, i
  <2>5. ASSUME NEW j \in 1 .. m + 1
        PROVE  next.ret[j] = SubSeq(s, d[j - 1] + 1, d[j] - 1)
    <3>1. CASE j = m + 1
      <4>1. d[j - 1] = c[m] /\ d[j] - 1 = k
        BY <1>1, <1>3, <2>1, <3>1
      <4> QED
        BY <1>2, <2>4, <3>1, <4>1
    <3>2. CASE j # m + 1
      <4>1. j \in 1 .. m /\ j \in 0 .. m /\ j - 1 \in 0 .. m
        BY <1>3, <3>2
      <4>2. d[j] = c[j] /\ d[j - 1] = c[j - 1]
        BY <2>1, <4>1
      <4> QED
        BY <1>2, <2>4, <4>1, <4>2
    <3> QED
      BY <3>1, <3>2
  <2>6. next.item = SubSeq(s, d[m + 1] + 1, k + 1)
    <3>1. k + 1 \in 0 .. Len(s) /\ (k + 1) + 1 \in 1 .. (k + 1) + 1
      BY <1>1
    <3>2. SubSeq(s, (k + 1) + 1, k + 1) = <<>>
      BY <3>1, PieceMore
    <3> QED
      BY <2>1, <2>3, <3>2
  <2>7. d[m + 1] \in 0 .. k + 1
    BY <1>1, <2>1
  <2>8. CutSoFar(s, sep, next, k + 1)
    BY <2>2, <2>4, <2>5, <2>6, <2>7 DEF CutSoFar
  <2> QED
    BY <2>8 DEF next
<1> QED
  BY <1>5, <1>6

\* With empty items kept, split cuts a string at each sep.
LEMMA SplitCuts ==
    ASSUME NEW C, NEW s \in Seq(C), s # <<>>, NEW sep
    PROVE  \E m, c : /\ CutsAre(s, sep, Len(s), m, c) /\ c[m] \in 0 .. Len(s)
                     /\ Len(split(s, sep, TRUE)) = m + 1
                     /\ \A j \in 1 .. m :
                          split(s, sep, TRUE)[j] = SubSeq(s, c[j - 1] + 1, c[j] - 1)
<1>1. Len(s) \in Nat
  BY LenProperties
<1>2. PICK f : /\ f[0] = ItemsStart
               /\ \A k \in 1 .. Len(s) : f[k] = Taking(f[k - 1], s[k], sep, TRUE)
               /\ split(s, sep, TRUE) = Kept(f[Len(s)], TRUE)
  BY <1>1, SplitIs
<1>3. \A k \in 0 .. Len(s) : Typed(C, f[k])
  BY <1>2, SplitTyped
<1> DEFINE S == {k \in Nat : k <= Len(s) => CutSoFar(s, sep, f[k], k)}
<1>4. 0 \in S
  <2> DEFINE c == [j \in 0 .. 0 |-> 0]
  <2>1. c[0] = 0 /\ f[0].ret = <<>> /\ f[0].item = <<>>
    BY <1>2 DEF ItemsStart
  <2> HIDE DEF c
  <2>2. CutsAre(s, sep, 0, 0, c)
    BY <2>1 DEF CutsAre
  <2>3. SubSeq(s, 0 + 1, 0) = <<>>
    <3>1. 0 \in 0 .. Len(s) /\ 0 + 1 \in 1 .. 0 + 1
      BY <1>1
    <3> QED
      BY <3>1, PieceMore
  <2>4. CutSoFar(s, sep, f[0], 0)
    BY <2>1, <2>2, <2>3 DEF CutSoFar
  <2> QED
    BY <2>4
<1>5. ASSUME NEW k \in Nat, k \in S PROVE k + 1 \in S
  <2> SUFFICES ASSUME k + 1 <= Len(s) PROVE CutSoFar(s, sep, f[k + 1], k + 1)
    OBVIOUS
  <2>1. CutSoFar(s, sep, f[k], k) /\ k + 1 \in 1 .. Len(s) /\ (k + 1) - 1 = k
        /\ k \in 0 .. Len(s)
    BY <1>1, <1>5
  <2>2. f[k + 1] = Taking(f[k], s[k + 1], sep, TRUE) /\ Typed(C, f[k])
    BY <1>2, <1>3, <2>1
  <2> QED
    BY <2>1, <2>2, CutMore
<1>6. \A k \in Nat : k \in S
  <2> HIDE DEF S
  <2> QED
    BY <1>4, <1>5, Inductive
<1>7. CutSoFar(s, sep, f[Len(s)], Len(s)) /\ Typed(C, f[Len(s)])
  BY <1>1, <1>3, <1>6
<1> DEFINE at == f[Len(s)]
           r == split(s, sep, TRUE)
<1>8. r = Append(at.ret, at.item) /\ at.ret \in Seq(Seq(C)) /\ at.item \in Seq(C)
  BY <1>2, <1>7 DEF Kept, Typed
<1>9. PICK m, c : /\ CutsAre(s, sep, Len(s), m, c) /\ c[m] \in 0 .. Len(s)
                  /\ Len(at.ret) = m
                  /\ \A j \in 1 .. m : at.ret[j] = SubSeq(s, c[j - 1] + 1, c[j] - 1)
  BY <1>7 DEF CutSoFar
<1> HIDE DEF at, r
<1>10. Len(r) = m + 1 /\ \A j \in 1 .. m : r[j] = at.ret[j]
  BY <1>8, <1>9
<1>11. \A j \in 1 .. m : r[j] = SubSeq(s, c[j - 1] + 1, c[j] - 1)
  BY <1>9, <1>10
<1> QED
  BY <1>9, <1>10, <1>11 DEF r

\* The places of the two seps of a string.
TwoSeps(s, sep, p, q) ==
    p \in 1 .. Len(s) /\ q \in 1 .. Len(s) /\ p < q /\ {i \in 1 .. Len(s) : s[i] = sep} = {p, q}

\* A string has three fields when it has two seps, and they are what lies between.
LEMMA ThreeFields ==
    ASSUME NEW C, NEW s \in Seq(C), NEW sep
    PROVE  LET r == split(s, sep, TRUE)
           IN  /\ Len(r) = 3 => \E p, q : TwoSeps(s, sep, p, q)
               /\ \A p, q : TwoSeps(s, sep, p, q) => /\ Len(r) = 3
                                                     /\ r[1] = SubSeq(s, 1, p - 1)
                                                     /\ r[2] = SubSeq(s, p + 1, q - 1)
<1> DEFINE r == split(s, sep, TRUE)
           seps == {i \in 1 .. Len(s) : s[i] = sep}
<1>1. Len(s) \in Nat
  BY LenProperties
<1>2. CASE s = <<>>
  <2>1. r = <<>> /\ Len(s) = 0
    BY <1>2 DEF split
  <2> HIDE DEF r
  <2>2. Len(r) = 0
    BY <2>1
  <2>3. \A p \in 1 .. Len(s) : FALSE
    BY <2>1
  <2>4. ~(Len(r) = 3)
    BY <2>2
  <2> QED
    BY <2>3, <2>4 DEF TwoSeps, r
<1>3. CASE s # <<>>
  <2>1. PICK m, c : /\ CutsAre(s, sep, Len(s), m, c) /\ c[m] \in 0 .. Len(s)
                    /\ Len(r) = m + 1
                    /\ \A j \in 1 .. m : r[j] = SubSeq(s, c[j - 1] + 1, c[j] - 1)
    BY <1>3, SplitCuts, ZenonT(30)
  <2> HIDE DEF r
  <2>2. /\ m \in Nat /\ c[0] = 0
        /\ \A j \in 1 .. m : c[j] \in 1 .. Len(s) /\ c[j - 1] < c[j] /\ s[c[j]] = sep
        /\ \A i \in 1 .. Len(s) : s[i] = sep => \E j \in 1 .. m : c[j] = i
    BY <2>1 DEF CutsAre
  <2>3. ASSUME Len(r) = 3 PROVE \E p, q \in 1 .. Len(s) : p < q /\ seps = {p, q}
    <3>1. m = 2 /\ 1 \in 1 .. m /\ 2 \in 1 .. m /\ 2 - 1 = 1
      <4>1. m + 1 = 3 /\ m \in Nat
        BY <2>1, <2>2, <2>3
      <4> QED
        BY <4>1
    <3>2. /\ c[1] \in 1 .. Len(s) /\ c[2] \in 1 .. Len(s) /\ c[1] < c[2]
          /\ s[c[1]] = sep /\ s[c[2]] = sep
      BY <2>2, <3>1
    <3>3. ASSUME NEW i \in 1 .. Len(s), s[i] = sep PROVE i = c[1] \/ i = c[2]
      <4>1. PICK j \in 1 .. m : c[j] = i
        BY <2>2, <3>3
      <4>2. j = 1 \/ j = 2
        BY <3>1
      <4> QED
        BY <4>1, <4>2
    <3>4. seps = {c[1], c[2]}
      BY <3>2, <3>3
    <3> QED
      BY <3>2, <3>4
  <2>4. ASSUME NEW p \in 1 .. Len(s), NEW q \in 1 .. Len(s), p < q, seps = {p, q}
        PROVE  Len(r) = 3 /\ r[1] = SubSeq(s, 1, p - 1) /\ r[2] = SubSeq(s, p + 1, q - 1)
    <3>1. s[p] = sep /\ s[q] = sep /\ \A i \in 1 .. Len(s) : s[i] = sep => i = p \/ i = q
      BY <2>4
    <3>2. PICK a \in 1 .. m : c[a] = p
      BY <2>2, <3>1
    <3>3. PICK b \in 1 .. m : c[b] = q
      BY <2>2, <3>1
    <3>4. a # b
      BY <2>4, <3>2, <3>3
    <3>5. \A j \in 1 .. m : c[j] = p \/ c[j] = q
      BY <2>2, <3>1
    <3>6. m >= 2 /\ 1 \in 1 .. m /\ 2 \in 1 .. m /\ 2 - 1 = 1
      BY <2>2, <3>4
    <3>7. c[1] < c[2] /\ c[1] \in Nat /\ c[2] \in Nat
      BY <2>2, <3>6
    <3>8. c[1] = p /\ c[2] = q
      BY <2>4, <3>5, <3>6, <3>7
    <3>9. m = 2
      <4> SUFFICES ASSUME m # 2 PROVE FALSE
        OBVIOUS
      <4>1. 3 \in 1 .. m /\ 3 - 1 = 2
        BY <2>2, <3>6
      <4>2. c[2] < c[3] /\ c[3] \in Nat
        BY <2>2, <4>1
      <4> QED
        BY <2>4, <3>5, <3>8, <4>1, <4>2
    <3>10. Len(r) = 3 /\ r[1] = SubSeq(s, c[0] + 1, c[1] - 1)
           /\ r[2] = SubSeq(s, c[1] + 1, c[2] - 1)
      <4>1. 1 - 1 = 0 /\ 2 - 1 = 1 /\ m + 1 = 3
        BY <3>9
      <4> QED
        BY <2>1, <3>6, <4>1
    <3>11. c[0] + 1 = 1
      BY <2>2
    <3> QED
      BY <3>8, <3>10, <3>11
  <2> QED
    BY <2>3, <2>4 DEF TwoSeps, r
<1> QED
  BY <1>2, <1>3

-----------------------------------------------------------------------------
(* split without empty items *)

\* The characters a to b of s are a word.
IsWord(s, a, b) ==
    /\ a \in 1 .. Len(s) /\ b \in 1 .. Len(s) /\ a <= b
    /\ \A i \in a .. b : s[i] # "/"
    /\ a = 1 \/ s[a - 1] = "/"
    /\ b = Len(s) \/ s[b + 1] = "/"

\* A pair of places is a word of a string when it is one as IsWord has it.
LEMMA WordsAre ==
    ASSUME NEW s, NEW a, NEW b
    PROVE  <<a, b>> \in Words(s) <=> IsWord(s, a, b)
BY DEF Words, IsWord

\* ret has the words that end before c: whether there are some and whether there are
\* two, and the last one.
HasWords(s, ret, c) ==
    /\ Len(ret) = 0 => \A a, b : IsWord(s, a, b) => ~(b < c)
    /\ Len(ret) > 0 =>
         \E a, b : /\ IsWord(s, a, b) /\ b < c
                   /\ ret[Len(ret)] = SubSeq(s, a, b)
                   /\ \A x, y : IsWord(s, x, y) /\ y < c => x <= a
                   /\ Len(ret) >= 2 <=> \E x, y : IsWord(s, x, y) /\ y < a

\* After k characters, split has the words before the last slash, and reads what follows
\* it.
WordsSoFar(s, at, k) ==
    \E c \in 0 .. k : /\ c = 0 \/ s[c] = "/"
                      /\ \A i \in c + 1 .. k : s[i] # "/"
                      /\ at.item = SubSeq(s, c + 1, k)
                      /\ HasWords(s, at.ret, c)

\* Where a word ends, the one that split has read is kept.
LEMMA WordEnds ==
    ASSUME NEW C, NEW s \in Seq(C), NEW at, Typed(C, at), NEW k \in 0 .. Len(s),
           k = Len(s) \/ s[k + 1] = "/", WordsSoFar(s, at, k)
    PROVE  HasWords(s, Kept(at, FALSE), k + 1)
<1>1. Len(s) \in Nat
  BY LenProperties
<1>2. PICK c \in 0 .. k : /\ c = 0 \/ s[c] = "/"
                          /\ \A i \in c + 1 .. k : s[i] # "/"
                          /\ at.item = SubSeq(s, c + 1, k)
                          /\ HasWords(s, at.ret, c)
  BY DEF WordsSoFar
<1>3. at.ret \in Seq(Seq(C)) /\ at.item \in Seq(C) /\ Len(at.ret) \in Nat
  BY LenProperties DEF Typed
<1>4. Len(at.item) = k - c
  <2>1. c + 1 \in 1 .. k + 1
    OBVIOUS
  <2>2. Len(SubSeq(s, c + 1, k)) = k + 1 - (c + 1)
    BY <2>1, PieceMore
  <2> QED
    BY <1>2, <2>2
<1>5. ASSUME NEW x, NEW y, IsWord(s, x, y), y < k + 1
      PROVE  y < c \/ (x = c + 1 /\ y = k /\ c < k)
  <2>1. /\ x \in 1 .. Len(s) /\ y \in 1 .. Len(s) /\ x <= y
        /\ \A i \in x .. y : s[i] # "/"
        /\ x = 1 \/ s[x - 1] = "/"
        /\ y = Len(s) \/ s[y + 1] = "/"
    BY <1>5 DEF IsWord
  <2>2. y # c
    <3>1. y \in x .. y /\ y # 0
      BY <2>1
    <3> QED
      BY <1>2, <2>1, <3>1
  <2> SUFFICES ASSUME y > c PROVE x = c + 1 /\ y = k /\ c < k
    BY <1>1, <2>1, <2>2
  <2>3. y = k
    <3> SUFFICES ASSUME y # k PROVE FALSE
      OBVIOUS
    <3>1. y + 1 \in c + 1 .. k /\ y # Len(s)
      BY <1>1, <1>5, <2>1
    <3> QED
      BY <1>2, <2>1, <3>1
  <2>4. x > c
    <3> SUFFICES ASSUME x <= c PROVE FALSE
      BY <2>1
    <3>1. c \in x .. y /\ c # 0
      BY <2>1
    <3> QED
      BY <1>2, <2>1, <3>1
  <2>5. x = c + 1
    <3> SUFFICES ASSUME x # c + 1 PROVE FALSE
      OBVIOUS
    <3>1. x - 1 \in c + 1 .. k /\ x # 1
      BY <1>1, <1>5, <2>1, <2>3, <2>4
    <3> QED
      BY <1>2, <2>1, <3>1
  <2> QED
    BY <2>3, <2>5
<1>6. CASE at.item = <<>>
  <2>1. c = k
    <3>1. Len(at.item) = 0
      BY <1>6
    <3> QED
      BY <1>1, <1>4, <3>1
  <2>2. Kept(at, FALSE) = at.ret
    BY <1>6 DEF Kept
  <2>3. \A x, y : IsWord(s, x, y) => (y < k + 1 <=> y < c)
    <3> SUFFICES ASSUME NEW x, NEW y, IsWord(s, x, y) PROVE y < k + 1 <=> y < c
      OBVIOUS
    <3>1. y \in Nat
      BY <1>1 DEF IsWord
    <3> QED
      BY <1>5, <2>1, <3>1
  <2> DEFINE ret == at.ret
  <2>4. HasWords(s, ret, c)
    BY <1>2
  <2>5. HasWords(s, ret, k + 1)
    <3> HIDE DEF ret
    <3>1. Len(ret) = 0 => \A a, b : IsWord(s, a, b) => ~(b < k + 1)
      BY <2>3, <2>4 DEF HasWords
    <3>2. ASSUME Len(ret) > 0
          PROVE  \E a, b : /\ IsWord(s, a, b) /\ b < k + 1
                           /\ ret[Len(ret)] = SubSeq(s, a, b)
                           /\ \A x, y : IsWord(s, x, y) /\ y < k + 1 => x <= a
                           /\ Len(ret) >= 2 <=> \E x, y : IsWord(s, x, y) /\ y < a
      <4>1. PICK a, b : /\ IsWord(s, a, b) /\ b < c
                        /\ ret[Len(ret)] = SubSeq(s, a, b)
                        /\ \A x, y : IsWord(s, x, y) /\ y < c => x <= a
                        /\ Len(ret) >= 2 <=> \E x, y : IsWord(s, x, y) /\ y < a
        BY <2>4, <3>2 DEF HasWords
      <4>2. b < k + 1
        BY <2>3, <4>1
      <4>3. \A x, y : IsWord(s, x, y) /\ y < k + 1 => x <= a
        BY <2>3, <4>1
      <4> QED
        BY <4>1, <4>2, <4>3
    <3> QED
      BY <3>1, <3>2 DEF HasWords
  <2> QED
    BY <2>2, <2>5
<1>7. CASE at.item # <<>>
  <2>1. c < k
    <3>1. Len(at.item) # 0
      BY <1>3, <1>7, EmptySeq
    <3> QED
      BY <1>1, <1>4, <3>1
  <2> DEFINE ret == Kept(at, FALSE)
  <2>2. /\ Len(ret) = Len(at.ret) + 1 /\ ret[Len(ret)] = SubSeq(s, c + 1, k)
    <3>1. ret = Append(at.ret, at.item)
      BY <1>7 DEF Kept
    <3>2. Len(Append(at.ret, at.item)) = Len(at.ret) + 1
          /\ Append(at.ret, at.item)[Len(at.ret) + 1] = at.item
      BY <1>3, AppendProperties
    <3> QED
      BY <1>2, <3>1, <3>2
  <2> HIDE DEF ret
  <2>3. IsWord(s, c + 1, k)
    <3>1. c + 1 \in 1 .. Len(s) /\ k \in 1 .. Len(s) /\ c + 1 <= k
      BY <1>1, <2>1
    <3>2. c + 1 = 1 \/ s[(c + 1) - 1] = "/"
      BY <1>2
    <3> QED
      BY <1>2, <3>1, <3>2 DEF IsWord
  <2>4. \A x, y : IsWord(s, x, y) /\ y < k + 1 => x <= c + 1
    <3> SUFFICES ASSUME NEW x, NEW y, IsWord(s, x, y), y < k + 1 PROVE x <= c + 1
      OBVIOUS
    <3>1. x \in Nat /\ y \in Nat /\ x <= y
      BY <1>1 DEF IsWord
    <3>2. y < c \/ x = c + 1
      BY <1>5
    <3> QED
      BY <3>1, <3>2
  <2>5. Len(at.ret) >= 1 <=> \E x, y : IsWord(s, x, y) /\ y < c + 1
    <3>1. ASSUME Len(at.ret) >= 1 PROVE \E x, y : IsWord(s, x, y) /\ y < c + 1
      <4>1. PICK a, b : IsWord(s, a, b) /\ b < c
        BY <1>2, <1>3, <3>1 DEF HasWords
      <4>2. b \in Nat
        BY <1>1, <4>1 DEF IsWord
      <4> QED
        BY <4>1, <4>2
    <3>2. ASSUME NEW x, NEW y, IsWord(s, x, y), y < c + 1 PROVE Len(at.ret) >= 1
      <4>1. y \in Nat
        BY <1>1, <3>2 DEF IsWord
      <4>2. y < k + 1 /\ ~(y = k)
        BY <2>1, <3>2, <4>1
      <4>3. y < c
        BY <1>5, <3>2, <4>2
      <4>4. ~(Len(at.ret) = 0)
        BY <1>2, <3>2, <4>3 DEF HasWords
      <4> QED
        BY <1>3, <4>4
    <3> QED
      BY <3>1, <3>2
  <2>6. Len(ret) > 0 /\ (Len(ret) >= 2 <=> Len(at.ret) >= 1)
    BY <1>3, <2>2
  <2>7. k < k + 1
    OBVIOUS
  <2>8. HasWords(s, ret, k + 1)
    <3>1. ~(Len(ret) = 0)
      BY <2>6
    <3>2. /\ IsWord(s, c + 1, k) /\ k < k + 1
          /\ ret[Len(ret)] = SubSeq(s, c + 1, k)
          /\ \A x, y : IsWord(s, x, y) /\ y < k + 1 => x <= c + 1
          /\ Len(ret) >= 2 <=> \E x, y : IsWord(s, x, y) /\ y < c + 1
      BY <2>2, <2>3, <2>4, <2>5, <2>6, <2>7
    <3>3. \E a, b : /\ IsWord(s, a, b) /\ b < k + 1
                    /\ ret[Len(ret)] = SubSeq(s, a, b)
                    /\ \A x, y : IsWord(s, x, y) /\ y < k + 1 => x <= a
                    /\ Len(ret) >= 2 <=> \E x, y : IsWord(s, x, y) /\ y < a
      BY <3>2
    <3> QED
      BY <3>1, <3>3 DEF HasWords
  <2> QED
    BY <2>8 DEF ret
<1> QED
  BY <1>6, <1>7

\* Another character keeps it so.
LEMMA WordsMore ==
    ASSUME NEW C, NEW s \in Seq(C), NEW at, Typed(C, at), NEW k \in Nat,
           k + 1 <= Len(s), WordsSoFar(s, at, k)
    PROVE  WordsSoFar(s, Taking(at, s[k + 1], "/", FALSE), k + 1)
<1> DEFINE x == s[k + 1]
           next == Taking(at, x, "/", FALSE)
<1>1. Len(s) \in Nat /\ k \in 0 .. Len(s) /\ k < Len(s) /\ x \in C
  BY LenProperties
<1>2. /\ x # "/" => next.ret = at.ret /\ next.item = Append(at.item, x)
      /\ x = "/" => next.ret = Kept(at, FALSE) /\ next.item = <<>>
  <2> HIDE DEF x
  <2>1. \A sep : \A keep \in BOOLEAN :
          /\ x # sep => /\ Taking(at, x, sep, keep).ret = at.ret
                        /\ Taking(at, x, sep, keep).item = Append(at.item, x)
          /\ x = sep => /\ Taking(at, x, sep, keep).ret = Kept(at, keep)
                        /\ Taking(at, x, sep, keep).item = <<>>
    BY <1>1, TakingIs
  <2> QED
    BY <2>1
<1>3. CASE x = "/"
  <2>1. HasWords(s, next.ret, k + 1)
    <3>1. HasWords(s, Kept(at, FALSE), k + 1)
      BY <1>1, <1>3, WordEnds
    <3> QED
      BY <1>2, <1>3, <3>1
  <2>2. next.item = SubSeq(s, (k + 1) + 1, k + 1)
    <3>1. k + 1 \in 0 .. Len(s) /\ (k + 1) + 1 \in 1 .. (k + 1) + 1
      BY <1>1
    <3>2. SubSeq(s, (k + 1) + 1, k + 1) = <<>>
      BY <3>1, PieceMore
    <3> QED
      BY <1>2, <1>3, <3>2
  <2>3. k + 1 \in 0 .. k + 1 /\ \A i \in (k + 1) + 1 .. k + 1 : s[i] # "/"
    OBVIOUS
  <2> HIDE DEF next
  <2>4. WordsSoFar(s, next, k + 1)
    BY <1>3, <2>1, <2>2, <2>3 DEF WordsSoFar
  <2> QED
    BY <2>4 DEF next
<1>4. CASE x # "/"
  <2>1. PICK c \in 0 .. k : /\ c = 0 \/ s[c] = "/"
                            /\ \A i \in c + 1 .. k : s[i] # "/"
                            /\ at.item = SubSeq(s, c + 1, k)
                            /\ HasWords(s, at.ret, c)
    BY DEF WordsSoFar
  <2>2. next.item = SubSeq(s, c + 1, k + 1)
    <3>1. c + 1 \in 1 .. k + 1
      OBVIOUS
    <3>2. Append(SubSeq(s, c + 1, k), s[k + 1]) = SubSeq(s, c + 1, k + 1)
      BY <1>1, <3>1, PieceMore
    <3> QED
      BY <1>2, <1>4, <2>1, <3>2
  <2>3. c \in 0 .. k + 1 /\ \A i \in c + 1 .. k + 1 : s[i] # "/"
    <3>1. \A i \in c + 1 .. k + 1 : i = k + 1 \/ i \in c + 1 .. k
      OBVIOUS
    <3> QED
      BY <1>4, <2>1, <3>1
  <2>4. HasWords(s, next.ret, c)
    BY <1>2, <1>4, <2>1
  <2> HIDE DEF next
  <2>5. WordsSoFar(s, next, k + 1)
    BY <2>1, <2>2, <2>3, <2>4 DEF WordsSoFar
  <2> QED
    BY <2>5 DEF next
<1> QED
  BY <1>3, <1>4

\* Without empty items, split finds the words.
LEMMA SplitWords ==
    ASSUME NEW C, NEW s \in Seq(C)
    PROVE  /\ HasWords(s, split(s, "/", FALSE), Len(s) + 1)
           /\ split(s, "/", FALSE) \in Seq(Seq(C))
<1>1. Len(s) \in Nat
  BY LenProperties
<1>2. CASE s = <<>>
  <2>1. split(s, "/", FALSE) = <<>> /\ Len(s) = 0
    BY <1>2 DEF split
  <2>2. \A a, b : ~IsWord(s, a, b)
    BY <2>1 DEF IsWord
  <2>3. Len(<<>>) = 0 /\ ~(0 > 0) /\ <<>> \in Seq(Seq(C))
    OBVIOUS
  <2>4. HasWords(s, <<>>, Len(s) + 1)
    BY <2>2, <2>3 DEF HasWords
  <2> QED
    BY <2>1, <2>3, <2>4
<1>3. CASE s # <<>>
  <2>1. PICK f : /\ f[0] = ItemsStart
                 /\ \A k \in 1 .. Len(s) : f[k] = Taking(f[k - 1], s[k], "/", FALSE)
                 /\ split(s, "/", FALSE) = Kept(f[Len(s)], FALSE)
    BY <1>1, <1>3, SplitIs
  <2>2. \A k \in 0 .. Len(s) : Typed(C, f[k])
    <3>1. \A keep \in BOOLEAN :
            (\A k \in 1 .. Len(s) : f[k] = Taking(f[k - 1], s[k], "/", keep)) =>
                \A k \in 0 .. Len(s) : Typed(C, f[k])
      BY <2>1, SplitTyped
    <3> QED
      BY <2>1, <3>1
  <2> DEFINE S == {k \in Nat : k <= Len(s) => WordsSoFar(s, f[k], k)}
  <2>3. 0 \in S
    <3>1. f[0].ret = <<>> /\ f[0].item = <<>>
      BY <2>1 DEF ItemsStart
    <3>2. SubSeq(s, 0 + 1, 0) = <<>>
      <4>1. 0 \in 0 .. Len(s) /\ 0 + 1 \in 1 .. 0 + 1
        BY <1>1
      <4> QED
        BY <4>1, PieceMore
    <3>3. \A a, b : IsWord(s, a, b) => ~(b < 0)
      BY <1>1 DEF IsWord
    <3>4. Len(<<>>) = 0 /\ ~(0 > 0)
      OBVIOUS
    <3>5. HasWords(s, f[0].ret, 0)
      BY <3>1, <3>3, <3>4 DEF HasWords
    <3>6. 0 \in 0 .. 0 /\ \A i \in 0 + 1 .. 0 : s[i] # "/"
      OBVIOUS
    <3>7. WordsSoFar(s, f[0], 0)
      BY <3>1, <3>2, <3>5, <3>6 DEF WordsSoFar
    <3> QED
      BY <3>7
  <2>4. ASSUME NEW k \in Nat, k \in S PROVE k + 1 \in S
    <3> SUFFICES ASSUME k + 1 <= Len(s) PROVE WordsSoFar(s, f[k + 1], k + 1)
      OBVIOUS
    <3>1. WordsSoFar(s, f[k], k) /\ k + 1 \in 1 .. Len(s) /\ (k + 1) - 1 = k
          /\ k \in 0 .. Len(s)
      BY <1>1, <2>4
    <3>2. f[k + 1] = Taking(f[k], s[k + 1], "/", FALSE) /\ Typed(C, f[k])
      BY <2>1, <2>2, <3>1
    <3> QED
      BY <3>1, <3>2, WordsMore
  <2>5. \A k \in Nat : k \in S
    <3> HIDE DEF S
    <3> QED
      BY <2>3, <2>4, Inductive
  <2>6. WordsSoFar(s, f[Len(s)], Len(s)) /\ Typed(C, f[Len(s)]) /\ Len(s) \in 0 .. Len(s)
    BY <1>1, <2>2, <2>5
  <2>7. HasWords(s, Kept(f[Len(s)], FALSE), Len(s) + 1)
    BY <2>6, WordEnds
  <2>8. Kept(f[Len(s)], FALSE) \in Seq(Seq(C))
    BY <2>6 DEF Kept, Typed
  <2> QED
    BY <2>1, <2>7, <2>8
<1> QED
  BY <1>2, <1>3

-----------------------------------------------------------------------------
(* What a request line names *)

\* A piece of a piece.
LEMMA PieceOfPiece ==
    ASSUME NEW C, NEW s \in Seq(C), NEW k \in 0 .. Len(s), NEW a \in 1 .. k + 1,
           NEW j \in 0 .. k + 1 - a, NEW i \in 1 .. j + 1
    PROVE  SubSeq(SubSeq(s, a, k), i, j) = SubSeq(s, a + i - 1, a + j - 1)
<1> DEFINE t == SubSeq(s, a, k)
           x == SubSeq(t, i, j)
           y == SubSeq(s, a + i - 1, a + j - 1)
<1>1. Len(s) \in Nat
  BY LenProperties
<1>2. /\ t \in Seq(C) /\ Len(t) = k + 1 - a
      /\ \A l \in 1 .. k + 1 - a : t[l] = s[a + l - 1]
  BY PieceMore
<1> HIDE DEF t
<1>3. j \in 0 .. Len(t)
  BY <1>2
<1>4. x \in Seq(C) /\ Len(x) = j + 1 - i /\ \A l \in 1 .. j + 1 - i : x[l] = t[i + l - 1]
  BY <1>2, <1>3, PieceMore
<1>5. a + j - 1 \in 0 .. Len(s) /\ a + i - 1 \in 1 .. (a + j - 1) + 1
  BY <1>1
<1>6. /\ y \in Seq(C) /\ Len(y) = (a + j - 1) + 1 - (a + i - 1)
      /\ \A l \in 1 .. (a + j - 1) + 1 - (a + i - 1) : y[l] = s[(a + i - 1) + l - 1]
  BY <1>5, PieceMore
<1> HIDE DEF x, y
<1>7. (a + j - 1) + 1 - (a + i - 1) = j + 1 - i
  OBVIOUS
<1>8. ASSUME NEW l \in 1 .. Len(x) PROVE x[l] = y[l]
  <2>1. l \in 1 .. j + 1 - i /\ i + l - 1 \in 1 .. k + 1 - a
    BY <1>4
  <2>2. (a + i - 1) + l - 1 = a + (i + l - 1) - 1
    BY <2>1
  <2> QED
    BY <1>2, <1>4, <1>6, <1>7, <2>1, <2>2
<1>9. Len(x) = Len(y)
  BY <1>4, <1>6, <1>7
<1> QED
  BY <1>4, <1>6, <1>8, <1>9, SeqEqual DEF x, y, t

\* has_suffix, of one character, looks at the last.
LEMMA SuffixIs ==
    ASSUME NEW C, NEW s \in Seq(C), s # <<>>, NEW c
    PROVE  has_suffix(s, <<c>>) <=> s[Len(s)] = c
<1>1. Len(s) \in Nat \ {0}
  BY EmptySeq
<1> DEFINE one == Reverse(<<c>>)
           r == Reverse(s)
<1>2. one = <<c>>
  <2>1. one = [i \in 1 .. 1 |-> c]
    BY DEF Reverse
  <2> HIDE DEF one
  <2>2. one \in Seq({c}) /\ <<c>> \in Seq({c}) /\ Len(one) = 1 /\ Len(<<c>>) = 1
        /\ one[1] = c /\ <<c>>[1] = c
    BY <2>1
  <2>3. \A i \in 1 .. Len(one) : one[i] = <<c>>[i]
    BY <2>2
  <2> QED
    BY <2>2, <2>3, SeqEqual
<1>3. r \in Seq(C) /\ Len(r) = Len(s) /\ r[1] = s[Len(s)]
  <2>1. r = [i \in 1 .. Len(s) |-> s[(Len(s) - i) + 1]]
    BY DEF Reverse
  <2>2. \A i \in 1 .. Len(s) : s[(Len(s) - i) + 1] \in C
    BY <1>1
  <2> HIDE DEF r
  <2> QED
    BY <1>1, <2>1, <2>2
<1> HIDE DEF one, r
<1>4. SubSeq(one, 1, 1) = <<c>> /\ Len(one) = 1
  <2>1. <<c>> \in Seq({c}) /\ Len(<<c>>) = 1
    OBVIOUS
  <2> DEFINE x == <<c>>
             y == SubSeq(x, 1, 1)
  <2>2. x \in Seq({c}) /\ Len(x) = 1 /\ x[1] = c
    OBVIOUS
  <2>3. 1 \in 0 .. Len(x) /\ 1 \in 1 .. 1 + 1 /\ 1 + 1 - 1 = 1 /\ 1 + 1 - 1 = 1
    BY <2>2
  <2> HIDE DEF x
  <2>4. y \in Seq({c}) /\ Len(y) = 1 + 1 - 1 /\ \A i \in 1 .. 1 + 1 - 1 : y[i] = x[1 + i - 1]
    BY <2>2, <2>3, PieceMore
  <2> HIDE DEF y
  <2>5. Len(y) = Len(x) /\ \A i \in 1 .. Len(y) : y[i] = x[i]
    BY <2>2, <2>4
  <2>6. y = x
    BY <2>2, <2>4, <2>5, SeqEqual
  <2> QED
    BY <1>2, <2>2, <2>6 DEF x, y
<1>5. SubSeq(r, 1, 1) = <<r[1]>>
  <2> DEFINE x == <<r[1]>>
             y == SubSeq(r, 1, 1)
  <2>1. r[1] \in C
    BY <1>1, <1>3
  <2>2. x \in Seq(C) /\ Len(x) = 1 /\ x[1] = r[1]
    BY <2>1
  <2>3. 1 \in 0 .. Len(r) /\ 1 \in 1 .. 1 + 1
    BY <1>1, <1>3
  <2>4. y \in Seq(C) /\ Len(y) = 1 + 1 - 1 /\ \A i \in 1 .. 1 + 1 - 1 : y[i] = r[1 + i - 1]
    BY <1>3, <2>3, PieceMore
  <2> HIDE DEF x, y
  <2>5. Len(y) = Len(x) /\ \A i \in 1 .. Len(y) : y[i] = x[i]
    BY <2>2, <2>4
  <2> QED
    BY <2>2, <2>4, <2>5, SeqEqual DEF x, y
<1>6. IsSuffix(<<c>>, s) <=> <<c>> = <<r[1]>>
  <2>1. IsSuffix(<<c>>, s) <=> IsPrefix(one, r)
    BY DEF IsSuffix, one, r
  <2>2. IsPrefix(one, r) <=> 1 <= Len(r) /\ SubSeq(one, 1, 1) = SubSeq(r, 1, 1)
    BY <1>4 DEF IsPrefix
  <2>3. 1 <= Len(r)
    BY <1>1, <1>3
  <2>4. (SubSeq(one, 1, 1) = SubSeq(r, 1, 1)) <=> (<<c>> = <<r[1]>>)
    BY <1>4, <1>5
  <2> QED
    BY <2>1, <2>2, <2>3, <2>4
<1>7. <<c>> = <<r[1]>> <=> r[1] = c
  OBVIOUS
<1>8. <<c>> # <<>>
  OBVIOUS
<1> QED
  BY <1>3, <1>6, <1>7, <1>8 DEF has_suffix

\* The method is GET, in capitals or not.
LEMMA UpperIs ==
    ASSUME NEW C, NEW s \in Seq(C)
    PROVE  to_upper(s) = <<"GET">> <=> s \in {<<"GET">>, <<"get">>}
<1> DEFINE t == to_upper(s)
<1>1. Len(s) \in Nat
  BY LenProperties
<1>2. t = [i \in 1 .. Len(s) |-> IF s[i] = "get" THEN "GET" ELSE s[i]]
  BY DEF to_upper
<1> HIDE DEF t
<1>3. t \in Seq(C \cup {"GET"}) /\ Len(t) = Len(s)
  <2>1. \A i \in 1 .. Len(s) : (IF s[i] = "get" THEN "GET" ELSE s[i]) \in C \cup {"GET"}
    BY <1>1
  <2> QED
    BY <1>1, <1>2, <2>1
<1>4. ASSUME t = <<"GET">> PROVE s \in {<<"GET">>, <<"get">>}
  <2>1. Len(t) = 1 /\ t[1] = "GET"
    BY <1>4
  <2>2. Len(s) = 1 /\ 1 \in 1 .. Len(s)
    BY <1>3, <2>1
  <2>3. s[1] = "GET" \/ s[1] = "get"
    BY <1>2, <2>1, <2>2
  <2>4. s = <<s[1]>>
    <3> DEFINE x == <<s[1]>>
    <3>1. s[1] \in C
      BY <2>2
    <3>2. x \in Seq(C) /\ Len(x) = 1 /\ x[1] = s[1]
      BY <3>1
    <3> HIDE DEF x
    <3>3. Len(s) = Len(x) /\ \A i \in 1 .. Len(s) : s[i] = x[i]
      BY <2>2, <3>2
    <3> QED
      BY <3>2, <3>3, SeqEqual DEF x
  <2> QED
    BY <2>3, <2>4
<1>5. ASSUME s \in {<<"GET">>, <<"get">>} PROVE t = <<"GET">>
  <2>1. Len(s) = 1 /\ (s[1] = "GET" \/ s[1] = "get")
    BY <1>5
  <2>2. 1 \in 1 .. Len(s) /\ t[1] = "GET"
    BY <1>2, <2>1
  <2> DEFINE x == <<"GET">>
  <2>3. x \in Seq(C \cup {"GET"}) /\ Len(x) = 1 /\ x[1] = "GET"
    OBVIOUS
  <2> HIDE DEF x
  <2>4. Len(t) = Len(x) /\ \A i \in 1 .. Len(t) : t[i] = x[i]
    BY <1>3, <2>1, <2>2, <2>3
  <2>5. t = x
    BY <1>3, <2>3, <2>4, SeqEqual
  <2> QED
    BY <2>5 DEF x
<1> QED
  BY <1>4, <1>5 DEF t

\* Two words that begin together end together.
LEMMA WordOnce ==
    ASSUME NEW s, Len(s) \in Nat, NEW a, NEW b, IsWord(s, a, b), NEW d, IsWord(s, a, d)
    PROVE  b = d
<1>1. /\ a \in 1 .. Len(s) /\ b \in a .. Len(s) /\ d \in a .. Len(s)
      /\ \A i \in a .. b : s[i] # "/"
      /\ \A i \in a .. d : s[i] # "/"
      /\ b = Len(s) \/ s[b + 1] = "/"
      /\ d = Len(s) \/ s[d + 1] = "/"
  BY DEF IsWord
<1>2. ~(b < d)
  <2> SUFFICES ASSUME b < d PROVE FALSE
    OBVIOUS
  <2>1. b + 1 \in a .. d /\ b # Len(s)
    BY <1>1
  <2> QED
    BY <1>1, <2>1
<1>3. ~(d < b)
  <2> SUFFICES ASSUME d < b PROVE FALSE
    OBVIOUS
  <2>1. d + 1 \in a .. b /\ d # Len(s)
    BY <1>1
  <2> QED
    BY <1>1, <2>1
<1> QED
  BY <1>1, <1>2, <1>3

\* NamedBy in terms of words.
LEMMA NamedByIs ==
    ASSUME NEW uri, NEW name
    PROVE  name \in NamedBy(uri) <=>
             \E a, b : /\ IsWord(uri, a, b) /\ name = SubSeq(uri, a, b - 1)
                       /\ uri[b] = Flv
                       /\ \E x, y : IsWord(uri, x, y) /\ y < a
                       /\ \A x, y : IsWord(uri, x, y) => x <= a
<1>1. \A w \in Words(uri) : w = <<w[1], w[2]>> /\ IsWord(uri, w[1], w[2])
  BY WordsAre DEF Words
<1>2. \A a, b : IsWord(uri, a, b) => <<a, b>> \in Words(uri)
  BY WordsAre
<1>3. ASSUME name \in NamedBy(uri)
      PROVE  \E a, b : /\ IsWord(uri, a, b) /\ name = SubSeq(uri, a, b - 1)
                       /\ uri[b] = Flv
                       /\ \E x, y : IsWord(uri, x, y) /\ y < a
                       /\ \A x, y : IsWord(uri, x, y) => x <= a
  <2>1. PICK w \in Words(uri) : /\ name = SubSeq(uri, w[1], w[2] - 1)
                                /\ uri[w[2]] = Flv
                                /\ \E v \in Words(uri) : v[2] < w[1]
                                /\ \A v \in Words(uri) : v[1] <= w[1]
    BY <1>3 DEF NamedBy
  <2>2. \E x, y : IsWord(uri, x, y) /\ y < w[1]
    BY <1>1, <2>1
  <2>3. ASSUME NEW x, NEW y, IsWord(uri, x, y) PROVE x <= w[1]
    <3>1. <<x, y>> \in Words(uri) /\ <<x, y>>[1] = x
      BY <1>2, <2>3
    <3> QED
      BY <2>1, <3>1
  <2> QED
    BY <1>1, <2>1, <2>2, <2>3
<1>4. ASSUME NEW a, NEW b, IsWord(uri, a, b), name = SubSeq(uri, a, b - 1), uri[b] = Flv,
             \E x, y : IsWord(uri, x, y) /\ y < a,
             \A x, y : IsWord(uri, x, y) => x <= a
      PROVE  name \in NamedBy(uri)
  <2> DEFINE w == <<a, b>>
  <2>1. w \in Words(uri) /\ w[1] = a /\ w[2] = b
    BY <1>2, <1>4
  <2>2. \E v \in Words(uri) : v[2] < w[1]
    <3>1. PICK x, y : IsWord(uri, x, y) /\ y < a
      BY <1>4
    <3>2. <<x, y>> \in Words(uri) /\ <<x, y>>[2] = y
      BY <1>2, <3>1
    <3> QED
      BY <2>1, <3>1, <3>2
  <2>3. \A v \in Words(uri) : v[1] <= w[1]
    BY <1>1, <1>4, <2>1
  <2> HIDE DEF w
  <2>4. w \in {x \in Words(uri) : /\ uri[x[2]] = Flv
                                  /\ \E v \in Words(uri) : v[2] < x[1]
                                  /\ \A v \in Words(uri) : v[1] <= x[1]}
    BY <1>4, <2>1, <2>2, <2>3
  <2>5. name = SubSeq(uri, w[1], w[2] - 1)
    BY <1>4, <2>1
  <2> QED
    BY <2>4, <2>5 DEF NamedBy
<1> QED
  BY <1>3, <1>4

\* The last of the words of a uri names a stream, or none does.
LEMMA LastSegment ==
    ASSUME NEW C, NEW uri \in Seq(C), NEW segs \in Seq(Seq(C)),
           HasWords(uri, segs, Len(uri) + 1)
    PROVE  /\ Len(segs) >= 2 /\ has_suffix(Last(segs), <<Flv>>) =>
                trim_suffix(Last(segs), <<Flv>>) \in NamedBy(uri)
           /\ NamedBy(uri) # {} => Len(segs) >= 2 /\ has_suffix(Last(segs), <<Flv>>)
<1>0. Len(segs) \in Nat /\ Len(uri) \in Nat
  BY LenProperties
<1>1. HasWords(uri, segs, Len(uri) + 1) /\ Len(uri) \in Nat
  BY <1>0
<1>2. \A x, y : IsWord(uri, x, y) => y < Len(uri) + 1
  BY <1>1 DEF IsWord
<1>3. ASSUME Len(segs) > 0
      PROVE  \E a, b : /\ IsWord(uri, a, b) /\ Last(segs) = SubSeq(uri, a, b)
                       /\ \A x, y : IsWord(uri, x, y) => x <= a
                       /\ Len(segs) >= 2 <=> \E x, y : IsWord(uri, x, y) /\ y < a
                       /\ has_suffix(Last(segs), <<Flv>>) <=> uri[b] = Flv
                       /\ has_suffix(Last(segs), <<Flv>>) =>
                            trim_suffix(Last(segs), <<Flv>>) = SubSeq(uri, a, b - 1)
  <2>1. PICK a, b : /\ IsWord(uri, a, b)
                    /\ segs[Len(segs)] = SubSeq(uri, a, b)
                    /\ \A x, y : IsWord(uri, x, y) /\ y < Len(uri) + 1 => x <= a
                    /\ Len(segs) >= 2 <=> \E x, y : IsWord(uri, x, y) /\ y < a
    BY <1>1, <1>3 DEF HasWords
  <2> DEFINE last == SubSeq(uri, a, b)
  <2>2. Last(segs) = last
    BY <2>1 DEF Last
  <2>3. a \in 1 .. Len(uri) /\ b \in a .. Len(uri) /\ b \in 0 .. Len(uri) /\ a \in 1 .. b + 1
    BY <1>1, <2>1 DEF IsWord
  <2>4. /\ last \in Seq(C) /\ Len(last) = b + 1 - a
        /\ \A i \in 1 .. b + 1 - a : last[i] = uri[a + i - 1]
    BY <2>3, PieceMore
  <2>5. Len(last) \in 1 .. b + 1 - a /\ a + Len(last) - 1 = b
    BY <1>1, <2>3, <2>4
  <2>6. last # <<>> /\ last[Len(last)] = uri[b]
    <3>1. last[Len(last)] = uri[a + Len(last) - 1]
      BY <2>4, <2>5
    <3> DEFINE l == Len(last)
    <3>2. l # 0
      <4>1. l \in 1 .. b + 1 - a
        BY <2>5
      <4> HIDE DEF l
      <4> QED
        BY <2>3, <4>1
    <3> HIDE DEF last
    <3> QED
      BY <2>5, <3>1, <3>2
  <2>7. has_suffix(last, <<Flv>>) <=> uri[b] = Flv
    <3> HIDE DEF last
    <3> QED
      BY <2>4, <2>6, SuffixIs
  <2>8. has_suffix(last, <<Flv>>) => trim_suffix(last, <<Flv>>) = SubSeq(uri, a, b - 1)
    <3>1. b - a \in 0 .. b + 1 - a /\ 1 \in 1 .. (b - a) + 1 /\ a + 1 - 1 = a
          /\ a + (b - a) - 1 = b - 1 /\ Len(last) - 1 = b - a
      BY <1>1, <2>3, <2>4
    <3>2. SubSeq(last, 1, b - a) = SubSeq(uri, a + 1 - 1, a + (b - a) - 1)
      BY <2>3, <3>1, PieceOfPiece
    <3>3. SubSeq(last, 1, Len(last) - 1) = SubSeq(uri, a, b - 1)
      BY <3>1, <3>2
    <3>4. Len(<<Flv>>) = 1
      OBVIOUS
    <3> HIDE DEF last
    <3> QED
      BY <3>3, <3>4 DEF trim_suffix
  <2> HIDE DEF last
  <2>9. \A x, y : IsWord(uri, x, y) => x <= a
    BY <1>2, <2>1
  <2> QED
    BY <2>1, <2>2, <2>7, <2>8, <2>9 DEF last
<1>4. ASSUME Len(segs) >= 2, has_suffix(Last(segs), <<Flv>>)
      PROVE  trim_suffix(Last(segs), <<Flv>>) \in NamedBy(uri)
  <2>1. Len(segs) > 0
    BY <1>0, <1>4
  <2> DEFINE name == trim_suffix(Last(segs), <<Flv>>)
  <2>2. PICK a, b : /\ IsWord(uri, a, b)
                    /\ \A x, y : IsWord(uri, x, y) => x <= a
                    /\ \E x, y : IsWord(uri, x, y) /\ y < a
                    /\ uri[b] = Flv
                    /\ name = SubSeq(uri, a, b - 1)
    BY <1>3, <1>4, <2>1
  <2> HIDE DEF name
  <2>3. name \in NamedBy(uri)
    BY <2>2, NamedByIs
  <2> QED
    BY <2>3 DEF name
<1>5. ASSUME NamedBy(uri) # {} PROVE Len(segs) >= 2 /\ has_suffix(Last(segs), <<Flv>>)
  <2>1. PICK name : name \in NamedBy(uri)
    BY <1>5
  <2>2. PICK c, d : /\ IsWord(uri, c, d) /\ uri[d] = Flv
                    /\ \E x, y : IsWord(uri, x, y) /\ y < c
                    /\ \A x, y : IsWord(uri, x, y) => x <= c
    BY <2>1, NamedByIs
  <2>3. Len(segs) > 0
    <3> SUFFICES ASSUME Len(segs) = 0 PROVE FALSE
      BY <1>0
    <3>1. ~(d < Len(uri) + 1)
      BY <1>1, <2>2 DEF HasWords
    <3> QED
      BY <1>2, <2>2, <3>1
  <2>4. PICK a, b : /\ IsWord(uri, a, b)
                    /\ \A x, y : IsWord(uri, x, y) => x <= a
                    /\ Len(segs) >= 2 <=> \E x, y : IsWord(uri, x, y) /\ y < a
                    /\ has_suffix(Last(segs), <<Flv>>) <=> uri[b] = Flv
    BY <1>3, <2>3
  <2>5. a \in Nat /\ c \in Nat /\ a <= c /\ c <= a
    <3>1. a <= c /\ c <= a
      BY <2>2, <2>4
    <3>2. a \in 1 .. Len(uri) /\ c \in 1 .. Len(uri)
      BY <2>2, <2>4 DEF IsWord
    <3> QED
      BY <1>0, <3>1, <3>2
  <2>6. a = c
    BY <2>5
  <2>7. b = d
    BY <1>1, <2>2, <2>4, <2>6, WordOnce
  <2> QED
    BY <2>2, <2>4, <2>6, <2>7
<1> QED
  BY <1>4, <1>5

\* The two blanks of a line, when it has two, a method that is GET, and a carriage return
\* at the end.
Getting(line, p, q) ==
    /\ p \in 1 .. Len(line) /\ q \in 1 .. Len(line) /\ p < q
    /\ {i \in 1 .. Len(line) : line[i] = " "} = {p, q}
    /\ SubSeq(line, 1, p - 1) \in {<<"GET">>, <<"get">>}
    /\ line[Len(line)] = "\r"

\* Such lines, and only they, have three fields, GET first.
LEMMA FieldsAre ==
    ASSUME NEW C, NEW line \in Seq(C)
    PROVE  /\ Len(Fields(line)) = 3 /\ to_upper(Fields(line)[1]) = <<"GET">> =>
                \E p, q : Getting(line, p, q) /\ Fields(line)[2] = SubSeq(line, p + 1, q - 1)
           /\ \A p, q : Getting(line, p, q) =>
                /\ Len(Fields(line)) = 3 /\ to_upper(Fields(line)[1]) = <<"GET">>
                /\ Fields(line)[2] = SubSeq(line, p + 1, q - 1)
<1> DEFINE n == Len(line)
           t == SubSeq(line, 1, n - 1)
           ends == line # <<>> /\ line[n] = "\r"
<1>0. n \in Nat /\ (line # <<>> => n # 0)
  BY EmptySeq
<1>1. Fields(line) = IF ends THEN split(t, " ", TRUE) ELSE <<>>
  BY DEF Fields, Front, Last
<1>2. CASE ~ends
  <2> HIDE DEF ends
  <2>1. Fields(line) = <<>>
    BY <1>1, <1>2
  <2>2. ~(Len(Fields(line)) = 3)
    BY <2>1
  <2>3. \A p, q : ~Getting(line, p, q)
    <3> SUFFICES ASSUME NEW p, NEW q, Getting(line, p, q) PROVE FALSE
      OBVIOUS
    <3>1. p \in 1 .. n /\ line[n] = "\r"
      BY DEF Getting
    <3>2. line # <<>>
      <4> SUFFICES ASSUME line = <<>> PROVE FALSE
        OBVIOUS
      <4>1. n = 0
        OBVIOUS
      <4> QED
        BY <3>1, <4>1
    <3> QED
      BY <1>2, <3>1, <3>2 DEF ends
  <2> QED
    BY <2>2, <2>3
<1>3. CASE ends
  <2> DEFINE r == split(t, " ", TRUE)
             seps == {i \in 1 .. Len(t) : t[i] = " "}
             blanks == {i \in 1 .. n : line[i] = " "}
  <2>1. Fields(line) = r
    BY <1>1, <1>3
  <2>2. n - 1 \in 0 .. n /\ 1 \in 1 .. (n - 1) + 1 /\ (n - 1) + 1 - 1 = n - 1
        /\ n \in Nat \ {0}
    BY <1>0, <1>3
  <2>3. /\ t \in Seq(C) /\ Len(t) = n - 1
        /\ \A i \in 1 .. n - 1 : t[i] = line[1 + i - 1]
    <3>1. /\ t \in Seq(C) /\ Len(t) = (n - 1) + 1 - 1
          /\ \A i \in 1 .. (n - 1) + 1 - 1 : t[i] = line[1 + i - 1]
      BY <2>2, PieceMore
    <3> QED
      BY <2>2, <3>1
  <2>4. seps = blanks
    <3>1. \A i \in 1 .. n - 1 : 1 + i - 1 = i
      BY <2>2
    <3>2. \A i \in 1 .. n : i = n \/ i \in 1 .. n - 1
      <4> HIDE DEF n
      <4> QED
        BY <2>2
    <3>3. \A i \in 1 .. n - 1 : i \in 1 .. n
      BY <2>2
    <3>4. line[n] # " "
      BY <1>3
    <3> HIDE DEF t, ends, n
    <3> QED
      BY <2>3, <3>1, <3>2, <3>3, <3>4
  <2>5. ASSUME NEW p \in 1 .. n - 1, NEW q \in 1 .. n - 1, p < q
        PROVE  /\ SubSeq(t, 1, p - 1) = SubSeq(line, 1, p - 1)
               /\ SubSeq(t, p + 1, q - 1) = SubSeq(line, p + 1, q - 1)
               /\ SubSeq(line, 1, p - 1) \in Seq(C)
    <3>1. /\ p - 1 \in 0 .. (n - 1) + 1 - 1 /\ 1 \in 1 .. (p - 1) + 1
          /\ q - 1 \in 0 .. (n - 1) + 1 - 1 /\ p + 1 \in 1 .. (q - 1) + 1
          /\ p - 1 \in 0 .. n
          /\ 1 + 1 - 1 = 1 /\ 1 + (p - 1) - 1 = p - 1
          /\ 1 + (p + 1) - 1 = p + 1 /\ 1 + (q - 1) - 1 = q - 1
      BY <2>2, <2>5
    <3>2. SubSeq(t, 1, p - 1) = SubSeq(line, 1 + 1 - 1, 1 + (p - 1) - 1)
      BY <2>2, <3>1, PieceOfPiece
    <3>3. SubSeq(t, p + 1, q - 1) = SubSeq(line, 1 + (p + 1) - 1, 1 + (q - 1) - 1)
      BY <2>2, <3>1, PieceOfPiece
    <3>4. SubSeq(line, 1, p - 1) \in Seq(C)
      BY <3>1, PieceMore
    <3> HIDE DEF t
    <3> QED
      BY <3>1, <3>2, <3>3, <3>4
  <2>6. /\ Len(r) = 3 => \E p, q \in 1 .. n - 1 : p < q /\ seps = {p, q}
        /\ \A p, q \in 1 .. n - 1 :
             p < q /\ seps = {p, q} => /\ Len(r) = 3
                                       /\ r[1] = SubSeq(t, 1, p - 1)
                                       /\ r[2] = SubSeq(t, p + 1, q - 1)
    <3>1. /\ Len(r) = 3 => \E p, q : TwoSeps(t, " ", p, q)
          /\ \A p, q : TwoSeps(t, " ", p, q) => /\ Len(r) = 3
                                                /\ r[1] = SubSeq(t, 1, p - 1)
                                                /\ r[2] = SubSeq(t, p + 1, q - 1)
      <4>1. t \in Seq(C)
        BY <2>3
      <4> HIDE DEF t
      <4> QED
        BY <4>1, ThreeFields, Zenon
    <3>2. \A p, q : TwoSeps(t, " ", p, q) <=> /\ p \in 1 .. Len(t) /\ q \in 1 .. Len(t)
                                              /\ p < q /\ seps = {p, q}
      BY Zenon DEF TwoSeps
    <3>3. Len(t) = n - 1
      BY <2>3
    <3> HIDE DEF t, r, seps
    <3> QED
      BY <3>1, <3>2, <3>3
  <2> HIDE DEF r, seps, t
  <2>7. ASSUME Len(r) = 3, to_upper(r[1]) = <<"GET">>
        PROVE  \E p, q : Getting(line, p, q) /\ r[2] = SubSeq(line, p + 1, q - 1)
    <3>1. PICK p, q \in 1 .. n - 1 : p < q /\ seps = {p, q}
      BY <2>6, <2>7
    <3>2. r[1] = SubSeq(line, 1, p - 1) /\ r[2] = SubSeq(line, p + 1, q - 1)
      <4>1. r[1] = SubSeq(t, 1, p - 1) /\ r[2] = SubSeq(t, p + 1, q - 1)
        BY <2>6, <3>1
      <4>2. SubSeq(t, 1, p - 1) = SubSeq(line, 1, p - 1)
            /\ SubSeq(t, p + 1, q - 1) = SubSeq(line, p + 1, q - 1)
        BY <2>5, <3>1
      <4> QED
        BY <4>1, <4>2
    <3>3. SubSeq(line, 1, p - 1) \in {<<"GET">>, <<"get">>}
      <4> DEFINE m == SubSeq(line, 1, p - 1)
      <4>1. m \in Seq(C) /\ to_upper(m) = <<"GET">>
        BY <2>5, <2>7, <3>1, <3>2
      <4> HIDE DEF m
      <4>2. m \in {<<"GET">>, <<"get">>}
        BY <4>1, UpperIs
      <4> QED
        BY <4>2 DEF m
    <3>4. p \in 1 .. n /\ q \in 1 .. n
      BY <2>2
    <3>5. Getting(line, p, q)
      BY <1>3, <2>4, <3>1, <3>3, <3>4 DEF Getting
    <3> QED
      BY <3>2, <3>5
  <2>8. ASSUME NEW p, NEW q, Getting(line, p, q)
        PROVE  /\ Len(r) = 3 /\ to_upper(r[1]) = <<"GET">>
               /\ r[2] = SubSeq(line, p + 1, q - 1)
    <3>1. /\ p \in 1 .. n /\ q \in 1 .. n /\ p < q /\ blanks = {p, q}
          /\ SubSeq(line, 1, p - 1) \in {<<"GET">>, <<"get">>}
      BY <2>8 DEF Getting
    <3>2. p \in seps /\ q \in seps /\ seps = {p, q}
      BY <2>4, <3>1
    <3>3. p \in 1 .. n - 1 /\ q \in 1 .. n - 1
      BY <2>3, <3>2 DEF seps
    <3>4. Len(r) = 3 /\ r[1] = SubSeq(line, 1, p - 1) /\ r[2] = SubSeq(line, p + 1, q - 1)
      <4>1. Len(r) = 3 /\ r[1] = SubSeq(t, 1, p - 1) /\ r[2] = SubSeq(t, p + 1, q - 1)
        BY <2>6, <3>1, <3>2, <3>3
      <4>2. SubSeq(t, 1, p - 1) = SubSeq(line, 1, p - 1)
            /\ SubSeq(t, p + 1, q - 1) = SubSeq(line, p + 1, q - 1)
        BY <2>5, <3>1, <3>3
      <4> QED
        BY <4>1, <4>2
    <3>5. to_upper(SubSeq(line, 1, p - 1)) = <<"GET">>
      <4> DEFINE m == SubSeq(line, 1, p - 1)
      <4>1. m \in Seq(C) /\ m \in {<<"GET">>, <<"get">>}
        BY <2>5, <3>1, <3>3
      <4> HIDE DEF m
      <4>2. to_upper(m) = <<"GET">>
        BY <4>1, UpperIs
      <4> QED
        BY <4>2 DEF m
    <3> QED
      BY <3>4, <3>5
  <2> QED
    BY <2>1, <2>7, <2>8
<1> QED
  BY <1>2, <1>3

\* Asked in these terms.
LEMMA AskedIs ==
    ASSUME NEW line, NEW name
    PROVE  name \in Asked(line) <=>
             \E p, q : Getting(line, p, q) /\ name \in NamedBy(SubSeq(line, p + 1, q - 1))
<1> DEFINE P == {x \in (1 .. Len(line)) \X (1 .. Len(line)) :
                   /\ x[1] < x[2] /\ {s \in 1 .. Len(line) : line[s] = " "} = {x[1], x[2]}
                   /\ SubSeq(line, 1, x[1] - 1) \in {<<"GET">>, <<"get">>}
                   /\ line[Len(line)] = "\r"}
<1>1. Asked(line) = UNION {NamedBy(SubSeq(line, x[1] + 1, x[2] - 1)) : x \in P}
  BY DEF Asked
<1>2. \A x \in P : Getting(line, x[1], x[2])
  BY DEF Getting
<1>3. \A p, q : Getting(line, p, q) => <<p, q>> \in P
  BY DEF Getting
<1> HIDE DEF P
<1>4. name \in Asked(line) <=> \E x \in P : name \in NamedBy(SubSeq(line, x[1] + 1, x[2] - 1))
  BY <1>1
<1>5. ASSUME NEW p, NEW q, Getting(line, p, q), name \in NamedBy(SubSeq(line, p + 1, q - 1))
      PROVE  name \in Asked(line)
  <2> DEFINE x == <<p, q>>
  <2>1. x \in P /\ x[1] = p /\ x[2] = q
    BY <1>3, <1>5
  <2> HIDE DEF x
  <2> QED
    BY <1>4, <1>5, <2>1
<1> QED
  BY <1>2, <1>4, <1>5

\* The handler registers a player for what its line asks for, and refuses it only if
\* that is nothing.
LEMMA UsableIsAsked ==
    ASSUME NEW C, NEW line \in Seq(C)
    PROVE  /\ Usable(line) => stream_name(line) \in Asked(line)
           /\ ~Usable(line) => Asked(line) = {}
<1> DEFINE segs == Segments(line)
<1>1. ASSUME NEW p, NEW q, Getting(line, p, q), Fields(line)[2] = SubSeq(line, p + 1, q - 1)
      PROVE  LET uri == SubSeq(line, p + 1, q - 1)
             IN  /\ uri \in Seq(C) /\ segs \in Seq(Seq(C))
                 /\ HasWords(uri, segs, Len(uri) + 1)
  <2> DEFINE uri == SubSeq(line, p + 1, q - 1)
  <2>1. Len(line) \in Nat
    BY LenProperties
  <2>2. p \in 1 .. Len(line) /\ q \in 1 .. Len(line) /\ p < q
    BY <1>1 DEF Getting
  <2>3. q - 1 \in 0 .. Len(line) /\ p + 1 \in 1 .. (q - 1) + 1
    BY <2>1, <2>2
  <2>4. uri \in Seq(C)
    BY <2>3, PieceMore
  <2>5. segs = split(uri, "/", FALSE)
    BY <1>1 DEF Segments
  <2> HIDE DEF uri
  <2>6. HasWords(uri, split(uri, "/", FALSE), Len(uri) + 1)
        /\ split(uri, "/", FALSE) \in Seq(Seq(C))
    BY <2>4, SplitWords
  <2> HIDE DEF segs
  <2>7. HasWords(uri, segs, Len(uri) + 1) /\ segs \in Seq(Seq(C))
    BY <2>5, <2>6
  <2> QED
    BY <2>4, <2>7 DEF uri
<1>2. Usable(line) <=> /\ Len(Fields(line)) = 3 /\ to_upper(Fields(line)[1]) = <<"GET">>
                       /\ Len(segs) >= 2 /\ has_suffix(Last(segs), <<Flv>>)
  BY DEF Usable
<1>3. stream_name(line) = trim_suffix(Last(segs), <<Flv>>)
  BY DEF stream_name
<1> HIDE DEF segs
<1>4. ASSUME Usable(line) PROVE stream_name(line) \in Asked(line)
  <2>1. PICK p, q : Getting(line, p, q) /\ Fields(line)[2] = SubSeq(line, p + 1, q - 1)
    BY <1>2, <1>4, FieldsAre
  <2> DEFINE uri == SubSeq(line, p + 1, q - 1)
  <2>2. uri \in Seq(C) /\ segs \in Seq(Seq(C)) /\ HasWords(uri, segs, Len(uri) + 1)
    BY <1>1, <2>1
  <2> HIDE DEF uri
  <2>3. Len(segs) >= 2 /\ has_suffix(Last(segs), <<Flv>>)
    BY <1>2, <1>4
  <2>4. trim_suffix(Last(segs), <<Flv>>) \in NamedBy(uri)
    BY <2>2, <2>3, LastSegment
  <2> QED
    BY <1>3, <2>1, <2>4, AskedIs DEF uri
<1>5. ASSUME NEW name \in Asked(line) PROVE Usable(line)
  <2>1. PICK p, q : Getting(line, p, q) /\ name \in NamedBy(SubSeq(line, p + 1, q - 1))
    BY <1>5, AskedIs
  <2>2. /\ Len(Fields(line)) = 3 /\ to_upper(Fields(line)[1]) = <<"GET">>
        /\ Fields(line)[2] = SubSeq(line, p + 1, q - 1)
    BY <2>1, FieldsAre
  <2> DEFINE uri == SubSeq(line, p + 1, q - 1)
  <2>3. uri \in Seq(C) /\ segs \in Seq(Seq(C)) /\ HasWords(uri, segs, Len(uri) + 1)
    BY <1>1, <2>1, <2>2
  <2>4. NamedBy(uri) # {}
    BY <2>1
  <2> HIDE DEF uri
  <2>5. Len(segs) >= 2 /\ has_suffix(Last(segs), <<Flv>>)
    BY <2>3, <2>4, LastSegment
  <2> QED
    BY <1>2, <2>2, <2>5
<1> QED
  BY <1>4, <1>5

-----------------------------------------------------------------------------
(* The stream a player joins *)

\* The characters of request lines.
Chars == UriChars \cup {"GET", "get", "POST", " ", "HTTP/1.1", "\r"}

\* Sequences of one character and of two.
LEMMA ShortStrings ==
    ASSUME NEW S, NEW c \in S, NEW d \in S
    PROVE  <<>> \in Seq(S) /\ <<c>> \in Seq(S) /\ <<c, d>> \in Seq(S)
OBVIOUS

\* A request line is a sequence of such characters.
LEMMA LinesAreStrings == Lines \subseteq Seq(Chars)
<1>1. ASSUME NEW u \in Uris PROVE u \in Seq(Chars)
  <2>1. PICK n \in 0 .. MaxUri : u \in [1 .. n -> UriChars]
    BY <1>1 DEF Uris
  <2>2. n \in Nat
    BY FlvSessionAssumption
  <2>3. u \in [1 .. n -> Chars]
    BY <2>1 DEF Chars
  <2> QED
    BY <2>2, <2>3
<1>2. " " \in Chars /\ "HTTP/1.1" \in Chars /\ "\r" \in Chars
  BY Zenon DEF Chars
<1>3. ASSUME NEW m \in Methods PROVE m \in Seq(Chars)
  <2>1. m = <<"GET">> \/ m = <<"get">> \/ m = <<"POST">>
    BY Zenon DEF Methods
  <2>2. "GET" \in Chars /\ "get" \in Chars /\ "POST" \in Chars
    BY Zenon DEF Chars
  <2> QED
    BY <2>1, <2>2, ShortStrings, Zenon
<1>4. ASSUME NEW b \in Blanks PROVE b \in Seq(Chars)
  <2>1. b = <<" ">> \/ b = <<" ", " ">>
    BY Zenon DEF Blanks
  <2> QED
    BY <1>2, <2>1, ShortStrings, Zenon
<1>5. ASSUME NEW e \in LineEnds PROVE e \in Seq(Chars)
  <2>1. e = <<"\r">> \/ e = <<>>
    BY Zenon DEF LineEnds
  <2> QED
    BY <1>2, <2>1, ShortStrings, Zenon
<1>6. Version \in Seq(Chars)
  BY <1>2, ShortStrings, Zenon DEF Version
<1>7. ASSUME NEW m \in Methods, NEW b \in Blanks, NEW u \in Uris,
             NEW e \in LineEnds
      PROVE  m \o b \o u \o Version \o e \in Seq(Chars)
  <2>1. /\ m \in Seq(Chars) /\ b \in Seq(Chars) /\ u \in Seq(Chars)
        /\ e \in Seq(Chars)
    BY <1>1, <1>3, <1>4, <1>5, Zenon
  <2>2. m \o b \in Seq(Chars)
    BY <2>1, ConcatProperties, Zenon
  <2>3. m \o b \o u \in Seq(Chars)
    BY <2>1, <2>2, ConcatProperties, Zenon
  <2>4. m \o b \o u \o Version \in Seq(Chars)
    BY <1>6, <2>3, ConcatProperties, Zenon
  <2> QED
    BY <2>1, <2>4, ConcatProperties, Zenon
<1>8. ASSUME NEW line \in Lines PROVE line \in Seq(Chars)
  <2>1. PICK m \in Methods, b \in Blanks, u \in Uris, e \in LineEnds :
             line = m \o b \o u \o Version \o e
    BY <1>8, SMTT(30) DEF Lines
  <2> QED
    BY <1>7, <2>1, Zenon
<1> QED
  BY <1>8

\* A player is registered for the stream its uri ends with, whatever characters it asks
\* with, and turned away only if its line names none (request_handler).
THEOREM JoinsAsked == FlvSpec => JoinsWhatItAsks
<1> DEFINE Line == request_buf_ \in Seq(Chars)
           Step == /\ group' # group => group'[1] \in Asked(request_buf_)
                   /\ phase = "request" /\ phase' = "refused" /\ conn = "up" =>
                        Asked(request_buf_) = {}
<1>0. <<>> \in Seq(Chars)
  OBVIOUS
<1>1. FlvInit => Line
  BY LinesAreStrings DEF FlvInit
<1>2. Line /\ [FlvNext]_flvVars => Line'
  <2> SUFFICES ASSUME Line, [FlvNext]_flvVars PROVE Line'
    OBVIOUS
  <2>1. request_buf_' = <<>> \/ request_buf_' = request_buf_
    BY DEF FlvNext, Request, Refuse, WriteHeader, OnHeaderWritten, HeaderFails, GroupSends,
           QueueWrites, QueueHandlers, ConnectionLost, flvVars
  <2> QED
    BY <2>1, <1>0, Zenon
<1>3. Line /\ [FlvNext]_flvVars => [Step]_flvVars
  <2> SUFFICES ASSUME Line, FlvNext PROVE Step
    OBVIOUS
  <2>1. CASE Request
    <3>1. /\ Usable(request_buf_) /\ group' = <<stream_name(request_buf_)>>
          /\ phase' = "http headers"
      BY <2>1 DEF Request
    <3>2. stream_name(request_buf_) \in Asked(request_buf_)
      BY <3>1, UsableIsAsked
    <3> QED
      BY <3>1, <3>2
  <2>2. CASE Refuse
    <3>1. group' = group /\ (conn = "up" => ~Usable(request_buf_))
      BY <2>2 DEF Refuse
    <3> QED
      BY <3>1, UsableIsAsked
  <2>3. CASE WriteHeader \/ OnHeaderWritten \/ HeaderFails
             \/ (\E b \in Buffers : GroupSends(b))
             \/ QueueWrites \/ QueueHandlers \/ ConnectionLost
    <3>1. group' = group /\ (phase = "request" => phase' # "refused")
      BY <2>3 DEF WriteHeader, OnHeaderWritten, HeaderFails, GroupSends, QueueWrites,
                  QueueHandlers, ConnectionLost
    <3> QED
      BY <3>1
  <2> QED
    BY <2>1, <2>2, <2>3 DEF FlvNext
<1>4. JoinsWhatItAsks <=> [][Step]_flvVars
  BY DEF JoinsWhatItAsks
<1> HIDE DEF Line, Step
<1> QED
  BY <1>1, <1>2, <1>3, <1>4, PTL DEF FlvSpec
=============================================================================
