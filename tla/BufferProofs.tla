---------------------------- MODULE BufferProofs ----------------------------
(* Theorems about Buffer, for any bytes, capacities and lengths.             *)
EXTENDS Buffer, SequenceTheorems, TLAPS

\* The unread bytes of a buffer are a string.
LEMMA UnreadIsString ==
    ASSUME NEW b, WellFormed(b)
    PROVE  /\ Unread(b) \in Seq(Byte)
           /\ Len(Unread(b)) = b.write - b.read
           /\ \A i \in 1 .. b.write - b.read : Unread(b)[i] = b.data[b.read + i - 1]
<1> DEFINE n == b.write - b.read
           e(i) == b.data[b.read + i - 1]
<1>1. n \in Nat /\ b.read \in Nat /\ b.write \in Nat /\ b.read + n = b.write
  BY DEF WellFormed
<1>2. \A i \in 1 .. n : e(i) \in Byte
  <2>1. \A i \in 1 .. n : b.read + i - 1 \in b.read .. b.write - 1
    BY <1>1
  <2> QED
    BY <2>1 DEF WellFormed
<1>3. Unread(b) = [i \in 1 .. n |-> e(i)]
  BY DEF Unread
<1> HIDE DEF n, e
<1>4. [i \in 1 .. n |-> e(i)] \in [1 .. n -> Byte]
  BY <1>2
<1>5. \A f \in [1 .. n -> Byte] : f \in Seq(Byte) /\ Len(f) = n
  BY <1>1
<1>6. \A i \in 1 .. n : Unread(b)[i] = e(i)
  BY <1>3
<1> QED
  BY <1>3, <1>4, <1>5, <1>6 DEF n, e

\* The initial buffer is well formed and empty.
LEMMA FreshIsEmpty == WellFormed(Fresh) /\ Unread(Fresh) = <<>>
BY BufferAssumption DEF Fresh, Buf, WellFormed, Unread, Arrays, Memory

\* A buffer whose array begins with the unread bytes of buf, and nothing else to
\* read, stands for the same string.
LEMMA SameString ==
    ASSUME WellFormed(buf), NEW data, NEW capacity \in Nat \ {0},
           readable_size <= capacity,
           data \in Arrays(capacity),
           \A i \in 0 .. readable_size - 1 : data[i] = buf.data[buf.read + i]
    PROVE  /\ WellFormed(Buf(data, capacity, 0, readable_size))
           /\ Unread(Buf(data, capacity, 0, readable_size)) = Unread(buf)
<1> DEFINE b == Buf(data, capacity, 0, readable_size)
<1>1. /\ b.data = data /\ b.capacity = capacity /\ b.read = 0 /\ b.write = readable_size
      /\ b = [data |-> b.data, capacity |-> b.capacity, read |-> b.read, write |-> b.write]
  BY DEF Buf
<1>2. readable_size \in Nat /\ buf.read \in Nat /\ buf.write \in Nat
      /\ buf.read + readable_size = buf.write
  BY DEF WellFormed, readable_size
<1> HIDE DEF b
<1>3. \A i \in 0 .. readable_size - 1 : data[i] \in Byte
  <2>1. \A i \in 0 .. readable_size - 1 : buf.read + i \in buf.read .. buf.write - 1
    BY <1>2
  <2> QED
    BY <2>1 DEF WellFormed
<1>4. WellFormed(b)
  BY <1>1, <1>2, <1>3 DEF WellFormed
<1>5. /\ Unread(b) \in Seq(Byte) /\ Len(Unread(b)) = readable_size
      /\ \A i \in 1 .. readable_size : Unread(b)[i] = data[0 + i - 1]
  BY <1>1, <1>2, <1>4, UnreadIsString
<1>6. /\ Unread(buf) \in Seq(Byte) /\ Len(Unread(buf)) = readable_size
      /\ \A i \in 1 .. readable_size : Unread(buf)[i] = buf.data[buf.read + i - 1]
  BY UnreadIsString DEF readable_size
<1>7. Unread(b) = Unread(buf)
  <2>1. ASSUME NEW i \in 1 .. readable_size
        PROVE  data[0 + i - 1] = buf.data[buf.read + i - 1]
    <3>1. i - 1 \in 0 .. readable_size - 1 /\ buf.read + (i - 1) = buf.read + i - 1
          /\ 0 + i - 1 = i - 1
      BY <1>2
    <3> QED
      BY <3>1
  <2> QED
    BY <1>5, <1>6, <2>1, SeqEqual
<1> QED
  BY <1>4, <1>7 DEF b

\* Moving or reallocating keeps the string when it fits.
LEMMA ReallocatedKeeps ==
    ASSUME WellFormed(buf), NEW capacity \in Nat \ {0}, readable_size <= capacity
    PROVE  WellFormed(Reallocated(capacity)) /\ Unread(Reallocated(capacity)) = Unread(buf)
<1> DEFINE data == [i \in 0 .. capacity - 1 |->
                      IF i < readable_size THEN buf.data[buf.read + i] ELSE Junk]
<1>1. readable_size \in Nat /\ buf.read \in Nat /\ buf.capacity \in Nat
      /\ buf.read + readable_size <= buf.capacity /\ buf.data \in Arrays(buf.capacity)
  BY DEF WellFormed, readable_size
<1>2. data \in Arrays(capacity)
  BY <1>1, SMTT(30) DEF Arrays, Memory
<1>3. \A i \in 0 .. readable_size - 1 : data[i] = buf.data[buf.read + i]
  BY <1>1
<1> QED
  BY <1>2, <1>3, SameString DEF Reallocated

LEMMA MovedKeeps ==
    ASSUME WellFormed(buf)
    PROVE  WellFormed(Moved) /\ Unread(Moved) = Unread(buf)
<1> DEFINE data == [i \in 0 .. buf.capacity - 1 |->
                      IF i < readable_size THEN buf.data[buf.read + i] ELSE buf.data[i]]
<1>1. readable_size \in Nat /\ buf.read \in Nat /\ buf.capacity \in Nat \ {0}
      /\ readable_size <= buf.capacity
      /\ buf.read + readable_size <= buf.capacity /\ buf.data \in Arrays(buf.capacity)
  BY DEF WellFormed, readable_size
<1>2. data \in Arrays(buf.capacity)
  BY <1>1, SMTT(30) DEF Arrays, Memory
<1>3. \A i \in 0 .. readable_size - 1 : data[i] = buf.data[buf.read + i]
  BY <1>1
<1> QED
  BY <1>1, <1>2, <1>3, SameString DEF Moved

\* reserve keeps the string and makes the room that was asked for.
LEMMA ReserveMakesRoom ==
    ASSUME WellFormed(buf), NEW len \in Nat, NEW b \in reserve(len)
    PROVE  /\ WellFormed(b)
           /\ Unread(b) = Unread(buf)
           /\ b.write + len <= b.capacity
<1>1. readable_size \in Nat /\ readable_size <= buf.capacity
      /\ buf.capacity \in Nat \ {0} /\ buf.write \in Nat
  BY DEF WellFormed, readable_size
<1>2. CASE buf.capacity - buf.write >= len
  BY <1>1, <1>2 DEF reserve
<1>3. CASE ~(buf.capacity - buf.write >= len) /\ buf.capacity - readable_size >= len
  <2>1. b = Moved
    BY <1>3 DEF reserve
  <2>2. Moved.write = readable_size /\ Moved.capacity = buf.capacity
    BY DEF Moved, Buf
  <2> QED
    BY <1>1, <1>3, <2>1, <2>2, MovedKeeps
<1>4. CASE ~(buf.capacity - buf.write >= len) /\ ~(buf.capacity - readable_size >= len)
  <2>1. PICK d \in FirstEnough(len) : b = Reallocated(buf.capacity * d)
    BY <1>4 DEF reserve
  <2>2. d \in Nat \ {0} /\ buf.capacity * d >= readable_size + len
    BY <2>1, BufferAssumption DEF FirstEnough, Enough
  <2>3. buf.capacity * d \in Nat
    BY <1>1, <2>2
  <2> DEFINE c == buf.capacity * d
  <2>4. c \in Nat \ {0} /\ c >= readable_size + len
    BY <1>1, <1>4, <2>2, <2>3
  <2> HIDE DEF c
  <2>5. readable_size <= c
    BY <1>1, <2>4
  <2>6. b = Reallocated(c)
    BY <2>1 DEF c
  <2>7. Reallocated(c).write = readable_size /\ Reallocated(c).capacity = c
    BY DEF Reallocated, Buf
  <2> QED
    BY <1>1, <2>4, <2>5, <2>6, <2>7, ReallocatedKeeps
<1> QED
  BY <1>2, <1>3, <1>4

\* Bytes written where there is room extend the string.
LEMMA FilledExtends ==
    ASSUME NEW b, WellFormed(b), NEW s \in Strings, b.write + Len(s) <= b.capacity
    PROVE  /\ WellFormed(Filled(b, s))
           /\ Unread(Filled(b, s)) = Unread(b) \o s
<1> DEFINE f == Filled(b, s)
<1>1. s \in Seq(Byte) /\ Len(s) \in Nat /\ s \in [1 .. Len(s) -> Byte]
  BY DEF Strings
<1>2. /\ b.capacity \in Nat \ {0} /\ b.read \in Nat /\ b.write \in Nat
      /\ b.read <= b.write /\ b.write <= b.capacity
      /\ b.data \in Arrays(b.capacity)
      /\ \A i \in b.read .. b.write - 1 : b.data[i] \in Byte
  BY DEF WellFormed
<1>3. /\ f.data = [i \in 0 .. b.capacity - 1 |->
            IF i \in b.write .. b.write + Len(s) - 1 THEN s[i - b.write + 1] ELSE b.data[i]]
      /\ f.capacity = b.capacity /\ f.read = b.read /\ f.write = b.write + Len(s)
      /\ f = [data |-> f.data, capacity |-> f.capacity, read |-> f.read, write |-> f.write]
  BY DEF Filled, Buf
<1> HIDE DEF f
<1>4. \A i \in 0 .. b.capacity - 1 :
        f.data[i] = IF i \in b.write .. b.write + Len(s) - 1
                    THEN s[i - b.write + 1] ELSE b.data[i]
  BY <1>3
<1>5. \A i \in b.write .. b.write + Len(s) - 1 : s[i - b.write + 1] \in Byte
  BY <1>1, <1>2
<1>6. f.data \in Arrays(b.capacity)
  BY <1>2, <1>3, <1>5 DEF Arrays, Memory
<1>7. ASSUME NEW i \in b.read .. b.write + Len(s) - 1 PROVE f.data[i] \in Byte
  <2>1. i \in 0 .. b.capacity - 1
    BY <1>1, <1>2
  <2>2. CASE i \in b.write .. b.write + Len(s) - 1
    BY <1>4, <1>5, <2>1, <2>2
  <2>3. CASE i \notin b.write .. b.write + Len(s) - 1
    <3>1. i \in b.read .. b.write - 1
      BY <1>1, <1>2, <2>3
    <3> QED
      BY <1>2, <1>4, <2>1, <2>3, <3>1
  <2> QED
    BY <2>2, <2>3
<1>8. WellFormed(f)
  BY <1>1, <1>2, <1>3, <1>6, <1>7, SMTT(30) DEF WellFormed
<1>9. Unread(f) = Unread(b) \o s
  <2> DEFINE n == b.write - b.read
  <2>1. n \in Nat /\ f.write - f.read = n + Len(s)
    BY <1>1, <1>2, <1>3
  <2>2. /\ Unread(b) \in Seq(Byte) /\ Len(Unread(b)) = n
        /\ \A i \in 1 .. n : Unread(b)[i] = b.data[b.read + i - 1]
    BY UnreadIsString
  <2>3. /\ Unread(f) \in Seq(Byte) /\ Len(Unread(f)) = n + Len(s)
        /\ \A i \in 1 .. n + Len(s) : Unread(f)[i] = f.data[b.read + i - 1]
    <3>1. /\ Unread(f) \in Seq(Byte) /\ Len(Unread(f)) = f.write - f.read
          /\ \A i \in 1 .. f.write - f.read : Unread(f)[i] = f.data[f.read + i - 1]
      BY <1>8, UnreadIsString
    <3> QED
      BY <1>3, <2>1, <3>1
  <2> HIDE DEF n
  <2>4. /\ Unread(b) \o s \in Seq(Byte) /\ Len(Unread(b) \o s) = n + Len(s)
        /\ \A i \in 1 .. n + Len(s) :
             (Unread(b) \o s)[i] = IF i <= n THEN Unread(b)[i] ELSE s[i - n]
    <3>1. /\ Unread(b) \o s \in Seq(Byte)
          /\ Len(Unread(b) \o s) = Len(Unread(b)) + Len(s)
          /\ \A i \in 1 .. Len(Unread(b)) + Len(s) : (Unread(b) \o s)[i] =
               IF i <= Len(Unread(b)) THEN Unread(b)[i] ELSE s[i - Len(Unread(b))]
      BY <1>1, <2>2, ConcatProperties
    <3> QED
      BY <2>2, <3>1
  <2>5. ASSUME NEW i \in 1 .. n + Len(s) PROVE Unread(f)[i] = (Unread(b) \o s)[i]
    <3>1. b.read + i - 1 \in 0 .. b.capacity - 1
      BY <1>1, <1>2 DEF n
    <3>2. CASE i <= n
      <4>1. b.read + i - 1 \notin b.write .. b.write + Len(s) - 1 /\ i \in 1 .. n
        BY <1>1, <1>2, <3>2 DEF n
      <4>2. Unread(f)[i] = b.data[b.read + i - 1]
        BY <1>4, <2>3, <3>1, <4>1
      <4> QED
        BY <2>2, <2>4, <3>2, <4>1, <4>2
    <3>3. CASE ~(i <= n)
      <4>1. /\ b.read + i - 1 \in b.write .. b.write + Len(s) - 1
            /\ (b.read + i - 1) - b.write + 1 = i - n
        BY <1>1, <1>2, <3>3 DEF n
      <4>2. Unread(f)[i] = s[i - n]
        BY <1>4, <2>3, <3>1, <4>1
      <4> QED
        BY <2>4, <3>3, <4>2
    <3> QED
      BY <3>2, <3>3
  <2> QED
    BY <2>3, <2>4, <2>5, SeqEqual
<1> QED
  BY <1>8, <1>9 DEF f

\* A buffer whose bytes are m of those of b, after the first k, stands for that
\* part of the string.
LEMMA PartIsSubSeq ==
    ASSUME NEW b, WellFormed(b), NEW c, WellFormed(c), NEW k \in Nat, NEW m \in Nat,
           c.write - c.read = m, k + m <= b.write - b.read,
           \A i \in 1 .. m : c.data[c.read + i - 1] = b.data[b.read + (k + i) - 1]
    PROVE  Unread(c) = SubSeq(Unread(b), k + 1, k + m)
<1> DEFINE n == b.write - b.read
<1>1. n \in Nat /\ k + m <= n
  BY DEF WellFormed
<1>2. /\ Unread(b) \in Seq(Byte) /\ Len(Unread(b)) = n
      /\ \A i \in 1 .. n : Unread(b)[i] = b.data[b.read + i - 1]
  BY UnreadIsString
<1>3. /\ Unread(c) \in Seq(Byte) /\ Len(Unread(c)) = m
      /\ \A i \in 1 .. m : Unread(c)[i] = c.data[c.read + i - 1]
  <2>1. /\ Unread(c) \in Seq(Byte) /\ Len(Unread(c)) = c.write - c.read
        /\ \A i \in 1 .. c.write - c.read : Unread(c)[i] = c.data[c.read + i - 1]
    BY UnreadIsString
  <2> QED
    BY <2>1
<1> HIDE DEF n
<1> DEFINE t == SubSeq(Unread(b), k + 1, k + m)
<1>4. \A i \in k + 1 .. k + m : Unread(b)[i] \in Byte
  <2>1. \A i \in k + 1 .. k + m : i \in 1 .. Len(Unread(b))
    BY <1>1, <1>2
  <2> QED
    BY <1>2, <2>1
<1>5. /\ t \in Seq(Byte) /\ Len(t) = m
      /\ \A i \in 1 .. m : t[i] = Unread(b)[k + i]
  <2>1. k + 1 \in Int /\ k + m \in Int /\ (k + m) - (k + 1) + 1 = m
        /\ \A i \in 1 .. m : (k + 1) + i - 1 = k + i
    OBVIOUS
  <2>2. /\ t \in Seq(Byte)
        /\ Len(t) = IF k + 1 <= k + m THEN (k + m) - (k + 1) + 1 ELSE 0
        /\ \A i \in 1 .. (k + m) - (k + 1) + 1 : t[i] = Unread(b)[(k + 1) + i - 1]
    <3> HIDE DEF t
    <3>1. t = SubSeq(Unread(b), k + 1, k + m)
      BY DEF t
    <3> QED
      BY <1>4, <2>1, <3>1, SubSeqProperties
  <2> HIDE DEF t
  <2>3. Len(t) = m
    BY <2>1, <2>2
  <2> QED
    BY <2>1, <2>2, <2>3
<1>6. ASSUME NEW i \in 1 .. m PROVE Unread(c)[i] = t[i]
  <2>1. k + i \in 1 .. n
    BY <1>1
  <2> HIDE DEF t
  <2> QED
    BY <1>2, <1>3, <1>5, <2>1
<1> HIDE DEF t
<1>7. Unread(c) = t
  BY <1>3, <1>5, <1>6, SeqEqual
<1> QED
  BY <1>7 DEF t

\* What a well-formed buffer is made of.
LEMMA Parts ==
    ASSUME NEW b, WellFormed(b)
    PROVE  /\ b.capacity \in Nat \ {0} /\ b.read \in Nat /\ b.write \in Nat
           /\ b.read <= b.write /\ b.write <= b.capacity
           /\ b.data \in Arrays(b.capacity)
           /\ \A i \in b.read .. b.write - 1 : b.data[i] \in Byte
           /\ Len(Unread(b)) = b.write - b.read
BY UnreadIsString DEF WellFormed

\* Erasing takes the first n bytes, whether or not the array is replaced.
LEMMA EraseConsumes ==
    ASSUME WellFormed(buf), NEW n \in 0 .. readable_size, erase(n)
    PROVE  /\ WellFormed(buf')
           /\ Unread(buf)' = SubSeq(Unread(buf), n + 1, Len(Unread(buf)))
<1> DEFINE left == readable_size - n
<1>1. /\ buf.capacity \in Nat \ {0} /\ buf.read \in Nat /\ buf.write \in Nat
      /\ buf.read <= buf.write /\ buf.write <= buf.capacity
      /\ buf.data \in Arrays(buf.capacity)
      /\ \A i \in buf.read .. buf.write - 1 : buf.data[i] \in Byte
      /\ Len(Unread(buf)) = buf.write - buf.read
  BY Parts
<1>2. readable_size = buf.write - buf.read
  BY DEF readable_size
<1>3. /\ n \in Nat /\ left \in Nat /\ buf.read + n + left = buf.write
      /\ n + left = Len(Unread(buf)) /\ n + left <= buf.write - buf.read
  BY <1>1, <1>2
<1>4. CASE left < InitCapacity /\ buf.capacity > ShrinkCapacity
  <2> DEFINE data == [i \in 0 .. InitCapacity - 1 |->
                        IF i < left THEN buf.data[buf.read + n + i] ELSE Junk]
  <2>1. buf' = Buf(data, InitCapacity, 0, left)
    BY <1>4 DEF erase
  <2>2. /\ buf'.data = data /\ buf'.capacity = InitCapacity
        /\ buf'.read = 0 /\ buf'.write = left
        /\ buf' = [data |-> buf'.data, capacity |-> buf'.capacity,
                   read |-> buf'.read, write |-> buf'.write]
    BY <2>1 DEF Buf
  <2> HIDE DEF left
  <2>3. InitCapacity \in Nat \ {0} /\ left < InitCapacity
    BY <1>4, BufferAssumption
  <2>4. \A i \in 0 .. left - 1 :
          /\ i \in 0 .. InitCapacity - 1 /\ i < left
          /\ buf.read + n + i \in buf.read .. buf.write - 1
    <3>1. ASSUME NEW i \in 0 .. left - 1 PROVE i \in 0 .. InitCapacity - 1 /\ i < left
      BY <1>3, <2>3
    <3>2. ASSUME NEW i \in 0 .. left - 1 PROVE buf.read + n + i \in buf.read .. buf.write - 1
      BY <1>1, <1>3
    <3> QED
      BY <3>1, <3>2
  <2>5. \A i \in 0 .. left - 1 :
          /\ data[i] = buf.data[buf.read + n + i]
          /\ buf.data[buf.read + n + i] \in Byte
    BY <1>1, <2>4
  <2>6. data \in Arrays(InitCapacity)
    <3>1. \A i \in 0 .. InitCapacity - 1 : i < left => i \in 0 .. left - 1
      BY <1>3
    <3> QED
      BY <2>5, <3>1 DEF Arrays, Memory
  <2> HIDE DEF data
  <2>7. WellFormed(buf')
    <3>1. \A i \in 0 .. left - 1 : buf'.data[i] \in Byte
      BY <2>2, <2>5
    <3>2. 0 <= left /\ left <= InitCapacity
      BY <1>3, <2>3
    <3> QED
      BY <1>3, <2>2, <2>3, <2>6, <3>1, <3>2 DEF WellFormed
  <2>8. ASSUME NEW i \in 1 .. left
        PROVE  buf'.data[buf'.read + i - 1] = buf.data[buf.read + (n + i) - 1]
    <3>1. /\ i - 1 \in 0 .. left - 1 /\ 0 + i - 1 = i - 1
          /\ buf.read + n + (i - 1) = buf.read + (n + i) - 1
      BY <1>1, <1>3
    <3> QED
      BY <2>2, <2>5, <3>1
  <2>9. buf'.write - buf'.read = left
    BY <1>3, <2>2
  <2>10. Unread(buf') = SubSeq(Unread(buf), n + 1, n + left)
    BY ONLY WellFormed(buf), <1>3, <2>7, <2>8, <2>9, PartIsSubSeq
  <2> QED
    BY <1>3, <2>7, <2>10
<1>5. CASE ~(left < InitCapacity /\ buf.capacity > ShrinkCapacity)
  <2>1. buf' = [buf EXCEPT !.read = @ + n]
    BY <1>5 DEF erase
  <2>2. /\ buf'.data = buf.data /\ buf'.capacity = buf.capacity
        /\ buf'.read = buf.read + n /\ buf'.write = buf.write
        /\ buf' = [data |-> buf'.data, capacity |-> buf'.capacity,
                   read |-> buf'.read, write |-> buf'.write]
    BY <2>1 DEF WellFormed
  <2> HIDE DEF left
  <2>3. WellFormed(buf')
    BY <1>1, <1>3, <2>2 DEF WellFormed
  <2>4. ASSUME NEW i \in 1 .. left
        PROVE  buf'.data[buf'.read + i - 1] = buf.data[buf.read + (n + i) - 1]
    <3>1. buf.read + n + i - 1 = buf.read + (n + i) - 1
      BY <1>1, <1>3
    <3> QED
      BY <2>2, <3>1
  <2>5. buf'.write - buf'.read = left
    BY <1>1, <1>3, <2>2
  <2>6. Unread(buf') = SubSeq(Unread(buf), n + 1, n + left)
    BY ONLY WellFormed(buf), <1>3, <2>3, <2>4, <2>5, PartIsSubSeq
  <2> QED
    BY <1>3, <2>3, <2>6
<1> QED
  BY <1>4, <1>5

\* Rolling back takes the last n bytes.
LEMMA RollbackRetracts ==
    ASSUME WellFormed(buf), NEW n \in 0 .. readable_size, Rollback(n)
    PROVE  /\ WellFormed(buf')
           /\ Unread(buf)' = SubSeq(Unread(buf), 1, Len(Unread(buf)) - n)
<1> DEFINE left == readable_size - n
<1>1. /\ buf.capacity \in Nat \ {0} /\ buf.read \in Nat /\ buf.write \in Nat
      /\ buf.read <= buf.write /\ buf.write <= buf.capacity
      /\ buf.data \in Arrays(buf.capacity)
      /\ \A i \in buf.read .. buf.write - 1 : buf.data[i] \in Byte
      /\ Len(Unread(buf)) = buf.write - buf.read
  BY Parts
<1>2. readable_size = buf.write - buf.read
  BY DEF readable_size
<1>3. /\ n \in Nat /\ left \in Nat /\ buf.read + left = buf.write - n
      /\ 0 + left = Len(Unread(buf)) - n /\ 0 + left <= buf.write - buf.read
  BY <1>1, <1>2
<1>4. /\ buf'.data = buf.data /\ buf'.capacity = buf.capacity
      /\ buf'.read = buf.read /\ buf'.write = buf.write - n
      /\ buf' = [data |-> buf'.data, capacity |-> buf'.capacity,
                 read |-> buf'.read, write |-> buf'.write]
  BY DEF Rollback, WellFormed
<1> HIDE DEF left
<1>5. buf'.write - buf'.read = left
  BY <1>1, <1>3, <1>4
<1>6. WellFormed(buf')
  BY <1>1, <1>3, <1>4, SMTT(30) DEF WellFormed
<1>7. PICK k \in Nat : k = 0
  OBVIOUS
<1>8. ASSUME NEW i \in 1 .. left
      PROVE  buf'.data[buf'.read + i - 1] = buf.data[buf.read + (k + i) - 1]
  <2>1. k + i = i
    BY <1>7
  <2> QED
    BY <1>4, <2>1
<1>9. k + left <= buf.write - buf.read
  BY <1>3, <1>7
<1>10. Unread(buf') = SubSeq(Unread(buf), k + 1, k + left)
  BY ONLY WellFormed(buf), k \in Nat, <1>3, <1>5, <1>6, <1>8, <1>9, PartIsSubSeq
<1>11. k + 1 = 1 /\ k + left = Len(Unread(buf)) - n
  BY <1>3, <1>7
<1> QED
  BY <1>6, <1>10, <1>11

\* Clearing erases what is left.
LEMMA ClearConsumes ==
    ASSUME WellFormed(buf), clear
    PROVE  /\ WellFormed(buf')
           /\ Unread(buf)' = SubSeq(Unread(buf), readable_size + 1, Len(Unread(buf)))
<1>1. /\ buf.capacity \in Nat \ {0} /\ buf.data \in Arrays(buf.capacity)
      /\ readable_size = buf.write - buf.read /\ readable_size \in Nat
      /\ Len(Unread(buf)) = readable_size
  BY UnreadIsString DEF WellFormed, readable_size
<1>2. WellFormed(buf') /\ buf'.write - buf'.read = 0
  <2>1. CASE buf.capacity > ShrinkCapacity
    <3>1. buf' = Fresh
      BY <2>1 DEF clear
    <3>2. Fresh.write - Fresh.read = 0
      BY DEF Fresh, Buf
    <3> QED
      BY <3>1, <3>2, FreshIsEmpty
  <2>2. CASE ~(buf.capacity > ShrinkCapacity)
    <3>1. /\ buf'.data = buf.data /\ buf'.capacity = buf.capacity
          /\ buf'.read = 0 /\ buf'.write = 0
          /\ buf' = [data |-> buf'.data, capacity |-> buf'.capacity,
                     read |-> buf'.read, write |-> buf'.write]
      BY <2>2 DEF clear, WellFormed
    <3> QED
      BY <1>1, <3>1 DEF WellFormed
  <2> QED
    BY <2>1, <2>2
<1>3. readable_size + 0 = Len(Unread(buf)) /\ readable_size + 0 <= buf.write - buf.read
  BY <1>1
<1>4. Unread(buf') = SubSeq(Unread(buf), readable_size + 1, readable_size + 0)
  <2>1. \A i \in 1 .. 0 : buf'.data[buf'.read + i - 1] = buf.data[buf.read + (readable_size + i) - 1]
    OBVIOUS
  <2> QED
    BY <1>1, <1>2, <1>3, <2>1, PartIsSubSeq
<1> QED
  BY <1>2, <1>3, <1>4

-----------------------------------------------------------------------------
\* Every step keeps the buffer well formed, and does to its string what it says.
LEMMA BufferStep ==
    TypeOK /\ [Next]_vars => TypeOK' /\ [Bytes!Next]_(Bytes!byteVars)
<1> SUFFICES ASSUME TypeOK, [Next]_vars
             PROVE  TypeOK' /\ [Bytes!Next]_(Bytes!byteVars)
  OBVIOUS
<1> USE DEF Bytes!byteVars
<1>0. /\ WellFormed(buf) /\ call[1] \in {"none", "write", "erase", "rollback"}
      /\ Len(Unread(buf)) = readable_size
  BY Parts DEF TypeOK, readable_size
<1>1. ASSUME NEW s \in Strings, AppendBytes(s)
      PROVE  TypeOK' /\ Bytes!Next
  <2>1. PICK b \in reserve(Len(s)) : buf' = Filled(b, s)
    BY <1>1 DEF AppendBytes
  <2>2. Len(s) \in Nat
    BY DEF Strings
  <2>3. WellFormed(b) /\ Unread(b) = Unread(buf) /\ b.write + Len(s) <= b.capacity
    BY <1>0, <2>2, ReserveMakesRoom
  <2>4. WellFormed(buf') /\ Unread(buf') = Unread(buf) \o s
    BY <2>1, <2>3, FilledExtends
  <2>5. call' = <<"write", s>>
    BY <1>1 DEF AppendBytes
  <2>6. Bytes!Extend(s)
    BY <2>4, <2>5 DEF Bytes!Extend
  <2> QED
    BY <2>4, <2>5, <2>6 DEF TypeOK, Bytes!Next
<1>2. ASSUME NEW s \in Strings, Fill(s)
      PROVE  TypeOK' /\ Bytes!Next
  <2>1. Len(s) \in Nat /\ buf.capacity \in Nat /\ buf.write \in Nat
    BY <1>0, Parts DEF Strings
  <2>2. buf.write + Len(s) <= buf.capacity
    BY <1>2, <2>1 DEF Fill
  <2>3. buf' = Filled(buf, s) /\ call' = <<"write", s>>
    BY <1>2 DEF Fill
  <2>4. WellFormed(buf') /\ Unread(buf') = Unread(buf) \o s
    BY <1>0, <2>2, <2>3, FilledExtends
  <2>5. Bytes!Extend(s)
    BY <2>3, <2>4 DEF Bytes!Extend
  <2> QED
    BY <2>3, <2>4, <2>5 DEF TypeOK, Bytes!Next
<1>3. ASSUME NEW len \in 0 .. MaxLen, Reserve(len)
      PROVE  TypeOK' /\ UNCHANGED Bytes!byteVars
  <2>1. len \in Nat /\ buf' \in reserve(len) /\ call' = call
    BY <1>3, BufferAssumption DEF Reserve
  <2>2. WellFormed(buf') /\ Unread(buf') = Unread(buf)
    BY <1>0, <2>1, ReserveMakesRoom
  <2> QED
    BY <1>0, <2>1, <2>2 DEF TypeOK
<1>4. ASSUME NEW n \in 0 .. readable_size, erase(n)
      PROVE  TypeOK' /\ Bytes!Next
  <2>1. WellFormed(buf') /\ Unread(buf)' = SubSeq(Unread(buf), n + 1, Len(Unread(buf)))
    BY <1>0, <1>4, EraseConsumes
  <2>2. call' = <<"erase", n>>
    BY <1>4 DEF erase
  <2>3. Bytes!Consume(n)
    BY <2>1, <2>2 DEF Bytes!Consume
  <2> QED
    BY <1>0, <2>1, <2>2, <2>3 DEF TypeOK, Bytes!Next
<1>5. ASSUME NEW n \in 0 .. readable_size, Rollback(n)
      PROVE  TypeOK' /\ Bytes!Next
  <2>1. WellFormed(buf') /\ Unread(buf)' = SubSeq(Unread(buf), 1, Len(Unread(buf)) - n)
    BY <1>0, <1>5, RollbackRetracts
  <2>2. call' = <<"rollback", n>>
    BY <1>5 DEF Rollback
  <2>3. Bytes!Retract(n)
    BY <2>1, <2>2 DEF Bytes!Retract
  <2> QED
    BY <1>0, <2>1, <2>2, <2>3 DEF TypeOK, Bytes!Next
<1>6. ASSUME clear
      PROVE  TypeOK' /\ Bytes!Next
  <2>1. WellFormed(buf')
        /\ Unread(buf)' = SubSeq(Unread(buf), readable_size + 1, Len(Unread(buf)))
    BY <1>0, <1>6, ClearConsumes
  <2>2. call' = <<"erase", readable_size>>
    BY <1>6 DEF clear
  <2>3. readable_size \in 0 .. readable_size
    BY <1>0, Parts DEF readable_size
  <2>4. Bytes!Consume(readable_size)
    BY <2>1, <2>2 DEF Bytes!Consume
  <2> QED
    BY <1>0, <2>1, <2>2, <2>3, <2>4 DEF TypeOK, Bytes!Next
<1>7. ASSUME Copy
      PROVE  TypeOK' /\ UNCHANGED Bytes!byteVars
  <2>1. buf.capacity \in Nat \ {0} /\ readable_size <= buf.capacity
    BY <1>0, Parts DEF readable_size
  <2>2. buf' = Reallocated(buf.capacity) /\ call' = call
    BY <1>7 DEF Copy
  <2>3. WellFormed(buf') /\ Unread(buf') = Unread(buf)
    BY <1>0, <2>1, <2>2, ReallocatedKeeps
  <2> QED
    BY <1>0, <2>2, <2>3 DEF TypeOK
<1>8. CASE UNCHANGED vars
  BY <1>0, <1>8 DEF vars, TypeOK
<1> QED
  BY <1>1, <1>2, <1>3, <1>4, <1>5, <1>6, <1>7, <1>8 DEF Next

\* Whatever is appended, erased, rolled back, moved and shrunk, the indexes of a
\* buffer stay within its array and what lies between them was written.
THEOREM TypeCorrect == Spec => []TypeOK
<1>1. Init => TypeOK
  BY FreshIsEmpty DEF Init, TypeOK
<1>2. TypeOK /\ [Next]_vars => TypeOK'
  BY BufferStep
<1> QED
  BY <1>1, <1>2, PTL DEF Spec

\* A buffer implements the string of bytes it promises, for any bytes, capacities,
\* doublings and lengths.
THEOREM BufferIsString == Spec => ImplementsBytes
<1>1. Init => Bytes!Init
  BY FreshIsEmpty DEF Init, Bytes!Init
<1>2. TypeOK /\ [Next]_vars => [Bytes!Next]_(Bytes!byteVars)
  BY BufferStep
<1> QED
  BY <1>1, <1>2, TypeCorrect, PTL DEF Spec, ImplementsBytes, Bytes!Spec

\* A step that uses up bytes is an erase or a clear, and each releases the memory.
LEMMA ReleaseStep ==
    ASSUME TypeOK, TypeOK', [Next]_vars, call'[1] = "erase",
           (readable_size') < readable_size
    PROVE  buf'.capacity > ShrinkCapacity => (readable_size') >= InitCapacity
<1>1. /\ WellFormed(buf) /\ WellFormed(buf')
      /\ Len(Unread(buf)) = readable_size /\ Len(Unread(buf')) = readable_size'
      /\ (readable_size') = buf'.write - buf'.read /\ readable_size = buf.write - buf.read
  BY Parts DEF TypeOK, readable_size
<1>2. /\ buf.read \in Nat /\ buf.write \in Nat /\ buf.read <= buf.write
      /\ buf.capacity \in Nat \ {0} /\ buf'.read \in Nat /\ buf'.write \in Nat
  BY <1>1, Parts
<1>3. Unread(buf') # Unread(buf)
  BY <1>1, <1>2
<1>4. CASE \E n \in 0 .. readable_size : erase(n)
  <2>1. PICK n \in 0 .. readable_size : erase(n)
    BY <1>4
  <2> DEFINE left == readable_size - n
  <2>2. CASE left < InitCapacity /\ buf.capacity > ShrinkCapacity
    <3>1. buf'.capacity = InitCapacity
      BY <2>1, <2>2 DEF erase, Buf
    <3> QED
      BY <3>1, BufferAssumption
  <2>3. CASE ~(left < InitCapacity /\ buf.capacity > ShrinkCapacity)
    <3>1. buf' = [buf EXCEPT !.read = @ + n]
      BY <2>1, <2>3 DEF erase
    <3>2. buf'.capacity = buf.capacity /\ buf'.read = buf.read + n /\ buf'.write = buf.write
      BY <1>1, <3>1 DEF WellFormed
    <3>3. (readable_size') = left /\ left \in Nat
      BY <1>1, <1>2, <3>2
    <3> QED
      BY <2>3, <3>2, <3>3, BufferAssumption
  <2> QED
    BY <2>2, <2>3
<1>5. CASE clear
  <2>1. CASE buf.capacity > ShrinkCapacity
    <3>1. buf'.capacity = InitCapacity
      BY <1>5, <2>1 DEF clear, Fresh, Buf
    <3> QED
      BY <3>1, BufferAssumption
  <2>2. CASE ~(buf.capacity > ShrinkCapacity)
    <3>1. buf'.capacity = buf.capacity
      BY <1>1, <1>5, <2>2 DEF clear, WellFormed
    <3> QED
      BY <2>2, <3>1
  <2> QED
    BY <2>1, <2>2
<1>6. ASSUME NEW s \in Strings, AppendBytes(s) \/ Fill(s) PROVE FALSE
  BY <1>6 DEF AppendBytes, Fill
<1>7. ASSUME NEW n \in 0 .. readable_size, Rollback(n) PROVE FALSE
  BY <1>7 DEF Rollback
<1>8. ASSUME NEW len \in 0 .. MaxLen, Reserve(len) PROVE FALSE
  <2>1. len \in Nat /\ buf' \in reserve(len)
    BY <1>8, BufferAssumption DEF Reserve
  <2> QED
    BY <1>1, <1>3, <2>1, ReserveMakesRoom
<1>9. ASSUME Copy PROVE FALSE
  <2>1. readable_size <= buf.capacity
    BY <1>1, <1>2, Parts
  <2> QED
    BY <1>1, <1>2, <1>3, <1>9, <2>1, ReallocatedKeeps DEF Copy
<1>10. CASE UNCHANGED vars
  BY <1>3, <1>10 DEF vars
<1> QED
  BY <1>4, <1>5, <1>6, <1>7, <1>8, <1>9, <1>10 DEF Next

\* A buffer never keeps an array larger than shrink_capacity_ for less than
\* init_capacity_ bytes after a call that uses bytes up.
THEOREM ExtraMemoryReleased == Spec => ReleasesMemory
<1>1. TypeOK /\ TypeOK' /\ [Next]_vars
      => [/\ call'[1] = "erase" /\ (readable_size') < readable_size
          /\ buf'.capacity > ShrinkCapacity
          => (readable_size') >= InitCapacity]_vars
  BY ReleaseStep
<1> QED
  BY <1>1, TypeCorrect, PTL DEF Spec, ReleasesMemory
=============================================================================
