------------------------- MODULE RtmpCommandsProofs -------------------------
(***************************************************************************)
(* What the two sessions of RtmpCommands tell each other comes through:    *)
(* for names, metadata and url prefixes of any length, any number of       *)
(* properties, and any base Base that AmfAssumption allows.                *)
(*                                                                         *)
(* A value of AMF0 is read back from the bytes it was written in (Numbers  *)
(* to Properties). WholeSteps leads from the start of what was written     *)
(* item by item to its end (Reaches), so every message is WellFramed, and  *)
(* the decoders find in it the name, the transaction id and the arguments  *)
(* that were written (Tells). The metadata of a publisher, put into a map  *)
(* one property at a time, has the last value of each name. With these     *)
(* facts every step preserves CommandsInv.                                 *)
(***************************************************************************)
EXTENDS RtmpCommands, SequenceTheorems, WellFoundedInduction, TLAPS

-----------------------------------------------------------------------------
(* Numbers *)

\* A quotient and a remainder are the only ones.
LEMMA DivUnique ==
    ASSUME NEW d \in Nat \ {0}, NEW q \in Nat, NEW r \in 0 .. d - 1
    PROVE  (d * q + r) \div d = q /\ (d * q + r) % d = r
<1> DEFINE n == d * q + r
           p == n \div d
           s == n % d
<1>1. n \in Nat
  OBVIOUS
<1>2. p \in Nat /\ s \in 0 .. d - 1 /\ n = d * p + s
  BY <1>1
<1>3. d * (p - q) = r - s
  BY <1>1, <1>2
<1> HIDE DEF n, p, s
<1>4. ASSUME p > q PROVE FALSE
  <2>1. p - q >= 1
    BY <1>2, <1>4
  <2>2. d * (p - q) >= d
    BY <1>2, <2>1
  <2> QED
    BY <1>2, <1>3, <2>2
<1>5. ASSUME p < q PROVE FALSE
  <2>1. q - p >= 1
    BY <1>2, <1>5
  <2>2. d * (q - p) >= d
    BY <1>2, <2>1
  <2>3. d * (q - p) = s - r
    BY <1>2, <1>3
  <2> QED
    BY <1>2, <2>2, <2>3
<1>6. p = q
  BY <1>2, <1>4, <1>5
<1>7. s = r
  BY <1>2, <1>3, <1>6
<1> QED
  BY <1>6, <1>7 DEF n, p, s

\* Quotients of quotients.
LEMMA DivDiv ==
    ASSUME NEW a \in Nat \ {0}, NEW b \in Nat \ {0}, NEW n \in Nat
    PROVE  (n \div a) \div b = n \div (a * b)
<1> DEFINE q == n \div a
           r == n % a
           u == q \div b
           v == q % b
<1>1. q \in Nat /\ r \in 0 .. a - 1 /\ n = a * q + r
  OBVIOUS
<1>2. u \in Nat /\ v \in 0 .. b - 1 /\ q = b * u + v
  BY <1>1
<1> HIDE DEF q, r, u, v
<1>3. a * b \in Nat \ {0}
  OBVIOUS
<1>4. a * v + r \in 0 .. a * b - 1
  <2>1. v + 1 <= b /\ a * (v + 1) <= a * b
    BY <1>2
  <2>2. a * (v + 1) = a * v + a /\ a * v \in Nat
    BY <1>2
  <2> QED
    BY <1>1, <1>3, <2>1, <2>2
<1>5. n = (a * b) * u + (a * v + r)
  <2>1. a * (b * u + v) = (a * b) * u + a * v
    BY <1>2
  <2> QED
    BY <1>1, <1>2, <2>1
<1>6. n \div (a * b) = u
  BY <1>2, <1>3, <1>4, <1>5, DivUnique
<1> QED
  BY <1>6 DEF u, q

\* Less than d times e, a number has a quotient by d below e.
LEMMA QuotientBound ==
    ASSUME NEW d \in Nat \ {0}, NEW e \in Nat, NEW n \in Nat, n < d * e
    PROVE  n \div d \in 0 .. e - 1
<1> DEFINE q == n \div d
           r == n % d
<1>1. q \in Nat /\ r \in 0 .. d - 1 /\ n = d * q + r
  OBVIOUS
<1> HIDE DEF q, r
<1>2. ASSUME q >= e PROVE FALSE
  <2>1. d * q >= d * e
    BY <1>1, <1>2
  <2> QED
    BY <1>1, <2>1
<1> QED
  BY <1>1, <1>2 DEF q

\* The digits of a number give it back.
LEMMA TwoDigits ==
    ASSUME NEW n \in Nat, n < Base * Base
    PROVE  Low(n \div Base) * Base + Low(n) = n
<1>1. Base \in Nat \ {0}
  BY AmfAssumption
<1> DEFINE q == n \div Base
           r == n % Base
<1>2. q \in 0 .. Base - 1
  BY <1>1, QuotientBound
<1>3. r \in 0 .. Base - 1 /\ n = Base * q + r
  BY <1>1
<1> HIDE DEF q, r
<1>4. q % Base = q
  <2>1. q = Base * 0 + q
    BY <1>1, <1>2
  <2> QED
    BY <1>1, <1>2, <2>1, DivUnique
<1> QED
  BY <1>1, <1>2, <1>3, <1>4 DEF q, r, Low

\* Three digits in base Base give back the number they are the digits of.
LEMMA ThreeDigits ==
    ASSUME NEW n \in Nat, n < Base * Base * Base
    PROVE  (Low(n \div (Base * Base)) * Base + Low(n \div Base)) * Base + Low(n) = n
<1>1. Base \in Nat \ {0}
  BY AmfAssumption
<1> DEFINE q == n \div Base
           r == n % Base
<1>2. q \in 0 .. Base * Base - 1
  <2>1. Base * Base \in Nat /\ Base * Base * Base = Base * (Base * Base)
    BY <1>1
  <2> QED
    BY <1>1, <2>1, QuotientBound
<1>3. r \in 0 .. Base - 1 /\ n = Base * q + r
  BY <1>1
<1>4. n \div (Base * Base) = q \div Base
  BY <1>1, DivDiv
<1> HIDE DEF q, r
<1>5. Low(q \div Base) * Base + Low(q) = q
  BY <1>1, <1>2, TwoDigits
<1>6. Low(n) = r /\ Low(n \div Base) = Low(q)
  BY DEF Low, q, r
<1>7. q * Base + r = n
  BY <1>1, <1>2, <1>3
<1> QED
  BY <1>4, <1>5, <1>6, <1>7

\* The same of four digits: what an int32 on the wire says.
LEMMA FourDigits ==
    ASSUME NEW n \in Nat, n < Base * Base * Base * Base
    PROVE  ((Low(n \div (Base * Base * Base)) * Base + Low(n \div (Base * Base))) * Base
              + Low(n \div Base)) * Base + Low(n) = n
<1>1. Base \in Nat \ {0}
  BY AmfAssumption
<1> DEFINE q == n \div Base
           r == n % Base
<1>2. q \in 0 .. Base * Base * Base - 1
  <2>1. Base * Base * Base \in Nat /\ Base * Base * Base * Base = Base * (Base * Base * Base)
    BY <1>1
  <2> QED
    BY <1>1, <2>1, QuotientBound
<1>3. r \in 0 .. Base - 1 /\ n = Base * q + r
  BY <1>1
<1>4. n \div (Base * Base) = q \div Base
  BY <1>1, DivDiv
<1>5. n \div (Base * Base * Base) = q \div (Base * Base)
  <2>1. Base * Base \in Nat \ {0} /\ Base * Base * Base = Base * (Base * Base)
    BY <1>1
  <2> QED
    BY <1>1, <2>1, DivDiv
<1> HIDE DEF q, r
<1>6. (Low(q \div (Base * Base)) * Base + Low(q \div Base)) * Base + Low(q) = q
  BY <1>1, <1>2, ThreeDigits
<1>7. Low(n) = r /\ Low(n \div Base) = Low(q)
  BY DEF Low, q, r
<1>8. q * Base + r = n
  BY <1>1, <1>2, <1>3
<1> QED
  BY <1>4, <1>5, <1>6, <1>7, <1>8

\* A digit is a byte.
LEMMA LowType ==
    ASSUME NEW n \in Nat
    PROVE  /\ Low(n) \in 0 .. Base - 1
           /\ n \div Base \in Nat /\ n \div (Base * Base) \in Nat
           /\ n \div (Base * Base * Base) \in Nat
<1>1. Base \in Nat \ {0}
  BY AmfAssumption
<1>2. Base * Base \in Nat \ {0}
  BY <1>1
<1>3. Base * Base * Base \in Nat \ {0}
  BY <1>1, <1>2
<1>4. Low(n) \in 0 .. Base - 1
  BY <1>1 DEF Low
<1>5. \A d \in Nat \ {0} : n \div d \in Nat
  OBVIOUS
<1> QED
  BY <1>1, <1>2, <1>3, <1>4, <1>5

-----------------------------------------------------------------------------
(* Bytes *)

\* What is on the wire: numbers of any size, for nothing here depends on the bound of a byte.
Bytes == Seq(Nat)

\* p lies in in after its first n bytes.
Holds(in, n, p) ==
    n + Len(p) <= Len(in) /\ \A i \in 1 .. Len(p) : in[n + i] = p[i]

\* What holds two sequences one after the other holds each.
LEMMA HoldsSplit ==
    ASSUME NEW in \in Bytes, NEW p \in Bytes, NEW q \in Bytes, NEW n \in Nat,
           Holds(in, n, p \o q)
    PROVE  Holds(in, n, p) /\ Holds(in, n + Len(p), q)
<1>1. /\ Len(p \o q) = Len(p) + Len(q) /\ Len(p) \in Nat /\ Len(q) \in Nat /\ Len(in) \in Nat
      /\ \A i \in 1 .. Len(p) + Len(q) : (p \o q)[i] = IF i <= Len(p) THEN p[i] ELSE q[i - Len(p)]
  BY ConcatProperties, LenProperties DEF Bytes
<1>2. n + Len(p) + Len(q) <= Len(in)
  BY <1>1 DEF Holds
<1>3. \A i \in 1 .. Len(p) + Len(q) : in[n + i] = (p \o q)[i]
  BY <1>1 DEF Holds
<1>4. ASSUME NEW i \in 1 .. Len(p) PROVE in[n + i] = p[i]
  <2>1. i \in 1 .. Len(p) + Len(q) /\ i <= Len(p)
    BY <1>1
  <2> QED
    BY <1>1, <1>3, <2>1
<1>5. ASSUME NEW i \in 1 .. Len(q) PROVE in[n + Len(p) + i] = q[i]
  <2>1. Len(p) + i \in 1 .. Len(p) + Len(q) /\ ~(Len(p) + i <= Len(p)) /\ Len(p) + i - Len(p) = i
    BY <1>1
  <2>2. in[n + (Len(p) + i)] = (p \o q)[Len(p) + i]
    BY <1>3, <2>1
  <2>3. n + (Len(p) + i) = n + Len(p) + i
    BY <1>1
  <2> QED
    BY <1>1, <2>1, <2>2, <2>3
<1> QED
  BY <1>1, <1>2, <1>4, <1>5 DEF Holds

\* A sequence holds itself.
LEMMA HoldsAll ==
    ASSUME NEW p \in Bytes
    PROVE  Holds(p, 0, p)
<1>1. Len(p) \in Nat
  BY LenProperties DEF Bytes
<1> QED
  BY <1>1 DEF Holds

\* The bytes that are left.
LEMMA RestBytes ==
    ASSUME NEW in \in Bytes, NEW n \in Nat, n <= Len(in)
    PROVE  /\ Rest(in, n) \in Bytes
           /\ Len(Rest(in, n)) = Len(in) - n
           /\ \A i \in 1 .. Len(in) - n : Rest(in, n)[i] = in[n + i]
<1>1. Len(in) \in Nat /\ \A i \in 1 .. Len(in) : in[i] \in Nat
  BY LenProperties, ElementOfSeq DEF Bytes
<1>2. \A i \in n + 1 .. Len(in) : in[i] \in Nat
  BY <1>1
<1>3. /\ SubSeq(in, n + 1, Len(in)) \in Seq(Nat)
      /\ Len(SubSeq(in, n + 1, Len(in))) = IF n + 1 <= Len(in) THEN Len(in) - (n + 1) + 1 ELSE 0
      /\ \A i \in 1 .. Len(in) - (n + 1) + 1 : SubSeq(in, n + 1, Len(in))[i] = in[n + 1 + i - 1]
  BY <1>1, <1>2, SubSeqProperties
<1>4. \A i \in 1 .. Len(in) - n : n + 1 + i - 1 = n + i
  BY <1>1
<1>5. Len(in) - (n + 1) + 1 = Len(in) - n
  BY <1>1
<1>6. Len(SubSeq(in, n + 1, Len(in))) = Len(in) - n
  BY <1>1, <1>3
<1>7. \A i \in 1 .. Len(in) - n : SubSeq(in, n + 1, Len(in))[i] = in[n + i]
  BY <1>3, <1>4, <1>5
<1> QED
  BY <1>3, <1>6, <1>7 DEF Rest, Bytes

\* The same bytes, as many: the same sequence.
LEMMA SameBytes ==
    ASSUME NEW p \in Bytes, NEW q \in Bytes, Len(p) = Len(q),
           \A i \in 1 .. Len(p) : p[i] = q[i]
    PROVE  p = q
BY SeqEqual DEF Bytes

\* What is left of what is left.
LEMMA RestRest ==
    ASSUME NEW in \in Bytes, NEW n \in Nat, NEW m \in Nat, n + m <= Len(in)
    PROVE  Rest(Rest(in, n), m) = Rest(in, n + m)
<1>1. Len(in) \in Nat
  BY LenProperties DEF Bytes
<1>0. n <= Len(in) /\ n + m \in Nat
  BY <1>1
<1>2. /\ Rest(in, n) \in Bytes /\ Len(Rest(in, n)) = Len(in) - n
      /\ \A i \in 1 .. Len(in) - n : Rest(in, n)[i] = in[n + i]
  BY <1>0, RestBytes
<1>3. /\ Rest(in, n + m) \in Bytes /\ Len(Rest(in, n + m)) = Len(in) - (n + m)
      /\ \A i \in 1 .. Len(in) - (n + m) : Rest(in, n + m)[i] = in[n + m + i]
  BY <1>0, RestBytes
<1>4. m <= Len(Rest(in, n))
  BY <1>1, <1>2
<1>5. /\ Rest(Rest(in, n), m) \in Bytes /\ Len(Rest(Rest(in, n), m)) = Len(Rest(in, n)) - m
      /\ \A i \in 1 .. Len(Rest(in, n)) - m : Rest(Rest(in, n), m)[i] = Rest(in, n)[m + i]
  BY <1>2, <1>4, RestBytes
<1>6. ASSUME NEW i \in 1 .. Len(in) - (n + m)
      PROVE  Rest(Rest(in, n), m)[i] = Rest(in, n + m)[i]
  <2>1. m + i \in 1 .. Len(in) - n /\ i \in 1 .. Len(Rest(in, n)) - m
    BY <1>1, <1>2
  <2>2. Rest(Rest(in, n), m)[i] = in[n + (m + i)]
    BY <1>2, <1>5, <2>1
  <2>3. n + (m + i) = n + m + i
    BY <1>1
  <2> QED
    BY <1>3, <2>2, <2>3
<1>7. Len(Rest(Rest(in, n), m)) = Len(in) - (n + m)
  BY <1>1, <1>2, <1>5
<1> QED
  BY <1>3, <1>5, <1>6, <1>7, SameBytes

\* What lies at the end is what is left.
LEMMA RestIs ==
    ASSUME NEW in \in Bytes, NEW p \in Bytes, NEW n \in Nat,
           Holds(in, n, p), n + Len(p) = Len(in)
    PROVE  Rest(in, n) = p
<1>1. Len(in) \in Nat /\ Len(p) \in Nat
  BY LenProperties DEF Bytes
<1>0. n <= Len(in)
  BY <1>1
<1>2. /\ Rest(in, n) \in Bytes /\ Len(Rest(in, n)) = Len(in) - n
      /\ \A i \in 1 .. Len(in) - n : Rest(in, n)[i] = in[n + i]
  BY <1>0, RestBytes
<1>3. Len(in) - n = Len(p)
  BY <1>1
<1>4. \A i \in 1 .. Len(p) : in[n + i] = p[i]
  BY DEF Holds
<1> QED
  BY <1>2, <1>3, <1>4, SameBytes

\* What lies further on lies in what is left.
LEMMA RestHolds ==
    ASSUME NEW in \in Bytes, NEW p \in Bytes, NEW n \in Nat, NEW m \in Nat,
           Holds(in, n + m, p)
    PROVE  Holds(Rest(in, n), m, p)
<1>1. Len(in) \in Nat /\ Len(p) \in Nat /\ n + m + Len(p) <= Len(in)
  BY LenProperties DEF Bytes, Holds
<1>0. n <= Len(in)
  BY <1>1
<1>2. /\ Len(Rest(in, n)) = Len(in) - n
      /\ \A i \in 1 .. Len(in) - n : Rest(in, n)[i] = in[n + i]
  BY <1>0, RestBytes
<1>3. ASSUME NEW i \in 1 .. Len(p) PROVE Rest(in, n)[m + i] = p[i]
  <2>1. m + i \in 1 .. Len(in) - n /\ n + (m + i) = n + m + i
    BY <1>1
  <2>2. in[n + m + i] = p[i]
    BY DEF Holds
  <2> QED
    BY <1>2, <2>1, <2>2
<1>4. m + Len(p) <= Len(in) - n
  BY <1>1
<1> QED
  BY <1>2, <1>3, <1>4 DEF Holds

-----------------------------------------------------------------------------
(* What is encoded *)

\* Bytes put together.
LEMMA ConcatBytes ==
    ASSUME NEW p \in Bytes, NEW q \in Bytes
    PROVE  p \o q \in Bytes /\ Len(p \o q) = Len(p) + Len(q)
BY ConcatProperties DEF Bytes

\* In whatever order.
LEMMA ConcatAssoc ==
    ASSUME NEW p \in Bytes, NEW q \in Bytes, NEW r \in Bytes
    PROVE  (p \o q) \o r = p \o (q \o r)
  BY ConcatAssociative, SMTT(30) DEF Bytes

\* A length is a number.
LEMMA LenBytes ==
    ASSUME NEW p \in Bytes
    PROVE  Len(p) \in Nat /\ DOMAIN p = 1 .. Len(p) /\ \A i \in 1 .. Len(p) : p[i] \in Nat
BY LenProperties, ElementOfSeq DEF Bytes

\* One byte more.
LEMMA OneMore ==
    ASSUME NEW x \in Nat, NEW p \in Bytes
    PROVE  /\ <<x>> \o p \in Bytes /\ Len(<<x>> \o p) = 1 + Len(p)
           /\ (<<x>> \o p)[1] = x
           /\ \A i \in 1 .. Len(p) : (<<x>> \o p)[1 + i] = p[i]
           /\ <<x>> \in Bytes /\ Len(<<x>>) = 1
<1>1. <<x>> \in Bytes /\ Len(<<x>>) = 1 /\ <<x>>[1] = x /\ Len(p) \in Nat
  BY LenBytes DEF Bytes
<1>2. /\ <<x>> \o p \in Bytes /\ Len(<<x>> \o p) = Len(<<x>>) + Len(p)
      /\ \A i \in 1 .. Len(<<x>>) + Len(p) :
           (<<x>> \o p)[i] = IF i <= Len(<<x>>) THEN <<x>>[i] ELSE p[i - Len(<<x>>)]
  BY <1>1, ConcatProperties DEF Bytes
<1>3. \A i \in 1 .. 1 + Len(p) : (<<x>> \o p)[i] = IF i <= 1 THEN <<x>>[i] ELSE p[i - 1]
  BY <1>1, <1>2
<1>4. 1 \in 1 .. 1 + Len(p) /\ 1 <= 1
  BY <1>1
<1>5. (<<x>> \o p)[1] = x
  BY <1>1, <1>3, <1>4
<1>6. ASSUME NEW i \in 1 .. Len(p) PROVE (<<x>> \o p)[1 + i] = p[i]
  <2>1. 1 + i \in 1 .. 1 + Len(p) /\ ~(1 + i <= 1) /\ 1 + i - 1 = i
    BY <1>1
  <2> QED
    BY <1>3, <2>1
<1> QED
  BY <1>1, <1>2, <1>5, <1>6

\* Integers.
LEMMA IntBytes ==
    ASSUME NEW n \in Nat
    PROVE  /\ encode_int16(n) \in Bytes /\ Len(encode_int16(n)) = 2
           /\ encode_int16(n)[1] = Low(n \div Base) /\ encode_int16(n)[2] = Low(n)
           /\ encode_int24(n) \in Bytes /\ Len(encode_int24(n)) = 3
           /\ encode_int24(n)[1] = Low(n \div (Base * Base))
           /\ encode_int24(n)[2] = Low(n \div Base) /\ encode_int24(n)[3] = Low(n)
           /\ encode_int32(n) \in Bytes /\ Len(encode_int32(n)) = 4
           /\ encode_int32(n)[1] = Low(n \div (Base * Base * Base))
           /\ encode_int32(n)[2] = Low(n \div (Base * Base))
           /\ encode_int32(n)[3] = Low(n \div Base) /\ encode_int32(n)[4] = Low(n)
<1> DEFINE a == Low(n)
           b == Low(n \div Base)
           c == Low(n \div (Base * Base))
           d == Low(n \div (Base * Base * Base))
<1>1. a \in Nat /\ b \in Nat /\ c \in Nat /\ d \in Nat
  <2>1. Base \in Nat
    BY AmfAssumption
  <2>2. \A m \in Nat : Low(m) \in Nat
    BY <2>1, LowType
  <2>3. n \div Base \in Nat /\ n \div (Base * Base) \in Nat /\ n \div (Base * Base * Base) \in Nat
    BY LowType
  <2> QED
    BY <2>2, <2>3
<1>2. encode_int16(n) = <<b, a>> /\ <<b, a>> \in Bytes /\ Len(<<b, a>>) = 2
  BY <1>1 DEF encode_int16, Bytes
<1> DEFINE three == <<c>> \o <<b, a>>
<1>3. encode_int24(n) = three
  BY <1>2 DEF encode_int24
<1>4. encode_int32(n) = <<d>> \o three
  BY <1>3 DEF encode_int32
<1> HIDE DEF a, b, c, d
<1>5. three \in Bytes /\ Len(three) = 3 /\ three[1] = c /\ three[2] = b /\ three[3] = a
  <2>1. /\ three \in Bytes /\ Len(three) = 1 + 2 /\ three[1] = c
        /\ \A i \in 1 .. 2 : three[1 + i] = <<b, a>>[i]
    BY <1>1, <1>2, OneMore
  <2>2. three[1 + 1] = b /\ three[1 + 2] = a
    BY <2>1
  <2> QED
    BY <2>1, <2>2
<1> HIDE DEF three
<1>6. /\ encode_int32(n) \in Bytes /\ Len(encode_int32(n)) = 4 /\ encode_int32(n)[1] = d
      /\ encode_int32(n)[2] = c /\ encode_int32(n)[3] = b /\ encode_int32(n)[4] = a
  <2>1. /\ <<d>> \o three \in Bytes /\ Len(<<d>> \o three) = 1 + Len(three)
        /\ (<<d>> \o three)[1] = d
        /\ \A i \in 1 .. Len(three) : (<<d>> \o three)[1 + i] = three[i]
    BY <1>1, <1>5, OneMore, ZenonT(30)
  <2>2. /\ (<<d>> \o three)[1 + 1] = c /\ (<<d>> \o three)[1 + 2] = b
        /\ (<<d>> \o three)[1 + 3] = a
    BY <1>5, <2>1
  <2> QED
    BY <1>4, <1>5, <2>1, <2>2
<1>7. <<b, a>>[1] = b /\ <<b, a>>[2] = a
  OBVIOUS
<1> QED
  BY <1>2, <1>3, <1>5, <1>6, <1>7 DEF a, b, c, d

\* A string, with its type: a short one, and a long one.
LEMMA StringBytes ==
    ASSUME NEW s \in Bytes
    PROVE  /\ encode_string(s) \in Bytes
           /\ Len(encode_string(s)) = encode_string_reserve(Len(s))
           /\ Len(s) < LongLen =>
                encode_string(s) = <<STRINGTYPE>> \o (encode_int16(Len(s)) \o s)
           /\ Len(s) >= LongLen => encode_string(s)[1] = LONG_STRING
<1>1. Len(s) \in Nat /\ LongLen \in Nat /\ STRINGTYPE \in Nat /\ LONG_STRING \in Nat
  BY LenBytes, AmfAssumption DEF LongLen, STRINGTYPE, LONG_STRING
<1>2. /\ encode_int16(Len(s)) \in Bytes /\ Len(encode_int16(Len(s))) = 2
      /\ encode_int32(Len(s)) \in Bytes /\ Len(encode_int32(Len(s))) = 4
  BY <1>1, IntBytes
<1>3. /\ <<STRINGTYPE>> \in Bytes /\ Len(<<STRINGTYPE>>) = 1
      /\ <<LONG_STRING>> \in Bytes /\ Len(<<LONG_STRING>>) = 1 /\ <<LONG_STRING>>[1] = LONG_STRING
  BY DEF Bytes, STRINGTYPE, LONG_STRING
<1>4. CASE Len(s) < LongLen
  <2>1. encode_string(s) = <<STRINGTYPE>> \o encode_int16(Len(s)) \o s
    BY <1>4 DEF encode_string
  <2>2. (<<STRINGTYPE>> \o encode_int16(Len(s))) \o s = <<STRINGTYPE>> \o (encode_int16(Len(s)) \o s)
    BY <1>2, <1>3, ConcatAssociative DEF Bytes
  <2>3. /\ encode_int16(Len(s)) \o s \in Bytes
        /\ Len(encode_int16(Len(s)) \o s) = 2 + Len(s)
    BY <1>2, ConcatBytes
  <2>4. /\ <<STRINGTYPE>> \o (encode_int16(Len(s)) \o s) \in Bytes
        /\ Len(<<STRINGTYPE>> \o (encode_int16(Len(s)) \o s)) = 1 + (2 + Len(s))
    BY <1>3, <2>3, ConcatBytes
  <2>5. encode_string_reserve(Len(s)) = Len(s) + 3
    BY <1>4 DEF encode_string_reserve
  <2>6. 1 + (2 + Len(s)) = Len(s) + 3 /\ ~(Len(s) >= LongLen)
    BY <1>1, <1>4
  <2>7. encode_string(s) = <<STRINGTYPE>> \o (encode_int16(Len(s)) \o s)
    BY <2>1, <2>2
  <2> QED
    BY <2>4, <2>5, <2>6, <2>7
<1>5. CASE Len(s) >= LongLen
  <2>1. encode_string(s) = <<LONG_STRING>> \o encode_int32(Len(s)) \o s
    BY <1>1, <1>5 DEF encode_string
  <2>2. /\ <<LONG_STRING>> \o encode_int32(Len(s)) \in Bytes
        /\ Len(<<LONG_STRING>> \o encode_int32(Len(s))) = 1 + Len(encode_int32(Len(s)))
        /\ (<<LONG_STRING>> \o encode_int32(Len(s)))[1] = LONG_STRING
    BY <1>1, <1>2, OneMore
  <2>3. encode_string(s) \in Bytes /\ Len(encode_string(s)) = 1 + 4 + Len(s)
    BY <1>2, <2>1, <2>2, ConcatBytes
  <2>4. 1 + 4 + Len(s) = Len(s) + 5 /\ ~(Len(s) < LongLen)
    BY <1>1, <1>5
  <2>5. encode_string(s)[1] = (<<LONG_STRING>> \o encode_int32(Len(s)))[1]
    <3> DEFINE p == <<LONG_STRING>> \o encode_int32(Len(s))
    <3>1. p \in Bytes /\ Len(p) = 5
      BY <1>2, <2>2
    <3> HIDE DEF p
    <3>2. 1 \in 1 .. Len(p) + Len(s) /\ 1 <= Len(p)
      BY <1>1, <3>1
    <3>3. (p \o s)[1] = p[1]
      BY <3>1, <3>2, ConcatProperties DEF Bytes
    <3> QED
      BY <2>1, <3>3 DEF p
  <2>6. encode_string_reserve(Len(s)) = Len(s) + 5
    BY <1>1, <1>5 DEF encode_string_reserve
  <2> QED
    BY <2>2, <2>3, <2>4, <2>5, <2>6
<1> QED
  BY <1>1, <1>4, <1>5

\* Numbers, booleans and null.
LEMMA NumberBytes ==
    ASSUME NEW d \in Bytes, Len(d) = 8
    PROVE  /\ encode_number(d) \in Bytes /\ Len(encode_number(d)) = 9
           /\ encode_number(d)[1] = NUMBER
           /\ \A i \in 1 .. 8 : encode_number(d)[1 + i] = d[9 - i]
<1>1. /\ Reverse(d) \in Bytes /\ Len(Reverse(d)) = 8
      /\ \A i \in 1 .. 8 : Reverse(d)[i] = d[9 - i]
  <2>1. Reverse(d) = [i \in 1 .. 8 |-> d[(8 - i) + 1]]
    BY DEF Reverse
  <2>2. \A i \in 1 .. 8 : (8 - i) + 1 = 9 - i /\ 9 - i \in 1 .. 8
    OBVIOUS
  <2>3. \A i \in 1 .. 8 : d[9 - i] \in Nat
    BY <2>2, LenBytes
  <2>4. \A i \in 1 .. 8 : d[(8 - i) + 1] \in Nat
    BY <2>2, <2>3
  <2>5. Reverse(d) \in Seq(Nat) /\ Len(Reverse(d)) = 8
    BY <2>1, <2>4
  <2> QED
    BY <2>1, <2>2, <2>5 DEF Bytes
<1>2. NUMBER \in Nat
  BY DEF NUMBER
<1>3. /\ <<NUMBER>> \o Reverse(d) \in Bytes /\ Len(<<NUMBER>> \o Reverse(d)) = 1 + Len(Reverse(d))
      /\ (<<NUMBER>> \o Reverse(d))[1] = NUMBER
      /\ \A i \in 1 .. Len(Reverse(d)) : (<<NUMBER>> \o Reverse(d))[1 + i] = Reverse(d)[i]
  BY <1>1, <1>2, OneMore, ZenonT(30)
<1> QED
  BY <1>1, <1>3 DEF encode_number

\* A boolean is its mark and one byte.
LEMMA BooleanBytes ==
    ASSUME NEW b \in BOOLEAN
    PROVE  /\ encode_boolean(b) \in Bytes /\ Len(encode_boolean(b)) = 2
           /\ encode_boolean(b)[1] = BOOLEANTYPE
           /\ encode_boolean(b)[2] = IF b THEN 1 ELSE 0
BY DEF encode_boolean, Bytes, BOOLEANTYPE

\* A null, and the two ends of an object.
LEMMA MarkBytes ==
    /\ encode_null \in Bytes /\ Len(encode_null) = 1 /\ encode_null[1] = NULL
    /\ encode_object_begin \in Bytes /\ Len(encode_object_begin) = 1
    /\ encode_object_begin[1] = OBJECT
    /\ encode_object_end \in Bytes /\ Len(encode_object_end) = 3
    /\ encode_object_end[1] = 0 /\ encode_object_end[2] = 0
    /\ encode_object_end[3] = OBJECT_END
<1>1. OBJECT_END \in Nat /\ OBJECT_END = 9 /\ Base \in Nat /\ Base > 20
  BY AmfAssumption DEF OBJECT_END
<1>2. Low(OBJECT_END) = 9
  BY <1>1 DEF Low
<1>3. OBJECT_END \div Base = 0
  BY <1>1
<1>4. OBJECT_END \div (Base * Base) = 0
  <2>1. OBJECT_END \div (Base * Base) = (OBJECT_END \div Base) \div Base
    BY <1>1, DivDiv
  <2> QED
    BY <1>1, <1>3, <2>1
<1>5. Low(0) = 0
  BY <1>1 DEF Low
<1>6. /\ encode_int24(OBJECT_END) \in Bytes /\ Len(encode_int24(OBJECT_END)) = 3
      /\ encode_int24(OBJECT_END)[1] = Low(OBJECT_END \div (Base * Base))
      /\ encode_int24(OBJECT_END)[2] = Low(OBJECT_END \div Base)
      /\ encode_int24(OBJECT_END)[3] = Low(OBJECT_END)
  BY <1>1, IntBytes
<1>7. /\ encode_null \in Bytes /\ Len(encode_null) = 1 /\ encode_null[1] = NULL
      /\ encode_object_begin \in Bytes /\ Len(encode_object_begin) = 1
      /\ encode_object_begin[1] = OBJECT
  BY DEF encode_null, encode_object_begin, NULL, OBJECT, Bytes
<1> QED
  BY <1>1, <1>2, <1>3, <1>4, <1>5, <1>6, <1>7 DEF encode_object_end

-----------------------------------------------------------------------------
(* What the decoders make of it *)

\* What a sequence starts with.
LEMMA StartsWith ==
    ASSUME NEW in \in Bytes, NEW p \in Bytes, Holds(in, 0, p)
    PROVE  Len(p) <= Len(in) /\ \A i \in 1 .. Len(p) : in[i] = p[i]
<1>1. Len(p) \in Nat /\ Len(in) \in Nat
  BY LenBytes
<1>2. \A i \in 1 .. Len(p) : 0 + i = i
  OBVIOUS
<1> QED
  BY <1>1, <1>2 DEF Holds

\* An integer comes back.
LEMMA ReadInt24 ==
    ASSUME NEW in \in Bytes, NEW n \in Nat, n < Base * Base * Base,
           Holds(in, 0, encode_int24(n))
    PROVE  decode_int24(in) = Decoded(n, 3)
<1>1. /\ encode_int24(n) \in Bytes /\ Len(encode_int24(n)) = 3
      /\ encode_int24(n)[1] = Low(n \div (Base * Base))
      /\ encode_int24(n)[2] = Low(n \div Base) /\ encode_int24(n)[3] = Low(n)
  BY IntBytes
<1>2. /\ 3 <= Len(in) /\ in[1] = Low(n \div (Base * Base))
      /\ in[2] = Low(n \div Base) /\ in[3] = Low(n)
  BY <1>1, StartsWith
<1>3. (in[1] * Base + in[2]) * Base + in[3] = n
  BY <1>2, ThreeDigits
<1>4. ~(Len(in) < 3)
  BY <1>2, LenBytes
<1> QED
  BY <1>3, <1>4 DEF decode_int24

\* decode_int32 gives back what encode_int32 wrote.
LEMMA ReadInt32 ==
    ASSUME NEW in \in Bytes, NEW n \in Nat, n < Base * Base * Base * Base,
           Holds(in, 0, encode_int32(n))
    PROVE  decode_int32(in) = Decoded(n, 4)
<1>1. /\ encode_int32(n) \in Bytes /\ Len(encode_int32(n)) = 4
      /\ encode_int32(n)[1] = Low(n \div (Base * Base * Base))
      /\ encode_int32(n)[2] = Low(n \div (Base * Base))
      /\ encode_int32(n)[3] = Low(n \div Base) /\ encode_int32(n)[4] = Low(n)
  BY IntBytes
<1>2. /\ 4 <= Len(in) /\ in[1] = Low(n \div (Base * Base * Base))
      /\ in[2] = Low(n \div (Base * Base))
      /\ in[3] = Low(n \div Base) /\ in[4] = Low(n)
  <2>1. 4 <= Len(in) /\ \A i \in 1 .. 4 : in[i] = encode_int32(n)[i]
    BY <1>1, StartsWith
  <2>2. 1 \in 1 .. 4 /\ 2 \in 1 .. 4 /\ 3 \in 1 .. 4 /\ 4 \in 1 .. 4
    OBVIOUS
  <2>3. /\ in[1] = encode_int32(n)[1] /\ in[2] = encode_int32(n)[2]
        /\ in[3] = encode_int32(n)[3] /\ in[4] = encode_int32(n)[4]
    BY <2>1, <2>2
  <2> QED
    BY <1>1, <2>1, <2>3
<1>3. ((in[1] * Base + in[2]) * Base + in[3]) * Base + in[4] = n
  BY <1>2, FourDigits
<1>4. ~(Len(in) < 4)
  BY <1>2, LenBytes
<1> QED
  BY <1>3, <1>4 DEF decode_int32

\* The length of a short string is below Base * Base.
LEMMA ReadString ==
    ASSUME NEW in \in Bytes, NEW s \in Bytes, Len(s) < LongLen,
           Holds(in, 0, encode_int16(Len(s)) \o s)
    PROVE  decode_string(in) = Decoded(Value(STRINGTYPE, s), Len(s) + 2)
<1> DEFINE n == Len(s)
<1>1. n \in Nat /\ Len(in) \in Nat /\ \A i \in 1 .. Len(in) : in[i] \in Nat
  BY LenBytes
<1>2. /\ encode_int16(n) \in Bytes /\ Len(encode_int16(n)) = 2
      /\ encode_int16(n)[1] = Low(n \div Base) /\ encode_int16(n)[2] = Low(n)
  BY <1>1, IntBytes
<1>3. Holds(in, 0, encode_int16(n)) /\ Holds(in, 0 + 2, s)
  BY <1>2, HoldsSplit
<1>4. in[1] = Low(n \div Base) /\ in[2] = Low(n)
  BY <1>2, <1>3, StartsWith
<1>5. in[1] * Base + in[2] = n
  BY <1>1, <1>4, TwoDigits DEF LongLen
<1>6. 2 + n <= Len(in) /\ \A i \in 1 .. n : in[2 + i] = s[i]
  BY <1>3 DEF Holds
<1>7. SubSeq(in, 3, n + 2) = s
  <2>1. \A i \in 3 .. n + 2 : in[i] \in Nat
    BY <1>1, <1>6
  <2>2. n + 2 - 3 + 1 = n /\ (IF 3 <= n + 2 THEN n + 2 - 3 + 1 ELSE 0) = n
    BY <1>1
  <2>3. /\ SubSeq(in, 3, n + 2) \in Seq(Nat)
        /\ Len(SubSeq(in, 3, n + 2)) = IF 3 <= n + 2 THEN n + 2 - 3 + 1 ELSE 0
        /\ \A i \in 1 .. n + 2 - 3 + 1 : SubSeq(in, 3, n + 2)[i] = in[3 + i - 1]
    BY <1>1, <2>1, SubSeqProperties
  <2>4. ASSUME NEW i \in 1 .. n PROVE SubSeq(in, 3, n + 2)[i] = s[i]
    <3>1. 3 + i - 1 = 2 + i
      OBVIOUS
    <3> QED
      BY <1>6, <2>2, <2>3, <3>1
  <2>5. SubSeq(in, 3, n + 2) \in Bytes /\ Len(SubSeq(in, 3, n + 2)) = n
    BY <2>2, <2>3 DEF Bytes
  <2> QED
    BY <2>4, <2>5, SameBytes
<1>8. ~(Len(in) < 2) /\ ~(n > Len(in) - 2)
  BY <1>1, <1>6
<1> QED
  BY <1>5, <1>7, <1>8 DEF decode_string

\* decode_string_with_type gives back a string that fits in two bytes of length.
LEMMA ReadStringWithType ==
    ASSUME NEW in \in Bytes, NEW s \in Bytes, Len(s) < LongLen,
           Holds(in, 0, encode_string(s))
    PROVE  decode_string_with_type(in) = Decoded(Value(STRINGTYPE, s), Len(s) + 3)
<1> DEFINE t == encode_int16(Len(s)) \o s
<1>1. Len(s) \in Nat /\ Len(in) \in Nat /\ STRINGTYPE \in Nat
  BY LenBytes DEF STRINGTYPE
<1>2. encode_int16(Len(s)) \in Bytes /\ Len(encode_int16(Len(s))) = 2
  BY <1>1, IntBytes
<1>3. t \in Bytes /\ Len(t) = 2 + Len(s)
  BY <1>2, ConcatBytes
<1>4. encode_string(s) = <<STRINGTYPE>> \o t
  BY StringBytes
<1> HIDE DEF t
<1>5. <<STRINGTYPE>> \in Bytes /\ Len(<<STRINGTYPE>>) = 1 /\ <<STRINGTYPE>>[1] = STRINGTYPE
  BY <1>1 DEF Bytes
<1>6. Holds(in, 0, <<STRINGTYPE>>) /\ Holds(in, 0 + 1, t)
  BY <1>3, <1>4, <1>5, HoldsSplit
<1>7. in[1] = STRINGTYPE
  BY <1>5, <1>6, StartsWith
<1>8. 1 + (2 + Len(s)) <= Len(in)
  BY <1>3, <1>6 DEF Holds
<1>9. Rest(in, 1) \in Bytes
  BY <1>1, <1>8, RestBytes
<1>10. Holds(Rest(in, 1), 0, t)
  BY <1>3, <1>6, RestHolds
<1>11. decode_string(Rest(in, 1)) = Decoded(Value(STRINGTYPE, s), Len(s) + 2)
  BY <1>9, <1>10, ReadString DEF t
<1>12. ~(Len(in) < 3) /\ Len(s) + 2 + 1 = Len(s) + 3
  BY <1>1, <1>8
<1>13. /\ decode_string(Rest(in, 1)).ok
       /\ decode_string(Rest(in, 1)).value = Value(STRINGTYPE, s)
       /\ decode_string(Rest(in, 1)).next + 1 = Len(s) + 3
  BY <1>11, <1>12 DEF Decoded
<1> QED
  BY <1>7, <1>12, <1>13 DEF decode_string_with_type

\* decode_number_with_type gives back the eight bytes of the number.
LEMMA ReadNumber ==
    ASSUME NEW in \in Bytes, NEW d \in Bytes, Len(d) = 8, Holds(in, 0, encode_number(d))
    PROVE  decode_number_with_type(in) = Decoded(Value(NUMBER, d), 9)
<1>1. /\ encode_number(d) \in Bytes /\ Len(encode_number(d)) = 9
      /\ encode_number(d)[1] = NUMBER
      /\ \A i \in 1 .. 8 : encode_number(d)[1 + i] = d[9 - i]
  BY NumberBytes
<1>2. 9 <= Len(in) /\ \A i \in 1 .. 9 : in[i] = encode_number(d)[i]
  BY <1>1, StartsWith, SMTT(30)
<1>3. Len(in) \in Nat /\ \A i \in 1 .. Len(in) : in[i] \in Nat
  BY LenBytes
<1>4. in[1] = NUMBER
  BY <1>1, <1>2
<1>5. \A i \in 1 .. 8 : in[1 + i] = d[9 - i]
  <2>1. \A i \in 1 .. 8 : 1 + i \in 1 .. 9
    OBVIOUS
  <2> QED
    BY <1>1, <1>2, <2>1
<1> DEFINE m == SubSeq(in, 2, 9)
<1>6. /\ m \in Bytes /\ Len(m) = 8
      /\ \A i \in 1 .. 8 : m[i] = in[1 + i]
  <2>1. \A i \in 2 .. 9 : in[i] \in Nat
    BY <1>2, <1>3
  <2>2. /\ m \in Seq(Nat) /\ Len(m) = IF 2 <= 9 THEN 9 - 2 + 1 ELSE 0
        /\ \A i \in 1 .. 9 - 2 + 1 : m[i] = in[2 + i - 1]
    BY <2>1, SubSeqProperties
  <2>3. \A i \in 1 .. 8 : 2 + i - 1 = 1 + i
    OBVIOUS
  <2>4. 9 - 2 + 1 = 8
    OBVIOUS
  <2> HIDE DEF m
  <2> QED
    BY <2>2, <2>3, <2>4 DEF Bytes
<1> HIDE DEF m
<1>7. Reverse(m) = d
  <2>1. Reverse(m) = [i \in 1 .. 8 |-> m[(8 - i) + 1]]
    BY <1>6 DEF Reverse
  <2>2. ASSUME NEW i \in 1 .. 8 PROVE m[(8 - i) + 1] = d[i]
    <3>1. (8 - i) + 1 \in 1 .. 8 /\ 9 - ((8 - i) + 1) = i
      OBVIOUS
    <3> QED
      BY <1>5, <1>6, <3>1
  <2>3. d = [i \in 1 .. 8 |-> d[i]]
    BY LenProperties DEF Bytes
  <2> QED
    BY <2>1, <2>2, <2>3
<1>8. ~(Len(in) < 9)
  BY <1>2, <1>3
<1> QED
  BY <1>4, <1>7, <1>8 DEF decode_number_with_type, m

\* decode_boolean_with_type gives back the boolean, as a byte.
LEMMA ReadBoolean ==
    ASSUME NEW in \in Bytes, NEW b \in BOOLEAN, Holds(in, 0, encode_boolean(b))
    PROVE  decode_boolean_with_type(in) =
             Decoded(Value(BOOLEANTYPE, <<IF b THEN 1 ELSE 0>>), 2)
<1>1. /\ encode_boolean(b) \in Bytes /\ Len(encode_boolean(b)) = 2
      /\ encode_boolean(b)[1] = BOOLEANTYPE /\ encode_boolean(b)[2] = IF b THEN 1 ELSE 0
  BY BooleanBytes
<1>2. 2 <= Len(in) /\ in[1] = BOOLEANTYPE /\ in[2] = IF b THEN 1 ELSE 0
  BY <1>1, StartsWith, SMTT(30)
<1>3. ~(Len(in) < 2)
  BY <1>2, LenBytes
<1>4. (IF in[2] = 1 THEN 1 ELSE 0) = IF b THEN 1 ELSE 0
  BY <1>2
<1> QED
  BY <1>2, <1>3, <1>4 DEF decode_boolean_with_type

\* A decoder takes nothing that starts with another type.
LEMMA OtherType ==
    ASSUME NEW in
    PROVE  /\ in[1] # NUMBER => decode_number_with_type(in) = Failed
           /\ in[1] # BOOLEANTYPE => decode_boolean_with_type(in) = Failed
           /\ in[1] # STRINGTYPE => decode_string_with_type(in) = Failed
BY DEF decode_number_with_type, decode_boolean_with_type, decode_string_with_type

\* Of several tries, one succeeds.
LEMMA TheOneThatSucceeds ==
    ASSUME NEW tries, NEW x \in tries, x.ok = TRUE, \A t \in tries : t # x => t = Failed
    PROVE  (\E t \in tries : t.ok) /\ (CHOOSE t \in tries : t.ok) = x
<1>1. ~Failed.ok
  BY DEF Failed
<1>2. \A t \in tries : t.ok => t = x
  BY <1>1
<1>3. x.ok
  OBVIOUS
<1>4. \E t \in tries : t.ok
  BY <1>3
<1>5. /\ (CHOOSE t \in tries : t.ok) \in tries
      /\ (CHOOSE t \in tries : t.ok).ok
  BY <1>4
<1> QED
  BY <1>2, <1>4, <1>5

-----------------------------------------------------------------------------
(* Properties *)

\* What can be encoded: numbers, booleans and strings, long ones too.
Values ==
    {v \in [type : {NUMBER, BOOLEANTYPE, STRINGTYPE}, data : Bytes] :
        /\ v.type = NUMBER => Len(v.data) = 8
        /\ v.type = BOOLEANTYPE => v.data \in {<<0>>, <<1>>}}

\* What an object holds, as encode_object_named writes it: a name that fits in
\* two bytes of length, and a value.
Items == {item \in [name : Bytes, value : Values] : Len(item.name) < LongLen}

\* What can be decoded.
Short(v) == v.type = STRINGTYPE => Len(v.data) < LongLen

\* The three types.
LEMMA Types ==
    /\ NUMBER = 0 /\ BOOLEANTYPE = 1 /\ STRINGTYPE = 2 /\ OBJECT = 3 /\ NULL = 5
    /\ ECMA_ARRAY = 8 /\ OBJECT_END = 9 /\ LONG_STRING = 12
BY DEF NUMBER, BOOLEANTYPE, STRINGTYPE, OBJECT, NULL, ECMA_ARRAY, OBJECT_END, LONG_STRING

\* The encoding of a value, by its type.
LEMMA ValueEncoding ==
    ASSUME NEW v \in Values
    PROVE  /\ v.type = NUMBER => encode_value(v) = encode_number(v.data)
           /\ v.type = BOOLEANTYPE => encode_value(v) = encode_boolean(v.data = <<1>>)
           /\ v.type = STRINGTYPE => encode_value(v) = encode_string(v.data)
<1>1. NUMBER # BOOLEANTYPE /\ NUMBER # STRINGTYPE /\ BOOLEANTYPE # STRINGTYPE
  BY Types
<1>2. CASE v.type = NUMBER
  BY <1>1, <1>2 DEF encode_value
<1>3. CASE v.type = BOOLEANTYPE
  BY <1>1, <1>3 DEF encode_value
<1>4. CASE v.type = STRINGTYPE
  BY <1>1, <1>4 DEF encode_value
<1> QED
  BY <1>2, <1>3, <1>4

\* A value starts with its type.
LEMMA ValueBytes ==
    ASSUME NEW v \in Values
    PROVE  /\ encode_value(v) \in Bytes /\ Len(encode_value(v)) >= 1
           /\ Short(v) => encode_value(v)[1] = v.type
           /\ ~Short(v) => v.type = STRINGTYPE /\ encode_value(v)[1] = LONG_STRING
<1>1. /\ v.type \in {NUMBER, BOOLEANTYPE, STRINGTYPE} /\ v.data \in Bytes
      /\ Len(v.data) \in Nat /\ LongLen \in Nat
  BY LenBytes, AmfAssumption DEF Values, LongLen
<1>2. CASE v.type = NUMBER
  <2>1. Len(v.data) = 8 /\ Short(v)
    BY <1>2, Types DEF Values, Short
  <2>2. encode_value(v) = encode_number(v.data)
    BY <1>2, ValueEncoding
  <2>3. /\ encode_number(v.data) \in Bytes /\ Len(encode_number(v.data)) = 9
        /\ encode_number(v.data)[1] = NUMBER
    BY <1>1, <2>1, NumberBytes
  <2> QED
    BY <1>2, <2>1, <2>2, <2>3
<1>3. CASE v.type = BOOLEANTYPE
  <2>1. Short(v)
    BY <1>3, Types DEF Short
  <2>2. encode_value(v) = encode_boolean(v.data = <<1>>)
    BY <1>3, ValueEncoding
  <2>3. ASSUME NEW b \in BOOLEAN
        PROVE  /\ encode_boolean(b) \in Bytes /\ Len(encode_boolean(b)) = 2
               /\ encode_boolean(b)[1] = BOOLEANTYPE
    BY BooleanBytes
  <2>4. (v.data = <<1>>) \in BOOLEAN
    OBVIOUS
  <2>5. /\ encode_value(v) \in Bytes /\ Len(encode_value(v)) = 2
        /\ encode_value(v)[1] = BOOLEANTYPE
    BY <2>2, <2>3, <2>4, Zenon
  <2> QED
    BY <1>3, <2>1, <2>5
<1>4. CASE v.type = STRINGTYPE
  <2>1. encode_value(v) = encode_string(v.data)
    BY <1>4, ValueEncoding
  <2>2. /\ encode_string(v.data) \in Bytes
        /\ Len(encode_string(v.data)) = encode_string_reserve(Len(v.data))
        /\ Len(v.data) < LongLen => encode_string(v.data)
              = <<STRINGTYPE>> \o (encode_int16(Len(v.data)) \o v.data)
        /\ Len(v.data) >= LongLen => encode_string(v.data)[1] = LONG_STRING
    BY <1>1, StringBytes
  <2>3. Len(encode_string(v.data)) >= 1
    BY <1>1, <2>2 DEF encode_string_reserve
  <2>4. CASE Short(v)
    <3>1. Len(v.data) < LongLen
      BY <1>4, <2>4 DEF Short
    <3>2. encode_int16(Len(v.data)) \o v.data \in Bytes /\ STRINGTYPE \in Nat
      BY <1>1, IntBytes, ConcatBytes, Types
    <3>3. \A p \in Bytes : (<<STRINGTYPE>> \o p)[1] = STRINGTYPE
      BY <3>2, OneMore
    <3>4. encode_string(v.data)[1] = STRINGTYPE
      BY <2>2, <3>1, <3>2, <3>3
    <3> QED
      BY <1>4, <2>1, <2>2, <2>3, <2>4, <3>4
  <2>5. CASE ~Short(v)
    <3>1. Len(v.data) >= LongLen
      BY <1>1, <2>5 DEF Short
    <3> QED
      BY <1>4, <2>1, <2>2, <2>3, <2>5, <3>1
  <2> QED
    BY <2>4, <2>5
<1> QED
  BY <1>1, <1>2, <1>3, <1>4

\* A value that one decoder takes and the others do not.
LEMMA OneDecoder ==
    ASSUME NEW in, NEW x, x.ok = TRUE,
           x \in {decode_number_with_type(in), decode_boolean_with_type(in),
                  decode_string_with_type(in)},
           decode_number_with_type(in) \in {x, Failed},
           decode_boolean_with_type(in) \in {x, Failed},
           decode_string_with_type(in) \in {x, Failed}
    PROVE  decode_value(in) = x
<1> DEFINE tries == {decode_number_with_type(in), decode_boolean_with_type(in),
                     decode_string_with_type(in)}
<1>1. x \in tries /\ \A t \in tries : t # x => t = Failed
  OBVIOUS
<1>2. decode_value(in) =
        IF \E t \in tries : t.ok THEN CHOOSE t \in tries : t.ok ELSE Failed
  BY DEF decode_value
<1> HIDE DEF tries
<1>3. (\E t \in tries : t.ok) /\ (CHOOSE t \in tries : t.ok) = x
  BY <1>1, TheOneThatSucceeds
<1> QED
  BY <1>2, <1>3

\* A value that is not a long string comes back.
LEMMA ReadValue ==
    ASSUME NEW in \in Bytes, NEW v \in Values, Short(v), Holds(in, 0, encode_value(v))
    PROVE  decode_value(in) = Decoded(v, Len(encode_value(v)))
<1> DEFINE x == Decoded(v, Len(encode_value(v)))
<1>1. /\ v.type \in {NUMBER, BOOLEANTYPE, STRINGTYPE} /\ v.data \in Bytes
      /\ v = Value(v.type, v.data)
  BY DEF Values, Value
<1>2. /\ encode_value(v) \in Bytes /\ Len(encode_value(v)) >= 1
      /\ encode_value(v)[1] = v.type
  BY ValueBytes
<1>3. in[1] = v.type
  <2>1. Len(encode_value(v)) \in Nat
    BY <1>2, LenBytes
  <2>2. 1 \in 1 .. Len(encode_value(v))
    BY <1>2, <2>1
  <2> QED
    BY <1>2, <2>2, StartsWith
<1>4. NUMBER # BOOLEANTYPE /\ NUMBER # STRINGTYPE /\ BOOLEANTYPE # STRINGTYPE
  BY Types
<1>5. x.ok = TRUE
  BY DEF Decoded
<1>6. CASE v.type = NUMBER
  <2>1. Len(v.data) = 8
    BY <1>6 DEF Values
  <2>2. encode_value(v) = encode_number(v.data)
    BY <1>6, ValueEncoding
  <2>3. decode_number_with_type(in) = Decoded(v, 9)
    BY <1>1, <1>6, <2>1, <2>2, ReadNumber
  <2>4. Len(encode_value(v)) = 9
    BY <1>1, <2>1, <2>2, NumberBytes
  <2>5. decode_boolean_with_type(in) = Failed /\ decode_string_with_type(in) = Failed
    BY <1>3, <1>4, <1>6, OtherType
  <2>6. decode_number_with_type(in) = x
    BY <2>3, <2>4
  <2> HIDE DEF x
  <2> QED
    BY <1>5, <2>5, <2>6, OneDecoder DEF x
<1>7. CASE v.type = BOOLEANTYPE
  <2>1. encode_value(v) = encode_boolean(v.data = <<1>>)
    BY <1>7, ValueEncoding
  <2>2. PICK b \in BOOLEAN : b <=> (v.data = <<1>>)
    OBVIOUS
  <2>3. encode_value(v) = encode_boolean(b)
    BY <2>1, <2>2, Zenon
  <2>4. decode_boolean_with_type(in) = Decoded(Value(BOOLEANTYPE, <<IF b THEN 1 ELSE 0>>), 2)
    BY <2>3, ReadBoolean
  <2>5. Len(encode_value(v)) = 2
    BY <2>3, BooleanBytes
  <2>6. <<IF b THEN 1 ELSE 0>> = v.data
    <3>1. v.data = <<0>> \/ v.data = <<1>>
      BY <1>7 DEF Values
    <3>2. <<0>> # <<1>>
      OBVIOUS
    <3> QED
      BY <2>2, <3>1, <3>2
  <2>7. decode_boolean_with_type(in) = x
    BY <1>1, <1>7, <2>4, <2>5, <2>6
  <2>8. decode_number_with_type(in) = Failed /\ decode_string_with_type(in) = Failed
    BY <1>3, <1>4, <1>7, OtherType
  <2> HIDE DEF x
  <2> QED
    BY <1>5, <2>7, <2>8, OneDecoder DEF x
<1>8. CASE v.type = STRINGTYPE
  <2>1. Len(v.data) < LongLen
    BY <1>8 DEF Short
  <2>2. encode_value(v) = encode_string(v.data)
    BY <1>8, ValueEncoding
  <2>3. decode_string_with_type(in) = Decoded(v, Len(v.data) + 3)
    BY <1>1, <1>8, <2>1, <2>2, ReadStringWithType
  <2>4. Len(encode_value(v)) = Len(v.data) + 3
    BY <1>1, <2>1, <2>2, StringBytes DEF encode_string_reserve
  <2>5. decode_number_with_type(in) = Failed /\ decode_boolean_with_type(in) = Failed
    BY <1>3, <1>4, <1>8, OtherType
  <2>6. decode_string_with_type(in) = x
    BY <2>3, <2>4
  <2> HIDE DEF x
  <2> QED
    BY <1>5, <2>5, <2>6, OneDecoder DEF x
<1> QED
  BY <1>1, <1>6, <1>7, <1>8

\* No decoder takes a long string.
LEMMA LongValue ==
    ASSUME NEW in \in Bytes, NEW v \in Values, ~Short(v), Holds(in, 0, encode_value(v))
    PROVE  decode_value(in) = Failed
<1>1. /\ encode_value(v) \in Bytes /\ Len(encode_value(v)) >= 1
      /\ encode_value(v)[1] = LONG_STRING
  BY ValueBytes
<1>2. in[1] = LONG_STRING
  <2>1. Len(encode_value(v)) \in Nat
    BY <1>1, LenBytes
  <2>2. 1 \in 1 .. Len(encode_value(v))
    BY <1>1, <2>1
  <2> QED
    BY <1>1, <2>2, StartsWith
<1>3. LONG_STRING # NUMBER /\ LONG_STRING # BOOLEANTYPE /\ LONG_STRING # STRINGTYPE
  BY Types
<1>4. /\ decode_number_with_type(in) = Failed /\ decode_boolean_with_type(in) = Failed
      /\ decode_string_with_type(in) = Failed
  BY <1>2, <1>3, OtherType
<1>5. ~Failed.ok
  BY DEF Failed
<1> QED
  BY <1>4, <1>5 DEF decode_value

\* A name and the encoded value after it.
LEMMA ItemBytes ==
    ASSUME NEW item \in Items
    PROVE  /\ item.name \in Bytes /\ Len(item.name) \in Nat /\ Len(item.name) < LongLen
           /\ item.value \in Values
           /\ encode_int16(Len(item.name)) \o item.name \in Bytes
           /\ Len(encode_int16(Len(item.name)) \o item.name) = 2 + Len(item.name)
           /\ encode_object_named(item) \in Bytes
           /\ Len(encode_object_named(item)) =
                2 + Len(item.name) + Len(encode_value(item.value))
           /\ Len(encode_object_named(item)) >= 3
<1>1. /\ item.name \in Bytes /\ Len(item.name) < LongLen /\ item.value \in Values
      /\ Len(item.name) \in Nat
  BY LenBytes DEF Items
<1>2. encode_int16(Len(item.name)) \in Bytes /\ Len(encode_int16(Len(item.name))) = 2
  BY <1>1, IntBytes
<1>3. /\ encode_int16(Len(item.name)) \o item.name \in Bytes
      /\ Len(encode_int16(Len(item.name)) \o item.name) = 2 + Len(item.name)
  BY <1>1, <1>2, ConcatBytes
<1>4. /\ encode_value(item.value) \in Bytes /\ Len(encode_value(item.value)) >= 1
      /\ Len(encode_value(item.value)) \in Nat
  BY <1>1, ValueBytes, LenBytes
<1>5. /\ encode_object_named(item) \in Bytes
      /\ Len(encode_object_named(item)) =
           2 + Len(item.name) + Len(encode_value(item.value))
  BY <1>3, <1>4, ConcatBytes DEF encode_object_named
<1>6. 2 + Len(item.name) + Len(encode_value(item.value)) >= 3
  <2>1. \A a, b \in Nat : b >= 1 => 2 + a + b >= 3
    OBVIOUS
  <2> QED
    BY <1>1, <1>4, <2>1
<1> QED
  BY <1>1, <1>3, <1>5, <1>6

\* The mark of the end, byte by byte.
LEMMA EndsAtIs ==
    ASSUME NEW in \in Bytes, NEW at \in Nat
    PROVE  EndsAt(in, at) <=> /\ at + 3 <= Len(in)
                              /\ in[at + 1] = 0 /\ in[at + 2] = 0 /\ in[at + 3] = OBJECT_END
<1>1. Len(in) \in Nat /\ \A i \in 1 .. Len(in) : in[i] \in Nat
  BY LenBytes
<1>2. ASSUME at + 3 <= Len(in)
      PROVE  /\ Len(SubSeq(in, at + 1, at + 3)) = 3
             /\ SubSeq(in, at + 1, at + 3) \in Seq(Nat)
             /\ SubSeq(in, at + 1, at + 3)[1] = in[at + 1]
             /\ SubSeq(in, at + 1, at + 3)[2] = in[at + 2]
             /\ SubSeq(in, at + 1, at + 3)[3] = in[at + 3]
  <2> DEFINE m == SubSeq(in, at + 1, at + 3)
  <2>1. \A i \in at + 1 .. at + 3 : in[i] \in Nat
    BY <1>1, <1>2
  <2>2. /\ m \in Seq(Nat)
        /\ Len(m) = IF at + 1 <= at + 3 THEN at + 3 - (at + 1) + 1 ELSE 0
        /\ \A i \in 1 .. at + 3 - (at + 1) + 1 : m[i] = in[at + 1 + i - 1]
    BY <2>1, SubSeqProperties
  <2>3. at + 3 - (at + 1) + 1 = 3 /\ at + 1 <= at + 3
    OBVIOUS
  <2>4. at + 1 + 1 - 1 = at + 1 /\ at + 1 + 2 - 1 = at + 2 /\ at + 1 + 3 - 1 = at + 3
    OBVIOUS
  <2> HIDE DEF m
  <2>5. Len(m) = 3 /\ \A i \in 1 .. 3 : m[i] = in[at + 1 + i - 1]
    BY <2>2, <2>3
  <2>6. 1 \in 1 .. 3 /\ 2 \in 1 .. 3 /\ 3 \in 1 .. 3
    OBVIOUS
  <2>7. m[1] = in[at + 1] /\ m[2] = in[at + 2] /\ m[3] = in[at + 3]
    BY <2>4, <2>5, <2>6
  <2> QED
    BY <2>2, <2>5, <2>7 DEF m
<1>3. ASSUME NEW m \in Seq(Nat), Len(m) = 3
      PROVE  m = <<0, 0, OBJECT_END>> <=> m[1] = 0 /\ m[2] = 0 /\ m[3] = OBJECT_END
  BY <1>3
<1> QED
  BY <1>2, <1>3 DEF EndsAt

\* The end of what is left is the end further on.
LEMMA EndsAtRest ==
    ASSUME NEW in \in Bytes, NEW at \in Nat, at <= Len(in)
    PROVE  EndsAt(in, at) <=> EndsAt(Rest(in, at), 0)
<1>1. Len(in) \in Nat
  BY LenBytes
<1>2. /\ Rest(in, at) \in Bytes /\ Len(Rest(in, at)) = Len(in) - at
      /\ \A i \in 1 .. Len(in) - at : Rest(in, at)[i] = in[at + i]
  BY RestBytes
<1>3. at + 3 <= Len(in) <=> 0 + 3 <= Len(in) - at
  BY <1>1
<1>4. ASSUME at + 3 <= Len(in)
      PROVE  /\ Rest(in, at)[1] = in[at + 1] /\ Rest(in, at)[2] = in[at + 2]
             /\ Rest(in, at)[3] = in[at + 3]
  <2>1. 1 \in 1 .. Len(in) - at /\ 2 \in 1 .. Len(in) - at /\ 3 \in 1 .. Len(in) - at
    BY <1>1, <1>4
  <2> QED
    BY <1>2, <2>1
<1>5. EndsAt(in, at) <=> /\ at + 3 <= Len(in)
                         /\ in[at + 1] = 0 /\ in[at + 2] = 0 /\ in[at + 3] = OBJECT_END
  BY EndsAtIs
<1>6. EndsAt(Rest(in, at), 0) <=>
        /\ 3 <= Len(in) - at
        /\ Rest(in, at)[1] = 0 /\ Rest(in, at)[2] = 0 /\ Rest(in, at)[3] = OBJECT_END
  BY <1>2, EndsAtIs
<1> QED
  BY <1>3, <1>4, <1>5, <1>6

\* A property is not the end, and comes back unless its value is a long string.
LEMMA ReadItem ==
    ASSUME NEW in \in Bytes, NEW item \in Items, Holds(in, 0, encode_object_named(item))
    PROVE  /\ ~EndsAt(in, 0)
           /\ Short(item.value) =>
                decode_item(in) = Decoded(item, Len(encode_object_named(item)))
           /\ ~Short(item.value) => decode_item(in) = Failed
<1> DEFINE n == Len(item.name)
           head == encode_int16(n) \o item.name
           v == encode_value(item.value)
<1>1. /\ item.name \in Bytes /\ n \in Nat /\ n < LongLen /\ item.value \in Values
      /\ head \in Bytes /\ Len(head) = 2 + n
      /\ encode_object_named(item) \in Bytes
      /\ Len(encode_object_named(item)) = 2 + n + Len(v)
  BY ItemBytes
<1>2. v \in Bytes /\ Len(v) >= 1 /\ Len(v) \in Nat
  BY <1>1, ValueBytes, LenBytes
<1>3. encode_object_named(item) = head \o v
  BY DEF encode_object_named
<1> HIDE DEF head, v
<1>4. Holds(in, 0, head) /\ Holds(in, 0 + (2 + n), v)
  BY <1>1, <1>2, <1>3, HoldsSplit
<1>5. decode_string(in) = Decoded(Value(STRINGTYPE, item.name), n + 2)
  BY <1>1, <1>4, ReadString DEF head
<1>6. 0 + (2 + n) = n + 2 /\ n + 2 <= Len(in) /\ Len(in) \in Nat
  BY <1>1, <1>2, <1>4, LenBytes DEF Holds
<1>7. Rest(in, n + 2) \in Bytes /\ Holds(Rest(in, n + 2), 0, v)
  <2>1. n + 2 \in Nat /\ n + 2 + 0 = n + 2
    BY <1>1
  <2>2. Holds(in, n + 2 + 0, v)
    BY <1>4, <1>6, <2>1
  <2> QED
    BY <1>2, <1>6, <2>1, <2>2, RestBytes, RestHolds
<1>8. /\ decode_string(in).ok /\ decode_string(in).next = n + 2
      /\ decode_string(in).value.data = item.name
  BY <1>5 DEF Decoded, Value
<1>9. ASSUME Short(item.value)
      PROVE  decode_item(in) = Decoded(item, Len(encode_object_named(item)))
  <2>1. decode_value(Rest(in, n + 2)) = Decoded(item.value, Len(v))
    BY <1>1, <1>7, <1>9, ReadValue DEF v
  <2>2. /\ decode_value(Rest(in, n + 2)).ok
        /\ decode_value(Rest(in, n + 2)).value = item.value
        /\ decode_value(Rest(in, n + 2)).next = Len(v)
    BY <2>1 DEF Decoded
  <2>3. n + 2 + Len(v) = Len(encode_object_named(item))
    BY <1>1, <1>2
  <2>4. Item(item.name, item.value) = item
    BY DEF Item, Items
  <2> QED
    BY <1>8, <2>2, <2>3, <2>4 DEF decode_item
<1>10. ASSUME ~Short(item.value) PROVE decode_item(in) = Failed
  <2>1. decode_value(Rest(in, n + 2)) = Failed
    BY <1>1, <1>7, <1>10, LongValue DEF v
  <2>2. ~decode_value(Rest(in, n + 2)).ok
    BY <2>1 DEF Failed
  <2> QED
    BY <1>8, <2>2 DEF decode_item
<1>11. ASSUME EndsAt(in, 0) PROVE FALSE
  <2>1. in[1] = 0 /\ in[2] = 0 /\ in[3] = OBJECT_END
    BY <1>11, EndsAtIs
  <2>2. /\ encode_int16(n) \in Bytes /\ Len(encode_int16(n)) = 2
        /\ encode_int16(n)[1] = Low(n \div Base) /\ encode_int16(n)[2] = Low(n)
    BY <1>1, IntBytes
  <2>3. Holds(in, 0, encode_int16(n))
    BY <1>1, <1>4, <2>2, HoldsSplit DEF head
  <2>4. in[1] = Low(n \div Base) /\ in[2] = Low(n)
    BY <2>2, <2>3, StartsWith
  <2>5. n = 0
    <3>1. Low(n \div Base) * Base + Low(n) = n
      BY <1>1, TwoDigits DEF LongLen
    <3>2. Base \in Nat
      BY AmfAssumption
    <3>3. 0 * Base + 0 = 0
      BY <3>2
    <3> QED
      BY <2>1, <2>4, <3>1, <3>3
  <2>6. in[3] = v[1]
    <3>1. 1 \in 1 .. Len(v) /\ 0 + (2 + n) + 1 = 3
      BY <1>2, <2>5
    <3> QED
      BY <1>4, <3>1 DEF Holds
  <2>7. v[1] \in {NUMBER, BOOLEANTYPE, STRINGTYPE, LONG_STRING}
    <3>1. item.value.type \in {NUMBER, BOOLEANTYPE, STRINGTYPE}
      BY <1>1 DEF Values
    <3> QED
      BY <1>1, <3>1, ValueBytes DEF v
  <2>8. OBJECT_END \notin {NUMBER, BOOLEANTYPE, STRINGTYPE, LONG_STRING}
    BY Types
  <2> QED
    BY <2>1, <2>6, <2>7, <2>8
<1> QED
  BY <1>9, <1>10, <1>11

-----------------------------------------------------------------------------
(* Induction: the library's theorem takes a predicate as a parameter,      *)
(* which the provers cannot instantiate; with a set in its place they can. *)

\* The order of the naturals, as a relation.
Below == {ss \in Nat \X Nat : ss[1] < ss[2]}

\* It is well founded.
LEMMA BelowWellFounded == IsWellFoundedOn(Below, Nat)
BY NatLessThanWellFounded DEF OpToRel, Below

\* A set of naturals that is not empty has a least member.
LEMMA LeastNat ==
    ASSUME NEW S, S \subseteq Nat, S # {}
    PROVE  \E m \in S : \A k \in S : m <= k
<1>1. PICK m \in S : \A k \in S : ~(<<k, m>> \in Below)
  BY BelowWellFounded, WFMin
<1>2. ASSUME NEW k \in S PROVE m <= k
  <2>1. <<k, m>> \in Nat \X Nat /\ ~(<<k, m>> \in Below)
    BY <1>1
  <2>2. ~(k < m)
    BY <2>1 DEF Below
  <2> QED
    BY <2>2
<1> QED
  BY <1>2

\* A set that has 0, and the successor of each of its members, has every number.
LEMMA Inductive ==
    ASSUME NEW S, 0 \in S, \A n \in Nat : n \in S => n + 1 \in S
    PROVE  \A n \in Nat : n \in S
<1> DEFINE T == {n \in Nat : n \notin S}
<1> SUFFICES ASSUME T # {} PROVE FALSE
  OBVIOUS
<1>1. T \subseteq Nat
  OBVIOUS
<1>2. PICK m \in T : \A k \in T : m <= k
  <2> HIDE DEF T
  <2> QED
    BY <1>1, LeastNat
<1>3. m \in Nat /\ m \notin S /\ m # 0
  OBVIOUS
<1>4. m - 1 \in Nat /\ ~(m <= m - 1)
  BY <1>3
<1>5. m - 1 \in S
  BY <1>2, <1>4
<1>6. (m - 1) + 1 \in S
  BY <1>4, <1>5
<1>7. (m - 1) + 1 = m
  BY <1>3
<1> QED
  BY <1>3, <1>6, <1>7

-----------------------------------------------------------------------------
(* FlattenSeq, of any number of sequences *)

\* f is the function FlattenSeq defines for the first n members of s.
Flattens(s, f, n) ==
    f = [i \in 1 .. n |-> IF i = 1 THEN s[i] ELSE f[i - 1] \o s[i]]

\* There is such a function, of n sequences, by induction on n.
LEMMA FlattensExists ==
    ASSUME NEW s, NEW n \in Nat
    PROVE  \E f : Flattens(s, f, n)
<1> DEFINE S == {m \in Nat : \E f : Flattens(s, f, m)}
<1>1. 0 \in S
  <2> DEFINE f == [i \in 1 .. 0 |-> 0]
  <2>1. Flattens(s, f, 0)
    BY DEF Flattens
  <2> HIDE DEF f
  <2> QED
    BY <2>1
<1>2. ASSUME NEW m \in Nat, m \in S PROVE m + 1 \in S
  <2>1. PICK f : Flattens(s, f, m)
    BY <1>2
  <2> DEFINE last == IF m + 1 = 1 THEN s[m + 1] ELSE f[m] \o s[m + 1]
             g == [i \in 1 .. m + 1 |-> IF i = m + 1 THEN last ELSE f[i]]
  <2>2. Flattens(s, g, m + 1)
    <3>1. ASSUME NEW i \in 1 .. m + 1
          PROVE  g[i] = IF i = 1 THEN s[i] ELSE g[i - 1] \o s[i]
      <4>1. CASE i = m + 1
        <5>1. g[i] = last /\ (i # 1 => i - 1 = m /\ i - 1 \in 1 .. m + 1 /\ i - 1 # m + 1)
          BY <4>1
        <5>2. i # 1 => g[i - 1] = f[m]
          BY <5>1
        <5> QED
          BY <4>1, <5>1, <5>2
      <4>2. CASE i # m + 1
        <5>1. i \in 1 .. m /\ g[i] = f[i]
          BY <4>2
        <5>2. f[i] = IF i = 1 THEN s[i] ELSE f[i - 1] \o s[i]
          BY <2>1, <5>1 DEF Flattens
        <5>3. i # 1 => g[i - 1] = f[i - 1]
          BY <5>1
        <5> QED
          BY <5>1, <5>2, <5>3
      <4> QED
        BY <4>1, <4>2
    <3>2. g = [i \in 1 .. m + 1 |-> g[i]]
      OBVIOUS
    <3> HIDE DEF g
    <3> QED
      BY <3>1, <3>2 DEF Flattens
  <2> HIDE DEF g
  <2> QED
    BY <2>2
<1>3. \A m \in Nat : m \in S
  <2> HIDE DEF S
  <2> QED
    BY <1>1, <1>2, Inductive
<1> QED
  BY <1>3

\* FlattenSeq puts the sequences together one by one.
LEMMA FlattenParts ==
    ASSUME NEW s, Len(s) \in Nat \ {0}
    PROVE  \E f : /\ f[1] = s[1]
                  /\ \A i \in 2 .. Len(s) : f[i] = f[i - 1] \o s[i]
                  /\ FlattenSeq(s) = f[Len(s)]
<1> DEFINE g == CHOOSE f : Flattens(s, f, Len(s))
<1>1. Flattens(s, g, Len(s))
  BY FlattensExists
<1>2. FlattenSeq(s) = g[Len(s)]
  BY DEF FlattenSeq, Flattens
<1> HIDE DEF g
<1>3. ASSUME NEW i \in 1 .. Len(s)
      PROVE  g[i] = IF i = 1 THEN s[i] ELSE g[i - 1] \o s[i]
  BY <1>1 DEF Flattens
<1>4. g[1] = s[1]
  <2>1. 1 \in 1 .. Len(s)
    OBVIOUS
  <2> QED
    BY <1>3, <2>1
<1>5. ASSUME NEW i \in 2 .. Len(s) PROVE g[i] = g[i - 1] \o s[i]
  <2>1. i \in 1 .. Len(s) /\ i # 1
    OBVIOUS
  <2> QED
    BY <1>3, <2>1
<1> QED
  BY <1>2, <1>4, <1>5

-----------------------------------------------------------------------------
(* The recursive functions: there is one, by induction *)

\* f is the function Trail defines, from the place low of 0 .. n on.
Follows(next, f, low, n) ==
    \A at \in low .. n :
        f[at] = IF next[at] \in 0 .. n /\ next[at] > at THEN <<at>> \o f[next[at]] ELSE <<at>>

\* There is one, by induction on how many places there are from low on.
LEMMA FollowsExists ==
    ASSUME NEW next, NEW n \in Nat
    PROVE  \E f : Follows(next, f, 0, n)
<1> DEFINE S == {m \in Nat : m <= n + 1 => \E f : Follows(next, f, n + 1 - m, n)}
<1>1. 0 \in S
  <2>1. Follows(next, <<>>, n + 1 - 0, n)
    BY DEF Follows
  <2> QED
    BY <2>1
<1>2. ASSUME NEW m \in Nat, m \in S PROVE m + 1 \in S
  <2> SUFFICES ASSUME m + 1 <= n + 1 PROVE \E f : Follows(next, f, n + 1 - (m + 1), n)
    OBVIOUS
  <2>1. PICK f : Follows(next, f, n + 1 - m, n)
    BY <1>2
  <2> DEFINE low == n - m
             first == IF next[low] \in 0 .. n /\ next[low] > low
                      THEN <<low>> \o f[next[low]] ELSE <<low>>
             g == [at \in 0 .. n |-> IF at = low THEN first ELSE f[at]]
  <2>2. low \in 0 .. n /\ n + 1 - (m + 1) = low /\ n + 1 - m = low + 1
    OBVIOUS
  <2> HIDE DEF low, first
  <2>3. ASSUME NEW at \in low .. n
        PROVE  g[at] = IF next[at] \in 0 .. n /\ next[at] > at
                       THEN <<at>> \o g[next[at]] ELSE <<at>>
    <3>1. ASSUME next[at] \in 0 .. n, next[at] > at PROVE g[next[at]] = f[next[at]]
      <4>1. next[at] # low
        BY <2>2, <3>1
      <4> QED
        BY <3>1, <4>1
    <3>2. CASE at = low
      <4>1. g[at] = first
        BY <2>2, <3>2
      <4> QED
        BY <3>1, <3>2, <4>1 DEF first
    <3>3. CASE at # low
      <4>1. at \in low + 1 .. n /\ at \in 0 .. n
        BY <2>2, <3>3
      <4>2. g[at] = f[at]
        BY <3>3, <4>1
      <4>3. f[at] = IF next[at] \in 0 .. n /\ next[at] > at
                    THEN <<at>> \o f[next[at]] ELSE <<at>>
        BY <2>1, <2>2, <4>1 DEF Follows
      <4> QED
        BY <3>1, <4>2, <4>3
    <3> QED
      BY <3>2, <3>3
  <2> HIDE DEF g
  <2>4. Follows(next, g, low, n)
    BY <2>3 DEF Follows
  <2> QED
    BY <2>2, <2>4
<1>3. \A m \in Nat : m \in S
  <2> HIDE DEF S
  <2> QED
    BY <1>1, <1>2, Inductive
<1>4. n + 1 \in Nat /\ n + 1 \in S /\ n + 1 - (n + 1) = 0
  BY <1>3
<1> QED
  BY <1>4

\* A trail is the trail from the next place, with one place more.
LEMMA TrailStep ==
    ASSUME NEW n \in Nat, NEW next, DOMAIN next = 0 .. n, NEW at \in 0 .. n
    PROVE  Trail(next, at) = IF next[at] \in 0 .. n /\ next[at] > at
                             THEN <<at>> \o Trail(next, next[at]) ELSE <<at>>
<1> DEFINE trail == CHOOSE f : f = [a \in DOMAIN next |->
                      IF next[a] \in DOMAIN next /\ next[a] > a
                      THEN <<a>> \o f[next[a]] ELSE <<a>>]
<1>1. \A a : Trail(next, a) = trail[a]
  BY DEF Trail
<1>2. PICK f : Follows(next, f, 0, n)
  BY FollowsExists
<1> DEFINE g == [a \in 0 .. n |-> f[a]]
<1>3. g = [a \in DOMAIN next |-> IF next[a] \in DOMAIN next /\ next[a] > a
                                 THEN <<a>> \o g[next[a]] ELSE <<a>>]
  <2>1. ASSUME NEW a \in 0 .. n
        PROVE  g[a] = IF next[a] \in 0 .. n /\ next[a] > a
                      THEN <<a>> \o g[next[a]] ELSE <<a>>
    BY <1>2 DEF Follows
  <2>2. g = [a \in 0 .. n |-> g[a]]
    OBVIOUS
  <2> HIDE DEF g
  <2> QED
    BY <2>1, <2>2
<1> HIDE DEF g
<1>4. trail = [a \in DOMAIN next |-> IF next[a] \in DOMAIN next /\ next[a] > a
                                     THEN <<a>> \o trail[next[a]] ELSE <<a>>]
  BY <1>3
<1> HIDE DEF trail
<1>5. trail[at] = IF next[at] \in 0 .. n /\ next[at] > at
                  THEN <<at>> \o trail[next[at]] ELSE <<at>>
  BY <1>4
<1> QED
  BY <1>1, <1>5

\* f is the function PutAll defines for the first n members of items.
Puts(items, f, n) ==
    f = [k \in 0 .. n |-> IF k = 0 THEN <<>> ELSE put(f[k - 1], items[k])]

\* There is one, by induction on n.
LEMMA PutsExists ==
    ASSUME NEW items, NEW n \in Nat
    PROVE  \E f : Puts(items, f, n)
<1> DEFINE S == {m \in Nat : \E f : Puts(items, f, m)}
<1>1. 0 \in S
  <2> DEFINE f == [k \in 0 .. 0 |-> <<>>]
  <2>1. Puts(items, f, 0)
    <3>1. \A k \in 0 .. 0 : k = 0
      OBVIOUS
    <3> QED
      BY <3>1 DEF Puts
  <2> HIDE DEF f
  <2> QED
    BY <2>1
<1>2. ASSUME NEW m \in Nat, m \in S PROVE m + 1 \in S
  <2>1. PICK f : Puts(items, f, m)
    BY <1>2
  <2> DEFINE last == put(f[m], items[m + 1])
             g == [k \in 0 .. m + 1 |-> IF k = m + 1 THEN last ELSE f[k]]
  <2> HIDE DEF last
  <2>2. ASSUME NEW k \in 0 .. m + 1
        PROVE  g[k] = IF k = 0 THEN <<>> ELSE put(g[k - 1], items[k])
    <3>1. CASE k = m + 1
      <4>1. k - 1 = m /\ m \in 0 .. m + 1 /\ m # m + 1 /\ k # 0
        BY <3>1
      <4>2. g[k] = last /\ g[k - 1] = f[m]
        BY <3>1, <4>1
      <4> QED
        BY <3>1, <4>1, <4>2 DEF last
    <3>2. CASE k # m + 1
      <4>1. k \in 0 .. m /\ g[k] = f[k]
        BY <3>2
      <4>2. f[k] = IF k = 0 THEN <<>> ELSE put(f[k - 1], items[k])
        BY <2>1, <4>1 DEF Puts
      <4>3. k # 0 => g[k - 1] = f[k - 1]
        BY <4>1
      <4> QED
        BY <4>1, <4>2, <4>3
    <3> QED
      BY <3>1, <3>2
  <2>3. g = [k \in 0 .. m + 1 |-> g[k]]
    OBVIOUS
  <2> HIDE DEF g
  <2>4. Puts(items, g, m + 1)
    BY <2>2, <2>3 DEF Puts
  <2> QED
    BY <2>4
<1>3. \A m \in Nat : m \in S
  <2> HIDE DEF S
  <2> QED
    BY <1>1, <1>2, Inductive
<1> QED
  BY <1>3

\* PutAll puts the items one by one.
LEMMA PutParts ==
    ASSUME NEW items, Len(items) \in Nat
    PROVE  \E f : /\ f[0] = <<>>
                  /\ \A k \in 1 .. Len(items) : f[k] = put(f[k - 1], items[k])
                  /\ PutAll(items) = f[Len(items)]
<1> DEFINE g == CHOOSE f : Puts(items, f, Len(items))
<1>1. Puts(items, g, Len(items))
  BY PutsExists
<1>2. PutAll(items) = g[Len(items)]
  BY DEF PutAll, Puts
<1> HIDE DEF g
<1>3. ASSUME NEW k \in 0 .. Len(items)
      PROVE  g[k] = IF k = 0 THEN <<>> ELSE put(g[k - 1], items[k])
  BY <1>1 DEF Puts
<1>4. g[0] = <<>>
  <2>1. 0 \in 0 .. Len(items)
    OBVIOUS
  <2> QED
    BY <1>3, <2>1
<1>5. ASSUME NEW k \in 1 .. Len(items) PROVE g[k] = put(g[k - 1], items[k])
  <2>1. k \in 0 .. Len(items) /\ k # 0
    OBVIOUS
  <2> QED
    BY <1>3, <2>1
<1> QED
  BY <1>2, <1>4, <1>5

-----------------------------------------------------------------------------
(* Objects *)

\* The encoded properties, after each of them.
LEMMA ItemsParts ==
    ASSUME NEW items \in Seq(Items)
    PROVE  \E f : /\ f[0] = <<>>
                  /\ \A k \in 1 .. Len(items) : f[k] = f[k - 1] \o encode_object_named(items[k])
                  /\ encode_items(items) = f[Len(items)]
                  /\ \A k \in 0 .. Len(items) : f[k] \in Bytes
<1> DEFINE n == Len(items)
           s == [i \in DOMAIN items |-> encode_object_named(items[i])]
<1>1. n \in Nat /\ DOMAIN items = 1 .. n /\ \A i \in 1 .. n : items[i] \in Items
  BY LenProperties, ElementOfSeq
<1>2. \A i \in 1 .. n : s[i] = encode_object_named(items[i]) /\ s[i] \in Bytes
  BY <1>1, ItemBytes
<1>3. Len(s) = n
  BY <1>1
<1>4. encode_items(items) = FlattenSeq(s)
  BY DEF encode_items
<1> HIDE DEF s
<1>5. <<>> \in Bytes
  BY DEF Bytes
<1>6. CASE n = 0
  <2> DEFINE f == [k \in 0 .. 0 |-> <<>>]
  <2>1. s = <<>>
    <3>1. s = [i \in 1 .. 0 |-> encode_object_named(items[i])]
      BY <1>1, <1>6 DEF s
    <3> QED
      BY <3>1
  <2>2. FlattenSeq(s) = <<>>
    BY <1>3, <1>6, <2>1 DEF FlattenSeq
  <2>3. f[0] = <<>> /\ (\A k \in 0 .. 0 : f[k] = <<>>)
    OBVIOUS
  <2> HIDE DEF f
  <2>4. encode_items(items) = f[n]
    BY <1>4, <1>6, <2>2, <2>3
  <2>5. \A k \in 0 .. n : f[k] \in Bytes
    BY <1>5, <1>6, <2>3
  <2>6. \A k \in 1 .. n : f[k] = f[k - 1] \o encode_object_named(items[k])
    BY <1>6
  <2> QED
    BY <2>3, <2>4, <2>5, <2>6
<1>7. CASE n # 0
  <2>1. PICK g : /\ g[1] = s[1]
                 /\ \A i \in 2 .. n : g[i] = g[i - 1] \o s[i]
                 /\ FlattenSeq(s) = g[n]
    <3>1. Len(s) \in Nat \ {0}
      BY <1>1, <1>3, <1>7
    <3> QED
      BY <1>3, <3>1, FlattenParts
  <2> DEFINE f == [k \in 0 .. n |-> IF k = 0 THEN <<>> ELSE g[k]]
  <2>2. f[0] = <<>> /\ \A k \in 1 .. n : f[k] = g[k]
    BY <1>1
  <2>3. encode_items(items) = f[n]
    BY <1>1, <1>4, <1>7, <2>1
  <2> HIDE DEF f
  <2>4. ASSUME NEW k \in 1 .. n PROVE f[k] = f[k - 1] \o encode_object_named(items[k])
    <3>1. CASE k = 1
      <4>1. f[1] = s[1] /\ f[0] = <<>>
        BY <2>1, <2>2, <3>1
      <4>2. <<>> \o s[1] = s[1]
        BY <1>2, <3>1, ConcatEmptySeq DEF Bytes
      <4>3. s[1] = encode_object_named(items[1]) /\ 1 - 1 = 0
        BY <1>2, <3>1
      <4> QED
        BY <3>1, <4>1, <4>2, <4>3
    <3>2. CASE k # 1
      <4>1. k \in 2 .. n /\ k - 1 \in 1 .. n
        BY <1>1, <3>2
      <4>2. f[k] = g[k] /\ f[k - 1] = g[k - 1] /\ s[k] = encode_object_named(items[k])
        BY <1>2, <2>2, <4>1
      <4>3. g[k] = g[k - 1] \o s[k]
        BY <2>1, <4>1
      <4> QED
        BY <4>2, <4>3
    <3> QED
      BY <3>1, <3>2
  <2>5. \A k \in 0 .. n : f[k] \in Bytes
    <3> DEFINE S == {k \in Nat : k <= n => f[k] \in Bytes}
    <3>1. 0 \in S
      BY <1>5, <2>2
    <3>2. ASSUME NEW k \in Nat, k \in S PROVE k + 1 \in S
      <4> SUFFICES ASSUME k + 1 <= n PROVE f[k + 1] \in Bytes
        OBVIOUS
      <4>1. f[k] \in Bytes
        BY <1>1, <3>2
      <4>2. k + 1 \in 1 .. n /\ k + 1 - 1 = k
        BY <1>1
      <4>3. f[k + 1] = f[k] \o encode_object_named(items[k + 1])
        <5>1. PICK j \in 1 .. n : j = k + 1 /\ j - 1 = k
          BY <4>2
        <5>2. f[j] = f[j - 1] \o encode_object_named(items[j])
          BY <2>4
        <5> QED
          BY <5>1, <5>2
      <4>4. encode_object_named(items[k + 1]) \in Bytes
        BY <1>2, <4>2
      <4> QED
        BY <4>1, <4>3, <4>4, ConcatBytes
    <3>3. \A k \in Nat : k \in S
      <4> HIDE DEF S
      <4> QED
        BY <3>1, <3>2, Inductive
    <3> QED
      BY <3>3
  <2> QED
    BY <2>2, <2>3, <2>4, <2>5
<1> QED
  BY <1>6, <1>7

\* next goes on from pos[0] to pos[1], and so on to pos[n], where it stops.
Along(next, size, pos, n) ==
    /\ DOMAIN next = 0 .. size
    /\ \A k \in 0 .. n : pos[k] \in 0 .. size
    /\ \A k \in 1 .. n : pos[k] > pos[k - 1] /\ next[pos[k - 1]] = pos[k]
    /\ next[pos[n]] = pos[n]

\* A trail along known places.
LEMMA TrailAlong ==
    ASSUME NEW size \in Nat, NEW next, NEW n \in Nat, NEW pos, Along(next, size, pos, n)
    PROVE  Trail(next, pos[0]) = [i \in 1 .. n + 1 |-> pos[i - 1]]
<1> USE DEF Along
<1> DEFINE From(m) == [i \in 1 .. m + 1 |-> pos[n - m + i - 1]]
           S == {m \in Nat : m <= n => Trail(next, pos[n - m]) = From(m)}
<1>0. ASSUME NEW m \in Nat, m <= n
      PROVE  /\ From(m) \in Bytes /\ Len(From(m)) = m + 1
             /\ \A i \in 1 .. m + 1 : From(m)[i] = pos[n - m + i - 1]
  <2>1. \A i \in 1 .. m + 1 : n - m + i - 1 \in 0 .. n
    BY <1>0
  <2>2. \A i \in 1 .. m + 1 : pos[n - m + i - 1] \in Nat
    <3>1. \A k \in 0 .. n : pos[k] \in Nat
      OBVIOUS
    <3> QED
      BY <2>1, <3>1
  <2> QED
    BY <2>2 DEF Bytes
<1>1. 0 \in S
  <2>1. Trail(next, pos[n]) = <<pos[n]>>
    <3>1. pos[n] \in 0 .. size /\ ~(next[pos[n]] > pos[n])
      OBVIOUS
    <3>2. Trail(next, pos[n]) =
            IF next[pos[n]] \in 0 .. size /\ next[pos[n]] > pos[n]
            THEN <<pos[n]>> \o Trail(next, next[pos[n]]) ELSE <<pos[n]>>
      BY <3>1, TrailStep
    <3> QED
      BY <3>1, <3>2
  <2>2. From(0) = <<pos[n]>>
    <3> HIDE DEF From
    <3>0. 0 \in Nat /\ 0 <= n
      OBVIOUS
    <3>1. /\ From(0) \in Bytes /\ Len(From(0)) = 0 + 1
          /\ \A i \in 1 .. 0 + 1 : From(0)[i] = pos[n - 0 + i - 1]
      BY <1>0, <3>0
    <3>2. From(0)[1] = pos[n]
      <4>1. 1 \in 1 .. 0 + 1 /\ n - 0 + 1 - 1 = n
        OBVIOUS
      <4> QED
        BY <3>1, <4>1
    <3>3. pos[n] \in Nat
      OBVIOUS
    <3>4. <<pos[n]>> \in Bytes /\ Len(<<pos[n]>>) = 1 /\ <<pos[n]>>[1] = pos[n]
      BY <3>3 DEF Bytes
    <3> QED
      BY <3>1, <3>2, <3>4, SameBytes
  <2>3. n - 0 = n
    OBVIOUS
  <2> HIDE DEF From
  <2> QED
    BY <2>1, <2>2, <2>3
<1>2. ASSUME NEW m \in Nat, m \in S PROVE m + 1 \in S
  <2> SUFFICES ASSUME m + 1 <= n PROVE Trail(next, pos[n - (m + 1)]) = From(m + 1)
    BY DEF S
  <2> DEFINE k == n - m
             p == pos[k - 1]
  <2>1. k \in 1 .. n /\ n - (m + 1) = k - 1 /\ m + 1 \in Nat /\ m <= n
    OBVIOUS
  <2>2. Trail(next, pos[k]) = From(m)
    BY <1>2, <2>1
  <2>3. p \in 0 .. size /\ pos[k] \in 0 .. size /\ pos[k] > p /\ next[p] = pos[k]
    <3>1. k - 1 \in 0 .. n /\ k \in 0 .. n
      BY <2>1
    <3> HIDE DEF k
    <3> QED
      BY <2>1, <3>1
  <2>4. Trail(next, p) = <<p>> \o From(m)
    <3> HIDE DEF p, From, k
    <3>1. Trail(next, p) = <<p>> \o Trail(next, next[p])
      BY <2>3, TrailStep, SMTT(30)
    <3> QED
      BY <2>2, <2>3, <3>1
  <2>5. /\ From(m) \in Bytes /\ Len(From(m)) = m + 1
        /\ \A i \in 1 .. m + 1 : From(m)[i] = pos[k + i - 1]
    BY <1>0, <2>1
  <2>6. /\ From(m + 1) \in Bytes /\ Len(From(m + 1)) = m + 1 + 1
        /\ \A i \in 1 .. m + 1 + 1 : From(m + 1)[i] = pos[k - 1 + i - 1]
    <3>1. /\ From(m + 1) \in Bytes /\ Len(From(m + 1)) = m + 1 + 1
          /\ \A i \in 1 .. m + 1 + 1 : From(m + 1)[i] = pos[n - (m + 1) + i - 1]
      BY <1>0, <2>1
    <3> HIDE DEF From
    <3> QED
      BY <2>1, <3>1
  <2> HIDE DEF From, k
  <2>7. /\ <<p>> \o From(m) \in Bytes /\ Len(<<p>> \o From(m)) = 1 + Len(From(m))
        /\ (<<p>> \o From(m))[1] = p
        /\ \A i \in 1 .. Len(From(m)) : (<<p>> \o From(m))[1 + i] = From(m)[i]
    <3>1. p \in Nat
      BY <2>3
    <3> HIDE DEF p
    <3> QED
      BY <2>5, <3>1, OneMore
  <2>8. ASSUME NEW i \in 1 .. m + 2 PROVE (<<p>> \o From(m))[i] = From(m + 1)[i]
    <3>0. i \in 1 .. m + 1 + 1
      OBVIOUS
    <3>1. CASE i = 1
      <4>1. From(m + 1)[1] = pos[k - 1 + 1 - 1]
        BY <2>6, <3>0, <3>1
      <4>2. k - 1 + 1 - 1 = k - 1
        BY <2>1
      <4> QED
        BY <2>7, <3>1, <4>1, <4>2
    <3>2. CASE i # 1
      <4>1. i - 1 \in 1 .. m + 1 /\ 1 + (i - 1) = i /\ k + (i - 1) - 1 = k - 1 + i - 1
        BY <2>1, <3>2
      <4>2. (<<p>> \o From(m))[1 + (i - 1)] = From(m)[i - 1]
        BY <2>5, <2>7, <4>1
      <4>3. From(m)[i - 1] = pos[k + (i - 1) - 1]
        BY <2>5, <4>1
      <4> QED
        BY <2>6, <3>0, <4>1, <4>2, <4>3
    <3> QED
      BY <3>1, <3>2
  <2>9. Len(<<p>> \o From(m)) = m + 2 /\ Len(From(m + 1)) = m + 2
    BY <2>5, <2>6, <2>7
  <2>10. <<p>> \o From(m) = From(m + 1)
    BY <2>6, <2>7, <2>8, <2>9, SameBytes
  <2> QED
    BY <2>1, <2>4, <2>10
<1>3. \A m \in Nat : m \in S
  <2> HIDE DEF S
  <2> QED
    BY <1>1, <1>2, Inductive
<1>4. Trail(next, pos[n - n]) = From(n)
  BY <1>3
<1>5. n - n = 0 /\ \A i \in 1 .. n + 1 : n - n + i - 1 = i - 1
  OBVIOUS
<1> QED
  BY <1>4, <1>5

\* f is the encoded properties, after each of them.
Parts(items, f) ==
    /\ f[0] = <<>>
    /\ \A k \in 1 .. Len(items) : f[k] = f[k - 1] \o encode_object_named(items[k])
    /\ \A k \in 0 .. Len(items) : f[k] \in Bytes

\* What starts with the encoded properties holds each at its place.
LEMMA PartsLie ==
    ASSUME NEW items \in Seq(Items), NEW f, Parts(items, f), NEW in \in Bytes,
           Holds(in, 0, f[Len(items)])
    PROVE  /\ \A k \in 0 .. Len(items) : Len(f[k]) \in 0 .. Len(in)
           /\ \A k \in 1 .. Len(items) :
                /\ Holds(in, Len(f[k - 1]), encode_object_named(items[k]))
                /\ Len(f[k]) = Len(f[k - 1]) + Len(encode_object_named(items[k]))
<1> DEFINE n == Len(items)
           S == {m \in Nat : m <= n => Holds(in, 0, f[n - m])}
<1>1. n \in Nat /\ \A k \in 1 .. n : items[k] \in Items
  BY LenProperties, ElementOfSeq
<1> HIDE DEF n
<1>2. ASSUME NEW k \in 1 .. n
      PROVE  /\ f[k] = f[k - 1] \o encode_object_named(items[k])
             /\ f[k - 1] \in Bytes /\ f[k] \in Bytes
             /\ encode_object_named(items[k]) \in Bytes
             /\ Len(f[k]) = Len(f[k - 1]) + Len(encode_object_named(items[k]))
  <2>1. k \in 0 .. n /\ k - 1 \in 0 .. n
    BY <1>1
  <2>2. f[k] = f[k - 1] \o encode_object_named(items[k]) /\ f[k - 1] \in Bytes /\ f[k] \in Bytes
    BY <2>1 DEF Parts, n
  <2>3. encode_object_named(items[k]) \in Bytes
    BY <1>1, ItemBytes
  <2> QED
    BY <2>2, <2>3, ConcatBytes
<1>3. 0 \in S
  <2>1. n - 0 = n
    BY <1>1
  <2> QED
    BY <2>1 DEF n
<1>4. ASSUME NEW m \in Nat, m \in S PROVE m + 1 \in S
  <2> SUFFICES ASSUME m + 1 <= n PROVE Holds(in, 0, f[n - (m + 1)])
    BY DEF S
  <2>1. PICK k \in 1 .. n : k = n - m /\ k - 1 = n - (m + 1) /\ m <= n
    BY <1>1
  <2>2. Holds(in, 0, f[k])
    BY <1>4, <2>1
  <2>3. Holds(in, 0, f[k - 1])
    <3>1. Holds(in, 0, f[k - 1] \o encode_object_named(items[k]))
      BY <1>2, <2>2
    <3> QED
      BY <1>2, <3>1, HoldsSplit
  <2> QED
    BY <2>1, <2>3
<1>5. \A m \in Nat : m \in S
  <2> HIDE DEF S
  <2> QED
    BY <1>3, <1>4, Inductive
<1>6. ASSUME NEW k \in 0 .. n PROVE Holds(in, 0, f[k])
  <2>1. n - k \in Nat /\ n - k <= n /\ n - (n - k) = k
    BY <1>1
  <2>2. Holds(in, 0, f[n - (n - k)])
    BY <1>5, <2>1
  <2> QED
    BY <2>1, <2>2
<1>7. ASSUME NEW k \in 0 .. n PROVE Len(f[k]) \in 0 .. Len(in)
  <2>1. f[k] \in Bytes
    BY DEF Parts, n
  <2>2. Len(f[k]) <= Len(in) /\ Len(f[k]) \in Nat /\ Len(in) \in Nat
    BY <1>6, <2>1, LenBytes, StartsWith
  <2> QED
    BY <2>2
<1>8. ASSUME NEW k \in 1 .. n PROVE Holds(in, Len(f[k - 1]), encode_object_named(items[k]))
  <2>1. k \in 0 .. n /\ k - 1 \in 0 .. n
    BY <1>1
  <2>2. Holds(in, 0, f[k - 1] \o encode_object_named(items[k]))
    BY <1>2, <1>6, <2>1
  <2>3. Holds(in, 0 + Len(f[k - 1]), encode_object_named(items[k]))
    BY <1>2, <2>2, HoldsSplit
  <2>4. 0 + Len(f[k - 1]) = Len(f[k - 1])
    BY <1>2, LenBytes
  <2> QED
    BY <2>3, <2>4
<1> QED
  BY <1>2, <1>7, <1>8 DEF n

\* The loop over properties, at a property.
LEMMA StepAt ==
    ASSUME NEW in \in Bytes, NEW item \in Items, NEW at \in Nat,
           Holds(in, at, encode_object_named(item))
    PROVE  /\ at \in 0 .. Len(in) /\ ~EndsAt(in, at)
           /\ Short(item.value) =>
                /\ decode_item(Rest(in, at)) = Decoded(item, Len(encode_object_named(item)))
                /\ ItemSteps(in)[at] = at + Len(encode_object_named(item))
           /\ ~Short(item.value) => ItemSteps(in)[at] = at
<1>1. encode_object_named(item) \in Bytes /\ Len(encode_object_named(item)) \in Nat
  BY ItemBytes, LenBytes
<1>2. at <= Len(in) /\ Len(in) \in Nat
  BY <1>1, LenBytes DEF Holds
<1>3. Rest(in, at) \in Bytes /\ Holds(Rest(in, at), 0, encode_object_named(item))
  <2>1. at + 0 = at
    OBVIOUS
  <2>2. Holds(in, at + 0, encode_object_named(item))
    BY <2>1
  <2> QED
    BY <1>1, <1>2, <2>2, RestBytes, RestHolds
<1>4. /\ ~EndsAt(Rest(in, at), 0)
      /\ Short(item.value) =>
           decode_item(Rest(in, at)) = Decoded(item, Len(encode_object_named(item)))
      /\ ~Short(item.value) => decode_item(Rest(in, at)) = Failed
  BY <1>3, ReadItem
<1>5. ~EndsAt(in, at)
  BY <1>2, <1>4, EndsAtRest
<1>6. at \in 0 .. Len(in)
  BY <1>2
<1>7. ItemSteps(in)[at] = IF EndsAt(in, at) \/ ~decode_item(Rest(in, at)).ok THEN at
                          ELSE at + decode_item(Rest(in, at)).next
  BY <1>6 DEF ItemSteps
<1>8. ASSUME Short(item.value)
      PROVE  ItemSteps(in)[at] = at + Len(encode_object_named(item))
  <2>1. /\ decode_item(Rest(in, at)).ok
        /\ decode_item(Rest(in, at)).next = Len(encode_object_named(item))
    BY <1>4, <1>8 DEF Decoded
  <2> QED
    BY <1>5, <1>7, <2>1
<1>9. ASSUME ~Short(item.value) PROVE ItemSteps(in)[at] = at
  <2>1. ~decode_item(Rest(in, at)).ok
    BY <1>4, <1>9 DEF Failed
  <2> QED
    BY <1>7, <2>1
<1> QED
  BY <1>4, <1>5, <1>6, <1>8, <1>9

\* The loop over properties comes by each, and reads it, as long as they are short.
LEMMA LoopTrail ==
    ASSUME NEW items \in Seq(Items), NEW f, Parts(items, f), NEW in \in Bytes,
           Holds(in, 0, f[Len(items)]), NEW m \in 0 .. Len(items),
           \A k \in 1 .. m : Short(items[k].value),
           ItemSteps(in)[Len(f[m])] = Len(f[m])
    PROVE  /\ Trail(ItemSteps(in), 0) = [i \in 1 .. m + 1 |-> Len(f[i - 1])]
           /\ \A k \in 1 .. m : decode_item(Rest(in, Len(f[k - 1]))).value = items[k]
<1> DEFINE n == Len(items)
           next == ItemSteps(in)
           pos == [k \in 0 .. m |-> Len(f[k])]
<1>1. n \in Nat /\ Len(in) \in Nat /\ \A k \in 1 .. n : items[k] \in Items
  BY LenProperties, ElementOfSeq, LenBytes
<1>2. /\ \A k \in 0 .. n : Len(f[k]) \in 0 .. Len(in)
      /\ \A k \in 1 .. n : /\ Holds(in, Len(f[k - 1]), encode_object_named(items[k]))
                           /\ Len(f[k]) = Len(f[k - 1]) + Len(encode_object_named(items[k]))
  BY PartsLie
<1>3. m \in Nat /\ m <= n
  BY <1>1
<1> HIDE DEF n
<1>4. ASSUME NEW k \in 1 .. m
      PROVE  /\ k \in 1 .. n /\ k \in 0 .. m /\ k - 1 \in 0 .. m /\ k - 1 \in 0 .. n
             /\ decode_item(Rest(in, Len(f[k - 1]))).value = items[k]
             /\ next[Len(f[k - 1])] = Len(f[k])
             /\ Len(f[k]) > Len(f[k - 1])
  <2>1. k \in 1 .. n /\ k \in 0 .. m /\ k - 1 \in 0 .. m /\ k - 1 \in 0 .. n
    BY <1>1, <1>3
  <2>2. items[k] \in Items /\ Short(items[k].value) /\ Len(f[k - 1]) \in Nat
    BY <1>1, <1>2, <2>1
  <2>3. Holds(in, Len(f[k - 1]), encode_object_named(items[k]))
    BY <1>2, <2>1
  <2>4. /\ decode_item(Rest(in, Len(f[k - 1]))) =
             Decoded(items[k], Len(encode_object_named(items[k])))
        /\ next[Len(f[k - 1])] = Len(f[k - 1]) + Len(encode_object_named(items[k]))
    BY <2>2, <2>3, StepAt, ZenonT(30)
  <2>5. Len(encode_object_named(items[k])) >= 3 /\ Len(encode_object_named(items[k])) \in Nat
    BY <2>2, ItemBytes, LenBytes
  <2>6. Len(f[k]) = Len(f[k - 1]) + Len(encode_object_named(items[k]))
    BY <1>2, <2>1
  <2>7. Len(f[k]) > Len(f[k - 1])
    <3>1. \A a, b \in Nat : b >= 3 => a + b > a
      OBVIOUS
    <3> QED
      BY <2>2, <2>5, <2>6, <3>1
  <2>8. decode_item(Rest(in, Len(f[k - 1]))).value = items[k]
    BY <2>4 DEF Decoded
  <2> QED
    BY <2>1, <2>4, <2>6, <2>7, <2>8
<1>5. DOMAIN next = 0 .. Len(in)
  BY DEF ItemSteps
<1>6. next[Len(f[m])] = Len(f[m])
  OBVIOUS
<1> HIDE DEF next
<1>7. /\ \A k \in 0 .. m : pos[k] \in 0 .. Len(in)
      /\ \A k \in 1 .. m : pos[k] > pos[k - 1] /\ next[pos[k - 1]] = pos[k]
      /\ next[pos[m]] = pos[m]
      /\ \A k \in 0 .. m : pos[k] = Len(f[k])
  <2>1. \A k \in 0 .. m : pos[k] = Len(f[k])
    OBVIOUS
  <2>2. \A k \in 0 .. m : k \in 0 .. n
    BY <1>1, <1>3
  <2>3. m \in 0 .. m
    BY <1>3
  <2> HIDE DEF pos
  <2>4. ASSUME NEW k \in 1 .. m PROVE pos[k] > pos[k - 1] /\ next[pos[k - 1]] = pos[k]
    <3>1. pos[k] = Len(f[k]) /\ pos[k - 1] = Len(f[k - 1])
      BY <1>4, <2>1
    <3> QED
      BY <1>4, <3>1
  <2> QED
    BY <1>2, <1>6, <2>1, <2>2, <2>3, <2>4
<1>8. pos[0] = 0
  <2>1. Len(f[0]) = 0 /\ 0 \in 0 .. m
    BY <1>3, EmptySeq DEF Parts
  <2> QED
    BY <2>1
<1>9. Trail(next, pos[0]) = [i \in 1 .. m + 1 |-> pos[i - 1]]
  <2> HIDE DEF pos
  <2>1. Along(next, Len(in), pos, m)
    BY <1>5, <1>7 DEF Along
  <2> QED
    BY <1>1, <1>3, <2>1, TrailAlong
<1>10. \A i \in 1 .. m + 1 : pos[i - 1] = Len(f[i - 1])
  <2>1. \A i \in 1 .. m + 1 : i - 1 \in 0 .. m
    BY <1>3
  <2> QED
    BY <2>1
<1> HIDE DEF pos
<1>11. [i \in 1 .. m + 1 |-> pos[i - 1]] = [i \in 1 .. m + 1 |-> Len(f[i - 1])]
  BY <1>10
<1> QED
  BY <1>4, <1>8, <1>9, <1>11 DEF next

\* Parts of it there are, whatever the items.
LEMMA PartsExist ==
    ASSUME NEW items \in Seq(Items)
    PROVE  \E f : Parts(items, f) /\ encode_items(items) = f[Len(items)]
BY ItemsParts DEF Parts

\* Properties without long strings come back, put into a map, up to the mark of the end.
LEMMA ReadItems ==
    ASSUME NEW items \in Seq(Items), \A k \in 1 .. Len(items) : Short(items[k].value),
           NEW in \in Bytes, Holds(in, 0, encode_items(items) \o encode_object_end)
    PROVE  decode_object_or_ecma_array(in) =
             Decoded(PutAll(items), Len(encode_items(items)) + 3)
<1> DEFINE n == Len(items)
           next == ItemSteps(in)
           stops == Trail(next, 0)
           read == [i \in 1 .. Len(stops) - 1 |-> decode_item(Rest(in, stops[i])).value]
<1>1. PICK f : Parts(items, f) /\ encode_items(items) = f[n]
  BY PartsExist
<1>2. n \in Nat /\ items = [k \in 1 .. n |-> items[k]]
  BY LenProperties
<1>3. f[n] \in Bytes /\ Len(f[n]) \in Nat
  BY <1>1, <1>2, LenBytes DEF Parts
<1>4. Holds(in, 0, f[n]) /\ Holds(in, 0 + Len(f[n]), encode_object_end)
  BY <1>1, <1>3, MarkBytes, HoldsSplit
<1>5. EndsAt(in, Len(f[n])) /\ Len(f[n]) \in 0 .. Len(in)
  <2>1. 0 + Len(f[n]) = Len(f[n]) /\ Len(in) \in Nat
    BY <1>3, LenBytes
  <2>2. /\ Len(f[n]) + 3 <= Len(in)
        /\ \A i \in 1 .. 3 : in[Len(f[n]) + i] = encode_object_end[i]
    BY <1>4, <2>1, MarkBytes DEF Holds
  <2>3. /\ in[Len(f[n]) + 1] = 0 /\ in[Len(f[n]) + 2] = 0
        /\ in[Len(f[n]) + 3] = OBJECT_END
    BY <2>2, MarkBytes
  <2> QED
    BY <1>3, <2>1, <2>2, <2>3, EndsAtIs
<1>6. next[Len(f[n])] = Len(f[n])
  BY <1>5 DEF ItemSteps
<1>7. /\ stops = [i \in 1 .. n + 1 |-> Len(f[i - 1])]
      /\ \A k \in 1 .. n : decode_item(Rest(in, Len(f[k - 1]))).value = items[k]
  <2>1. n \in 0 .. Len(items)
    BY <1>2
  <2> QED
    BY <1>1, <1>4, <1>6, <2>1, LoopTrail
<1> HIDE DEF stops, next
<1>8. /\ Len(stops) = n + 1 /\ Last(stops) = Len(f[n])
      /\ \A k \in 1 .. n : stops[k] = Len(f[k - 1])
  BY <1>2, <1>7 DEF Last
<1>9. read = items
  <2>1. Len(stops) - 1 = n
    BY <1>2, <1>8
  <2>2. \A k \in 1 .. n : decode_item(Rest(in, stops[k])).value = items[k]
    BY <1>7, <1>8
  <2>3. read = [k \in 1 .. n |-> items[k]]
    BY <2>1, <2>2
  <2> QED
    BY <1>2, <2>3
<1>10. decode_object_or_ecma_array(in) =
         IF EndsAt(in, Last(stops)) THEN Decoded(PutAll(read), Last(stops) + 3) ELSE Failed
  BY DEF decode_object_or_ecma_array, stops, next
<1> QED
  BY <1>1, <1>5, <1>8, <1>9, <1>10

\* A long string among them is as far as the decoder goes.
LEMMA ItemsRefused ==
    ASSUME NEW items \in Seq(Items), NEW j \in 1 .. Len(items), ~Short(items[j].value),
           \A k \in 1 .. j - 1 : Short(items[k].value),
           NEW in \in Bytes, Holds(in, 0, encode_items(items))
    PROVE  decode_object_or_ecma_array(in) = Failed
<1> DEFINE n == Len(items)
           next == ItemSteps(in)
           stops == Trail(next, 0)
           m == j - 1
<1>1. PICK f : Parts(items, f) /\ encode_items(items) = f[n]
  BY PartsExist
<1>2. n \in Nat /\ m \in 0 .. n /\ j \in 1 .. n /\ items[j] \in Items
  BY LenProperties, ElementOfSeq
<1>3. Len(f[m]) \in 0 .. Len(in) /\ Holds(in, Len(f[m]), encode_object_named(items[j]))
  BY <1>1, <1>2, PartsLie
<1>4. Len(f[m]) \in Nat
  BY <1>3, LenBytes
<1>5. ~EndsAt(in, Len(f[m])) /\ next[Len(f[m])] = Len(f[m])
  BY <1>2, <1>3, <1>4, StepAt
<1>6. stops = [i \in 1 .. m + 1 |-> Len(f[i - 1])]
  BY <1>1, <1>2, <1>5, LoopTrail, SMTT(30)
<1> HIDE DEF stops, next
<1>7. Len(stops) = m + 1 /\ stops[m + 1] = Len(f[m])
  BY <1>2, <1>6
<1>8. Last(stops) = Len(f[m])
  BY <1>7 DEF Last
<1> QED
  BY <1>5, <1>8 DEF decode_object_or_ecma_array, stops, next

\* An object, and an ECMA array, as bytes.
LEMMA ObjectBytes ==
    ASSUME NEW items \in Seq(Items)
    PROVE  /\ encode_items(items) \in Bytes
           /\ encode_object(items) \in Bytes
           /\ Len(encode_object(items)) = Len(encode_items(items)) + 4
           /\ encode_object(items) = <<OBJECT>> \o (encode_items(items) \o encode_object_end)
           /\ encode_ecma_array(items) \in Bytes
           /\ Len(encode_ecma_array(items)) = Len(encode_items(items)) + 8
           /\ encode_ecma_array(items) =
                <<ECMA_ARRAY>> \o (encode_int32(Len(items))
                                   \o (encode_items(items) \o encode_object_end))
<1> DEFINE e == encode_items(items)
           tail == e \o encode_object_end
           count == encode_int32(Len(items))
<1>1. Len(items) \in Nat
  BY LenProperties
<1>2. e \in Bytes
  <2>1. PICK f : Parts(items, f) /\ encode_items(items) = f[Len(items)]
    BY PartsExist
  <2> QED
    BY <1>1, <2>1 DEF Parts
<1>3. /\ encode_object_end \in Bytes /\ Len(encode_object_end) = 3
      /\ encode_object_begin \in Bytes /\ encode_object_begin = <<OBJECT>>
      /\ OBJECT \in Nat /\ ECMA_ARRAY \in Nat
  BY MarkBytes, Types DEF encode_object_begin
<1>4. count \in Bytes /\ Len(count) = 4
  BY <1>1, IntBytes
<1>5. Len(e) \in Nat
  BY <1>2, LenBytes
<1> HIDE DEF e, count
<1>6. tail \in Bytes /\ Len(tail) = Len(e) + 3
  BY <1>2, <1>3, ConcatBytes, ZenonT(30)
<1>7. encode_object(items) = <<OBJECT>> \o tail
  <2>1. encode_object(items) = (<<OBJECT>> \o e) \o encode_object_end
    BY <1>3 DEF encode_object, e
  <2>2. <<OBJECT>> \in Bytes
    BY <1>3
  <2> QED
    BY <1>2, <1>3, <2>1, <2>2, ConcatAssociative DEF Bytes
<1>8. encode_ecma_array(items) = <<ECMA_ARRAY>> \o (count \o tail)
  <2>1. encode_ecma_array(items) = ((<<ECMA_ARRAY>> \o count) \o e) \o encode_object_end
    BY DEF encode_ecma_array, encode_ecma_array_begin, encode_ecma_array_end, e, count
  <2>2. <<ECMA_ARRAY>> \in Bytes /\ <<ECMA_ARRAY>> \o count \in Bytes
    BY <1>3, <1>4, OneMore
  <2> DEFINE mark == <<ECMA_ARRAY>>
             begin == mark \o count
  <2> HIDE DEF mark, begin
  <2>3. (begin \o e) \o encode_object_end = begin \o tail
    BY <1>2, <1>3, <2>2, ConcatAssoc, SMTT(30) DEF begin, mark
  <2> HIDE DEF tail
  <2>4. (mark \o count) \o tail = mark \o (count \o tail)
    BY <1>4, <1>6, <2>2, ConcatAssoc DEF mark
  <2> QED
    BY <2>1, <2>3, <2>4 DEF begin, mark
<1> HIDE DEF tail
<1>9. /\ <<OBJECT>> \o tail \in Bytes
      /\ Len(<<OBJECT>> \o tail) = 1 + Len(tail)
  BY <1>3, <1>6, OneMore
<1>10. count \o tail \in Bytes /\ Len(count \o tail) = 4 + Len(tail)
  BY <1>4, <1>6, ConcatBytes
<1>11. /\ <<ECMA_ARRAY>> \o (count \o tail) \in Bytes
       /\ Len(<<ECMA_ARRAY>> \o (count \o tail)) = 1 + Len(count \o tail)
  BY <1>3, <1>10, OneMore
<1>12. 1 + Len(tail) = Len(e) + 4 /\ 1 + Len(count \o tail) = Len(e) + 8
  BY <1>5, <1>6, <1>10
<1> QED
  BY <1>2, <1>7, <1>8, <1>9, <1>11, <1>12 DEF e, tail, count

\* What follows the first byte.
LEMMA AfterOne ==
    ASSUME NEW in \in Bytes, NEW x \in Nat, NEW p \in Bytes, Holds(in, 0, <<x>> \o p)
    PROVE  /\ in # <<>> /\ Head(in) = x /\ in[1] = x
           /\ Rest(in, 1) \in Bytes /\ Holds(Rest(in, 1), 0, p)
<1>1. <<x>> \in Bytes /\ Len(<<x>>) = 1 /\ <<x>>[1] = x
  BY DEF Bytes
<1>2. Holds(in, 0, <<x>>) /\ Holds(in, 0 + 1, p)
  BY <1>1, HoldsSplit
<1>3. in[1] = x /\ 1 <= Len(in) /\ Len(in) \in Nat
  BY <1>1, <1>2, StartsWith, LenBytes
<1>4. in # <<>> /\ Head(in) = in[1]
  BY <1>3 DEF Bytes
<1>5. Holds(in, 1 + 0, p)
  BY <1>2
<1>6. Rest(in, 1) \in Bytes
  BY <1>3, RestBytes
<1>7. Holds(Rest(in, 1), 0, p)
  BY <1>5, RestHolds
<1> QED
  BY <1>3, <1>4, <1>6, <1>7

\* An object comes back.
LEMMA ReadObject ==
    ASSUME NEW items \in Seq(Items), \A k \in 1 .. Len(items) : Short(items[k].value),
           NEW in \in Bytes, Holds(in, 0, encode_object(items))
    PROVE  decode_object(in) = Decoded(PutAll(items), Len(encode_object(items)))
<1> DEFINE tail == encode_items(items) \o encode_object_end
<1>1. /\ encode_object(items) = <<OBJECT>> \o tail
      /\ Len(encode_object(items)) = Len(encode_items(items)) + 4
      /\ encode_items(items) \in Bytes /\ Len(encode_items(items)) \in Nat
  BY ObjectBytes, LenBytes
<1>2. tail \in Bytes /\ OBJECT \in Nat
  BY <1>1, MarkBytes, ConcatBytes, Types
<1> HIDE DEF tail
<1>3. in # <<>> /\ Head(in) = OBJECT /\ Rest(in, 1) \in Bytes /\ Holds(Rest(in, 1), 0, tail)
  BY <1>1, <1>2, AfterOne
<1>4. decode_object_or_ecma_array(Rest(in, 1)) =
        Decoded(PutAll(items), Len(encode_items(items)) + 3)
  BY <1>3, ReadItems DEF tail
<1>5. After(1, Decoded(PutAll(items), Len(encode_items(items)) + 3)) =
        Decoded(PutAll(items), 1 + (Len(encode_items(items)) + 3))
  BY DEF After, Decoded
<1>6. 1 + (Len(encode_items(items)) + 3) = Len(encode_items(items)) + 4
  BY <1>1
<1> QED
  BY <1>1, <1>3, <1>4, <1>5, <1>6 DEF decode_object

\* With a long string in it, it does not.
LEMMA ObjectRefused ==
    ASSUME NEW items \in Seq(Items), NEW j \in 1 .. Len(items), ~Short(items[j].value),
           \A k \in 1 .. j - 1 : Short(items[k].value),
           NEW in \in Bytes, Holds(in, 0, encode_object(items))
    PROVE  decode_object(in) = Failed
<1> DEFINE tail == encode_items(items) \o encode_object_end
<1>1. encode_object(items) = <<OBJECT>> \o tail /\ encode_items(items) \in Bytes
  BY ObjectBytes
<1>2. tail \in Bytes /\ OBJECT \in Nat
  BY <1>1, MarkBytes, ConcatBytes, Types
<1>3. in # <<>> /\ Head(in) = OBJECT /\ Rest(in, 1) \in Bytes /\ Holds(Rest(in, 1), 0, tail)
  <2> HIDE DEF tail
  <2> QED
    BY <1>1, <1>2, AfterOne
<1>4. Holds(Rest(in, 1), 0, encode_items(items))
  BY <1>1, <1>3, MarkBytes, HoldsSplit
<1>5. decode_object_or_ecma_array(Rest(in, 1)) = Failed
  BY <1>3, <1>4, ItemsRefused
<1>6. After(1, Failed) = Failed
  BY DEF After, Failed
<1> QED
  BY <1>3, <1>5, <1>6 DEF decode_object

\* An ECMA array comes back, whatever number of properties it announces.
LEMMA ReadEcmaArray ==
    ASSUME NEW items \in Seq(Items), \A k \in 1 .. Len(items) : Short(items[k].value),
           NEW in \in Bytes, Holds(in, 0, encode_ecma_array(items))
    PROVE  decode_ecma_array(in) = Decoded(PutAll(items), Len(encode_ecma_array(items)))
<1> DEFINE tail == encode_items(items) \o encode_object_end
           count == encode_int32(Len(items))
<1>1. /\ encode_ecma_array(items) = <<ECMA_ARRAY>> \o (count \o tail)
      /\ Len(encode_ecma_array(items)) = Len(encode_items(items)) + 8
      /\ encode_items(items) \in Bytes /\ Len(encode_items(items)) \in Nat
  BY ObjectBytes, LenBytes
<1>2. tail \in Bytes /\ ECMA_ARRAY \in Nat /\ Len(items) \in Nat
  BY <1>1, MarkBytes, ConcatBytes, Types, LenProperties
<1>3. count \in Bytes /\ Len(count) = 4
  BY <1>2, IntBytes
<1> HIDE DEF tail, count
<1>4. count \o tail \in Bytes
  BY <1>2, <1>3, ConcatBytes
<1>5. /\ in # <<>> /\ Head(in) = ECMA_ARRAY /\ Rest(in, 1) \in Bytes
      /\ Holds(Rest(in, 1), 0, count \o tail)
  BY <1>1, <1>2, <1>4, AfterOne
<1>6. Holds(Rest(in, 1), 0, count) /\ Holds(Rest(in, 1), 0 + 4, tail)
  BY <1>2, <1>3, <1>5, HoldsSplit
<1>7. Len(Rest(in, 1)) >= 4 /\ Len(Rest(in, 1)) \in Nat
  BY <1>3, <1>5, <1>6, LenBytes DEF Holds
<1>8. decode_int32(Rest(in, 1)).ok
  BY <1>7 DEF decode_int32, Decoded
<1>9. Rest(Rest(in, 1), 4) = Rest(in, 5) /\ Rest(in, 5) \in Bytes
  <2>1. Len(in) \in Nat /\ 1 <= Len(in)
    BY <1>5, LenBytes, EmptySeq DEF Bytes
  <2>2. Len(Rest(in, 1)) = Len(in) - 1
    BY <2>1, RestBytes
  <2>3. 1 + 4 <= Len(in) /\ 1 + 4 = 5 /\ 5 <= Len(in)
    BY <1>7, <2>1, <2>2
  <2> QED
    BY <2>3, RestRest, RestBytes
<1>10. Holds(Rest(in, 5), 0, tail)
  <2>1. Holds(Rest(in, 1), 4 + 0, tail)
    BY <1>6
  <2>2. Holds(Rest(Rest(in, 1), 4), 0, tail)
    BY <1>2, <1>5, <2>1, RestHolds
  <2> QED
    BY <1>9, <2>2
<1>11. decode_object_or_ecma_array(Rest(in, 5)) =
         Decoded(PutAll(items), Len(encode_items(items)) + 3)
  BY <1>9, <1>10, ReadItems DEF tail
<1>12. After(5, Decoded(PutAll(items), Len(encode_items(items)) + 3)) =
         Decoded(PutAll(items), 5 + (Len(encode_items(items)) + 3))
  BY DEF After, Decoded
<1>13. 5 + (Len(encode_items(items)) + 3) = Len(encode_items(items)) + 8
  BY <1>1
<1> QED
  BY <1>1, <1>5, <1>8, <1>11, <1>12, <1>13 DEF decode_ecma_array
-----------------------------------------------------------------------------
(* Whole sequences of items *)

\* A trail is not empty: by induction on how far its place is from the end.
LEMMA TrailSeq ==
    ASSUME NEW n \in Nat, NEW next, DOMAIN next = 0 .. n
    PROVE  \A at \in 0 .. n : Trail(next, at) \in Bytes /\ Trail(next, at) # <<>>
<1> DEFINE P(at) == Trail(next, at) \in Bytes /\ Trail(next, at) # <<>>
           S == {k \in Nat : \A at \in 0 .. n : n - at <= k => P(at)}
<1>1. ASSUME NEW at \in 0 .. n, ~(next[at] \in 0 .. n /\ next[at] > at)
      PROVE  P(at)
  <2>1. Trail(next, at) = <<at>>
    BY <1>1, TrailStep
  <2>2. <<at>> \in Bytes /\ <<at>> # <<>>
    BY DEF Bytes
  <2> QED
    BY <2>1, <2>2
<1>2. ASSUME NEW at \in 0 .. n, next[at] \in 0 .. n, next[at] > at, P(next[at])
      PROVE  P(at)
  <2>1. Trail(next, at) = <<at>> \o Trail(next, next[at])
    BY <1>2, TrailStep
  <2>2. /\ <<at>> \o Trail(next, next[at]) \in Bytes
        /\ Len(<<at>> \o Trail(next, next[at])) = 1 + Len(Trail(next, next[at]))
        /\ Len(Trail(next, next[at])) \in Nat
    BY <1>2, OneMore, LenBytes
  <2>3. <<at>> \o Trail(next, next[at]) # <<>>
    BY <2>2, EmptySeq
  <2> QED
    BY <2>1, <2>2, <2>3
<1> HIDE DEF P
<1>3. 0 \in S
  BY <1>1
<1>4. ASSUME NEW k \in Nat, k \in S
      PROVE  k + 1 \in S
  <2>1. ASSUME NEW at \in 0 .. n, n - at <= k + 1
        PROVE  P(at)
    <3>1. CASE next[at] \in 0 .. n /\ next[at] > at
      <4>1. n - next[at] <= k
        BY <2>1, <3>1
      <4> QED
        BY <1>2, <1>4, <3>1, <4>1
    <3> QED
      BY <1>1, <3>1
  <2> QED
    BY <2>1
<1> HIDE DEF S
<1>5. n \in S
  BY <1>3, <1>4, Inductive
<1> QED
  BY <1>5 DEF S, P

\* The last of a longer sequence.
LEMMA LastOfMore ==
    ASSUME NEW x \in Nat, NEW p \in Bytes, p # <<>>
    PROVE  Last(<<x>> \o p) = Last(p)
<1>1. Len(p) \in Nat /\ Len(p) # 0
  BY LenBytes, EmptySeq DEF Bytes
<1>2. Len(<<x>> \o p) = 1 + Len(p) /\ (<<x>> \o p)[1 + Len(p)] = p[Len(p)]
  BY <1>1, OneMore
<1> QED
  BY <1>2 DEF Last

\* The loop over items that starts at at ends where in does.
Reaches(in, at) == Last(Trail(WholeSteps(in), at)) = Len(in)

\* It has ended there, and goes on from one place to the next.
LEMMA ReachesEnd ==
    ASSUME NEW in \in Bytes
    PROVE  Reaches(in, Len(in))
<1>1. Len(in) \in Nat /\ DOMAIN WholeSteps(in) = 0 .. Len(in)
  BY LenBytes DEF WholeSteps
<1> DEFINE next == WholeSteps(in)
           n == Len(in)
<1> HIDE DEF next
<1>2. n \in 0 .. n /\ ~(next[n] \in 0 .. n /\ next[n] > n)
  BY <1>1
<1>3. Trail(next, n) = <<n>>
  BY <1>1, <1>2, TrailStep DEF next
<1>4. Last(<<n>>) = n
  BY DEF Last
<1> QED
  BY <1>3, <1>4 DEF Reaches, next

\* A place from which one whole item leads to a place that reaches the end reaches it.
LEMMA ReachesStep ==
    ASSUME NEW in \in Bytes, NEW at \in Nat, NEW n \in Nat \ {0}, at + n <= Len(in),
           WholeSteps(in)[at] = at + n, Reaches(in, at + n)
    PROVE  Reaches(in, at)
<1> DEFINE next == WholeSteps(in)
<1>1. Len(in) \in Nat /\ DOMAIN next = 0 .. Len(in)
  BY LenBytes DEF WholeSteps
<1>2. next[at] = at + n /\ Last(Trail(next, at + n)) = Len(in)
  BY DEF Reaches
<1> HIDE DEF next
<1>3. at \in 0 .. Len(in) /\ at + n \in 0 .. Len(in) /\ at + n > at
  BY <1>1
<1>4. Trail(next, at) = <<at>> \o Trail(next, at + n)
  BY <1>1, <1>2, <1>3, TrailStep
<1>5. Trail(next, at + n) \in Bytes /\ Trail(next, at + n) # <<>>
  BY <1>1, <1>3, TrailSeq
<1>6. Last(<<at>> \o Trail(next, at + n)) = Last(Trail(next, at + n))
  BY <1>5, LastOfMore
<1> QED
  BY <1>2, <1>4, <1>6 DEF Reaches, next

\* What the loop tries at a place.
Tries(here) ==
    {decode_string_with_type(here), decode_number_with_type(here),
     decode_boolean_with_type(here), decode_object(here), decode_ecma_array(here)}

\* e is an item: the loop goes on after it.
Taken(e) ==
    /\ e \in Bytes /\ Len(e) \in Nat \ {0}
    /\ \A in \in Bytes, at \in Nat : Holds(in, at, e) => WholeSteps(in)[at] = at + Len(e)

\* in is a sequence of items from any place where p lies and ends it.
Ending(p) ==
    /\ p \in Bytes
    /\ \A in \in Bytes, at \in Nat : Holds(in, at, p) /\ at + Len(p) = Len(in) => Reaches(in, at)

\* Nothing, and an item more.
LEMMA EndingNone == Ending(<<>>)
<1>1. <<>> \in Bytes /\ Len(<<>>) = 0
  BY DEF Bytes
<1>2. ASSUME NEW in \in Bytes, NEW at \in Nat, at + Len(<<>>) = Len(in)
      PROVE  Reaches(in, at)
  <2>1. at = Len(in)
    BY <1>1, <1>2
  <2> QED
    BY <2>1, ReachesEnd
<1> QED
  BY <1>1, <1>2 DEF Ending

\* A string of items stays one when an item is put before it.
LEMMA EndingMore ==
    ASSUME NEW e, NEW p, Taken(e), Ending(p)
    PROVE  Ending(e \o p)
<1>1. e \in Bytes /\ Len(e) \in Nat \ {0} /\ p \in Bytes /\ Len(p) \in Nat
  BY LenBytes DEF Taken, Ending
<1>2. e \o p \in Bytes /\ Len(e \o p) = Len(e) + Len(p)
  BY <1>1, ConcatBytes
<1>3. ASSUME NEW in \in Bytes, NEW at \in Nat, Holds(in, at, e \o p),
             at + Len(e \o p) = Len(in)
      PROVE  Reaches(in, at)
  <2>1. Holds(in, at, e) /\ Holds(in, at + Len(e), p)
    BY <1>1, <1>3, HoldsSplit
  <2>2. at + Len(e) \in Nat /\ (at + Len(e)) + Len(p) = Len(in) /\ at + Len(e) <= Len(in)
    BY <1>1, <1>2, <1>3
  <2>3. Reaches(in, at + Len(e))
    BY <2>1, <2>2 DEF Ending
  <2>4. WholeSteps(in)[at] = at + Len(e)
    BY <2>1 DEF Taken
  <2> QED
    BY <1>1, <2>2, <2>3, <2>4, ReachesStep
<1> QED
  BY <1>2, <1>3 DEF Ending

\* The last item.
LEMMA EndingLast ==
    ASSUME NEW e, Taken(e)
    PROVE  Ending(e)
<1>1. e \o <<>> = e
  BY DEF Taken, Bytes
<1> QED
  BY <1>1, EndingNone, EndingMore

\* A sequence of items, from its first byte.
LEMMA EndingWhole ==
    ASSUME NEW p, Ending(p)
    PROVE  Whole(p)
<1>1. p \in Bytes /\ Len(p) \in Nat
  BY LenBytes DEF Ending
<1>2. Holds(p, 0, p) /\ 0 + Len(p) = Len(p)
  BY <1>1, HoldsAll
<1>3. Reaches(p, 0)
  BY <1>1, <1>2 DEF Ending
<1> QED
  BY <1>3 DEF Reaches, Whole

\* What starts with e starts with its first byte.
LEMMA FirstByte ==
    ASSUME NEW in \in Bytes, NEW e \in Bytes, Len(e) >= 1, Holds(in, 0, e)
    PROVE  in[1] = e[1]
<1>1. Len(e) \in Nat
  BY LenBytes
<1>2. 1 \in 1 .. Len(e)
  BY <1>1
<1> QED
  BY <1>2, StartsWith

\* An item that one of the decoders takes, and the others do not.
LEMMA TakenBy ==
    ASSUME NEW e \in Bytes, Len(e) \in Nat \ {0}, e[1] # NULL,
           \A here \in Bytes :
               Holds(here, 0, e) =>
                   \E x \in Tries(here) : /\ x.ok = TRUE /\ x.next = Len(e)
                                          /\ \A t \in Tries(here) : t # x => t = Failed
    PROVE  Taken(e)
<1> SUFFICES ASSUME NEW in \in Bytes, NEW at \in Nat, Holds(in, at, e)
             PROVE  WholeSteps(in)[at] = at + Len(e)
  BY DEF Taken
<1> DEFINE here == Rest(in, at)
<1>1. Len(in) \in Nat /\ at <= Len(in) /\ at \in 0 .. Len(in)
  BY LenBytes DEF Holds
<1>2. here \in Bytes
  BY <1>1, RestBytes
<1>3. Holds(here, 0, e)
  <2>1. Holds(in, at + 0, e)
    OBVIOUS
  <2> QED
    BY <2>1, RestHolds
<1>4. WholeSteps(in)[at] = IF here # <<>> /\ Head(here) = NULL THEN at + 1
                           ELSE IF \E t \in Tries(here) : t.ok
                                THEN at + (CHOOSE t \in Tries(here) : t.ok).next
                                ELSE at
  BY <1>1 DEF WholeSteps, Tries
<1> HIDE DEF here
<1>5. ~(here # <<>> /\ Head(here) = NULL)
  <2>1. here[1] = e[1]
    BY <1>2, <1>3, StartsWith
  <2>2. here # <<>> => Head(here) = here[1]
    BY <1>2 DEF Bytes
  <2> QED
    BY <2>1, <2>2
<1>6. PICK x \in Tries(here) : /\ x.ok = TRUE /\ x.next = Len(e)
                               /\ \A t \in Tries(here) : t # x => t = Failed
  BY <1>2, <1>3
<1>7. (\E t \in Tries(here) : t.ok) /\ (CHOOSE t \in Tries(here) : t.ok) = x
  BY <1>6, TheOneThatSucceeds
<1> QED
  BY <1>4, <1>5, <1>6, <1>7

\* The decoders of objects take nothing that starts with another type.
LEMMA OtherObject ==
    ASSUME NEW in \in Bytes
    PROVE  /\ in[1] # OBJECT => decode_object(in) = Failed
           /\ in[1] # ECMA_ARRAY => decode_ecma_array(in) = Failed
<1>1. in # <<>> => Head(in) = in[1]
  BY DEF Bytes
<1> QED
  BY <1>1 DEF decode_object, decode_ecma_array

\* Null.
LEMMA NullTaken == Taken(encode_null)
<1>1. encode_null \in Bytes /\ Len(encode_null) = 1 /\ encode_null[1] = NULL
  BY MarkBytes
<1> SUFFICES ASSUME NEW in \in Bytes, NEW at \in Nat, Holds(in, at, encode_null)
             PROVE  WholeSteps(in)[at] = at + 1
  BY <1>1 DEF Taken
<1> DEFINE here == Rest(in, at)
<1>2. Len(in) \in Nat /\ at + 1 <= Len(in) /\ at \in 0 .. Len(in) /\ at <= Len(in)
  BY <1>1, LenBytes DEF Holds
<1>3. here \in Bytes /\ Len(here) = Len(in) - at
  BY <1>2, RestBytes
<1>4. Holds(here, 0, encode_null)
  <2>1. Holds(in, at + 0, encode_null)
    OBVIOUS
  <2> QED
    BY <1>1, <2>1, RestHolds
<1>5. (here # <<>> /\ Head(here) = NULL) => WholeSteps(in)[at] = at + 1
  BY <1>2 DEF WholeSteps
<1> HIDE DEF here
<1>6. here[1] = NULL
  BY <1>1, <1>3, <1>4, StartsWith
<1>7. here # <<>> /\ Head(here) = here[1]
  BY <1>2, <1>3 DEF Bytes
<1> QED
  BY <1>5, <1>6, <1>7

\* A short string.
LEMMA StringTaken ==
    ASSUME NEW s \in Bytes, Len(s) < LongLen
    PROVE  Taken(encode_string(s))
<1> DEFINE e == encode_string(s)
<1>1. e \in Bytes /\ e = <<STRINGTYPE>> \o (encode_int16(Len(s)) \o s) /\ Len(s) \in Nat
  BY StringBytes, LenBytes
<1>2. Len(e) = Len(s) + 3
  BY StringBytes DEF encode_string_reserve
<1>3. e[1] = STRINGTYPE
  <2>1. encode_int16(Len(s)) \o s \in Bytes
    BY <1>1, IntBytes, ConcatBytes
  <2> QED
    BY <1>1, <2>1, OneMore, Types
<1> HIDE DEF e
<1>4. ASSUME NEW here \in Bytes, Holds(here, 0, e)
      PROVE  \E x \in Tries(here) : /\ x.ok = TRUE /\ x.next = Len(e)
                                    /\ \A t \in Tries(here) : t # x => t = Failed
  <2>1. here[1] = STRINGTYPE
    <3>1. Len(e) >= 1
      BY <1>1, <1>2
    <3> QED
      BY <1>1, <1>2, <1>3, <1>4, <3>1, FirstByte
  <2>2. decode_string_with_type(here) = Decoded(Value(STRINGTYPE, s), Len(s) + 3)
    BY <1>4, ReadStringWithType DEF e
  <2>3. decode_number_with_type(here) = Failed /\ decode_boolean_with_type(here) = Failed
    BY <2>1, OtherType, Types
  <2>4. decode_object(here) = Failed /\ decode_ecma_array(here) = Failed
    BY <2>1, OtherObject, Types
  <2> QED
    BY <1>2, <2>2, <2>3, <2>4 DEF Tries, Decoded
<1>5. e[1] # NULL /\ Len(e) \in Nat \ {0}
  BY <1>1, <1>2, <1>3, Types
<1> QED
  BY <1>1, <1>4, <1>5, TakenBy DEF e

\* A number.
LEMMA NumberTaken ==
    ASSUME NEW d \in Bytes, Len(d) = 8
    PROVE  Taken(encode_number(d))
<1> DEFINE e == encode_number(d)
<1>1. e \in Bytes /\ Len(e) = 9 /\ e[1] = NUMBER
  BY NumberBytes
<1>2. ASSUME NEW here \in Bytes, Holds(here, 0, e)
      PROVE  \E x \in Tries(here) : /\ x.ok = TRUE /\ x.next = Len(e)
                                    /\ \A t \in Tries(here) : t # x => t = Failed
  <2>1. decode_number_with_type(here) = Decoded(Value(NUMBER, d), 9)
    BY <1>2, ReadNumber
  <2> HIDE DEF e
  <2>2. here[1] = NUMBER
    <3>1. Len(e) >= 1
      BY <1>1, <1>2
    <3> QED
      BY <1>1, <1>2, <3>1, FirstByte
  <2>3. decode_string_with_type(here) = Failed /\ decode_boolean_with_type(here) = Failed
    BY <2>2, OtherType, Types
  <2>4. decode_object(here) = Failed /\ decode_ecma_array(here) = Failed
    BY <2>2, OtherObject, Types
  <2> QED
    BY <1>1, <2>1, <2>3, <2>4 DEF Tries, Decoded
<1> HIDE DEF e
<1>3. e[1] # NULL /\ Len(e) \in Nat \ {0}
  BY <1>1, Types
<1> QED
  BY <1>1, <1>2, <1>3, TakenBy DEF e

\* An object, and an ECMA array, without long strings.
LEMMA ObjectTaken ==
    ASSUME NEW items \in Seq(Items), \A k \in 1 .. Len(items) : Short(items[k].value)
    PROVE  Taken(encode_object(items))
<1> DEFINE e == encode_object(items)
<1>1. e \in Bytes /\ Len(e) = Len(encode_items(items)) + 4 /\ Len(encode_items(items)) \in Nat
      /\ e = <<OBJECT>> \o (encode_items(items) \o encode_object_end)
  BY ObjectBytes, LenBytes
<1>2. e[1] = OBJECT
  <2>1. encode_items(items) \o encode_object_end \in Bytes
    BY ObjectBytes, MarkBytes, ConcatBytes
  <2> QED
    BY <1>1, <2>1, OneMore, Types
<1>3. ASSUME NEW here \in Bytes, Holds(here, 0, e)
      PROVE  \E x \in Tries(here) : /\ x.ok = TRUE /\ x.next = Len(e)
                                    /\ \A t \in Tries(here) : t # x => t = Failed
  <2>1. decode_object(here) = Decoded(PutAll(items), Len(e))
    BY <1>3, ReadObject
  <2> HIDE DEF e
  <2>2. here[1] = OBJECT
    <3>1. Len(e) >= 1
      BY <1>1, <1>2
    <3> QED
      BY <1>1, <1>2, <1>3, <3>1, FirstByte
  <2>3. /\ decode_string_with_type(here) = Failed /\ decode_boolean_with_type(here) = Failed
        /\ decode_number_with_type(here) = Failed
    BY <2>2, OtherType, Types
  <2>4. decode_ecma_array(here) = Failed
    BY <2>2, OtherObject, Types
  <2> QED
    BY <1>1, <2>1, <2>3, <2>4 DEF Tries, Decoded
<1> HIDE DEF e
<1>4. e[1] # NULL /\ Len(e) \in Nat \ {0}
  BY <1>1, <1>2, Types
<1> QED
  BY <1>1, <1>3, <1>4, TakenBy DEF e

\* An ecma array of short values is taken as one item.
LEMMA ArrayTaken ==
    ASSUME NEW items \in Seq(Items), \A k \in 1 .. Len(items) : Short(items[k].value)
    PROVE  Taken(encode_ecma_array(items))
<1> DEFINE e == encode_ecma_array(items)
           tail == encode_int32(Len(items)) \o (encode_items(items) \o encode_object_end)
<1>1. e \in Bytes /\ Len(e) = Len(encode_items(items)) + 8 /\ Len(encode_items(items)) \in Nat
      /\ e = <<ECMA_ARRAY>> \o tail
  BY ObjectBytes, LenBytes
<1>2. e[1] = ECMA_ARRAY
  <2>1. encode_items(items) \o encode_object_end \in Bytes /\ Len(items) \in Nat
    BY ObjectBytes, MarkBytes, ConcatBytes, LenProperties
  <2>2. tail \in Bytes
    BY <2>1, IntBytes, ConcatBytes
  <2> HIDE DEF tail
  <2> QED
    BY <1>1, <2>2, OneMore, Types
<1>3. ASSUME NEW here \in Bytes, Holds(here, 0, e)
      PROVE  \E x \in Tries(here) : /\ x.ok = TRUE /\ x.next = Len(e)
                                    /\ \A t \in Tries(here) : t # x => t = Failed
  <2>1. decode_ecma_array(here) = Decoded(PutAll(items), Len(e))
    BY <1>3, ReadEcmaArray
  <2> HIDE DEF e
  <2>2. here[1] = ECMA_ARRAY
    <3>1. Len(e) >= 1
      BY <1>1, <1>2
    <3> QED
      BY <1>1, <1>2, <1>3, <3>1, FirstByte
  <2>3. /\ decode_string_with_type(here) = Failed /\ decode_boolean_with_type(here) = Failed
        /\ decode_number_with_type(here) = Failed
    BY <2>2, OtherType, Types
  <2>4. decode_object(here) = Failed
    BY <2>2, OtherObject, Types
  <2> QED
    BY <1>1, <2>1, <2>3, <2>4 DEF Tries, Decoded
<1> HIDE DEF e
<1>4. e[1] # NULL /\ Len(e) \in Nat \ {0}
  BY <1>1, <1>2, Types
<1> QED
  BY <1>1, <1>3, <1>4, TakenBy DEF e
-----------------------------------------------------------------------------
(* The map of an object: the last value of each name *)

\* A sequence without one of its members.
LEMMA RemoveAtIs ==
    ASSUME NEW T, NEW s \in Seq(T), NEW p \in 1 .. Len(s)
    PROVE  /\ RemoveAt(s, p) \in Seq(T) /\ Len(RemoveAt(s, p)) = Len(s) - 1
           /\ \A i \in 1 .. Len(s) - 1 :
                RemoveAt(s, p)[i] = IF i < p THEN s[i] ELSE s[i + 1]
<1>1. Len(s) \in Nat
  BY LenProperties
<1>2. /\ SubSeq(s, 1, p - 1) \in Seq(T) /\ Len(SubSeq(s, 1, p - 1)) = p - 1
      /\ SubSeq(s, p + 1, Len(s)) \in Seq(T) /\ Len(SubSeq(s, p + 1, Len(s))) = Len(s) - p
      /\ \A i \in 1 .. p - 1 : SubSeq(s, 1, p - 1)[i] = s[i]
      /\ \A i \in 1 .. Len(s) - p : SubSeq(s, p + 1, Len(s))[i] = s[p + i]
  BY <1>1
<1> DEFINE a == SubSeq(s, 1, p - 1)
           b == SubSeq(s, p + 1, Len(s))
<1>3. RemoveAt(s, p) = a \o b
  BY DEF RemoveAt
<1>4. /\ a \in Seq(T) /\ Len(a) = p - 1 /\ b \in Seq(T) /\ Len(b) = Len(s) - p
      /\ \A i \in 1 .. p - 1 : a[i] = s[i]
      /\ \A i \in 1 .. Len(s) - p : b[i] = s[p + i]
  BY <1>2
<1> HIDE DEF a, b
<1>5. a \o b \in Seq(T) /\ Len(a \o b) = Len(s) - 1
  BY <1>1, <1>4
<1>6. ASSUME NEW i \in 1 .. Len(s) - 1
      PROVE  (a \o b)[i] = IF i < p THEN s[i] ELSE s[i + 1]
  <2>1. CASE i < p
    <3>1. (a \o b)[i] = a[i] /\ i \in 1 .. p - 1
      BY <1>1, <1>4, <2>1
    <3> QED
      BY <1>4, <2>1, <3>1
  <2>2. CASE ~(i < p)
    <3>1. (a \o b)[i] = b[i - (p - 1)] /\ i - (p - 1) \in 1 .. Len(s) - p
      BY <1>1, <1>4, <2>2, SMTT(30)
    <3>2. p + (i - (p - 1)) = i + 1
      OBVIOUS
    <3>3. b[i - (p - 1)] = s[p + (i - (p - 1))]
      BY <1>4, <3>1
    <3> QED
      BY <2>2, <3>1, <3>2, <3>3
  <2> QED
    BY <2>1, <2>2
<1> QED
  BY <1>3, <1>5, <1>6

\* objs has members of the first k of props, in their order, and no later one has the
\* name of one of them.
Picks(objs, props, k, last) ==
    /\ objs \in Seq(Items)
    /\ \A i \in 1 .. Len(objs) :
         /\ last[i] \in 1 .. k /\ objs[i] = props[last[i]]
         /\ \A m \in 1 .. k : m > last[i] => props[m].name # objs[i].name
    /\ \A i, j \in 1 .. Len(objs) : i < j => last[i] < last[j]

\* Each name is there.
Covers(objs, props, k) == \A m \in 1 .. k : \E i \in 1 .. Len(objs) : objs[i].name = props[m].name

\* What put takes away, for a name.
Others(objs, name) == IF Has(objs, name) THEN RemoveAt(objs, Place(objs, name)) ELSE objs

\* Without a name, the others are still there, once each.
LEMMA OthersPicks ==
    ASSUME NEW props \in Seq(Items), NEW k \in 0 .. Len(props), NEW objs, NEW last,
           Picks(objs, props, k, last), Covers(objs, props, k), NEW name
    PROVE  /\ \E l : Picks(Others(objs, name), props, k, l)
           /\ \A i \in 1 .. Len(Others(objs, name)) : Others(objs, name)[i].name # name
           /\ \A m \in 1 .. k : props[m].name # name =>
                \E i \in 1 .. Len(Others(objs, name)) :
                    Others(objs, name)[i].name = props[m].name
<1> DEFINE n == Len(objs)
           p == Place(objs, name)
<1>0. objs \in Seq(Items) /\ n \in Nat /\ DOMAIN objs = 1 .. n /\ Len(props) \in Nat
  BY LenProperties DEF Picks
<1>1. CASE ~Has(objs, name)
  <2>1. Others(objs, name) = objs
    BY <1>1 DEF Others
  <2>2. \A i \in 1 .. Len(objs) : objs[i].name # name
    BY <1>0, <1>1 DEF Has
  <2> QED
    BY <2>1, <2>2 DEF Covers
<1>2. CASE Has(objs, name)
  <2> DEFINE o == RemoveAt(objs, p)
             l == [i \in 1 .. n - 1 |-> IF i < p THEN last[i] ELSE last[i + 1]]
  <2>1. p \in 1 .. n /\ objs[p].name = name
    BY <1>0, <1>2 DEF Has, Place
  <2>2. Others(objs, name) = o
    BY <1>2 DEF Others
  <2> HIDE DEF p
  <2>3. /\ o \in Seq(Items) /\ Len(o) = n - 1
        /\ \A i \in 1 .. n - 1 : o[i] = IF i < p THEN objs[i] ELSE objs[i + 1]
    BY <1>0, <2>1, RemoveAtIs
  <2> HIDE DEF o
  <2>4. ASSUME NEW i \in 1 .. n, NEW j \in 1 .. n, i # j
        PROVE  objs[i].name # objs[j].name
    <3>1. ASSUME NEW x \in 1 .. n, NEW y \in 1 .. n, x < y
          PROVE  objs[x].name # objs[y].name
      <4>1. last[x] < last[y] /\ last[y] \in 1 .. k /\ objs[y] = props[last[y]]
        BY <3>1 DEF Picks
      <4>2. \A m \in 1 .. k : m > last[x] => props[m].name # objs[x].name
        BY <3>1 DEF Picks
      <4>3. last[x] \in 1 .. k
        BY <3>1 DEF Picks
      <4>4. last[y] > last[x]
        BY <4>1, <4>3
      <4> QED
        BY <4>1, <4>2, <4>4
    <3>2. i < j \/ j < i
      BY <1>0, <2>4
    <3> QED
      BY <3>1, <3>2
  <2>5. ASSUME NEW i \in 1 .. n - 1
        PROVE  \E x \in 1 .. n : x # p /\ o[i] = objs[x] /\ l[i] = last[x]
    <3>1. CASE i < p
      BY <1>0, <2>1, <2>3, <3>1
    <3>2. CASE ~(i < p)
      <4>1. i + 1 \in 1 .. n /\ i + 1 # p
        BY <1>0, <2>1, <3>2
      <4>2. o[i] = objs[i + 1] /\ l[i] = last[i + 1]
        BY <2>3, <3>2
      <4> QED
        BY <4>1, <4>2
    <3> QED
      BY <3>1, <3>2
  <2>6. ASSUME NEW x \in 1 .. n, x # p
        PROVE  \E i \in 1 .. n - 1 : o[i] = objs[x]
    <3>1. CASE x < p
      <4>1. x \in 1 .. n - 1
        BY <1>0, <2>1, <3>1
      <4> QED
        BY <2>3, <3>1, <4>1
    <3>2. CASE ~(x < p)
      <4>1. PICK i \in 1 .. n - 1 : i + 1 = x /\ ~(i < p)
        <5>1. x - 1 \in 1 .. n - 1 /\ (x - 1) + 1 = x /\ ~(x - 1 < p)
          BY <1>0, <2>1, <2>6, <3>2
        <5> QED
          BY <5>1
      <4>2. o[i] = objs[x]
        BY <2>3, <4>1
      <4> QED
        BY <4>2
    <3> QED
      BY <3>1, <3>2
  <2>7. ASSUME NEW i \in 1 .. n - 1, NEW j \in 1 .. n - 1, i < j
        PROVE  l[i] < l[j]
    <3>1. PICK x \in 1 .. n, y \in 1 .. n : l[i] = last[x] /\ l[j] = last[y] /\ x < y
      <4>1. CASE j < p
        <5>1. i < p /\ i \in 1 .. n /\ j \in 1 .. n
          BY <1>0, <2>1, <2>7, <4>1
        <5> QED
          BY <2>7, <4>1, <5>1
      <4>2. CASE ~(j < p) /\ i < p
        <5>1. i \in 1 .. n /\ j + 1 \in 1 .. n /\ i < j + 1
          BY <1>0, <2>1, <2>7, <4>2
        <5>2. l[i] = last[i] /\ l[j] = last[j + 1]
          BY <4>2
        <5> QED
          BY <5>1, <5>2
      <4>3. CASE ~(j < p) /\ ~(i < p)
        <5>1. i + 1 \in 1 .. n /\ j + 1 \in 1 .. n /\ i + 1 < j + 1
          BY <1>0, <2>1, <2>7, <4>3
        <5>2. l[i] = last[i + 1] /\ l[j] = last[j + 1]
          BY <4>3
        <5> QED
          BY <5>1, <5>2
      <4> QED
        BY <4>1, <4>2, <4>3
    <3>2. last[x] < last[y]
      BY <3>1 DEF Picks
    <3> QED
      BY <3>1, <3>2
  <2> HIDE DEF l
  <2>8. Picks(o, props, k, l)
    <3>1. ASSUME NEW i \in 1 .. n - 1
          PROVE  /\ l[i] \in 1 .. k /\ o[i] = props[l[i]]
                 /\ \A m \in 1 .. k : m > l[i] => props[m].name # o[i].name
      <4>1. PICK x \in 1 .. n : x # p /\ o[i] = objs[x] /\ l[i] = last[x]
        BY <2>5
      <4>2. /\ last[x] \in 1 .. k /\ objs[x] = props[last[x]]
            /\ \A m \in 1 .. k : m > last[x] => props[m].name # objs[x].name
        BY DEF Picks
      <4> QED
        BY <4>1, <4>2
    <3> QED
      BY <2>3, <2>7, <3>1 DEF Picks
  <2>9. ASSUME NEW i \in 1 .. n - 1
        PROVE  o[i].name # name
    <3>1. PICK x \in 1 .. n : x # p /\ o[i] = objs[x]
      BY <2>5
    <3> QED
      BY <2>1, <2>4, <3>1
  <2>10. ASSUME NEW m \in 1 .. k, props[m].name # name
         PROVE  \E i \in 1 .. n - 1 : o[i].name = props[m].name
    <3>1. PICK x \in 1 .. n : objs[x].name = props[m].name
      BY DEF Covers
    <3>2. x # p
      BY <2>1, <2>10, <3>1
    <3>3. PICK i \in 1 .. n - 1 : o[i] = objs[x]
      BY <2>6, <3>2
    <3> QED
      BY <3>1, <3>3
  <2> QED
    BY <2>2, <2>3, <2>8, <2>9, <2>10
<1> QED
  BY <1>1, <1>2

\* put keeps both.
LEMMA PutPicks ==
    ASSUME NEW props \in Seq(Items), NEW k \in 0 .. Len(props) - 1, NEW objs,
           \E l : Picks(objs, props, k, l), Covers(objs, props, k)
    PROVE  /\ \E l : Picks(put(objs, props[k + 1]), props, k + 1, l)
           /\ Covers(put(objs, props[k + 1]), props, k + 1)
<1>1. PICK before : Picks(objs, props, k, before)
  OBVIOUS
<1> DEFINE x == props[k + 1]
           o == Others(objs, x.name)
           n == Len(o)
<1>2. Len(props) \in Nat /\ k \in 0 .. Len(props) /\ k \in Nat
  BY LenProperties
<1>3. x \in Items
  <2>1. k + 1 \in 1 .. Len(props)
    BY <1>2
  <2> QED
    BY <2>1
<1>4. put(objs, x) = Append(o, x)
  BY DEF put, Others
<1> HIDE DEF x
<1>5. /\ \E l : Picks(o, props, k, l)
      /\ \A i \in 1 .. n : o[i].name # x.name
      /\ \A m \in 1 .. k : props[m].name # x.name =>
           \E i \in 1 .. n : o[i].name = props[m].name
  BY <1>1, <1>2, OthersPicks
<1>6. PICK last : Picks(o, props, k, last)
  BY <1>5
<1> HIDE DEF o
<1>7. o \in Seq(Items) /\ n \in Nat
  BY <1>6, LenProperties DEF Picks
<1> DEFINE new == Append(o, x)
           l == [i \in 1 .. n + 1 |-> IF i = n + 1 THEN k + 1 ELSE last[i]]
<1>8. /\ new \in Seq(Items) /\ Len(new) = n + 1 /\ new[n + 1] = x
      /\ \A i \in 1 .. n : new[i] = o[i]
  BY <1>3, <1>7
<1>9. l[n + 1] = k + 1 /\ \A i \in 1 .. n : l[i] = last[i] /\ l[i] \in 1 .. k
  <2>1. ASSUME NEW i \in 1 .. n
        PROVE  i # n + 1 /\ i \in 1 .. n + 1 /\ last[i] \in 1 .. k
    <3>1. last[i] \in 1 .. k
      BY <1>6 DEF Picks
    <3>2. i # n + 1 /\ i \in 1 .. n + 1
      BY <1>7
    <3> QED
      BY <3>1, <3>2
  <2>2. n + 1 \in 1 .. n + 1
    BY <1>7
  <2> QED
    BY <2>1, <2>2
<1> HIDE DEF new, l, n
<1>10. \A i \in 1 .. n + 1 : i = n + 1 \/ i \in 1 .. n
  BY <1>7
<1>11. \A m \in 1 .. k + 1 : m = k + 1 \/ m \in 1 .. k
  BY <1>2
<1>12. Picks(new, props, k + 1, l)
  <2>1. ASSUME NEW i \in 1 .. n + 1
        PROVE  /\ l[i] \in 1 .. k + 1 /\ new[i] = props[l[i]]
               /\ \A m \in 1 .. k + 1 : m > l[i] => props[m].name # new[i].name
    <3>1. CASE i = n + 1
      <4>1. l[i] \in 1 .. k + 1 /\ \A m \in 1 .. k + 1 : ~(m > l[i])
        BY <1>2, <1>9, <3>1
      <4>2. new[i] = props[l[i]]
        BY <1>8, <1>9, <3>1 DEF x
      <4> QED
        BY <4>1, <4>2
    <3>2. CASE i \in 1 .. n
      <4>1. /\ last[i] \in 1 .. k /\ o[i] = props[last[i]]
            /\ \A m \in 1 .. k : m > last[i] => props[m].name # o[i].name
        BY <1>6, <3>2 DEF Picks, n
      <4>2. l[i] \in 1 .. k + 1 /\ new[i] = o[i] /\ l[i] = last[i]
        BY <1>2, <1>8, <1>9, <3>2
      <4>3. props[k + 1].name # o[i].name
        BY <1>5, <3>2 DEF x, n
      <4> QED
        BY <1>11, <4>1, <4>2, <4>3
    <3> QED
      BY <1>10, <3>1, <3>2
  <2>2. ASSUME NEW i \in 1 .. n + 1, NEW j \in 1 .. n + 1, i < j
        PROVE  l[i] < l[j]
    <3>1. i \in 1 .. n
      BY <1>7, <2>2
    <3>2. CASE j = n + 1
      <4>1. l[i] \in 1 .. k /\ l[j] = k + 1
        BY <1>9, <3>1, <3>2
      <4> QED
        BY <1>2, <4>1
    <3>3. CASE j \in 1 .. n
      <4>1. last[i] < last[j]
        BY <1>6, <2>2, <3>1, <3>3 DEF Picks, n
      <4> QED
        BY <1>9, <3>1, <3>3, <4>1
    <3> QED
      BY <1>10, <3>2, <3>3
  <2> QED
    BY <1>8, <2>1, <2>2 DEF Picks
<1>13. Covers(new, props, k + 1)
  <2> SUFFICES ASSUME NEW m \in 1 .. k + 1
               PROVE  \E i \in 1 .. n + 1 : new[i].name = props[m].name
    BY <1>8 DEF Covers
  <2>1. CASE props[m].name = x.name
    <3>1. n + 1 \in 1 .. n + 1
      BY <1>7
    <3> QED
      BY <1>8, <2>1, <3>1
  <2>2. CASE props[m].name # x.name
    <3>1. m \in 1 .. k
      BY <1>11, <2>2 DEF x
    <3>2. PICK i \in 1 .. n : o[i].name = props[m].name
      BY <1>5, <2>2, <3>1 DEF n
    <3>3. i \in 1 .. n + 1 /\ new[i] = o[i]
      BY <1>7, <1>8
    <3> QED
      BY <3>2, <3>3
  <2> QED
    BY <2>1, <2>2
<1> QED
  BY <1>4, <1>12, <1>13 DEF new, x

\* All of the items, by induction on how many have been put.
LEMMA PutAllPicks ==
    ASSUME NEW props \in Seq(Items)
    PROVE  /\ \E l : Picks(PutAll(props), props, Len(props), l)
           /\ Covers(PutAll(props), props, Len(props))
<1>1. Len(props) \in Nat
  BY LenProperties
<1>2. PICK f : /\ f[0] = <<>>
               /\ \A k \in 1 .. Len(props) : f[k] = put(f[k - 1], props[k])
               /\ PutAll(props) = f[Len(props)]
  BY <1>1, PutParts
<1> DEFINE P(k) == (\E l : Picks(f[k], props, k, l)) /\ Covers(f[k], props, k)
           S == {k \in Nat : k <= Len(props) => P(k)}
<1>3. P(0)
  <2>1. <<>> \in Seq(Items) /\ Len(<<>>) = 0
    OBVIOUS
  <2> QED
    BY <1>2, <2>1 DEF Picks, Covers
<1>4. ASSUME NEW k \in Nat, k + 1 <= Len(props), P(k)
      PROVE  P(k + 1)
  <2>1. k \in 0 .. Len(props) - 1
    BY <1>1, <1>4
  <2>2. f[k + 1] = put(f[k], props[k + 1])
    <3>1. PICK j \in 1 .. Len(props) : j = k + 1 /\ j - 1 = k
      BY <1>1, <1>4
    <3> QED
      BY <1>2, <3>1
  <2> QED
    BY <1>4, <2>1, <2>2, PutPicks
<1> HIDE DEF P
<1>5. 0 \in S
  BY <1>3
<1>6. ASSUME NEW k \in Nat, k \in S
      PROVE  k + 1 \in S
  <2>1. k + 1 <= Len(props) => k <= Len(props)
    BY <1>1
  <2> QED
    BY <1>4, <1>6, <2>1
<1> HIDE DEF S
<1>7. Len(props) \in S
  BY <1>1, <1>5, <1>6, Inductive
<1>8. P(Len(props))
  BY <1>1, <1>7 DEF S
<1> QED
  BY <1>2, <1>8 DEF P

\* The last of the items with a name.
LEMMA LastIndexIs ==
    ASSUME NEW props \in Seq(Items), NEW j \in 1 .. Len(props),
           \A m \in 1 .. Len(props) : m > j => props[m].name # props[j].name
    PROVE  LastIndex(props, props[j].name) = j
<1> DEFINE name == props[j].name
           Q(i) == props[i].name = name /\ \A m \in DOMAIN props : m > i => props[m].name # name
<1>1. DOMAIN props = 1 .. Len(props) /\ Len(props) \in Nat
  BY LenProperties
<1>2. j \in DOMAIN props /\ Q(j)
  BY <1>1
<1>3. ASSUME NEW i \in DOMAIN props, Q(i)
      PROVE  i = j
  <2>1. i \in 1 .. Len(props) /\ ~(j > i) /\ ~(i > j)
    BY <1>1, <1>3
  <2> QED
    BY <1>1, <2>1
<1>4. (CHOOSE i \in DOMAIN props : Q(i)) = j
  BY <1>2, <1>3
<1> QED
  BY <1>4 DEF LastIndex

\* The map has the last value of each name, in their order.
LEMMA PutAllLast ==
    ASSUME NEW props \in Seq(Items)
    PROVE  PutAll(props) \in Seq(Items) /\ LastValues(PutAll(props), props)
<1> DEFINE objs == PutAll(props)
           n == Len(props)
<1>1. PICK last : Picks(objs, props, n, last)
  BY PutAllPicks
<1>2. Covers(objs, props, n)
  BY PutAllPicks
<1> HIDE DEF objs
<1>3. /\ n \in Nat /\ DOMAIN props = 1 .. n
      /\ objs \in Seq(Items) /\ DOMAIN objs = 1 .. Len(objs)
  BY <1>1, LenProperties DEF Picks
<1>4. ASSUME NEW i \in 1 .. Len(objs)
      PROVE  /\ last[i] \in 1 .. n /\ objs[i] = props[last[i]]
             /\ LastIndex(props, objs[i].name) = last[i]
  <2>1. /\ last[i] \in 1 .. n /\ objs[i] = props[last[i]]
        /\ \A m \in 1 .. n : m > last[i] => props[m].name # objs[i].name
    BY <1>1 DEF Picks
  <2>2. LastIndex(props, props[last[i]].name) = last[i]
    BY <2>1, LastIndexIs
  <2> QED
    BY <2>1, <2>2
<1>5. Names(objs) = Names(props)
  <2>1. ASSUME NEW i \in 1 .. Len(objs)
        PROVE  \E m \in 1 .. n : props[m].name = objs[i].name
    BY <1>4
  <2>2. \A m \in 1 .. n : \E i \in 1 .. Len(objs) : objs[i].name = props[m].name
    BY <1>2 DEF Covers
  <2>3. Names(objs) \subseteq Names(props)
    BY <1>3, <2>1 DEF Names
  <2>4. Names(props) \subseteq Names(objs)
    <3>1. \A m \in 1 .. n : props[m].name \in Names(objs)
      BY <1>3, <2>2 DEF Names
    <3> QED
      BY <1>3, <3>1 DEF Names
  <2> QED
    BY <2>3, <2>4
<1>6. \A i \in DOMAIN objs : objs[i].value = props[LastIndex(props, objs[i].name)].value
  BY <1>3, <1>4
<1>7. \A i, j \in DOMAIN objs :
        i < j => LastIndex(props, objs[i].name) < LastIndex(props, objs[j].name)
  BY <1>1, <1>3, <1>4 DEF Picks
<1> QED
  BY <1>3, <1>5, <1>6, <1>7 DEF LastValues, objs

\* A property is found, with the value that was put last under its name.
LEMMA GetPut ==
    ASSUME NEW props \in Seq(Items), NEW j \in 1 .. Len(props),
           \A m \in 1 .. Len(props) : m > j => props[m].name # props[j].name
    PROVE  /\ Has(PutAll(props), props[j].name)
           /\ get(PutAll(props), props[j].name) = props[j].value
<1> DEFINE objs == PutAll(props)
           name == props[j].name
           p == Place(objs, name)
<1>1. objs \in Seq(Items) /\ LastValues(objs, props)
  BY PutAllLast
<1> HIDE DEF objs
<1>2. name \in Names(props)
  BY LenProperties DEF Names
<1>3. Has(objs, name)
  BY <1>1, <1>2 DEF LastValues, Names, Has
<1>4. p \in DOMAIN objs /\ objs[p].name = name
  BY <1>3 DEF Has, Place
<1>5. LastIndex(props, name) = j
  BY LastIndexIs
<1>6. objs[p].value = props[LastIndex(props, objs[p].name)].value
  BY <1>1, <1>4 DEF LastValues
<1> QED
  BY <1>3, <1>4, <1>5, <1>6 DEF get, objs
-----------------------------------------------------------------------------
(* Messages *)

\* Words and doubles.
LEMMA WordIs ==
    ASSUME NEW letter \in Nat, NEW n \in Nat
    PROVE  /\ Word(letter, n) \in Bytes /\ Len(Word(letter, n)) = n
           /\ \A i \in 1 .. n : Word(letter, n)[i] = letter
  BY DEF Word, Bytes

\* Two words differ when their lengths do, or their letters.
LEMMA WordsDiffer ==
    ASSUME NEW a \in Nat, NEW b \in Nat, NEW n \in Nat, NEW m \in Nat,
           n # m \/ (a # b /\ n > 0)
    PROVE  Word(a, n) # Word(b, m)
<1>1. Len(Word(a, n)) = n /\ Len(Word(b, m)) = m
  BY WordIs
<1>2. ASSUME n = m, a # b, n > 0
      PROVE  Word(a, n) # Word(b, m)
  <2>1. 1 \in 1 .. n /\ 1 \in 1 .. m
    BY <1>2
  <2>2. Word(a, n)[1] = a /\ Word(b, m)[1] = b
    BY <2>1, WordIs
  <2> QED
    BY <1>2, <2>2
<1> QED
  BY <1>1, <1>2

\* A double is eight bytes, and the last says which.
LEMMA DoubleIs ==
    ASSUME NEW n \in Nat
    PROVE  Double(n) \in Bytes /\ Len(Double(n)) = 8 /\ Double(n)[8] = n
  BY DEF Double, Bytes

\* A sequence turned round.
LEMMA ReverseBytes ==
    ASSUME NEW p \in Bytes
    PROVE  Reverse(p) \in Bytes /\ Len(Reverse(p)) = Len(p)
<1>1. Len(p) \in Nat /\ \A i \in 1 .. Len(p) : p[i] \in Nat
  BY LenBytes
<1>2. ASSUME NEW i \in 1 .. Len(p)
      PROVE  p[(Len(p) - i) + 1] \in Nat
  <2>1. (Len(p) - i) + 1 \in 1 .. Len(p)
    BY <1>1
  <2> QED
    BY <1>1, <2>1
<1> QED
  BY <1>1, <1>2 DEF Reverse, Bytes

\* The first twelve bytes.
LEMMA HeaderBytes ==
    ASSUME NEW csid \in Nat, NEW len \in Nat, NEW type \in Nat, NEW msid \in Nat
    PROVE  /\ Header(csid, len, type, msid) \in Bytes
           /\ Len(Header(csid, len, type, msid)) = 12
           /\ Holds(Header(csid, len, type, msid), 4, encode_int24(len))
           /\ Header(csid, len, type, msid)[8] = type
<1> DEFINE a == <<csid, 0, 0, 0>>
           b == encode_int24(len)
           c == <<type>>
           d == encode_int32_le(msid)
<1>1. /\ a \in Bytes /\ Len(a) = 4 /\ c \in Bytes /\ Len(c) = 1 /\ c[1] = type
  BY DEF Bytes
<1>2. b \in Bytes /\ Len(b) = 3
  BY IntBytes
<1>3. d \in Bytes /\ Len(d) = 4
  BY IntBytes, ReverseBytes DEF encode_int32_le
<1>4. Header(csid, len, type, msid) = ((a \o b) \o c) \o d
  BY DEF Header
<1> HIDE DEF a, b, c, d
<1> DEFINE ab == a \o b
<1>5. ab \in Bytes /\ Len(ab) = 7
  <2>1. Len(a) + Len(b) = 7
    BY <1>1, <1>2
  <2> QED
    BY <1>1, <1>2, <2>1, ConcatBytes
<1> DEFINE abc == ab \o c
<1>6. abc \in Bytes /\ Len(abc) = 8
  <2> HIDE DEF ab
  <2>1. Len(ab) + Len(c) = 8
    BY <1>1, <1>5
  <2> QED
    BY <1>1, <1>5, <2>1, ConcatBytes
<1> DEFINE h == abc \o d
<1>7. h \in Bytes /\ Len(h) = 12
  <2> HIDE DEF abc
  <2>1. Len(abc) + Len(d) = 12
    BY <1>3, <1>6
  <2> QED
    BY <1>3, <1>6, <2>1, ConcatBytes
<1>8. Holds(h, 0, abc)
  <2> HIDE DEF abc
  <2> QED
    BY <1>3, <1>6, <1>7, HoldsAll, HoldsSplit
<1> HIDE DEF h
<1>9. Holds(h, 0, ab) /\ Holds(h, 0 + 7, c)
  <2> HIDE DEF ab
  <2> QED
    BY <1>1, <1>5, <1>7, <1>8, HoldsSplit
<1>10. Holds(h, 0 + 4, b)
  BY <1>1, <1>2, <1>7, <1>9, HoldsSplit
<1>11. h[8] = type
  <2>1. 1 \in 1 .. Len(c)
    BY <1>1
  <2>2. h[(0 + 7) + 1] = c[1]
    BY <1>9, <2>1 DEF Holds
  <2> QED
    BY <1>1, <2>2
<1> QED
  BY <1>4, <1>7, <1>10, <1>11 DEF h, b

\* A reader takes from bytes a type, a length and a body.
ReadAs(bytes, type, len, p) ==
    /\ bytes \in Bytes /\ Len(bytes) = 12 + Len(p)
    /\ MsgType(bytes) = type /\ Body(bytes) = p
    /\ len < Base * Base * Base => MsgLen(bytes) = len

\* A header and a body are read as what they were made from.
LEMMA MessageRead ==
    ASSUME NEW csid \in Nat, NEW len \in Nat, NEW type \in Nat, NEW msid \in Nat,
           NEW p \in Bytes
    PROVE  ReadAs(Header(csid, len, type, msid) \o p, type, len, p)
<1> DEFINE h == Header(csid, len, type, msid)
           bytes == h \o p
<1>1. h \in Bytes /\ Len(h) = 12 /\ Holds(h, 4, encode_int24(len)) /\ h[8] = type
  BY HeaderBytes
<1> HIDE DEF h
<1>2. bytes \in Bytes /\ Len(bytes) = 12 + Len(p) /\ Len(p) \in Nat
  BY <1>1, ConcatBytes, LenBytes
<1>3. Holds(bytes, 0, h) /\ Holds(bytes, 0 + 12, p)
  BY <1>1, <1>2, HoldsAll, HoldsSplit
<1> HIDE DEF bytes
<1>4. \A i \in 1 .. 12 : bytes[i] = h[i]
  BY <1>1, <1>2, <1>3, StartsWith, ZenonT(30)
<1>5. MsgType(bytes) = type
  BY <1>1, <1>4 DEF MsgType
<1>6. Body(bytes) = p
  <2>1. Holds(bytes, 12, p) /\ 12 + Len(p) = Len(bytes)
    BY <1>2, <1>3
  <2> QED
    BY <1>2, <2>1, RestIs DEF Body, CHUNK_HEADER_SIZE_TYPE0
<1>7. ASSUME len < Base * Base * Base
      PROVE  MsgLen(bytes) = len
  <2> DEFINE s == SubSeq(bytes, 5, 7)
             b == encode_int24(len)
  <2>1. b \in Bytes /\ Len(b) = 3 /\ \A i \in 1 .. 3 : h[4 + i] = b[i]
    BY <1>1, IntBytes DEF Holds
  <2> HIDE DEF b
  <2>2. s \in Bytes /\ Len(s) = 3 /\ \A i \in 1 .. 3 : s[i] = bytes[4 + i]
    BY <1>2 DEF Bytes
  <2> HIDE DEF s
  <2>3. \A i \in 1 .. 3 : s[0 + i] = b[i]
    <3> SUFFICES ASSUME NEW i \in 1 .. 3
                 PROVE  s[0 + i] = b[i]
      OBVIOUS
    <3>1. 0 + i = i /\ 4 + i \in 1 .. 12
      OBVIOUS
    <3> QED
      BY <1>4, <2>1, <2>2, <3>1
  <2>4. Holds(s, 0, b)
    BY <2>1, <2>2, <2>3 DEF Holds
  <2>5. decode_int24(s) = Decoded(len, 3)
    BY <1>7, <2>2, <2>4, ReadInt24 DEF b
  <2> QED
    BY <2>5 DEF MsgLen, Decoded, s
<1> QED
  BY <1>2, <1>5, <1>6, <1>7 DEF ReadAs, bytes, h

\* What bytes say, as a command: its name, its transaction and what follows them.
CmdIn(bytes) == decode_string_with_type(Body(bytes))
\* The transaction id that the reader of a command finds after its name, and what
\* it leaves to the handler of that command.
TidIn(bytes) == decode_number_with_type(Rest(Body(bytes), CmdIn(bytes).next))
ArgsIn(bytes) == Rest(Body(bytes), CmdIn(bytes).next + TidIn(bytes).next)

\* A message is the command name, with transaction id t, and hands its handler
\* exactly the arguments.
Tells(bytes, name, t, arguments) ==
    /\ MsgType(bytes) = COMMAND_MESSAGE
    /\ CmdIn(bytes).ok /\ CmdIn(bytes).value.data = name
    /\ TidIn(bytes).ok /\ TidIn(bytes).value.data = t
    /\ ArgsIn(bytes) = arguments

\* What is on the wire has the length its header says, and is made of whole items.
WellFramed(bytes) ==
    /\ Len(bytes) = CHUNK_HEADER_SIZE_TYPE0 + MsgLen(bytes)
    /\ MsgType(bytes) \in {COMMAND_MESSAGE, DATA_MESSAGE} => Whole(Body(bytes))

\* Bytes, as many as len, that are a command, and whole items if its arguments are.
Said(bytes, len, name, t, arguments) ==
    /\ bytes \in Bytes /\ Len(bytes) = len
    /\ Tells(bytes, name, t, arguments)
    /\ Ending(arguments) /\ len < Base * Base * Base => WellFramed(bytes)

\* A command says what it was made from.
LEMMA CommandRead ==
    ASSUME NEW csid \in Nat, NEW len \in Nat, NEW msid \in Nat,
           NEW name \in Bytes, Len(name) < LongLen, NEW t \in Bytes, Len(t) = 8,
           NEW arguments \in Bytes, len = Len(name) + 3 + 9 + Len(arguments)
    PROVE  Said(Command(csid, len, msid, name, t, arguments), 12 + len, name, t, arguments)
<1> DEFINE n == encode_string(name)
           m == encode_number(t)
           p == n \o m \o arguments
           bytes == Command(csid, len, msid, name, t, arguments)
<1>1. n \in Bytes /\ Len(n) = Len(name) + 3 /\ Len(name) \in Nat
  BY StringBytes, LenBytes DEF encode_string_reserve
<1>2. m \in Bytes /\ Len(m) = 9
  BY NumberBytes
<1>3. /\ Taken(n) /\ Taken(m)
  BY StringTaken, NumberTaken
<1>4. \A in \in Bytes : /\ Holds(in, 0, n) => decode_string_with_type(in) =
                                                Decoded(Value(STRINGTYPE, name), Len(name) + 3)
                        /\ Holds(in, 0, m) => decode_number_with_type(in) =
                                                Decoded(Value(NUMBER, t), 9)
  BY ReadStringWithType, ReadNumber
<1>5. bytes = Header(csid, len, COMMAND_MESSAGE, msid) \o p
  BY DEF Command
<1> HIDE DEF n, m
<1>6. p = n \o (m \o arguments)
  BY <1>1, <1>2, ConcatAssoc, SMTT(30)
<1>7. m \o arguments \in Bytes /\ Len(m \o arguments) = 9 + Len(arguments)
      /\ Len(arguments) \in Nat
  BY <1>2, ConcatBytes, LenBytes
<1> DEFINE rest == m \o arguments
<1>8. n \o rest \in Bytes /\ Len(n \o rest) = len
  <2> HIDE DEF rest
  <2>1. n \o rest \in Bytes /\ Len(n \o rest) = Len(n) + Len(rest)
    BY <1>1, <1>7, ConcatBytes DEF rest
  <2> QED
    BY <1>1, <1>7, <2>1 DEF rest
<1>9. p \in Bytes /\ Len(p) = len
  BY <1>6, <1>8
<1>10. Holds(p, 0, n) /\ Holds(p, 0 + Len(n), rest)
  <2> HIDE DEF rest
  <2>1. Holds(n \o rest, 0, n \o rest) /\ rest \in Bytes
    BY <1>7, <1>8, HoldsAll DEF rest
  <2> QED
    BY <1>1, <1>6, <1>8, <2>1, HoldsSplit DEF rest
<1> HIDE DEF p
<1>11. Holds(p, 0 + Len(n), m) /\ Holds(p, (0 + Len(n)) + Len(m), arguments)
  <2>1. 0 + Len(n) \in Nat
    BY <1>1
  <2> QED
    BY <1>2, <1>9, <1>10, <2>1, HoldsSplit
<1>12. COMMAND_MESSAGE \in Nat
  BY DEF COMMAND_MESSAGE
<1>13. /\ bytes \in Bytes /\ Len(bytes) = 12 + Len(p)
       /\ MsgType(bytes) = COMMAND_MESSAGE /\ Body(bytes) = p
       /\ len < Base * Base * Base => MsgLen(bytes) = len
  <2>1. ReadAs(Header(csid, len, COMMAND_MESSAGE, msid) \o p, COMMAND_MESSAGE, len, p)
    BY <1>9, <1>12, MessageRead
  <2> HIDE DEF bytes
  <2>2. ReadAs(bytes, COMMAND_MESSAGE, len, p)
    BY <1>5, <2>1
  <2> QED
    BY <2>2 DEF ReadAs
<1> HIDE DEF bytes
<1>14. CmdIn(bytes) = Decoded(Value(STRINGTYPE, name), Len(name) + 3)
  BY <1>4, <1>9, <1>10, <1>13 DEF CmdIn
<1>15. CmdIn(bytes).ok /\ CmdIn(bytes).value.data = name /\ CmdIn(bytes).next = Len(n)
  BY <1>1, <1>14 DEF Decoded, Value
<1>16. Rest(p, Len(n)) = rest
  <2>1. Holds(p, Len(n), rest) /\ Len(n) + Len(rest) = Len(p)
    BY <1>1, <1>7, <1>9, <1>10
  <2>2. rest \in Bytes /\ Len(n) \in Nat
    BY <1>1, <1>7
  <2> HIDE DEF rest
  <2> QED
    BY <1>9, <2>1, <2>2, RestIs
<1>17. TidIn(bytes) = Decoded(Value(NUMBER, t), 9)
  <2>1. Holds(rest, 0, m)
    <3>1. Holds(rest, 0, rest)
      BY <1>7, HoldsAll
    <3> QED
      BY <1>2, <1>7, <3>1, HoldsSplit
  <2> HIDE DEF rest
  <2> QED
    BY <1>4, <1>7, <1>13, <1>15, <1>16, <2>1 DEF TidIn, rest
<1>18. TidIn(bytes).ok /\ TidIn(bytes).value.data = t /\ TidIn(bytes).next = 9
  BY <1>17 DEF Decoded, Value
<1>19. ArgsIn(bytes) = arguments
  <2>1. Holds(p, Len(n) + 9, arguments) /\ (Len(n) + 9) + Len(arguments) = Len(p)
    <3>1. (0 + Len(n)) + Len(m) = Len(n) + 9 /\ (Len(n) + 9) + Len(arguments) = Len(p)
      BY <1>1, <1>2, <1>9
    <3> QED
      BY <1>11, <3>1
  <2>2. Len(n) + 9 \in Nat
    BY <1>1
  <2>3. Rest(p, Len(n) + 9) = arguments
    BY <1>9, <2>1, <2>2, RestIs
  <2> QED
    BY <1>13, <1>15, <1>18, <2>3 DEF ArgsIn
<1>20. Tells(bytes, name, t, arguments)
  BY <1>13, <1>15, <1>18, <1>19 DEF Tells
<1>21. ASSUME Ending(arguments), 12 + len < Base * Base * Base
       PROVE  WellFramed(bytes)
  <2>1. Ending(rest)
    BY <1>3, <1>21, EndingMore
  <2> HIDE DEF rest
  <2>2. Ending(n \o rest)
    BY <1>3, <2>1, EndingMore
  <2>3. Whole(p)
    BY <1>6, <2>2, EndingWhole DEF p, rest
  <2> QED
    <3>1. len < Base * Base * Base
      <4>1. \A x \in Nat : 12 + len < x => len < x
        OBVIOUS
      <4>2. Base * Base * Base \in Nat
        BY AmfAssumption
      <4> QED
        BY <1>21, <4>1, <4>2
    <3> QED
      BY <1>9, <1>13, <2>3, <3>1 DEF WellFramed, CHUNK_HEADER_SIZE_TYPE0
<1> QED
  <2>1. bytes \in Bytes /\ Len(bytes) = 12 + len
    BY <1>9, <1>13
  <2> QED
    BY <1>20, <1>21, <2>1 DEF Said, bytes
-----------------------------------------------------------------------------
(* What each message says *)

\* A short string is short, and three bytes have room for four of them.
LEMMA Room ==
    /\ LongLen \in Nat /\ LongLen > 400 /\ LongLen = Base * Base
    /\ Base * Base * Base > 4 * LongLen + 1000
<1>1. Base \in Nat /\ Base >= 21
  BY AmfAssumption
<1>2. LongLen = Base * Base
  BY DEF LongLen
<1>3. Base * Base \in Nat /\ Base * Base >= 441
  <2>1. \A b \in Nat : b >= 21 => b * b >= 441
    OBVIOUS
  <2> QED
    BY <1>1, <2>1
<1>4. \A b, c \in Nat : b >= 21 /\ c >= 441 => c * b > 4 * c + 1000
  <2> TAKE b, c \in Nat
  <2> HAVE b >= 21 /\ c >= 441
  <2>1. c * b >= c * 21
    OBVIOUS
  <2> QED
    BY <2>1
<1> QED
  BY <1>1, <1>2, <1>3, <1>4

\* The words are short.
LEMMA Words ==
    /\ connect \in Bytes /\ Len(connect) = 7
    /\ _result \in Bytes /\ Len(_result) = 7
    /\ publish \in Bytes /\ Len(publish) = 7
    /\ releaseStream \in Bytes /\ Len(releaseStream) = 13
    /\ FCPublish \in Bytes /\ Len(FCPublish) = 9
    /\ createStream \in Bytes /\ Len(createStream) = 12
    /\ play \in Bytes /\ Len(play) = 4
    /\ onStatus \in Bytes /\ Len(onStatus) = 8
  BY WordIs, ZenonT(30) DEF connect, _result, publish, releaseStream, FCPublish, createStream, play, onStatus

\* The names of the properties of connect and of the answers, as bytes.
LEMMA MoreWords ==
    /\ app \in Bytes /\ Len(app) = 3
    /\ swfUrl \in Bytes /\ Len(swfUrl) = 6
    /\ tcUrl \in Bytes /\ Len(tcUrl) = 5
    /\ fmsVer \in Bytes /\ Len(fmsVer) = 6
    /\ capabilities \in Bytes /\ Len(capabilities) = 12
    /\ level \in Bytes /\ Len(level) = 5
    /\ code \in Bytes /\ Len(code) = 4
    /\ description \in Bytes /\ Len(description) = 11
    /\ objectEncoding \in Bytes /\ Len(objectEncoding) = 14
  BY WordIs, ZenonT(30)
  DEF app, swfUrl, tcUrl, fmsVer, capabilities, level, code, description, objectEncoding

\* The values that the server answers with, and the names of the metadata message.
LEMMA StatusWords ==
    /\ ConnectSuccess \in Bytes /\ Len(ConnectSuccess) = 29
    /\ PublishStart \in Bytes /\ Len(PublishStart) = 23
    /\ PlayStart \in Bytes /\ Len(PlayStart) = 20
    /\ setDataFrame \in Bytes /\ Len(setDataFrame) = 13
    /\ onMetaData \in Bytes /\ Len(onMetaData) = 10
  BY WordIs, ZenonT(30) DEF ConnectSuccess, PublishStart, PlayStart, setDataFrame, onMetaData

\* A property with a string, and one with a number.
LEMMA NamedIs ==
    ASSUME NEW name \in Bytes, Len(name) < LongLen, NEW s \in Bytes
    PROVE  /\ Named(name, s) \in Items
           /\ Named(name, s).name = name /\ Named(name, s).value = Value(STRINGTYPE, s)
           /\ Len(s) < LongLen <=> Short(Named(name, s).value)
           /\ Len(encode_object_named(Named(name, s))) =
                2 + Len(name) + encode_string_reserve(Len(s))
<1> DEFINE v == Value(STRINGTYPE, s)
           item == Named(name, s)
<1>1. /\ v.type = STRINGTYPE /\ v.data = s
      /\ v \in [type : {NUMBER, BOOLEANTYPE, STRINGTYPE}, data : Bytes]
  BY DEF Value
<1>2. item = Item(name, v)
  BY DEF Named
<1> HIDE DEF v, item
<1>3. v \in Values
  BY <1>1, Types DEF Values
<1>4. item.name = name /\ item.value = v /\ item \in [name : Bytes, value : Values]
  BY <1>2, <1>3 DEF Item
<1>5. item \in Items
  BY <1>4 DEF Items
<1>6. Len(s) < LongLen <=> Short(v)
  BY <1>1 DEF Short
<1>7. encode_value(v) = encode_string(s)
  BY <1>1, <1>3, ValueEncoding
<1>8. Len(encode_object_named(item)) = 2 + Len(name) + encode_string_reserve(Len(s))
  BY <1>4, <1>5, <1>7, ItemBytes, StringBytes
<1> QED
  BY <1>4, <1>5, <1>6, <1>8 DEF item, v

\* A named number is an item, a short one, of a known length.
LEMMA NamedNumberIs ==
    ASSUME NEW name \in Bytes, Len(name) < LongLen, NEW n \in Nat
    PROVE  /\ NamedNumber(name, n) \in Items
           /\ NamedNumber(name, n).name = name
           /\ Short(NamedNumber(name, n).value)
           /\ Len(encode_object_named(NamedNumber(name, n))) = 2 + Len(name) + 9
<1> DEFINE v == Value(NUMBER, Double(n))
           item == NamedNumber(name, n)
<1>0. Double(n) \in Bytes /\ Len(Double(n)) = 8
  BY DoubleIs
<1>1. /\ v.type = NUMBER /\ v.data = Double(n)
      /\ v \in [type : {NUMBER, BOOLEANTYPE, STRINGTYPE}, data : Bytes]
  BY <1>0 DEF Value
<1>2. item = Item(name, v)
  BY DEF NamedNumber
<1> HIDE DEF v, item
<1>3. v \in Values
  BY <1>0, <1>1, Types DEF Values
<1>4. item.name = name /\ item.value = v /\ item \in [name : Bytes, value : Values]
  BY <1>2, <1>3 DEF Item
<1>5. item \in Items
  BY <1>4 DEF Items
<1>6. Short(v)
  BY <1>1, Types DEF Short
<1>7. encode_value(v) = encode_number(Double(n))
  BY <1>1, <1>3, ValueEncoding
<1>8. Len(encode_object_named(item)) = 2 + Len(name) + 9
  BY <1>0, <1>4, <1>5, <1>7, ItemBytes, NumberBytes, ZenonT(30)
<1> QED
  BY <1>4, <1>5, <1>6, <1>8 DEF item

\* The length of encoded properties is the sum of theirs.
LEMMA ItemsLen ==
    ASSUME NEW items \in Seq(Items)
    PROVE  \E f : /\ f[0] = 0
                  /\ \A k \in 1 .. Len(items) :
                       f[k] = f[k - 1] + Len(encode_object_named(items[k]))
                  /\ Len(encode_items(items)) = f[Len(items)]
<1>1. PICK g : Parts(items, g) /\ encode_items(items) = g[Len(items)]
  BY PartsExist
<1> DEFINE f == [k \in 0 .. Len(items) |-> Len(g[k])]
<1>2. Len(items) \in Nat
  BY LenProperties
<1>3. f[0] = 0 /\ Len(encode_items(items)) = f[Len(items)]
  BY <1>1, <1>2 DEF Parts
<1>4. ASSUME NEW k \in 1 .. Len(items)
      PROVE  f[k] = f[k - 1] + Len(encode_object_named(items[k]))
  <2>1. k \in 0 .. Len(items) /\ k - 1 \in 0 .. Len(items)
    BY <1>2
  <2>2. g[k - 1] \in Bytes /\ g[k] = g[k - 1] \o encode_object_named(items[k])
    BY <1>1, <2>1 DEF Parts
  <2>3. encode_object_named(items[k]) \in Bytes
    <3>1. items[k] \in Items
      OBVIOUS
    <3> QED
      BY <3>1, ItemBytes
  <2>4. Len(g[k]) = Len(g[k - 1]) + Len(encode_object_named(items[k]))
    BY <2>2, <2>3, ConcatBytes
  <2> QED
    BY <2>1, <2>4
<1> HIDE DEF f
<1> QED
  BY <1>3, <1>4

\* Two, three and four properties.
LEMMA ItemsOfTwo ==
    ASSUME NEW a \in Items, NEW b \in Items
    PROVE  /\ <<a, b>> \in Seq(Items) /\ Len(<<a, b>>) = 2
           /\ Len(encode_items(<<a, b>>)) =
                Len(encode_object_named(a)) + Len(encode_object_named(b))
<1> DEFINE items == <<a, b>>
<1>1. items \in Seq(Items) /\ Len(items) = 2 /\ items[1] = a /\ items[2] = b
  OBVIOUS
<1> HIDE DEF items
<1>2. PICK f : /\ f[0] = 0
               /\ \A k \in 1 .. 2 : f[k] = f[k - 1] + Len(encode_object_named(items[k]))
               /\ Len(encode_items(items)) = f[2]
  BY <1>1, ItemsLen
<1>3. Len(encode_object_named(a)) \in Nat /\ Len(encode_object_named(b)) \in Nat
  BY ItemBytes, LenBytes
<1>4. f[1] = f[0] + Len(encode_object_named(a)) /\ f[2] = f[1] + Len(encode_object_named(b))
  BY <1>1, <1>2
<1> QED
  BY <1>1, <1>2, <1>3, <1>4 DEF items

\* The length of three items in a row.
LEMMA ItemsOfThree ==
    ASSUME NEW a \in Items, NEW b \in Items, NEW c \in Items
    PROVE  /\ <<a, b, c>> \in Seq(Items) /\ Len(<<a, b, c>>) = 3
           /\ Len(encode_items(<<a, b, c>>)) =
                Len(encode_object_named(a)) + Len(encode_object_named(b))
                + Len(encode_object_named(c))
<1> DEFINE items == <<a, b, c>>
<1>1. /\ items \in Seq(Items) /\ Len(items) = 3
      /\ items[1] = a /\ items[2] = b /\ items[3] = c
  OBVIOUS
<1> HIDE DEF items
<1>2. PICK f : /\ f[0] = 0
               /\ \A k \in 1 .. 3 : f[k] = f[k - 1] + Len(encode_object_named(items[k]))
               /\ Len(encode_items(items)) = f[3]
  BY <1>1, ItemsLen
<1>3. /\ Len(encode_object_named(a)) \in Nat /\ Len(encode_object_named(b)) \in Nat
      /\ Len(encode_object_named(c)) \in Nat
  BY ItemBytes, LenBytes
<1>4. /\ f[1] = f[0] + Len(encode_object_named(a)) /\ f[2] = f[1] + Len(encode_object_named(b))
      /\ f[3] = f[2] + Len(encode_object_named(c))
  BY <1>1, <1>2
<1> QED
  BY <1>1, <1>2, <1>3, <1>4 DEF items

\* The length of four items in a row.
LEMMA ItemsOfFour ==
    ASSUME NEW a \in Items, NEW b \in Items, NEW c \in Items, NEW d \in Items
    PROVE  /\ <<a, b, c, d>> \in Seq(Items) /\ Len(<<a, b, c, d>>) = 4
           /\ Len(encode_items(<<a, b, c, d>>)) =
                Len(encode_object_named(a)) + Len(encode_object_named(b))
                + Len(encode_object_named(c)) + Len(encode_object_named(d))
<1> DEFINE items == <<a, b, c, d>>
<1>1. /\ items \in Seq(Items) /\ Len(items) = 4
      /\ items[1] = a /\ items[2] = b /\ items[3] = c /\ items[4] = d
  OBVIOUS
<1> HIDE DEF items
<1>2. PICK f : /\ f[0] = 0
               /\ \A k \in 1 .. 4 : f[k] = f[k - 1] + Len(encode_object_named(items[k]))
               /\ Len(encode_items(items)) = f[4]
  BY <1>1, ItemsLen
<1>3. /\ Len(encode_object_named(a)) \in Nat /\ Len(encode_object_named(b)) \in Nat
      /\ Len(encode_object_named(c)) \in Nat /\ Len(encode_object_named(d)) \in Nat
  BY ItemBytes, LenBytes
<1>4. /\ f[1] = f[0] + Len(encode_object_named(a)) /\ f[2] = f[1] + Len(encode_object_named(b))
      /\ f[3] = f[2] + Len(encode_object_named(c)) /\ f[4] = f[3] + Len(encode_object_named(d))
  BY <1>1, <1>2
<1> QED
  BY <1>1, <1>2, <1>3, <1>4 DEF items
-----------------------------------------------------------------------------
(* The commands of a client, and the answers of a server *)

\* A command of len bytes with its header.
LEMMA CommandSaid ==
    ASSUME NEW csid \in Nat, NEW len \in Nat, NEW msid \in Nat,
           NEW name \in Bytes, Len(name) < LongLen, NEW t \in Bytes, Len(t) = 8,
           NEW arguments \in Bytes, len = 12 + Len(name) + 3 + 9 + Len(arguments)
    PROVE  Said(Command(csid, len - CHUNK_HEADER_SIZE_TYPE0, msid, name, t, arguments),
                len, name, t, arguments)
<1> DEFINE l == len - CHUNK_HEADER_SIZE_TYPE0
<1>1. Len(name) \in Nat /\ Len(arguments) \in Nat
  BY LenBytes
<1>2. l = len - 12
  BY DEF CHUNK_HEADER_SIZE_TYPE0
<1> HIDE DEF l
<1>3. l \in Nat /\ l = Len(name) + 3 + 9 + Len(arguments) /\ 12 + l = len
  BY <1>1, <1>2
<1>4. Said(Command(csid, l, msid, name, t, arguments), 12 + l, name, t, arguments)
  BY <1>3, CommandRead
<1> QED
  BY <1>3, <1>4 DEF l

\* Null and a string; null, a string and a string.
LEMMA NullAndString ==
    ASSUME NEW s \in Bytes, Len(s) < LongLen
    PROVE  /\ encode_null \o encode_string(s) \in Bytes
           /\ Len(encode_null \o encode_string(s)) = 1 + (Len(s) + 3)
           /\ Ending(encode_null \o encode_string(s))
<1> DEFINE e == encode_string(s)
<1>1. e \in Bytes /\ Len(e) = Len(s) + 3 /\ encode_null \in Bytes /\ Len(encode_null) = 1
  BY StringBytes, MarkBytes DEF encode_string_reserve
<1>2. Taken(e) /\ Taken(encode_null)
  BY StringTaken, NullTaken
<1> HIDE DEF e
<1>3. Ending(encode_null \o e)
  BY <1>2, EndingLast, EndingMore
<1>4. encode_null \o e \in Bytes /\ Len(encode_null \o e) = 1 + (Len(s) + 3)
  BY <1>1, ConcatBytes
<1> QED
  BY <1>3, <1>4 DEF e

\* The arguments of publish: a null and two strings.
LEMMA NullAndStrings ==
    ASSUME NEW s \in Bytes, Len(s) < LongLen, NEW a \in Bytes, Len(a) < LongLen
    PROVE  LET p == encode_null \o encode_string(s) \o encode_string(a)
           IN  /\ p \in Bytes /\ Len(p) = (1 + (Len(s) + 3)) + (Len(a) + 3)
               /\ Ending(p)
<1> DEFINE e == encode_string(s)
           f == encode_string(a)
<1>1. /\ e \in Bytes /\ Len(e) = Len(s) + 3 /\ f \in Bytes /\ Len(f) = Len(a) + 3
      /\ encode_null \in Bytes
  BY StringBytes, MarkBytes DEF encode_string_reserve
<1>2. Taken(e) /\ Taken(f) /\ Taken(encode_null)
  BY StringTaken, NullTaken
<1>3. encode_null \o e \in Bytes /\ Len(encode_null \o e) = 1 + (Len(s) + 3)
  BY NullAndString
<1> HIDE DEF e, f
<1>4. (encode_null \o e) \o f = encode_null \o (e \o f)
  BY <1>1, ConcatAssoc, SMTT(30)
<1>5. Ending(e \o f)
  BY <1>2, EndingLast, EndingMore
<1>6. Ending(encode_null \o (e \o f))
  BY <1>2, <1>5, EndingMore
<1> DEFINE ne == encode_null \o e
<1>7. ne \o f \in Bytes /\ Len(ne \o f) = (1 + (Len(s) + 3)) + (Len(a) + 3)
  <2>1. ne \in Bytes /\ Len(ne) = 1 + (Len(s) + 3)
    BY <1>3
  <2> HIDE DEF ne
  <2> QED
    BY <1>1, <2>1, ConcatBytes
<1> QED
  BY <1>4, <1>6, <1>7 DEF e, f

\* The properties of a connect.
LEMMA ConnectProperties ==
    ASSUME NEW a \in Bytes, NEW u \in Bytes
    PROVE  /\ ConnectItems(a, u, u) \in Seq(Items) /\ Len(ConnectItems(a, u, u)) = 3
           /\ ConnectItems(a, u, u)[1] = Named(app, a)
           /\ ConnectItems(a, u, u)[2] = Named(swfUrl, u)
           /\ ConnectItems(a, u, u)[3] = Named(tcUrl, u)
           /\ Len(encode_items(ConnectItems(a, u, u))) =
                (2 + 3 + encode_string_reserve(Len(a))) + (2 + 6 + encode_string_reserve(Len(u)))
                + (2 + 5 + encode_string_reserve(Len(u)))
<1>1. /\ app \in Bytes /\ Len(app) = 3 /\ Len(app) < LongLen
      /\ swfUrl \in Bytes /\ Len(swfUrl) = 6 /\ Len(swfUrl) < LongLen
      /\ tcUrl \in Bytes /\ Len(tcUrl) = 5 /\ Len(tcUrl) < LongLen
  BY MoreWords, Room
<1> DEFINE i == Named(app, a)
           j == Named(swfUrl, u)
           k == Named(tcUrl, u)
<1>2. /\ i \in Items /\ Len(encode_object_named(i)) = 2 + 3 + encode_string_reserve(Len(a))
      /\ j \in Items /\ Len(encode_object_named(j)) = 2 + 6 + encode_string_reserve(Len(u))
      /\ k \in Items /\ Len(encode_object_named(k)) = 2 + 5 + encode_string_reserve(Len(u))
  <2>1. i \in Items /\ Len(encode_object_named(i)) = 2 + Len(app) + encode_string_reserve(Len(a))
    BY <1>1, NamedIs
  <2>2. j \in Items /\ Len(encode_object_named(j)) = 2 + Len(swfUrl) + encode_string_reserve(Len(u))
    BY <1>1, NamedIs
  <2>3. k \in Items /\ Len(encode_object_named(k)) = 2 + Len(tcUrl) + encode_string_reserve(Len(u))
    BY <1>1, NamedIs
  <2> QED
    BY <1>1, <2>1, <2>2, <2>3
<1>3. ConnectItems(a, u, u) = <<i, j, k>>
  BY DEF ConnectItems
<1> HIDE DEF i, j, k
<1>4. <<i, j, k>>[1] = i /\ <<i, j, k>>[2] = j /\ <<i, j, k>>[3] = k
  OBVIOUS
<1>5. /\ <<i, j, k>> \in Seq(Items) /\ Len(<<i, j, k>>) = 3
      /\ Len(encode_items(<<i, j, k>>)) =
           Len(encode_object_named(i)) + Len(encode_object_named(j))
           + Len(encode_object_named(k))
  BY <1>2, ItemsOfThree
<1> QED
  BY <1>2, <1>3, <1>4, <1>5 DEF i, j, k

\* connect, as long as it was reserved, whole unless it has a long string.
LEMMA ConnectSaid ==
    ASSUME NEW a \in Bytes, NEW u \in Bytes
    PROVE  LET len == encode_connect_reserve(a, u, u)
               bytes == encode_connect(len, a, u, u, ConnectTid)
           IN  /\ Said(bytes, len, connect, Double(ConnectTid),
                       encode_object(ConnectItems(a, u, u)))
               /\ Len(a) < LongLen /\ Len(u) < LongLen => WellFramed(bytes)
<1> DEFINE len == encode_connect_reserve(a, u, u)
           ra == encode_string_reserve(Len(a))
           ru == encode_string_reserve(Len(u))
           items == ConnectItems(a, u, u)
           obj == encode_object(items)
           bytes == encode_connect(len, a, u, u, ConnectTid)
<1>1. Len(a) \in Nat /\ Len(u) \in Nat
  BY LenBytes
<1>2. ra \in Nat /\ ru \in Nat
  BY <1>1 DEF encode_string_reserve
<1>3. /\ items \in Seq(Items) /\ Len(items) = 3
      /\ items[1] = Named(app, a) /\ items[2] = Named(swfUrl, u) /\ items[3] = Named(tcUrl, u)
      /\ Len(encode_items(items)) = (2 + 3 + ra) + (2 + 6 + ru) + (2 + 5 + ru)
  BY ConnectProperties
<1>4. obj \in Bytes /\ Len(obj) = Len(encode_items(items)) + 4
  BY <1>3, ObjectBytes
<1>5. connect \in Bytes /\ Len(connect) = 7 /\ Len(connect) < LongLen
  BY Words, Room
<1>6. len = 12 + 10 + 9 + 1 + (2 + 3 + ra) + (2 + 6 + ru) + (2 + 5 + ru) + 3
  BY DEF encode_connect_reserve, encode_object_named_string_reserve, CHUNK_HEADER_SIZE_TYPE0
<1>7. Double(ConnectTid) \in Bytes /\ Len(Double(ConnectTid)) = 8
  BY DoubleIs DEF ConnectTid
<1>8. bytes = Command(RTMP_CSID_OVER_CONNECTION, len - CHUNK_HEADER_SIZE_TYPE0, 0, connect,
                      Double(ConnectTid), obj)
  BY DEF encode_connect
<1>9. ASSUME Len(a) < LongLen, Len(u) < LongLen
      PROVE  Ending(obj) /\ ra = Len(a) + 3 /\ ru = Len(u) + 3
  <2>1. app \in Bytes /\ swfUrl \in Bytes /\ tcUrl \in Bytes
        /\ Len(app) < LongLen /\ Len(swfUrl) < LongLen /\ Len(tcUrl) < LongLen
    BY MoreWords, Room
  <2>2. Short(items[1].value) /\ Short(items[2].value) /\ Short(items[3].value)
    BY <1>3, <1>9, <2>1, NamedIs
  <2>3. \A k \in 1 .. Len(items) : Short(items[k].value)
    <3> HIDE DEF items
    <3>1. \A k \in 1 .. 3 : k = 1 \/ k = 2 \/ k = 3
      OBVIOUS
    <3> QED
      BY <1>3, <2>2, <3>1
  <2>4. Ending(obj)
    BY <1>3, <2>3, ObjectTaken, EndingLast DEF obj
  <2> QED
    BY <1>9, <2>4 DEF encode_string_reserve
<1> HIDE DEF len, items, obj, bytes, ra, ru
<1>10. len \in Nat /\ len = 12 + Len(connect) + 3 + 9 + Len(obj)
  BY <1>2, <1>3, <1>4, <1>5, <1>6
<1>11. Said(bytes, len, connect, Double(ConnectTid), obj)
  <2>1. RTMP_CSID_OVER_CONNECTION \in Nat /\ 0 \in Nat
    BY DEF RTMP_CSID_OVER_CONNECTION
  <2> QED
    BY <1>4, <1>5, <1>7, <1>8, <1>10, <2>1, CommandSaid
<1>12. ASSUME Len(a) < LongLen, Len(u) < LongLen
       PROVE  WellFramed(bytes)
  <2>1. Ending(obj) /\ ra = Len(a) + 3 /\ ru = Len(u) + 3
    BY <1>9, <1>12
  <2>2. len < 4 * LongLen + 1000
    BY <1>1, <1>6, <1>12, <2>1, Room
  <2>3. \A x, y, z \in Nat : x < y /\ z > y => x < z
    OBVIOUS
  <2>4. Base * Base * Base \in Nat /\ 4 * LongLen + 1000 \in Nat
    BY Room, AmfAssumption
  <2>5. len < Base * Base * Base
    BY <1>10, <2>2, <2>3, <2>4, Room
  <2> QED
    BY <1>11, <2>1, <2>5 DEF Said
<1> QED
  BY <1>11, <1>12 DEF len, obj, items, bytes

\* A command of that many bytes, all of it.
Told(bytes, len, name, t, arguments) ==
    /\ bytes \in Bytes /\ Len(bytes) = len
    /\ Tells(bytes, name, t, arguments) /\ WellFramed(bytes)

\* The shape all commands share: a command whose length was reserved for its name,
\* its id and its arguments tells them.
LEMMA CommandTold ==
    ASSUME NEW csid \in Nat, NEW len \in Nat, NEW msid \in Nat,
           NEW name \in Bytes, Len(name) < LongLen, NEW t \in Bytes, Len(t) = 8,
           NEW arguments \in Bytes, len = 12 + Len(name) + 3 + 9 + Len(arguments),
           Ending(arguments), len < 4 * LongLen + 1000
    PROVE  Told(Command(csid, len - CHUNK_HEADER_SIZE_TYPE0, msid, name, t, arguments),
                len, name, t, arguments)
<1>1. Said(Command(csid, len - CHUNK_HEADER_SIZE_TYPE0, msid, name, t, arguments),
           len, name, t, arguments)
  BY CommandSaid
<1>2. len < Base * Base * Base
  <2>1. \A x, y, z \in Nat : x < y /\ z > y => x < z
    OBVIOUS
  <2>2. Base * Base * Base \in Nat /\ 4 * LongLen + 1000 \in Nat
    BY Room, AmfAssumption
  <2> QED
    BY <2>1, <2>2, Room
<1> QED
  BY <1>1, <1>2 DEF Said, Told

\* Each command of a client, and each answer of a server: what it tells.
LEMMA ReleaseStreamTold ==
    ASSUME NEW s \in Bytes, Len(s) < LongLen
    PROVE  Told(encode_release_stream(encode_release_stream_reserve(s), s, StartTid),
                encode_release_stream_reserve(s),
                releaseStream, Double(StartTid), encode_null \o encode_string(s))
<1> DEFINE len == encode_release_stream_reserve(s)
           arguments == encode_null \o encode_string(s)
           bytes == encode_release_stream(encode_release_stream_reserve(s), s, StartTid)
<1>1. releaseStream \in Bytes /\ Len(releaseStream) = 13 /\ Len(releaseStream) < LongLen
  BY Words, Room
<1>2. Double(StartTid) \in Bytes /\ Len(Double(StartTid)) = 8
  BY DoubleIs DEF StartTid
<1>3. arguments \in Bytes /\ Len(arguments) = 1 + (Len(s) + 3) /\ Ending(arguments)
  BY NullAndString
<1>4. bytes = Command(RTMP_CSID_OVER_CONNECTION, len - CHUNK_HEADER_SIZE_TYPE0, 0,
                    releaseStream, Double(StartTid), arguments)
  BY DEF encode_release_stream
<1>5. RTMP_CSID_OVER_CONNECTION \in Nat /\ 0 \in Nat
  BY DEF RTMP_CSID_OVER_CONNECTION
<1>6. len = 12 + 16 + 9 + 1 + (Len(s) + 3)
  BY DEF encode_release_stream_reserve, encode_string_reserve, CHUNK_HEADER_SIZE_TYPE0
<1> HIDE DEF len, arguments, bytes
<1>7. len \in Nat /\ len = 12 + Len(releaseStream) + 3 + 9 + Len(arguments) /\ len < 4 * LongLen + 1000
  BY <1>1, <1>3, <1>6, LenBytes, Room
<1>8. Told(Command(RTMP_CSID_OVER_CONNECTION, len - CHUNK_HEADER_SIZE_TYPE0, 0,
                   releaseStream, Double(StartTid), arguments),
           len, releaseStream, Double(StartTid), arguments)
  BY <1>1, <1>2, <1>3, <1>5, <1>7, CommandTold
<1> QED
  BY <1>4, <1>8 DEF len, arguments, bytes

\* FCPublish tells the name of the stream.
LEMMA FCPublishTold ==
    ASSUME NEW s \in Bytes, Len(s) < LongLen
    PROVE  Told(encode_fc_publish(encode_fc_publish_reserve(s), s, StartTid),
                encode_fc_publish_reserve(s),
                FCPublish, Double(StartTid), encode_null \o encode_string(s))
<1> DEFINE len == encode_fc_publish_reserve(s)
           arguments == encode_null \o encode_string(s)
           bytes == encode_fc_publish(encode_fc_publish_reserve(s), s, StartTid)
<1>1. FCPublish \in Bytes /\ Len(FCPublish) = 9 /\ Len(FCPublish) < LongLen
  BY Words, Room
<1>2. Double(StartTid) \in Bytes /\ Len(Double(StartTid)) = 8
  BY DoubleIs DEF StartTid
<1>3. arguments \in Bytes /\ Len(arguments) = 1 + (Len(s) + 3) /\ Ending(arguments)
  BY NullAndString
<1>4. bytes = Command(RTMP_CSID_OVER_CONNECTION, len - CHUNK_HEADER_SIZE_TYPE0, 0,
                    FCPublish, Double(StartTid), arguments)
  BY DEF encode_fc_publish
<1>5. RTMP_CSID_OVER_CONNECTION \in Nat /\ 0 \in Nat
  BY DEF RTMP_CSID_OVER_CONNECTION
<1>6. len = 12 + 12 + 9 + 1 + (Len(s) + 3)
  BY DEF encode_fc_publish_reserve, encode_string_reserve, CHUNK_HEADER_SIZE_TYPE0
<1> HIDE DEF len, arguments, bytes
<1>7. len \in Nat /\ len = 12 + Len(FCPublish) + 3 + 9 + Len(arguments) /\ len < 4 * LongLen + 1000
  BY <1>1, <1>3, <1>6, LenBytes, Room
<1>8. Told(Command(RTMP_CSID_OVER_CONNECTION, len - CHUNK_HEADER_SIZE_TYPE0, 0,
                   FCPublish, Double(StartTid), arguments),
           len, FCPublish, Double(StartTid), arguments)
  BY <1>1, <1>2, <1>3, <1>5, <1>7, CommandTold, ZenonT(30)
<1> QED
  BY <1>4, <1>8 DEF len, arguments, bytes

\* createStream tells nothing more.
LEMMA CreateStreamTold ==
    Told(encode_create_stream(CreateStreamTid), ENCODE_CREATE_STREAM_RESERVE,
         createStream, Double(CreateStreamTid), encode_null)
<1> DEFINE len == ENCODE_CREATE_STREAM_RESERVE
           arguments == encode_null
           bytes == encode_create_stream(CreateStreamTid)
<1>1. createStream \in Bytes /\ Len(createStream) = 12 /\ Len(createStream) < LongLen
  BY Words, Room
<1>2. Double(CreateStreamTid) \in Bytes /\ Len(Double(CreateStreamTid)) = 8
  BY DoubleIs DEF CreateStreamTid
<1>3. arguments \in Bytes /\ Len(arguments) = 1 /\ Ending(arguments)
  BY MarkBytes, NullTaken, EndingLast
<1>4. bytes = Command(RTMP_CSID_OVER_CONNECTION, len - CHUNK_HEADER_SIZE_TYPE0, 0,
                    createStream, Double(CreateStreamTid), arguments)
  BY DEF encode_create_stream
<1>5. RTMP_CSID_OVER_CONNECTION \in Nat /\ 0 \in Nat
  BY DEF RTMP_CSID_OVER_CONNECTION
<1>6. len = 37
  BY DEF ENCODE_CREATE_STREAM_RESERVE
<1> HIDE DEF len, arguments, bytes
<1>7. len \in Nat /\ len = 12 + Len(createStream) + 3 + 9 + Len(arguments) /\ len < 4 * LongLen + 1000
  BY <1>1, <1>3, <1>6, LenBytes, Room
<1>8. Told(Command(RTMP_CSID_OVER_CONNECTION, len - CHUNK_HEADER_SIZE_TYPE0, 0,
                   createStream, Double(CreateStreamTid), arguments),
           len, createStream, Double(CreateStreamTid), arguments)
  BY <1>1, <1>2, <1>3, <1>5, <1>7, CommandTold, ZenonT(30)
<1> QED
  BY <1>4, <1>8 DEF len, arguments, bytes

\* publish tells the names of the stream and of the application.
LEMMA PublishTold ==
    ASSUME NEW s \in Bytes, Len(s) < LongLen, NEW a \in Bytes, Len(a) < LongLen,
           NEW msid \in Nat
    PROVE  Told(encode_publish(encode_publish_reserve(a, s), a, s, msid, StartTid),
                encode_publish_reserve(a, s),
                publish, Double(StartTid), encode_null \o encode_string(s) \o encode_string(a))
<1> DEFINE len == encode_publish_reserve(a, s)
           arguments == encode_null \o encode_string(s) \o encode_string(a)
           bytes == encode_publish(encode_publish_reserve(a, s), a, s, msid, StartTid)
<1>1. publish \in Bytes /\ Len(publish) = 7 /\ Len(publish) < LongLen
  BY Words, Room
<1>2. Double(StartTid) \in Bytes /\ Len(Double(StartTid)) = 8
  BY DoubleIs DEF StartTid
<1>3. arguments \in Bytes /\ Len(arguments) = (1 + (Len(s) + 3)) + (Len(a) + 3) /\ Ending(arguments)
  BY NullAndStrings
<1>4. bytes = Command(RTMP_CSID_OVER_STREAM, len - CHUNK_HEADER_SIZE_TYPE0, msid,
                    publish, Double(StartTid), arguments)
  BY DEF encode_publish
<1>5. RTMP_CSID_OVER_STREAM \in Nat /\ msid \in Nat
  BY DEF RTMP_CSID_OVER_STREAM
<1>6. len = 12 + 10 + 9 + 1 + (Len(a) + 3) + (Len(s) + 3)
  BY DEF encode_publish_reserve, encode_string_reserve, CHUNK_HEADER_SIZE_TYPE0
<1> HIDE DEF len, arguments, bytes
<1>7. len \in Nat /\ len = 12 + Len(publish) + 3 + 9 + Len(arguments) /\ len < 4 * LongLen + 1000
  BY <1>1, <1>3, <1>6, LenBytes, Room
<1>8. Told(Command(RTMP_CSID_OVER_STREAM, len - CHUNK_HEADER_SIZE_TYPE0, msid,
                   publish, Double(StartTid), arguments),
           len, publish, Double(StartTid), arguments)
  BY <1>1, <1>2, <1>3, <1>5, <1>7, CommandTold
<1> QED
  BY <1>4, <1>8 DEF len, arguments, bytes

\* play tells the name of the stream.
LEMMA PlayTold ==
    ASSUME NEW s \in Bytes, Len(s) < LongLen, NEW msid \in Nat
    PROVE  Told(encode_play(encode_play_reserve(s), s, msid, StartTid),
                encode_play_reserve(s),
                play, Double(StartTid), encode_null \o encode_string(s))
<1> DEFINE len == encode_play_reserve(s)
           arguments == encode_null \o encode_string(s)
           bytes == encode_play(encode_play_reserve(s), s, msid, StartTid)
<1>1. play \in Bytes /\ Len(play) = 4 /\ Len(play) < LongLen
  BY Words, Room
<1>2. Double(StartTid) \in Bytes /\ Len(Double(StartTid)) = 8
  BY DoubleIs DEF StartTid
<1>3. arguments \in Bytes /\ Len(arguments) = 1 + (Len(s) + 3) /\ Ending(arguments)
  BY NullAndString
<1>4. bytes = Command(RTMP_CSID_OVER_STREAM, len - CHUNK_HEADER_SIZE_TYPE0, msid,
                    play, Double(StartTid), arguments)
  BY DEF encode_play
<1>5. RTMP_CSID_OVER_STREAM \in Nat /\ msid \in Nat
  BY DEF RTMP_CSID_OVER_STREAM
<1>6. len = 12 + 7 + 9 + 1 + (Len(s) + 3)
  BY DEF encode_play_reserve, encode_string_reserve, CHUNK_HEADER_SIZE_TYPE0
<1> HIDE DEF len, arguments, bytes
<1>7. len \in Nat /\ len = 12 + Len(play) + 3 + 9 + Len(arguments) /\ len < 4 * LongLen + 1000
  BY <1>1, <1>3, <1>6, LenBytes, Room
<1>8. Told(Command(RTMP_CSID_OVER_STREAM, len - CHUNK_HEADER_SIZE_TYPE0, msid,
                   play, Double(StartTid), arguments),
           len, play, Double(StartTid), arguments)
  BY <1>1, <1>2, <1>3, <1>5, <1>7, CommandTold, ZenonT(30)
<1> QED
  BY <1>4, <1>8 DEF len, arguments, bytes

\* A property with a word.
LEMMA WordItem ==
    ASSUME NEW name \in Bytes, Len(name) < LongLen, NEW letter \in Nat, NEW n \in 0 .. 100
    PROVE  /\ Named(name, Word(letter, n)) \in Items
           /\ Short(Named(name, Word(letter, n)).value)
           /\ Named(name, Word(letter, n)).name = name
           /\ Len(encode_object_named(Named(name, Word(letter, n)))) = Len(name) + n + 5
<1>1. Word(letter, n) \in Bytes /\ Len(Word(letter, n)) = n /\ n < LongLen
  BY WordIs, Room
<1>2. encode_string_reserve(n) = n + 3
  BY <1>1 DEF encode_string_reserve
<1>3. /\ Named(name, Word(letter, n)) \in Items
      /\ Short(Named(name, Word(letter, n)).value)
      /\ Named(name, Word(letter, n)).name = name
      /\ Len(encode_object_named(Named(name, Word(letter, n)))) =
           2 + Len(name) + encode_string_reserve(Len(Word(letter, n)))
  BY <1>1, NamedIs
<1>4. Len(name) \in Nat /\ \A x, y \in Nat : 2 + x + (y + 3) = x + y + 5
  BY LenBytes
<1>5. 2 + Len(name) + encode_string_reserve(Len(Word(letter, n))) = Len(name) + n + 5
  BY <1>1, <1>2, <1>4
<1> QED
  BY <1>3, <1>5

\* The objects of a _result.
LEMMA ResultArguments ==
    LET p == encode_object(ResultProperties) \o encode_object(ResultInfo)
    IN  /\ p \in Bytes /\ Len(p) = 171 /\ Ending(p)
        /\ ResultProperties \in Seq(Items) /\ ResultInfo \in Seq(Items)
        /\ \A k \in 1 .. Len(ResultProperties) : Short(ResultProperties[k].value)
        /\ \A k \in 1 .. Len(ResultInfo) : Short(ResultInfo[k].value)
        /\ Len(ResultInfo) = 4 /\ ResultInfo[2] = Named(code, ConnectSuccess)
        /\ ResultInfo[1].name = level /\ ResultInfo[3].name = description
        /\ ResultInfo[4].name = objectEncoding
<1> DEFINE a == Named(fmsVer, Word(1, 13))
           b == NamedNumber(capabilities, 1)
           c == Named(level, Word(3, 6))
           d == Named(code, ConnectSuccess)
           e == Named(description, Word(1, 21))
           f == NamedNumber(objectEncoding, 0)
<1>1. /\ fmsVer \in Bytes /\ Len(fmsVer) = 6 /\ Len(fmsVer) < LongLen
      /\ capabilities \in Bytes /\ Len(capabilities) = 12 /\ Len(capabilities) < LongLen
      /\ level \in Bytes /\ Len(level) = 5 /\ Len(level) < LongLen
      /\ code \in Bytes /\ Len(code) = 4 /\ Len(code) < LongLen
      /\ description \in Bytes /\ Len(description) = 11 /\ Len(description) < LongLen
      /\ objectEncoding \in Bytes /\ Len(objectEncoding) = 14 /\ Len(objectEncoding) < LongLen
  BY MoreWords, Room
<1>4. a \in Items /\ Short(a.value) /\ Len(encode_object_named(a)) = 24
  <2>1. /\ a \in Items /\ Short(a.value)
        /\ Len(encode_object_named(a)) = Len(fmsVer) + 13 + 5
    <3>1. fmsVer \in Bytes /\ Len(fmsVer) < LongLen /\ 1 \in Nat /\ 13 \in 0 .. 100
      BY <1>1
    <3> QED
      BY <3>1, WordItem, SMTT(30)
  <2> HIDE DEF a
  <2> QED
    BY <1>1, <2>1
<1>5. b \in Items /\ Short(b.value) /\ Len(encode_object_named(b)) = 23
  <2>1. /\ b \in Items /\ Short(b.value)
        /\ Len(encode_object_named(b)) = 2 + Len(capabilities) + 9
    BY <1>1, NamedNumberIs
  <2> HIDE DEF b
  <2> QED
    BY <1>1, <2>1
<1>6. c \in Items /\ Short(c.value) /\ Len(encode_object_named(c)) = 16 /\ c.name = level
  <2>1. /\ c \in Items /\ Short(c.value) /\ c.name = level
        /\ Len(encode_object_named(c)) = Len(level) + 6 + 5
    <3>1. level \in Bytes /\ Len(level) < LongLen /\ 3 \in Nat /\ 6 \in 0 .. 100
      BY <1>1
    <3> QED
      BY <3>1, WordItem, SMTT(30)
  <2> HIDE DEF c
  <2> QED
    BY <1>1, <2>1
<1>7. d \in Items /\ Short(d.value) /\ Len(encode_object_named(d)) = 38
  <2>1. /\ d \in Items /\ Short(d.value)
        /\ Len(encode_object_named(d)) = Len(code) + 29 + 5
    <3>1. code \in Bytes /\ Len(code) < LongLen /\ 1 \in Nat /\ 29 \in 0 .. 100
      BY <1>1
    <3> QED
      BY <3>1, WordItem, SMTT(30) DEF ConnectSuccess
  <2> HIDE DEF d
  <2> QED
    BY <1>1, <2>1
<1>8. e \in Items /\ Short(e.value) /\ Len(encode_object_named(e)) = 37 /\ e.name = description
  <2>1. /\ e \in Items /\ Short(e.value) /\ e.name = description
        /\ Len(encode_object_named(e)) = Len(description) + 21 + 5
    <3>1. description \in Bytes /\ Len(description) < LongLen /\ 1 \in Nat /\ 21 \in 0 .. 100
      BY <1>1
    <3> QED
      BY <3>1, WordItem, SMTT(30)
  <2> HIDE DEF e
  <2> QED
    BY <1>1, <2>1
<1>9. f \in Items /\ Short(f.value) /\ Len(encode_object_named(f)) = 25 /\ f.name = objectEncoding
  <2>1. /\ f \in Items /\ Short(f.value) /\ f.name = objectEncoding
        /\ Len(encode_object_named(f)) = 2 + Len(objectEncoding) + 9
    BY <1>1, NamedNumberIs
  <2> HIDE DEF f
  <2> QED
    BY <1>1, <2>1
<1>10. ResultProperties = <<a, b>> /\ ResultInfo = <<c, d, e, f>>
  BY DEF ResultProperties, ResultInfo
<1>11. d = Named(code, ConnectSuccess)
  OBVIOUS
<1> HIDE DEF a, b, c, d, e, f
<1>12. /\ <<a, b>> \in Seq(Items) /\ Len(<<a, b>>) = 2
       /\ Len(encode_items(<<a, b>>)) = 47
  <2>1. /\ <<a, b>> \in Seq(Items) /\ Len(<<a, b>>) = 2
        /\ Len(encode_items(<<a, b>>)) =
             Len(encode_object_named(a)) + Len(encode_object_named(b))
    BY <1>4, <1>5, ItemsOfTwo
  <2>2. Len(encode_object_named(a)) + Len(encode_object_named(b)) = 47
    BY <1>4, <1>5
  <2> QED
    BY <2>1, <2>2
<1>13. /\ <<c, d, e, f>> \in Seq(Items) /\ Len(<<c, d, e, f>>) = 4
       /\ Len(encode_items(<<c, d, e, f>>)) = 116
  <2>1. /\ <<c, d, e, f>> \in Seq(Items) /\ Len(<<c, d, e, f>>) = 4
        /\ Len(encode_items(<<c, d, e, f>>)) =
             Len(encode_object_named(c)) + Len(encode_object_named(d))
             + Len(encode_object_named(e)) + Len(encode_object_named(f))
    BY <1>6, <1>7, <1>8, <1>9, ItemsOfFour, ZenonT(30)
  <2>2. Len(encode_object_named(c)) + Len(encode_object_named(d))
        + Len(encode_object_named(e)) + Len(encode_object_named(f)) = 116
    BY <1>6, <1>7, <1>8, <1>9
  <2> QED
    BY <2>1, <2>2
<1> DEFINE i == <<a, b>>
           j == <<c, d, e, f>>
<1>14. \A k \in 1 .. Len(i) : Short(i[k].value)
  <2>1. \A k \in 1 .. 2 : k = 1 \/ k = 2
    OBVIOUS
  <2>2. i[1] = a /\ i[2] = b
    OBVIOUS
  <2> QED
    BY <1>4, <1>5, <1>12, <2>1, <2>2
<1>15. j[1] = c /\ j[2] = d /\ j[3] = e /\ j[4] = f
  OBVIOUS
<1>16. \A k \in 1 .. Len(j) : Short(j[k].value)
  <2>1. \A k \in 1 .. 4 : k = 1 \/ k = 2 \/ k = 3 \/ k = 4
    OBVIOUS
  <2> QED
    BY <1>6, <1>7, <1>8, <1>9, <1>13, <1>15, <2>1
<1>17. /\ i \in Seq(Items) /\ Len(encode_items(i)) = 47
       /\ j \in Seq(Items) /\ Len(encode_items(j)) = 116 /\ Len(j) = 4
  BY <1>12, <1>13
<1> HIDE DEF i, j
<1>18. /\ encode_object(i) \in Bytes /\ Len(encode_object(i)) = 51
       /\ encode_object(j) \in Bytes /\ Len(encode_object(j)) = 120
  <2>1. /\ encode_object(i) \in Bytes /\ Len(encode_object(i)) = Len(encode_items(i)) + 4
        /\ encode_object(j) \in Bytes /\ Len(encode_object(j)) = Len(encode_items(j)) + 4
    BY <1>17, ObjectBytes, ZenonT(30)
  <2> QED
    BY <1>17, <2>1
<1>19. /\ encode_object(i) \o encode_object(j) \in Bytes
       /\ Len(encode_object(i) \o encode_object(j)) = 171
  <2>1. /\ encode_object(i) \o encode_object(j) \in Bytes
        /\ Len(encode_object(i) \o encode_object(j)) =
             Len(encode_object(i)) + Len(encode_object(j))
    <3>1. encode_object(i) \in Bytes /\ encode_object(j) \in Bytes
      BY <1>18
    <3> QED
      BY <3>1, ConcatBytes
  <2> QED
    BY <1>18, <2>1
<1>20. Ending(encode_object(i) \o encode_object(j))
  BY <1>14, <1>16, <1>17, ObjectTaken, EndingLast, EndingMore
<1> QED
  BY <1>6, <1>8, <1>9, <1>10, <1>11, <1>14, <1>15, <1>16, <1>17, <1>19, <1>20 DEF i, j

\* The answer to connect tells the id of the command it answers.
LEMMA ConnectResultTold ==
    ASSUME NEW t \in Bytes, Len(t) = 8
    PROVE  Told(encode_connect_result(t), ENCODE_CONNECT_RESULT_RESERVE, _result, t,
                encode_object(ResultProperties) \o encode_object(ResultInfo))
<1> DEFINE p == encode_object(ResultProperties) \o encode_object(ResultInfo)
           len == ENCODE_CONNECT_RESULT_RESERVE
<1>1. p \in Bytes /\ Len(p) = 171 /\ Ending(p)
  BY ResultArguments
<1>2. _result \in Bytes /\ Len(_result) = 7 /\ Len(_result) < LongLen
  BY Words, Room
<1>3. len = 202 /\ len - CHUNK_HEADER_SIZE_TYPE0 = 190
  BY DEF ENCODE_CONNECT_RESULT_RESERVE, CHUNK_HEADER_SIZE_TYPE0
<1>4. encode_connect_result(t) = Command(RTMP_CSID_OVER_CONNECTION, 190, 0, _result, t, p)
  BY DEF encode_connect_result
<1>5. RTMP_CSID_OVER_CONNECTION \in Nat /\ 0 \in Nat
  BY DEF RTMP_CSID_OVER_CONNECTION
<1> HIDE DEF p, len
<1>6. len \in Nat /\ len = 12 + Len(_result) + 3 + 9 + Len(p) /\ len < 4 * LongLen + 1000
  BY <1>1, <1>2, <1>3, Room
<1>7. Told(Command(RTMP_CSID_OVER_CONNECTION, len - CHUNK_HEADER_SIZE_TYPE0, 0, _result, t, p),
           len, _result, t, p)
  BY <1>1, <1>2, <1>5, <1>6, CommandTold, ZenonT(30)
<1> QED
  BY <1>3, <1>4, <1>7 DEF p, len

\* Null and a number.
LEMMA NullAndNumber ==
    ASSUME NEW d \in Bytes, Len(d) = 8
    PROVE  /\ encode_null \o encode_number(d) \in Bytes
           /\ Len(encode_null \o encode_number(d)) = 10
           /\ Ending(encode_null \o encode_number(d))
<1> DEFINE e == encode_number(d)
<1>1. e \in Bytes /\ Len(e) = 9 /\ encode_null \in Bytes /\ Len(encode_null) = 1
  BY NumberBytes, MarkBytes
<1>2. Taken(e) /\ Taken(encode_null)
  BY NumberTaken, NullTaken
<1> HIDE DEF e
<1>3. Ending(encode_null \o e)
  BY <1>2, EndingLast, EndingMore
<1>4. encode_null \o e \in Bytes /\ Len(encode_null \o e) = 10
  <2>1. /\ encode_null \o e \in Bytes
        /\ Len(encode_null \o e) = Len(encode_null) + Len(e)
    BY <1>1, ConcatBytes
  <2> QED
    BY <1>1, <2>1
<1> QED
  BY <1>3, <1>4 DEF e

\* The answer to createStream tells that id, and the stream id of every stream.
LEMMA CreateStreamResultTold ==
    ASSUME NEW t \in Bytes, Len(t) = 8
    PROVE  Told(encode_create_stream_result(t), ENCODE_CREATE_STREAM_RESULT_RESERVE, _result, t,
                encode_null \o encode_number(Double(RTMP_MSID)))
<1> DEFINE p == encode_null \o encode_number(Double(RTMP_MSID))
           len == ENCODE_CREATE_STREAM_RESULT_RESERVE
<1>1. p \in Bytes /\ Len(p) = 10 /\ Ending(p)
  <2>1. Double(RTMP_MSID) \in Bytes /\ Len(Double(RTMP_MSID)) = 8
    BY DoubleIs DEF RTMP_MSID
  <2> QED
    BY <2>1, NullAndNumber
<1>2. _result \in Bytes /\ Len(_result) = 7 /\ Len(_result) < LongLen
  BY Words, Room
<1>3. len = 41 /\ len - CHUNK_HEADER_SIZE_TYPE0 = 29
  BY DEF ENCODE_CREATE_STREAM_RESULT_RESERVE, CHUNK_HEADER_SIZE_TYPE0
<1>4. encode_create_stream_result(t) = Command(RTMP_CSID_OVER_CONNECTION, 29, 0, _result, t, p)
  BY DEF encode_create_stream_result
<1>5. RTMP_CSID_OVER_CONNECTION \in Nat /\ 0 \in Nat
  BY DEF RTMP_CSID_OVER_CONNECTION
<1> HIDE DEF p, len
<1>6. len \in Nat /\ len = 12 + Len(_result) + 3 + 9 + Len(p) /\ len < 4 * LongLen + 1000
  BY <1>1, <1>2, <1>3, Room
<1>7. Told(Command(RTMP_CSID_OVER_CONNECTION, len - CHUNK_HEADER_SIZE_TYPE0, 0, _result, t, p),
           len, _result, t, p)
  BY <1>1, <1>2, <1>5, <1>6, CommandTold
<1> QED
  BY <1>3, <1>4, <1>7 DEF p, len

\* The object of an onStatus, of a status of n bytes and a text of m.
LEMMA StatusArguments ==
    ASSUME NEW n \in 0 .. 100, NEW m \in 0 .. 100,
           NEW items, items = StatusItems(Word(1, n), Word(1, m))
    PROVE  /\ encode_null \o encode_object(items) \in Bytes
           /\ Len(encode_null \o encode_object(items)) = 46 + n + m
           /\ Ending(encode_null \o encode_object(items))
           /\ items \in Seq(Items) /\ Len(items) = 3
           /\ \A k \in 1 .. Len(items) : Short(items[k].value)
           /\ items[2] = Named(code, Word(1, n)) /\ items[3].name = description
<1> DEFINE a == Named(level, Word(3, 6))
           b == Named(code, Word(1, n))
           c == Named(description, Word(1, m))
           list == <<a, b, c>>
<1>1. /\ level \in Bytes /\ Len(level) = 5 /\ Len(level) < LongLen
      /\ code \in Bytes /\ Len(code) = 4 /\ Len(code) < LongLen
      /\ description \in Bytes /\ Len(description) = 11 /\ Len(description) < LongLen
  BY MoreWords, Room
<1>2. a \in Items /\ Short(a.value) /\ Len(encode_object_named(a)) = Len(level) + 6 + 5
  <2>1. level \in Bytes /\ Len(level) < LongLen /\ 3 \in Nat /\ 6 \in 0 .. 100
    BY <1>1
  <2> QED
    BY <2>1, WordItem, SMTT(30)
<1>3. b \in Items /\ Short(b.value) /\ Len(encode_object_named(b)) = Len(code) + n + 5
  <2>1. code \in Bytes /\ Len(code) < LongLen /\ 1 \in Nat
    BY <1>1
  <2> QED
    BY <2>1, WordItem
<1>4. /\ c \in Items /\ Short(c.value) /\ c.name = description
      /\ Len(encode_object_named(c)) = Len(description) + m + 5
  <2>1. description \in Bytes /\ Len(description) < LongLen /\ 1 \in Nat
    BY <1>1
  <2> QED
    BY <2>1, WordItem
<1>5. items = list /\ b = Named(code, Word(1, n))
  BY DEF StatusItems
<1> HIDE DEF a, b, c
<1>6. items[1] = a /\ items[2] = b /\ items[3] = c
  BY <1>5
<1>7. /\ items \in Seq(Items) /\ Len(items) = 3
      /\ Len(encode_items(items)) = Len(encode_object_named(a)) + Len(encode_object_named(b))
                                    + Len(encode_object_named(c))
  <2>1. /\ list \in Seq(Items) /\ Len(list) = 3
        /\ Len(encode_items(list)) = Len(encode_object_named(a)) + Len(encode_object_named(b))
                                     + Len(encode_object_named(c))
    BY <1>2, <1>3, <1>4, ItemsOfThree
  <2> HIDE DEF list
  <2> QED
    BY <1>5, <2>1
<1> HIDE DEF list
<1>8. \A k \in 1 .. Len(items) : Short(items[k].value)
  <2>1. \A k \in 1 .. 3 : k = 1 \/ k = 2 \/ k = 3
    OBVIOUS
  <2> QED
    BY <1>2, <1>3, <1>4, <1>6, <1>7, <2>1
<1> DEFINE obj == encode_object(items)
<1>9. obj \in Bytes /\ Len(obj) = 45 + n + m
  <2>1. obj \in Bytes /\ Len(obj) = Len(encode_items(items)) + 4
    BY <1>7, ObjectBytes
  <2> HIDE DEF obj
  <2> QED
    BY <1>1, <1>2, <1>3, <1>4, <1>7, <2>1
<1>10. Taken(obj) /\ Taken(encode_null)
  BY <1>7, <1>8, ObjectTaken, NullTaken
<1> HIDE DEF obj
<1>11. Ending(encode_null \o obj)
  BY <1>10, EndingLast, EndingMore
<1>12. encode_null \o obj \in Bytes /\ Len(encode_null \o obj) = 46 + n + m
  <2>1. encode_null \in Bytes /\ Len(encode_null) = 1
    BY MarkBytes
  <2>2. /\ encode_null \o obj \in Bytes
        /\ Len(encode_null \o obj) = Len(encode_null) + Len(obj)
    BY <1>9, <2>1, ConcatBytes
  <2> QED
    BY <1>9, <2>1, <2>2
<1> QED
  BY <1>4, <1>5, <1>6, <1>7, <1>8, <1>11, <1>12 DEF obj

\* Both kinds of onStatus.
LEMMA OnStatusTold ==
    ASSUME NEW n \in 0 .. 100, NEW m \in 0 .. 100, NEW len \in Nat, len = 66 + n + m
    PROVE  Told(OnStatus(len, 1, Word(1, n), Word(1, m)), 12 + len, onStatus, Double(0),
                encode_null \o encode_object(StatusItems(Word(1, n), Word(1, m))))
<1> DEFINE items == StatusItems(Word(1, n), Word(1, m))
           p == encode_null \o encode_object(items)
           all == 12 + len
<1>1. p \in Bytes /\ Len(p) = 46 + n + m /\ Ending(p)
  <2> HIDE DEF items
  <2>1. items = StatusItems(Word(1, n), Word(1, m))
    BY DEF items
  <2> QED
    BY <2>1, StatusArguments
<1>2. onStatus \in Bytes /\ Len(onStatus) = 8 /\ Len(onStatus) < LongLen
  BY Words, Room
<1>3. all - CHUNK_HEADER_SIZE_TYPE0 = len
  BY DEF CHUNK_HEADER_SIZE_TYPE0
<1>4. OnStatus(len, 1, Word(1, n), Word(1, m)) =
        Command(RTMP_CSID_OVER_STREAM, len, 1, onStatus, Double(0), p)
  BY DEF OnStatus
<1>5. RTMP_CSID_OVER_STREAM \in Nat /\ 1 \in Nat
  BY DEF RTMP_CSID_OVER_STREAM
<1>6. Double(0) \in Bytes /\ Len(Double(0)) = 8
  BY DoubleIs
<1> HIDE DEF p
<1>7. all \in Nat /\ all = 12 + Len(onStatus) + 3 + 9 + Len(p) /\ all < 4 * LongLen + 1000
  BY <1>1, <1>2, Room
<1> HIDE DEF all
<1>8. Told(Command(RTMP_CSID_OVER_STREAM, all - CHUNK_HEADER_SIZE_TYPE0, 1, onStatus,
                   Double(0), p), all, onStatus, Double(0), p)
  BY <1>1, <1>2, <1>5, <1>6, <1>7, CommandTold, ZenonT(30)
<1> QED
  BY <1>3, <1>4, <1>8 DEF p, all, items

\* Both onStatus messages tell their level, code and description.
LEMMA StatusTold ==
    /\ Told(encode_on_status_publish(1), ENCODE_ON_STATUS_PUBLISH_RESERVE, onStatus, Double(0),
            encode_null \o encode_object(StatusItems(PublishStart, Word(1, 16))))
    /\ Told(encode_on_status_play(1), ENCODE_ON_STATUS_PLAY_RESERVE, onStatus, Double(0),
            encode_null \o encode_object(StatusItems(PlayStart, Word(1, 10))))
<1>1. Told(OnStatus(105, 1, Word(1, 23), Word(1, 16)), 12 + 105, onStatus, Double(0),
           encode_null \o encode_object(StatusItems(Word(1, 23), Word(1, 16))))
  <2>1. 23 \in 0 .. 100 /\ 16 \in 0 .. 100 /\ 105 \in Nat /\ 105 = 66 + 23 + 16
    OBVIOUS
  <2> QED
    BY <2>1, OnStatusTold
<1>2. Told(OnStatus(96, 1, Word(1, 20), Word(1, 10)), 12 + 96, onStatus, Double(0),
           encode_null \o encode_object(StatusItems(Word(1, 20), Word(1, 10))))
  <2>1. 20 \in 0 .. 100 /\ 10 \in 0 .. 100 /\ 96 \in Nat /\ 96 = 66 + 20 + 10
    OBVIOUS
  <2> QED
    BY <2>1, OnStatusTold
<1>3. ENCODE_ON_STATUS_PUBLISH_RESERVE = 12 + 105 /\ ENCODE_ON_STATUS_PLAY_RESERVE = 12 + 96
  BY DEF ENCODE_ON_STATUS_PUBLISH_RESERVE, ENCODE_ON_STATUS_PLAY_RESERVE
<1> QED
  BY <1>1, <1>2, <1>3
  DEF encode_on_status_publish, encode_on_status_play, PublishStart, PlayStart

-----------------------------------------------------------------------------
(* Protocol and user control messages, and metadata *)

\* A message sets the chunk size to the one both sides write with.
TellsSize(bytes) ==
    MsgType(bytes) = SET_CHUNK_SIZE /\ decode_int32(Body(bytes)).value = LocalChunkSize

\* A control message is as long as its header says.
LEMMA ControlRead ==
    ASSUME NEW type \in Nat, type \notin {COMMAND_MESSAGE, DATA_MESSAGE}, NEW payload \in Bytes,
           NEW len \in Nat, len <= 100, len = Len(payload)
    PROVE  /\ Control(type, len, payload) \in Bytes
           /\ Len(Control(type, len, payload)) = 12 + len
           /\ MsgType(Control(type, len, payload)) = type
           /\ Body(Control(type, len, payload)) = payload
           /\ WellFramed(Control(type, len, payload))
<1> DEFINE bytes == Control(type, len, payload)
<1>1. RTMP_CSID_PROTOCOL_CONTROL \in Nat /\ 0 \in Nat /\ len \in Nat
  BY DEF RTMP_CSID_PROTOCOL_CONTROL
<1>2. ReadAs(Header(RTMP_CSID_PROTOCOL_CONTROL, len, type, 0) \o payload, type, len, payload)
  BY <1>1, MessageRead
<1>3. ReadAs(bytes, type, len, payload)
  BY <1>2 DEF Control
<1>4. len < Base * Base * Base
  <2>1. \A x, y, z \in Nat : x > 4 * y + 1000 /\ z <= 100 => z < x
    OBVIOUS
  <2>2. Base * Base * Base \in Nat
    BY AmfAssumption
  <2>3. LongLen \in Nat /\ Base * Base * Base > 4 * LongLen + 1000
    BY Room
  <2> QED
    BY <1>1, <2>1, <2>2, <2>3
<1> HIDE DEF bytes
<1>5. /\ bytes \in Bytes /\ Len(bytes) = 12 + len /\ MsgType(bytes) = type
      /\ Body(bytes) = payload /\ MsgLen(bytes) = len
  BY <1>3, <1>4 DEF ReadAs
<1>6. WellFramed(bytes)
  BY <1>5 DEF WellFramed, CHUNK_HEADER_SIZE_TYPE0
<1> QED
  BY <1>5, <1>6 DEF bytes

\* Each of them.
LEMMA Controls ==
    /\ LET bytes == encode_chunk_size(LocalChunkSize)
       IN  /\ bytes \in Bytes /\ Len(bytes) = ENCODE_CONTROL_RESERVE
           /\ TellsSize(bytes) /\ WellFramed(bytes)
    /\ LET bytes == encode_win_ack_size(WinAckSize)
       IN  /\ bytes \in Bytes /\ Len(bytes) = ENCODE_CONTROL_RESERVE
           /\ MsgType(bytes) = WIN_ACK_SIZE /\ WellFramed(bytes)
    /\ LET bytes == encode_peer_bandwidth(PeerBandwidth)
       IN  /\ bytes \in Bytes /\ Len(bytes) = ENCODE_PEER_BANDWIDTH
           /\ MsgType(bytes) = BANDWIDTH /\ WellFramed(bytes)
    /\ \A bytes \in {encode_user_control_stream_begin, encode_user_control_stream_eof} :
         /\ bytes \in Bytes /\ Len(bytes) = ENCODE_USER_CONTROL_RESERVE
         /\ MsgType(bytes) = USER_CONTROL /\ WellFramed(bytes)
<1>1. /\ 4 \in Nat /\ 4 <= 100 /\ 5 \in Nat /\ 5 <= 100 /\ 2 \in Nat /\ 2 <= 100
      /\ SET_CHUNK_SIZE \in Nat /\ SET_CHUNK_SIZE \notin {COMMAND_MESSAGE, DATA_MESSAGE}
      /\ WIN_ACK_SIZE \in Nat /\ WIN_ACK_SIZE \notin {COMMAND_MESSAGE, DATA_MESSAGE}
      /\ BANDWIDTH \in Nat /\ BANDWIDTH \notin {COMMAND_MESSAGE, DATA_MESSAGE}
      /\ USER_CONTROL \in Nat /\ USER_CONTROL \notin {COMMAND_MESSAGE, DATA_MESSAGE}
      /\ ENCODE_CONTROL_RESERVE = 12 + 4 /\ ENCODE_PEER_BANDWIDTH = 12 + 5
      /\ ENCODE_USER_CONTROL_RESERVE = 12 + 2
  BY DEF SET_CHUNK_SIZE, WIN_ACK_SIZE, BANDWIDTH, USER_CONTROL, COMMAND_MESSAGE, DATA_MESSAGE,
         ENCODE_CONTROL_RESERVE, ENCODE_PEER_BANDWIDTH, ENCODE_USER_CONTROL_RESERVE
<1>2. /\ LocalChunkSize \in Nat /\ LocalChunkSize < Base * Base * Base * Base
      /\ WinAckSize \in Nat /\ PeerBandwidth \in Nat
  <2>1. Base * Base * Base * Base \in Nat
    BY AmfAssumption
  <2>2. \A b \in Nat : \A n \in 0 .. b - 1 : n \in Nat /\ n < b
    OBVIOUS
  <2> QED
    BY <2>1, <2>2, CommandsAssumption
<1>3. LET bytes == encode_chunk_size(LocalChunkSize)
      IN  /\ bytes \in Bytes /\ Len(bytes) = ENCODE_CONTROL_RESERVE
          /\ TellsSize(bytes) /\ WellFramed(bytes)
  <2> DEFINE e == encode_int32(LocalChunkSize)
             bytes == Control(SET_CHUNK_SIZE, 4, e)
  <2>1. e \in Bytes /\ 4 = Len(e) /\ Holds(e, 0, e)
    BY <1>2, IntBytes, HoldsAll
  <2>2. decode_int32(e) = Decoded(LocalChunkSize, 4)
    BY <1>2, <2>1, ReadInt32
  <2> HIDE DEF e
  <2>3. /\ bytes \in Bytes /\ Len(bytes) = 12 + 4 /\ MsgType(bytes) = SET_CHUNK_SIZE
        /\ Body(bytes) = e /\ WellFramed(bytes)
    BY <1>1, <2>1, ControlRead, ZenonT(30)
  <2> HIDE DEF bytes
  <2>4. TellsSize(bytes)
    BY <2>2, <2>3 DEF TellsSize, Decoded
  <2> QED
    BY <1>1, <2>3, <2>4 DEF encode_chunk_size, e, bytes
<1>4. LET bytes == encode_win_ack_size(WinAckSize)
      IN  /\ bytes \in Bytes /\ Len(bytes) = ENCODE_CONTROL_RESERVE
          /\ MsgType(bytes) = WIN_ACK_SIZE /\ WellFramed(bytes)
  <2> DEFINE e == encode_int32(WinAckSize)
  <2>1. e \in Bytes /\ 4 = Len(e)
    BY <1>2, IntBytes
  <2> HIDE DEF e
  <2> QED
    BY <1>1, <2>1, ControlRead, ZenonT(30) DEF encode_win_ack_size, e
<1>5. LET bytes == encode_peer_bandwidth(PeerBandwidth)
      IN  /\ bytes \in Bytes /\ Len(bytes) = ENCODE_PEER_BANDWIDTH
          /\ MsgType(bytes) = BANDWIDTH /\ WellFramed(bytes)
  <2> DEFINE e == encode_int32(PeerBandwidth) \o <<2>>
  <2>1. e \in Bytes /\ 5 = Len(e)
    <3>1. encode_int32(PeerBandwidth) \in Bytes /\ Len(encode_int32(PeerBandwidth)) = 4
      BY <1>2, IntBytes
    <3>2. <<2>> \in Bytes /\ Len(<<2>>) = 1
      BY DEF Bytes
    <3>3. e \in Bytes /\ Len(e) = Len(encode_int32(PeerBandwidth)) + Len(<<2>>)
      BY <3>1, <3>2, ConcatBytes
    <3> HIDE DEF e
    <3> QED
      BY <3>1, <3>2, <3>3
  <2> HIDE DEF e
  <2> QED
    BY <1>1, <2>1, ControlRead DEF encode_peer_bandwidth, e
<1>6. ASSUME NEW n \in Nat
      PROVE  LET bytes == Control(USER_CONTROL, 2, encode_int16(n))
             IN  /\ bytes \in Bytes /\ Len(bytes) = ENCODE_USER_CONTROL_RESERVE
                 /\ MsgType(bytes) = USER_CONTROL /\ WellFramed(bytes)
  <2> DEFINE e == encode_int16(n)
  <2>1. e \in Bytes /\ 2 = Len(e)
    BY <1>2, IntBytes
  <2> HIDE DEF e
  <2> QED
    BY <1>1, <2>1, ControlRead DEF e
<1>7. \A bytes \in {encode_user_control_stream_begin, encode_user_control_stream_eof} :
         /\ bytes \in Bytes /\ Len(bytes) = ENCODE_USER_CONTROL_RESERVE
         /\ MsgType(bytes) = USER_CONTROL /\ WellFramed(bytes)
  <2>1. /\ encode_user_control_stream_begin = Control(USER_CONTROL, 2, encode_int16(0))
        /\ encode_user_control_stream_eof = Control(USER_CONTROL, 2, encode_int16(1))
    BY DEF encode_user_control_stream_begin, encode_user_control_stream_eof
  <2>2. 0 \in Nat /\ 1 \in Nat
    OBVIOUS
  <2> QED
    BY <1>6, <2>1, <2>2
<1> QED
  BY <1>3, <1>4, <1>5, <1>7

\* Metadata is made of properties that can be decoded.
LEMMA PropertyItems ==
    ASSUME NEW props \in Seq(Properties)
    PROVE  props \in Seq(Items) /\ \A k \in 1 .. Len(props) : Short(props[k].value)
<1>1. ASSUME NEW p \in Properties
      PROVE  p \in Items /\ Short(p.value)
  <2>1. /\ p.name \in PropertyNames /\ p.value \in PropertyValues
        /\ p = [name |-> p.name, value |-> p.value]
    BY DEF Properties
  <2>2. p.name \in Bytes /\ Len(p.name) < LongLen
    BY <2>1, CommandsAssumption DEF Bytes
  <2>3. /\ p.value \in [type : {NUMBER, BOOLEANTYPE, STRINGTYPE}, data : Bytes]
        /\ p.value.type = NUMBER => Len(p.value.data) = 8
        /\ p.value.type = BOOLEANTYPE => p.value.data \in {<<0>>, <<1>>}
        /\ p.value.type = STRINGTYPE => Len(p.value.data) < LongLen
    BY <2>1, CommandsAssumption DEF Bytes
  <2>4. p.value \in Values /\ Short(p.value)
    BY <2>3 DEF Values, Short
  <2>5. p \in [name : Bytes, value : Values]
    BY <2>1, <2>2, <2>4
  <2> QED
    BY <2>2, <2>4, <2>5 DEF Items
<1>2. Len(props) \in Nat /\ \A k \in 1 .. Len(props) : props[k] \in Properties
  BY LenProperties
<1>3. props \in Seq(Items)
  BY <1>1, <1>2
<1> QED
  BY <1>1, <1>2, <1>3

\* The object or ECMA array, and what follows "@setDataFrame".
MetaObject(props, array) == IF array THEN encode_ecma_array(props) ELSE encode_object(props)
\* A metadata message after the name that a publisher may put before it.
MetaTail(props, array) == encode_string(onMetaData) \o MetaObject(props, array)

\* The object is an item and comes back.
LEMMA MetaObjectRead ==
    ASSUME NEW props \in Seq(Properties), NEW array \in BOOLEAN
    PROVE  LET obj == MetaObject(props, array)
           IN  /\ obj \in Bytes /\ Taken(obj)
               /\ decode_metadata(obj) = Decoded(PutAll(props), Len(obj))
<1>1. props \in Seq(Items) /\ \A k \in 1 .. Len(props) : Short(props[k].value)
  BY PropertyItems
<1>2. CASE array
  <2> DEFINE obj == encode_ecma_array(props)
  <2>1. MetaObject(props, array) = obj
    BY <1>2 DEF MetaObject
  <2>2. obj \in Bytes /\ Taken(obj)
    BY <1>1, ObjectBytes, ArrayTaken
  <2>3. Holds(obj, 0, obj)
    BY <2>2, HoldsAll
  <2>4. decode_ecma_array(obj) = Decoded(PutAll(props), Len(obj))
    BY <1>1, <2>2, <2>3, ReadEcmaArray
  <2>5. Head(obj) = ECMA_ARRAY
    <3> DEFINE tail == encode_int32(Len(props)) \o (encode_items(props) \o encode_object_end)
    <3>1. obj = <<ECMA_ARRAY>> \o tail
      BY <1>1, ObjectBytes
    <3>2. tail \in Bytes
      <4>1. encode_items(props) \o encode_object_end \in Bytes
        BY <1>1, ObjectBytes, MarkBytes, ConcatBytes
      <4>2. Len(props) \in Nat
        BY LenProperties
      <4> QED
        BY <4>1, <4>2, IntBytes, ConcatBytes
    <3> HIDE DEF tail, obj
    <3>3. ECMA_ARRAY \in Nat /\ Holds(obj, 0, <<ECMA_ARRAY>> \o tail)
      BY <2>3, <3>1, Types
    <3> QED
      BY <2>2, <3>2, <3>3, AfterOne
  <2> HIDE DEF obj
  <2> QED
    BY <2>1, <2>2, <2>4, <2>5 DEF decode_metadata
<1>3. CASE ~array
  <2> DEFINE obj == encode_object(props)
  <2>1. MetaObject(props, array) = obj
    BY <1>3 DEF MetaObject
  <2>2. obj \in Bytes /\ Taken(obj)
    BY <1>1, ObjectBytes, ObjectTaken
  <2>3. Holds(obj, 0, obj)
    BY <2>2, HoldsAll
  <2>4. decode_object(obj) = Decoded(PutAll(props), Len(obj))
    BY <1>1, <2>2, <2>3, ReadObject
  <2>5. Head(obj) = OBJECT
    <3> DEFINE tail == encode_items(props) \o encode_object_end
    <3>1. obj = <<OBJECT>> \o tail
      BY <1>1, ObjectBytes
    <3>2. tail \in Bytes
      BY <1>1, ObjectBytes, MarkBytes, ConcatBytes
    <3> HIDE DEF tail, obj
    <3>3. OBJECT \in Nat /\ Holds(obj, 0, <<OBJECT>> \o tail)
      BY <2>3, <3>1, Types
    <3> QED
      BY <2>2, <3>2, <3>3, AfterOne
  <2> HIDE DEF obj
  <2> QED
    BY <2>1, <2>2, <2>4, <2>5, Types DEF decode_metadata
<1> QED
  BY <1>2, <1>3

\* So does what follows "@setDataFrame".
TailReads(from, props) ==
    LET name == decode_string_with_type(from)
    IN  /\ name.ok /\ name.value.data = onMetaData
        /\ decode_metadata(Rest(from, name.next)).ok
        /\ decode_metadata(Rest(from, name.next)).value = PutAll(props)

\* Read from its name on, a metadata message gives back its properties.
LEMMA MetaTailRead ==
    ASSUME NEW props \in Seq(Properties), NEW array \in BOOLEAN
    PROVE  LET from == MetaTail(props, array)
           IN  from \in Bytes /\ Ending(from) /\ TailReads(from, props)
<1> DEFINE n == encode_string(onMetaData)
           obj == MetaObject(props, array)
           from == MetaTail(props, array)
<1>1. onMetaData \in Bytes /\ Len(onMetaData) = 10 /\ Len(onMetaData) < LongLen
  BY StatusWords, Room
<1>2. n \in Bytes /\ Len(n) = Len(onMetaData) + 3 /\ Taken(n)
  BY <1>1, StringBytes, StringTaken DEF encode_string_reserve
<1>3. /\ obj \in Bytes /\ Taken(obj)
      /\ decode_metadata(obj) = Decoded(PutAll(props), Len(obj))
  BY MetaObjectRead
<1>4. from = n \o obj
  BY DEF MetaTail
<1>5. \A in \in Bytes : Holds(in, 0, n) => decode_string_with_type(in) =
                                             Decoded(Value(STRINGTYPE, onMetaData), Len(onMetaData) + 3)
  BY <1>1, ReadStringWithType
<1> HIDE DEF n, obj, from
<1>6. from \in Bytes /\ Len(from) = Len(n) + Len(obj)
  BY <1>2, <1>3, <1>4, ConcatBytes
<1>7. Ending(from)
  BY <1>2, <1>3, <1>4, EndingLast, EndingMore
<1>8. Holds(from, 0, n) /\ Holds(from, 0 + Len(n), obj)
  BY <1>2, <1>3, <1>4, <1>6, HoldsAll, HoldsSplit
<1>9. Rest(from, Len(n)) = obj
  <2>1. Len(n) \in Nat /\ Holds(from, Len(n), obj)
    BY <1>1, <1>2, <1>8
  <2> QED
    BY <1>3, <1>6, <2>1, RestIs
<1>10. decode_string_with_type(from) = Decoded(Value(STRINGTYPE, onMetaData), Len(n))
  BY <1>2, <1>5, <1>6, <1>8
<1>11. TailReads(from, props)
  BY <1>3, <1>9, <1>10 DEF TailReads, Decoded, Value
<1> QED
  BY <1>6, <1>7, <1>11 DEF from

\* What base_meta_data_handler goes on from.
MetaFrom(in) ==
    LET first == decode_string_with_type(in)
    IN  IF first.ok /\ first.value.data = setDataFrame THEN Rest(in, first.next) ELSE in

\* With "@setDataFrame" or without, that is the same.
LEMMA MetaItemsRead ==
    ASSUME NEW props \in Seq(Properties), NEW framed \in BOOLEAN, NEW array \in BOOLEAN
    PROVE  LET items == MetaItems(props, framed, array)
           IN  /\ items \in Bytes /\ Ending(items)
               /\ MetaFrom(items) = MetaTail(props, array)
<1> DEFINE tail == MetaTail(props, array)
           items == MetaItems(props, framed, array)
<1>1. tail \in Bytes /\ Ending(tail) /\ TailReads(tail, props)
  BY MetaTailRead
<1>2. items = (IF framed THEN encode_string(setDataFrame) ELSE <<>>) \o tail
  BY DEF MetaItems, MetaTail, MetaObject
<1> HIDE DEF tail, items
<1>3. setDataFrame \in Bytes /\ Len(setDataFrame) = 13 /\ Len(setDataFrame) < LongLen
  BY StatusWords, Room
<1>4. CASE ~framed
  <2>1. items = tail
    BY <1>1, <1>2, <1>4 DEF Bytes
  <2>2. decode_string_with_type(tail).value.data # setDataFrame
    <3>1. onMetaData # setDataFrame
      <4>1. onMetaData = Word(1, 10) /\ setDataFrame = Word(2, 13)
        BY DEF onMetaData, setDataFrame
      <4> QED
        BY <4>1, WordsDiffer
    <3>2. decode_string_with_type(tail).value.data = onMetaData
      BY <1>1 DEF TailReads
    <3> QED
      BY <3>1, <3>2
  <2> QED
    BY <1>1, <2>1, <2>2 DEF MetaFrom, items, tail
<1>5. CASE framed
  <2> DEFINE n == encode_string(setDataFrame)
  <2>1. n \in Bytes /\ Len(n) = Len(setDataFrame) + 3 /\ Taken(n)
    BY <1>3, StringBytes, StringTaken DEF encode_string_reserve
  <2>2. items = n \o tail
    BY <1>2, <1>5
  <2>3. \A in \in Bytes : Holds(in, 0, n) =>
            decode_string_with_type(in) =
              Decoded(Value(STRINGTYPE, setDataFrame), Len(setDataFrame) + 3)
    BY <1>3, ReadStringWithType
  <2> HIDE DEF n
  <2>4. items \in Bytes /\ Len(items) = Len(n) + Len(tail)
    BY <1>1, <2>1, <2>2, ConcatBytes
  <2>5. Ending(items)
    BY <1>1, <2>1, <2>2, EndingMore
  <2>6. Holds(items, 0, n) /\ Holds(items, 0 + Len(n), tail)
    BY <1>1, <2>1, <2>2, <2>4, HoldsAll, HoldsSplit
  <2>7. Rest(items, Len(n)) = tail
    <3>1. Len(n) \in Nat /\ Holds(items, Len(n), tail)
      BY <1>3, <2>1, <2>6
    <3> QED
      BY <1>1, <2>4, <3>1, RestIs
  <2>8. decode_string_with_type(items) = Decoded(Value(STRINGTYPE, setDataFrame), Len(n))
    BY <2>1, <2>3, <2>4, <2>6
  <2>9. MetaFrom(items) = tail
    BY <2>7, <2>8 DEF MetaFrom, Decoded, Value
  <2> QED
    BY <2>4, <2>5, <2>9 DEF items, tail
<1> QED
  BY <1>4, <1>5

\* What bytes say, as metadata.
TellsMeta(bytes, props) ==
    /\ MsgType(bytes) = DATA_MESSAGE
    /\ props \in Seq(Properties)
    /\ \E framed, array \in BOOLEAN : Body(bytes) = MetaItems(props, framed, array)

\* A metadata message says the properties it was made from.
LEMMA MetaMessageTells ==
    ASSUME NEW props \in Seq(Properties), NEW framed \in BOOLEAN, NEW array \in BOOLEAN,
           Len(MetaItems(props, framed, array)) < Base * Base * Base
    PROVE  /\ TellsMeta(MetaMessage(MetaItems(props, framed, array)), props)
           /\ WellFramed(MetaMessage(MetaItems(props, framed, array)))
<1> DEFINE items == MetaItems(props, framed, array)
           bytes == MetaMessage(items)
<1>1. items \in Bytes /\ Ending(items)
  BY MetaItemsRead
<1>2. Len(items) \in Nat /\ Len(items) < Base * Base * Base
  BY <1>1, LenBytes
<1>3. RTMP_CSID_OVER_STREAM \in Nat /\ DATA_MESSAGE \in Nat /\ 1 \in Nat
  BY DEF RTMP_CSID_OVER_STREAM, DATA_MESSAGE
<1>4. ReadAs(Header(RTMP_CSID_OVER_STREAM, Len(items), DATA_MESSAGE, 1) \o items,
             DATA_MESSAGE, Len(items), items)
  <2> HIDE DEF items
  <2> QED
    BY <1>1, <1>2, <1>3, MessageRead
<1>5. ReadAs(bytes, DATA_MESSAGE, Len(items), items)
  BY <1>4 DEF MetaMessage
<1> HIDE DEF bytes
<1>6. /\ Len(bytes) = 12 + Len(items) /\ MsgType(bytes) = DATA_MESSAGE
      /\ Body(bytes) = items /\ MsgLen(bytes) = Len(items)
  BY <1>2, <1>5 DEF ReadAs
<1>7. TellsMeta(bytes, props)
  BY <1>6 DEF TellsMeta
<1>8. Whole(items)
  BY <1>1, EndingWhole
<1>9. WellFramed(bytes)
  <2> HIDE DEF items
  <2> QED
    BY <1>6, <1>8 DEF WellFramed, CHUNK_HEADER_SIZE_TYPE0
<1> QED
  BY <1>7, <1>9 DEF bytes
-----------------------------------------------------------------------------
(* The inductive invariant *)

\* How far the conversation is: the number of turns before this one.
StageOf(t) ==
    CASE t = "clientChunkSize"   -> 0
      [] t = "connect"             -> 1
      [] t = "winAckSize"        -> 2
      [] t = "peerBandwidth"      -> 3
      [] t = "chunkSize"          -> 4
      [] t = "connectResult"      -> 5
      [] t = "createStream"        -> 6
      [] t = "createStreamResult" -> 7
      [] t = "start"               -> 8
      [] t = "onStatus"           -> 9
      [] t = "media"               -> 10

\* The number of turns already taken: what either side says next follows from it.
Stage == StageOf(turn)

\* The turns of the connection.
Turns == {"clientChunkSize", "connect", "winAckSize", "peerBandwidth", "chunkSize",
          "connectResult", "createStream", "createStreamResult", "start", "onStatus",
          "media"}

\* What was written in the turn before the k-th has been read.
Done(k) == Stage > k \/ (Stage = k /\ wire = Quiet)

\* The variables have the types their uses suppose.
CommandsType ==
    /\ turn \in Turns
    /\ write_buf_ \in [{"client", "server"} -> Bytes]
    /\ client \in [type : {"PUSH", "PULL"}, app_name : AppNames, stream_name : StreamNames,
                   stream_id : Bytes, chunk_size : Nat, ready : BOOLEAN]
    /\ server \in [type : {"SERVER", "PUB", "SUB"}, app_name : Bytes, stream_name : Bytes,
                   curr_tid : Bytes, chunk_size : Nat]
    /\ asserted \in BOOLEAN

\* What each session knows goes with what has been written and read so far.
Progress ==
    /\ client.chunk_size = IF Done(5) THEN LocalChunkSize ELSE 128
    /\ client.stream_id = IF Done(8) THEN Double(RTMP_MSID) ELSE <<>>
    /\ server.chunk_size = IF Done(1) THEN LocalChunkSize ELSE 128
    /\ server.app_name = IF Done(2) /\ ~TooLong THEN client.app_name ELSE <<>>
    /\ server.curr_tid = IF Done(7) THEN Double(CreateStreamTid)
                         ELSE IF Done(2) /\ ~TooLong THEN Double(ConnectTid) ELSE <<>>
    /\ server.stream_name = IF Done(9) THEN client.stream_name ELSE <<>>
    /\ server.type \in IF Done(9) /\ client.type = "PUSH" THEN {"PUB"}
                       ELSE IF Stage = 10 THEN {"SERVER", "SUB"} ELSE {"SERVER"}
    /\ asserted <=> TooLong /\ Done(2)
    /\ TooLong => Stage <= 2

\* The tcUrl of a client c.
UrlOf(c) == Word(4, UrlPrefix) \o c.app_name \o Word(5, 1) \o c.stream_name

\* What a client c that offers props says in the k-th turn.
FromClient(c, props, k, bytes) ==
    \/ k = 1 /\ TellsSize(bytes)
    \/ k = 2 /\ Tells(bytes, connect, Double(ConnectTid),
                      encode_object(ConnectItems(c.app_name, UrlOf(c), UrlOf(c))))
    \/ k = 6 /\ \E name \in {releaseStream, FCPublish} :
                   Tells(bytes, name, Double(StartTid), encode_null \o encode_string(c.stream_name))
    \/ k = 7 /\ Tells(bytes, createStream, Double(CreateStreamTid), encode_null)
    \/ k = 9 /\ c.type = "PUSH"
             /\ Tells(bytes, publish, Double(StartTid),
                      encode_null \o encode_string(c.stream_name) \o encode_string(c.app_name))
    \/ k = 9 /\ c.type = "PULL"
             /\ Tells(bytes, play, Double(StartTid), encode_null \o encode_string(c.stream_name))
    \/ k = 10 /\ TellsMeta(bytes, props)

\* What a server says to a client c in the k-th turn.
FromServer(c, k, bytes) ==
    \/ k \in {3, 4} /\ MsgType(bytes) \in {WIN_ACK_SIZE, BANDWIDTH}
    \/ k = 5 /\ TellsSize(bytes)
    \/ k = 6 /\ Tells(bytes, _result, Double(ConnectTid),
                      encode_object(ResultProperties) \o encode_object(ResultInfo))
    \/ k = 8 /\ Tells(bytes, _result, Double(CreateStreamTid),
                      encode_null \o encode_number(Double(RTMP_MSID)))
    \/ k = 10 /\ c.type = "PUSH"
              /\ Tells(bytes, onStatus, Double(0),
                       encode_null \o encode_object(StatusItems(PublishStart, Word(1, 16))))
    \/ k = 10 /\ c.type = "PULL"
              /\ Tells(bytes, onStatus, Double(0),
                       encode_null \o encode_object(StatusItems(PlayStart, Word(1, 10))))

\* The message under way is the one of the turn.
OnWire ==
    \/ wire = Quiet
    \/ wire.from = "client" /\ FromClient(client, offered, Stage, wire.bytes)
    \/ wire.from = "server" /\ FromServer(client, Stage, wire.bytes)
    \/ wire.from = "group" /\ Stage = 10 /\ MsgType(wire.bytes) = USER_CONTROL

\* The inductive invariant. That the messages are framed and that the metadata came
\* through are not inductive alone: what a side reads at its turn is what the other
\* wrote at an earlier one, so the invariant also says which message that was
\* (OnWire), and what both sides have understood by then (Progress).
CommandsInv == CommandsType /\ Progress /\ OnWire /\ Framed /\ MetaDataKept

-----------------------------------------------------------------------------
(* Writing *)

\* As many bytes as were encoded are the bytes that were encoded.
LEMMA SentAll ==
    ASSUME NEW old \in Bytes, NEW bytes \in Bytes
    PROVE  Sent(old, bytes, Len(bytes)) = bytes /\ bytes \o Rest(old, Len(bytes)) \in Bytes
<1> DEFINE rest == Rest(old, Len(bytes))
           now == bytes \o rest
<1>1. Len(bytes) \in Nat /\ Len(old) \in Nat
  BY LenBytes
<1>2. rest \in Bytes
  <2>1. CASE Len(bytes) <= Len(old)
    BY <1>1, <2>1, RestBytes
  <2>2. CASE ~(Len(bytes) <= Len(old))
    <3>1. rest = <<>>
      BY <1>1, <2>2 DEF Rest, Bytes
    <3> QED
      BY <3>1 DEF Bytes
  <2> QED
    BY <2>1, <2>2
<1> HIDE DEF rest
<1>3. /\ now \in Bytes /\ Len(now) \in Nat /\ Len(bytes) <= Len(now)
      /\ \A i \in 1 .. Len(bytes) : now[i] = bytes[i]
  BY <1>1, <1>2 DEF Bytes
<1> HIDE DEF now
<1> DEFINE s == [i \in 1 .. Len(bytes) |-> IF i <= Len(now) THEN now[i] ELSE Junk]
<1>4. \A i \in 1 .. Len(bytes) : s[i] = bytes[i]
  BY <1>1, <1>3
<1>5. s \in Bytes /\ Len(s) = Len(bytes)
  <2>1. \A i \in 1 .. Len(bytes) : s[i] \in Nat
    BY <1>4, LenBytes
  <2> QED
    BY <1>1, <2>1 DEF Bytes
<1>6. s = bytes
  <2> HIDE DEF s
  <2> QED
    BY <1>4, <1>5, SameBytes
<1>7. Sent(old, bytes, Len(bytes)) = s
  BY DEF Sent, now, rest
<1> QED
  BY <1>3, <1>6, <1>7 DEF now, rest

\* A url is longer than the names in it.
LEMMA UrlBytes ==
    ASSUME CommandsType
    PROVE  /\ client.app_name \in Bytes /\ client.stream_name \in Bytes /\ Url \in Bytes
           /\ Url = UrlOf(client)
           /\ Len(client.app_name) \in Nat /\ Len(client.stream_name) \in Nat /\ Len(Url) \in Nat
           /\ Len(client.app_name) < Len(Url) /\ Len(client.stream_name) < Len(Url)
<1> DEFINE a == client.app_name
           s == client.stream_name
           p == Word(4, UrlPrefix)
           q == Word(5, 1)
<1>1. a \in Bytes /\ s \in Bytes
  BY CommandsAssumption DEF CommandsType, Bytes
<1>2. /\ p \in Bytes /\ Len(p) = UrlPrefix /\ UrlPrefix \in Nat
      /\ q \in Bytes /\ Len(q) = 1
  <2>1. 4 \in Nat /\ 5 \in Nat /\ 1 \in Nat /\ UrlPrefix \in Nat
    BY CommandsAssumption
  <2> QED
    BY <2>1, WordIs
<1>3. Url = ((p \o a) \o q) \o s /\ Url = UrlOf(client)
  BY DEF Url, UrlOf
<1> HIDE DEF a, s, p, q
<1> DEFINE pa == p \o a
<1>4. pa \in Bytes /\ Len(pa) = Len(p) + Len(a)
  BY <1>1, <1>2, ConcatBytes
<1> HIDE DEF pa
<1> DEFINE paq == pa \o q
<1>5. paq \in Bytes /\ Len(paq) = Len(pa) + Len(q)
  BY <1>2, <1>4, ConcatBytes
<1> HIDE DEF paq
<1>6. paq \o s \in Bytes /\ Len(paq \o s) = Len(paq) + Len(s)
  BY <1>1, <1>5, ConcatBytes
<1>7. Url = paq \o s
  BY <1>3 DEF paq, pa
<1>8. Len(a) \in Nat /\ Len(s) \in Nat
  BY <1>1, LenBytes
<1>9. Len(Url) = UrlPrefix + Len(a) + 1 + Len(s)
  BY <1>2, <1>4, <1>5, <1>6, <1>7, <1>8
<1>10. Len(Url) \in Nat /\ Len(a) < Len(Url) /\ Len(s) < Len(Url)
  BY <1>2, <1>8, <1>9
<1> QED
  BY <1>1, <1>3, <1>6, <1>7, <1>8, <1>10 DEF a, s

\* The turn tells the stage, and the stage the turn.
LEMMA StageIs ==
    ASSUME NEW t \in Turns
    PROVE  /\ StageOf(t) \in 0 .. 10
           /\ t = "clientChunkSize" => StageOf(t) = 0
           /\ t = "connect" => StageOf(t) = 1
           /\ t = "winAckSize" => StageOf(t) = 2
           /\ t = "peerBandwidth" => StageOf(t) = 3
           /\ t = "chunkSize" => StageOf(t) = 4
           /\ t = "connectResult" => StageOf(t) = 5
           /\ t = "createStream" => StageOf(t) = 6
           /\ t = "createStreamResult" => StageOf(t) = 7
           /\ t = "start" => StageOf(t) = 8
           /\ t = "onStatus" => StageOf(t) = 9
           /\ t = "media" <=> StageOf(t) = 10
<1> DEFINE Fits == StageOf(t) \in 0 .. 10 /\ (StageOf(t) = 10 => t = "media")
<1>1. t = "clientChunkSize" => StageOf(t) = 0
  BY DEF StageOf
<1>2. t = "connect" => StageOf(t) = 1
  BY DEF StageOf
<1>3. t = "winAckSize" => StageOf(t) = 2
  BY DEF StageOf
<1>4. t = "peerBandwidth" => StageOf(t) = 3
  BY DEF StageOf
<1>5. t = "chunkSize" => StageOf(t) = 4
  BY DEF StageOf
<1>6. t = "connectResult" => StageOf(t) = 5
  BY DEF StageOf
<1>7. t = "createStream" => StageOf(t) = 6
  BY DEF StageOf
<1>8. t = "createStreamResult" => StageOf(t) = 7
  BY DEF StageOf
<1>9. t = "start" => StageOf(t) = 8
  BY DEF StageOf
<1>10. t = "onStatus" => StageOf(t) = 9
  BY DEF StageOf
<1>11. t = "media" => StageOf(t) = 10
  BY DEF StageOf
<1>12. Fits
  <2>1. CASE t = "clientChunkSize"
    BY <1>1, <2>1
  <2>2. CASE t = "connect"
    BY <1>2, <2>2
  <2>3. CASE t = "winAckSize"
    BY <1>3, <2>3
  <2>4. CASE t = "peerBandwidth"
    BY <1>4, <2>4
  <2>5. CASE t = "chunkSize"
    BY <1>5, <2>5
  <2>6. CASE t = "connectResult"
    BY <1>6, <2>6
  <2>7. CASE t = "createStream"
    BY <1>7, <2>7
  <2>8. CASE t = "createStreamResult"
    BY <1>8, <2>8
  <2>9. CASE t = "start"
    BY <1>9, <2>9
  <2>10. CASE t = "onStatus"
    BY <1>10, <2>10
  <2>11. CASE t = "media"
    BY <1>11, <2>11
  <2> HIDE DEF Fits
  <2> QED
    BY <2>1, <2>2, <2>3, <2>4, <2>5, <2>6, <2>7, <2>8, <2>9, <2>10, <2>11 DEF Turns
<1> QED
  BY <1>1, <1>2, <1>3, <1>4, <1>5, <1>6, <1>7, <1>8, <1>9, <1>10, <1>11, <1>12

\* What a message of the turn leads to.
Spoken(s, k, bytes) ==
    \/ s = "client" /\ FromClient(client, offered, k, bytes)
    \/ s = "server" /\ FromServer(client, k, bytes)

\* A write puts the bytes on the wire and changes nothing of the sessions.
LEMMA Written ==
    ASSUME CommandsType, NEW s \in {"client", "server"}, NEW mine, NEW then, NEW len,
           NEW bytes \in Bytes, Len(bytes) = len, Write(s, mine, len, bytes, then)
    PROVE  /\ wire = Quiet /\ wire' # Quiet /\ wire'.from = s /\ wire'.bytes = bytes
           /\ turn = mine /\ turn' = then /\ asserted = FALSE
           /\ write_buf_' \in [{"client", "server"} -> Bytes]
           /\ client' = client /\ server' = server /\ asserted' = asserted
           /\ offered' = offered /\ meta' = meta
<1>1. write_buf_[s] \in Bytes
  BY DEF CommandsType
<1>2. /\ Sent(write_buf_[s], bytes, Len(bytes)) = bytes
      /\ bytes \o Rest(write_buf_[s], Len(bytes)) \in Bytes
  BY <1>1, SentAll
<1>3. wire' = [from |-> s, bytes |-> bytes]
  BY <1>2 DEF Write
<1>4. wire'.from = s /\ wire'.bytes = bytes
  BY <1>3
<1>5. wire' # Quiet
  BY <1>4 DEF Quiet
<1>6. write_buf_' \in [{"client", "server"} -> Bytes]
  BY <1>2 DEF Write, CommandsType
<1>7. /\ wire = Quiet /\ turn = mine /\ turn' = then /\ ~asserted /\ asserted \in BOOLEAN
      /\ client' = client /\ server' = server /\ asserted' = asserted
      /\ offered' = offered /\ meta' = meta
  BY DEF Write, CommandsType
<1> QED
  BY <1>4, <1>5, <1>6, <1>7

\* What a url says stays.
LEMMA SameUrl ==
    ASSUME client.app_name' = client.app_name, client.stream_name' = client.stream_name
    PROVE  Url' = Url /\ TooLong' = TooLong /\ UrlOf(client') = UrlOf(client)
<1>1. Url' = Url
  BY DEF Url
<1>2. TooLong' = TooLong
  BY <1>1 DEF TooLong
<1> QED
  BY <1>1, <1>2 DEF UrlOf

\* A session that writes, in its turn, what the other waits for keeps the invariant.
LEMMA WriteKeeps ==
    ASSUME CommandsInv, NEW s \in {"client", "server"}, NEW mine, NEW then \in Turns, NEW len,
           NEW bytes \in Bytes, Len(bytes) = len, Write(s, mine, len, bytes, then),
           Stage' = Stage + 1 \/ (Stage = 6 /\ Stage' = 6),
           Spoken(s, Stage', bytes), TooLong \/ WellFramed(bytes)
    PROVE  CommandsInv'
<1>1. /\ wire = Quiet /\ wire' # Quiet /\ wire'.from = s /\ wire'.bytes = bytes
      /\ turn = mine /\ turn' = then /\ asserted = FALSE
      /\ write_buf_' \in [{"client", "server"} -> Bytes]
      /\ client' = client /\ server' = server /\ asserted' = asserted
      /\ offered' = offered /\ meta' = meta
  <2>1. CommandsType
    BY DEF CommandsInv
  <2> QED
    BY <2>1, Written
<1>2. Stage \in 0 .. 10 /\ Stage' \in 0 .. 10
  <2>1. turn \in Turns /\ turn' \in Turns
    BY <1>1 DEF CommandsInv, CommandsType
  <2>2. Stage \in 0 .. 10
    BY <2>1, StageIs DEF Stage
  <2>3. Stage' \in 0 .. 10
    BY <2>1, StageIs DEF Stage
  <2> QED
    BY <2>2, <2>3
<1>3. \A k \in {1, 2, 5, 7, 8, 9} : Done(k)' <=> Done(k)
  BY <1>1, <1>2 DEF Done
<1>4. TooLong' = TooLong
  BY <1>1, SameUrl
<1>5. CommandsType'
  BY <1>1 DEF CommandsInv, CommandsType
<1>6. TooLong => Stage < 2
  BY <1>1, <1>2 DEF CommandsInv, Progress, Done
<1>7. Progress'
  <2>1. (TooLong => Stage <= 2)'
    BY <1>2, <1>4, <1>6
  <2>2. (server.type \in IF Done(9) /\ client.type = "PUSH" THEN {"PUB"}
                         ELSE IF Stage = 10 THEN {"SERVER", "SUB"} ELSE {"SERVER"})'
    BY <1>1, <1>2, <1>3 DEF CommandsInv, Progress
  <2> QED
    BY <1>1, <1>3, <1>4, <2>1, <2>2 DEF CommandsInv, Progress
<1>8. OnWire'
  BY <1>1 DEF OnWire, Spoken
<1>9. Framed'
  BY <1>1, <1>4 DEF Framed, WellFramed, body
<1>10. MetaDataKept'
  BY <1>1 DEF CommandsInv, MetaDataKept
<1> QED
  BY <1>5, <1>7, <1>8, <1>9, <1>10 DEF CommandsInv
\* The stage of each turn.
LEMMA StageValues ==
    /\ StageOf("clientChunkSize") = 0 /\ StageOf("connect") = 1 /\ StageOf("winAckSize") = 2
    /\ StageOf("peerBandwidth") = 3 /\ StageOf("chunkSize") = 4 /\ StageOf("connectResult") = 5
    /\ StageOf("createStream") = 6 /\ StageOf("createStreamResult") = 7 /\ StageOf("start") = 8
    /\ StageOf("onStatus") = 9 /\ StageOf("media") = 10
  BY DEF StageOf

\* As WriteKeeps, by the names of the turns.
LEMMA WriteTurn ==
    ASSUME CommandsInv, NEW s \in {"client", "server"}, NEW mine, NEW then \in Turns, NEW len,
           NEW bytes \in Bytes, Len(bytes) = len, Write(s, mine, len, bytes, then),
           StageOf(then) = StageOf(mine) + 1 \/ (StageOf(mine) = 6 /\ StageOf(then) = 6),
           Spoken(s, StageOf(then), bytes), TooLong \/ WellFramed(bytes)
    PROVE  CommandsInv'
<1>1. Stage = StageOf(mine) /\ Stage' = StageOf(then)
  BY DEF Stage, Write
<1>2. Stage' = Stage + 1 \/ (Stage = 6 /\ Stage' = 6)
  BY <1>1
<1>3. Spoken(s, Stage', bytes)
  BY <1>1
<1> HIDE DEF Stage
<1> QED
  BY <1>2, <1>3, WriteKeeps

\* After the connect was answered, the names are short.
LEMMA ShortNames ==
    ASSUME CommandsInv, NEW s, NEW mine, NEW len, NEW bytes, NEW then,
           Write(s, mine, len, bytes, then), StageOf(mine) \in 2 .. 10
    PROVE  /\ ~TooLong
           /\ client.app_name \in Bytes /\ Len(client.app_name) < LongLen
           /\ client.stream_name \in Bytes /\ Len(client.stream_name) < LongLen
<1>1. Stage = StageOf(mine) /\ wire = Quiet /\ ~asserted
  BY DEF Stage, Write
<1>2. ~TooLong
  BY <1>1 DEF CommandsInv, Progress, Done
<1>3. CommandsType
  BY DEF CommandsInv
<1>4. /\ client.app_name \in Bytes /\ client.stream_name \in Bytes
      /\ Len(client.app_name) \in Nat /\ Len(client.stream_name) \in Nat /\ Len(Url) \in Nat
      /\ Len(client.app_name) < Len(Url) /\ Len(client.stream_name) < Len(Url)
  BY <1>3, UrlBytes
<1>5. Len(Url) < LongLen
  BY <1>2, <1>4, Room DEF TooLong
<1>6. \A m, n, l \in Nat : m < n /\ n < l => m < l
  OBVIOUS
<1>7. Len(client.app_name) < LongLen /\ Len(client.stream_name) < LongLen
  BY <1>4, <1>5, <1>6, Room
<1> QED
  BY <1>2, <1>4, <1>7

\* The chunk size of the client.
LEMMA ClientChunkSizeKeeps ==
    ASSUME CommandsInv, ClientWriteChunkSize
    PROVE  CommandsInv'
<1> DEFINE b == encode_chunk_size(LocalChunkSize)
<1>1. b \in Bytes /\ Len(b) = ENCODE_CONTROL_RESERVE /\ TellsSize(b) /\ WellFramed(b)
  BY Controls
<1>2. Write("client", "clientChunkSize", ENCODE_CONTROL_RESERVE, b, "connect")
  BY DEF ClientWriteChunkSize
<1> HIDE DEF b
<1>3. Spoken("client", StageOf("connect"), b)
  BY <1>1, StageValues DEF Spoken, FromClient
<1>4. StageOf("connect") = StageOf("clientChunkSize") + 1
  BY StageValues
<1>5. "connect" \in Turns
  BY DEF Turns
<1> QED
  BY <1>1, <1>2, <1>3, <1>4, <1>5, WriteTurn

\* The connect of the client.
LEMMA ConnectKeeps ==
    ASSUME CommandsInv, do_write_rtmp_connect
    PROVE  CommandsInv'
<1> DEFINE a == client.app_name
           len == encode_connect_reserve(a, Url, Url)
           b == encode_connect(len, a, Url, Url, ConnectTid)
<1>1. Write("client", "connect", len, b, "winAckSize")
  BY DEF do_write_rtmp_connect
<1>2. /\ a \in Bytes /\ Url \in Bytes /\ Url = UrlOf(client)
      /\ Len(a) \in Nat /\ Len(Url) \in Nat /\ Len(a) < Len(Url)
  <2>1. CommandsType
    BY DEF CommandsInv
  <2> QED
    BY <2>1, UrlBytes
<1>3. /\ Said(b, len, connect, Double(ConnectTid), encode_object(ConnectItems(a, Url, Url)))
      /\ Len(a) < LongLen /\ Len(Url) < LongLen => WellFramed(b)
  <2> HIDE DEF a
  <2> QED
    BY <1>2, ConnectSaid
<1> HIDE DEF b, len
<1>4. TooLong \/ WellFramed(b)
  <2> HIDE DEF a
  <2>1. \A m, n, l \in Nat : m < n /\ ~(n >= l) => m < l /\ n < l
    OBVIOUS
  <2>2. ~TooLong => Len(a) < LongLen /\ Len(Url) < LongLen
    BY <1>2, <2>1, Room DEF TooLong
  <2> QED
    BY <1>3, <2>2
<1>5. b \in Bytes /\ Len(b) = len
  BY <1>3 DEF Said
<1>6. Tells(b, connect, Double(ConnectTid),
            encode_object(ConnectItems(client.app_name, UrlOf(client), UrlOf(client))))
  BY <1>2, <1>3 DEF Said
<1>7. Spoken("client", StageOf("winAckSize"), b)
  BY <1>6, StageValues DEF Spoken, FromClient
<1>8. StageOf("winAckSize") = StageOf("connect") + 1
  BY StageValues
<1>9. "winAckSize" \in Turns
  BY DEF Turns
<1> QED
  BY <1>1, <1>4, <1>5, <1>7, <1>8, <1>9, WriteTurn

\* The releaseStream and the FCPublish of the client.
LEMMA AnnounceKeeps ==
    ASSUME CommandsInv, AnnounceStream
    PROVE  CommandsInv'
<1> DEFINE s == client.stream_name
           released == encode_release_stream(encode_release_stream_reserve(s), s, StartTid)
           published == encode_fc_publish(encode_fc_publish_reserve(s), s, StartTid)
<1>1. StageOf("createStream") = 6 /\ "createStream" \in Turns
  BY StageValues DEF Turns
<1>2. CASE Write("client", "createStream", encode_release_stream_reserve(s), released,
                 "createStream")
  <2>1. s \in Bytes /\ Len(s) < LongLen
    BY <1>1, <1>2, ShortNames
  <2>2. Told(released, encode_release_stream_reserve(s), releaseStream, Double(StartTid),
             encode_null \o encode_string(s))
    <3> HIDE DEF s
    <3> QED
      BY <2>1, ReleaseStreamTold
  <2> HIDE DEF released
  <2>3. Spoken("client", StageOf("createStream"), released)
    BY <1>1, <2>2 DEF Spoken, FromClient, Told
  <2>4. released \in Bytes /\ Len(released) = encode_release_stream_reserve(s) /\ WellFramed(released)
    BY <2>2 DEF Told
  <2> QED
    BY <1>1, <1>2, <2>3, <2>4, WriteTurn
<1>3. CASE Write("client", "createStream", encode_fc_publish_reserve(s), published,
                 "createStream")
  <2>1. s \in Bytes /\ Len(s) < LongLen
    BY <1>1, <1>3, ShortNames
  <2>2. Told(published, encode_fc_publish_reserve(s), FCPublish, Double(StartTid),
             encode_null \o encode_string(s))
    <3> HIDE DEF s
    <3> QED
      BY <2>1, FCPublishTold
  <2> HIDE DEF published
  <2>3. Spoken("client", StageOf("createStream"), published)
    BY <1>1, <2>2 DEF Spoken, FromClient, Told
  <2>4. published \in Bytes /\ Len(published) = encode_fc_publish_reserve(s) /\ WellFramed(published)
    BY <2>2 DEF Told
  <2> QED
    BY <1>1, <1>3, <2>3, <2>4, WriteTurn
<1> QED
  BY <1>2, <1>3 DEF AnnounceStream

\* The createStream of the client.
LEMMA CreateStreamKeeps ==
    ASSUME CommandsInv, do_write_create_stream
    PROVE  CommandsInv'
<1> DEFINE b == encode_create_stream(CreateStreamTid)
<1>1. Told(b, ENCODE_CREATE_STREAM_RESERVE, createStream, Double(CreateStreamTid), encode_null)
  BY CreateStreamTold
<1>2. Write("client", "createStream", ENCODE_CREATE_STREAM_RESERVE, b, "createStreamResult")
  BY DEF do_write_create_stream
<1> HIDE DEF b
<1>3. Spoken("client", StageOf("createStreamResult"), b)
  BY <1>1, StageValues DEF Spoken, FromClient, Told
<1>4. StageOf("createStreamResult") = StageOf("createStream") + 1
  BY StageValues
<1>5. "createStreamResult" \in Turns
  BY DEF Turns
<1>6. b \in Bytes /\ Len(b) = ENCODE_CREATE_STREAM_RESERVE /\ WellFramed(b)
  BY <1>1 DEF Told
<1> QED
  BY <1>2, <1>3, <1>4, <1>5, <1>6, WriteTurn
\* What a client writes with the stream id the server gave it.
LEMMA StreamIdWritten ==
    ASSUME CommandsInv, NEW len, NEW bytes, NEW then, Write("client", "start", len, bytes, then)
    PROVE  client.stream_id[8] = 1
<1>1. Stage = 8 /\ wire = Quiet
  BY StageValues DEF Stage, Write
<1>2. client.stream_id = Double(RTMP_MSID)
  BY <1>1 DEF CommandsInv, Progress, Done
<1>3. 1 \in Nat
  OBVIOUS
<1> QED
  BY <1>2, <1>3, DoubleIs DEF RTMP_MSID

\* The publish of the client.
LEMMA PublishKeeps ==
    ASSUME CommandsInv, do_write_publish
    PROVE  CommandsInv'
<1> DEFINE a == client.app_name
           s == client.stream_name
           m == client.stream_id[8]
           len == encode_publish_reserve(a, s)
           b == encode_publish(len, a, s, m, StartTid)
<1>1. client.type = "PUSH" /\ Write("client", "start", len, b, "onStatus")
  BY DEF do_write_publish
<1>2. StageOf("start") = 8 /\ StageOf("onStatus") = 9 /\ "onStatus" \in Turns
  BY StageValues DEF Turns
<1>3. a \in Bytes /\ Len(a) < LongLen /\ s \in Bytes /\ Len(s) < LongLen
  BY <1>1, <1>2, ShortNames
<1>4. m = 1
  BY <1>1, StreamIdWritten
<1> HIDE DEF m
<1>5. Told(b, len, publish, Double(StartTid), encode_null \o encode_string(s) \o encode_string(a))
  <2> HIDE DEF a, s
  <2>1. m \in Nat
    BY <1>4
  <2> QED
    BY <1>3, <2>1, PublishTold
<1> HIDE DEF b, len
<1>6. Spoken("client", StageOf("onStatus"), b)
  BY <1>1, <1>2, <1>5 DEF Spoken, FromClient, Told
<1>7. b \in Bytes /\ Len(b) = len /\ WellFramed(b)
  BY <1>5 DEF Told
<1> QED
  BY <1>1, <1>2, <1>6, <1>7, WriteTurn

\* The play of the client.
LEMMA PlayKeeps ==
    ASSUME CommandsInv, do_write_play
    PROVE  CommandsInv'
<1> DEFINE s == client.stream_name
           m == client.stream_id[8]
           len == encode_play_reserve(s)
           b == encode_play(len, s, m, StartTid)
<1>1. client.type = "PULL" /\ Write("client", "start", len, b, "onStatus")
  BY DEF do_write_play
<1>2. StageOf("start") = 8 /\ StageOf("onStatus") = 9 /\ "onStatus" \in Turns
  BY StageValues DEF Turns
<1>3. s \in Bytes /\ Len(s) < LongLen
  BY <1>1, <1>2, ShortNames
<1>4. m = 1
  BY <1>1, StreamIdWritten
<1> HIDE DEF m
<1>5. Told(b, len, play, Double(StartTid), encode_null \o encode_string(s))
  <2> HIDE DEF s
  <2>1. m \in Nat
    BY <1>4
  <2> QED
    BY <1>3, <2>1, PlayTold
<1> HIDE DEF b, len
<1>6. Spoken("client", StageOf("onStatus"), b)
  BY <1>1, <1>2, <1>5 DEF Spoken, FromClient, Told
<1>7. b \in Bytes /\ Len(b) = len /\ WellFramed(b)
  BY <1>5 DEF Told
<1> QED
  BY <1>1, <1>2, <1>6, <1>7, WriteTurn

\* The window of the server.
LEMMA WinAckSizeKeeps ==
    ASSUME CommandsInv, do_write_win_ack_size
    PROVE  CommandsInv'
<1> DEFINE b == encode_win_ack_size(WinAckSize)
<1>1. /\ b \in Bytes /\ Len(b) = ENCODE_CONTROL_RESERVE
      /\ MsgType(b) = WIN_ACK_SIZE /\ WellFramed(b)
  BY Controls
<1>2. Write("server", "winAckSize", ENCODE_CONTROL_RESERVE, b, "peerBandwidth")
  BY DEF do_write_win_ack_size
<1> HIDE DEF b
<1>3. Spoken("server", StageOf("peerBandwidth"), b)
  BY <1>1, StageValues DEF Spoken, FromServer
<1>4. StageOf("peerBandwidth") = StageOf("winAckSize") + 1
  BY StageValues
<1>5. "peerBandwidth" \in Turns
  BY DEF Turns
<1> QED
  BY <1>1, <1>2, <1>3, <1>4, <1>5, WriteTurn

\* The bandwidth of the server.
LEMMA PeerBandwidthKeeps ==
    ASSUME CommandsInv, do_write_peer_bandwidth
    PROVE  CommandsInv'
<1> DEFINE b == encode_peer_bandwidth(PeerBandwidth)
<1>1. /\ b \in Bytes /\ Len(b) = ENCODE_PEER_BANDWIDTH
      /\ MsgType(b) = BANDWIDTH /\ WellFramed(b)
  BY Controls
<1>2. Write("server", "peerBandwidth", ENCODE_PEER_BANDWIDTH, b, "chunkSize")
  BY DEF do_write_peer_bandwidth
<1> HIDE DEF b
<1>3. Spoken("server", StageOf("chunkSize"), b)
  BY <1>1, StageValues DEF Spoken, FromServer
<1>4. StageOf("chunkSize") = StageOf("peerBandwidth") + 1
  BY StageValues
<1>5. "chunkSize" \in Turns
  BY DEF Turns
<1> QED
  BY <1>1, <1>2, <1>3, <1>4, <1>5, WriteTurn

\* The chunk size of the server.
LEMMA ChunkSizeKeeps ==
    ASSUME CommandsInv, do_write_chunk_size
    PROVE  CommandsInv'
<1> DEFINE b == encode_chunk_size(LocalChunkSize)
<1>1. b \in Bytes /\ Len(b) = ENCODE_CONTROL_RESERVE /\ TellsSize(b) /\ WellFramed(b)
  BY Controls
<1>2. Write("server", "chunkSize", ENCODE_CONTROL_RESERVE, b, "connectResult")
  BY DEF do_write_chunk_size
<1> HIDE DEF b
<1>3. Spoken("server", StageOf("connectResult"), b)
  BY <1>1, StageValues DEF Spoken, FromServer
<1>4. StageOf("connectResult") = StageOf("chunkSize") + 1
  BY StageValues
<1>5. "connectResult" \in Turns
  BY DEF Turns
<1> QED
  BY <1>1, <1>2, <1>3, <1>4, <1>5, WriteTurn

\* The answer to connect.
LEMMA ConnectResultKeeps ==
    ASSUME CommandsInv, do_write_connect_result
    PROVE  CommandsInv'
<1> DEFINE t == server.curr_tid
           b == encode_connect_result(t)
<1>1. Write("server", "connectResult", ENCODE_CONNECT_RESULT_RESERVE, b, "createStream")
  BY DEF do_write_connect_result
<1>2. /\ StageOf("connectResult") = 5 /\ StageOf("createStream") = 6
      /\ "createStream" \in Turns
  BY StageValues DEF Turns
<1>3. t = Double(ConnectTid)
  <2>1. ~TooLong
    BY <1>1, <1>2, ShortNames
  <2>2. Stage = 5
    BY <1>1, <1>2 DEF Stage, Write
  <2> QED
    BY <2>1, <2>2 DEF CommandsInv, Progress, Done
<1>4. t \in Bytes /\ Len(t) = 8
  BY <1>3, DoubleIs DEF ConnectTid
<1> HIDE DEF t
<1>5. Told(b, ENCODE_CONNECT_RESULT_RESERVE, _result, t,
           encode_object(ResultProperties) \o encode_object(ResultInfo))
  BY <1>4, ConnectResultTold
<1> HIDE DEF b
<1>6. Spoken("server", StageOf("createStream"), b)
  BY <1>2, <1>3, <1>5 DEF Spoken, FromServer, Told
<1>7. b \in Bytes /\ Len(b) = ENCODE_CONNECT_RESULT_RESERVE /\ WellFramed(b)
  BY <1>5 DEF Told
<1> QED
  BY <1>1, <1>2, <1>6, <1>7, WriteTurn

\* The answer to createStream.
LEMMA CreateStreamResultKeeps ==
    ASSUME CommandsInv, do_write_create_stream_result
    PROVE  CommandsInv'
<1> DEFINE t == server.curr_tid
           b == encode_create_stream_result(t)
<1>1. Write("server", "createStreamResult", ENCODE_CREATE_STREAM_RESULT_RESERVE, b, "start")
  BY DEF do_write_create_stream_result
<1>2. StageOf("createStreamResult") = 7 /\ StageOf("start") = 8 /\ "start" \in Turns
  BY StageValues DEF Turns
<1>3. t = Double(CreateStreamTid)
  <2>1. Stage = 7 /\ wire = Quiet
    BY <1>1, <1>2 DEF Stage, Write
  <2> QED
    BY <2>1 DEF CommandsInv, Progress, Done
<1>4. t \in Bytes /\ Len(t) = 8
  BY <1>3, DoubleIs DEF CreateStreamTid
<1> HIDE DEF t
<1>5. Told(b, ENCODE_CREATE_STREAM_RESULT_RESERVE, _result, t,
           encode_null \o encode_number(Double(RTMP_MSID)))
  BY <1>4, CreateStreamResultTold
<1> HIDE DEF b
<1>6. Spoken("server", StageOf("start"), b)
  BY <1>2, <1>3, <1>5 DEF Spoken, FromServer, Told
<1>7. b \in Bytes /\ Len(b) = ENCODE_CREATE_STREAM_RESULT_RESERVE /\ WellFramed(b)
  BY <1>5 DEF Told
<1> QED
  BY <1>1, <1>2, <1>6, <1>7, WriteTurn

\* The status of a publisher.
LEMMA PublishStatusKeeps ==
    ASSUME CommandsInv, do_write_on_status_publish
    PROVE  CommandsInv'
<1> DEFINE b == encode_on_status_publish(1)
<1>1. Write("server", "onStatus", ENCODE_ON_STATUS_PUBLISH_RESERVE, b, "media")
  BY DEF do_write_on_status_publish
<1>2. StageOf("onStatus") = 9 /\ StageOf("media") = 10 /\ "media" \in Turns
  BY StageValues DEF Turns
<1>3. client.type = "PUSH"
  <2>1. Stage = 9 /\ server.type = "PUB"
    BY <1>1, <1>2 DEF Stage, Write, do_write_on_status_publish
  <2>2. Stage # 10
    BY <2>1
  <2> QED
    BY <2>1, <2>2 DEF CommandsInv, Progress
<1>4. Told(b, ENCODE_ON_STATUS_PUBLISH_RESERVE, onStatus, Double(0),
           encode_null \o encode_object(StatusItems(PublishStart, Word(1, 16))))
  BY StatusTold
<1> HIDE DEF b
<1>5. Spoken("server", StageOf("media"), b)
  BY <1>2, <1>3, <1>4 DEF Spoken, FromServer, Told
<1>6. b \in Bytes /\ Len(b) = ENCODE_ON_STATUS_PUBLISH_RESERVE /\ WellFramed(b)
  BY <1>4 DEF Told
<1> QED
  BY <1>1, <1>2, <1>5, <1>6, WriteTurn

\* The status of a player.
LEMMA PlayStatusKeeps ==
    ASSUME CommandsInv, do_write_on_status_play
    PROVE  CommandsInv'
<1> DEFINE b == encode_on_status_play(1)
<1>1. Write("server", "onStatus", ENCODE_ON_STATUS_PLAY_RESERVE, b, "media")
  BY DEF do_write_on_status_play
<1>2. StageOf("onStatus") = 9 /\ StageOf("media") = 10 /\ "media" \in Turns
  BY StageValues DEF Turns
<1>3. client.type = "PULL"
  <2>1. Stage = 9 /\ server.type = "SERVER" /\ wire = Quiet
    BY <1>1, <1>2 DEF Stage, Write, do_write_on_status_play
  <2>2. client.type # "PUSH"
    BY <2>1 DEF CommandsInv, Progress, Done
  <2> QED
    BY <2>2 DEF CommandsInv, CommandsType
<1>4. Told(b, ENCODE_ON_STATUS_PLAY_RESERVE, onStatus, Double(0),
           encode_null \o encode_object(StatusItems(PlayStart, Word(1, 10))))
  BY StatusTold
<1> HIDE DEF b
<1>5. Spoken("server", StageOf("media"), b)
  BY <1>2, <1>3, <1>4 DEF Spoken, FromServer, Told
<1>6. b \in Bytes /\ Len(b) = ENCODE_ON_STATUS_PLAY_RESERVE /\ WellFramed(b)
  BY <1>4 DEF Told
<1> QED
  BY <1>1, <1>2, <1>5, <1>6, WriteTurn
\* The names of commands and of properties that are read at the same place differ.
LEMMA NamesDiffer ==
    /\ connect # releaseStream /\ connect # FCPublish /\ connect # createStream
    /\ connect # publish /\ connect # play
    /\ releaseStream # createStream /\ releaseStream # publish /\ releaseStream # play
    /\ FCPublish # createStream /\ FCPublish # publish /\ FCPublish # play
    /\ createStream # publish /\ createStream # play
    /\ publish # play
    /\ _result # onStatus
    /\ code # description /\ code # objectEncoding
    /\ app # swfUrl /\ app # tcUrl
<1>1. /\ 1 \in Nat /\ 2 \in Nat /\ 3 \in Nat /\ 4 \in Nat /\ 5 \in Nat /\ 6 \in Nat /\ 7 \in Nat
      /\ 8 \in Nat /\ 9 \in Nat /\ 11 \in Nat /\ 12 \in Nat /\ 13 \in Nat /\ 14 \in Nat
  OBVIOUS
<1>2. connect # releaseStream
  <2>1. 7 # 13 \/ (1 # 1 /\ 7 > 0)
    OBVIOUS
  <2> QED
    BY <1>1, <2>1, WordsDiffer DEF connect, releaseStream
<1>3. connect # FCPublish
  <2>1. 7 # 9 \/ (1 # 1 /\ 7 > 0)
    OBVIOUS
  <2> QED
    BY <1>1, <2>1, WordsDiffer DEF connect, FCPublish
<1>4. connect # createStream
  <2>1. 7 # 12 \/ (1 # 1 /\ 7 > 0)
    OBVIOUS
  <2> QED
    BY <1>1, <2>1, WordsDiffer DEF connect, createStream
<1>5. connect # publish
  <2>1. 7 # 7 \/ (1 # 3 /\ 7 > 0)
    OBVIOUS
  <2> QED
    BY <1>1, <2>1, WordsDiffer DEF connect, publish
<1>6. connect # play
  <2>1. 7 # 4 \/ (1 # 1 /\ 7 > 0)
    OBVIOUS
  <2> QED
    BY <1>1, <2>1, WordsDiffer DEF connect, play
<1>7. releaseStream # createStream
  <2>1. 13 # 12 \/ (1 # 1 /\ 13 > 0)
    OBVIOUS
  <2> QED
    BY <1>1, <2>1, WordsDiffer DEF releaseStream, createStream
<1>8. releaseStream # publish
  <2>1. 13 # 7 \/ (1 # 3 /\ 13 > 0)
    OBVIOUS
  <2> QED
    BY <1>1, <2>1, WordsDiffer DEF releaseStream, publish
<1>9. releaseStream # play
  <2>1. 13 # 4 \/ (1 # 1 /\ 13 > 0)
    OBVIOUS
  <2> QED
    BY <1>1, <2>1, WordsDiffer DEF releaseStream, play
<1>10. FCPublish # createStream
  <2>1. 9 # 12 \/ (1 # 1 /\ 9 > 0)
    OBVIOUS
  <2> QED
    BY <1>1, <2>1, WordsDiffer DEF FCPublish, createStream
<1>11. FCPublish # publish
  <2>1. 9 # 7 \/ (1 # 3 /\ 9 > 0)
    OBVIOUS
  <2> QED
    BY <1>1, <2>1, WordsDiffer DEF FCPublish, publish
<1>12. FCPublish # play
  <2>1. 9 # 4 \/ (1 # 1 /\ 9 > 0)
    OBVIOUS
  <2> QED
    BY <1>1, <2>1, WordsDiffer DEF FCPublish, play
<1>13. createStream # publish
  <2>1. 12 # 7 \/ (1 # 3 /\ 12 > 0)
    OBVIOUS
  <2> QED
    BY <1>1, <2>1, WordsDiffer DEF createStream, publish
<1>14. createStream # play
  <2>1. 12 # 4 \/ (1 # 1 /\ 12 > 0)
    OBVIOUS
  <2> QED
    BY <1>1, <2>1, WordsDiffer DEF createStream, play
<1>15. publish # play
  <2>1. 7 # 4 \/ (3 # 1 /\ 7 > 0)
    OBVIOUS
  <2> QED
    BY <1>1, <2>1, WordsDiffer DEF publish, play
<1>16. _result # onStatus
  <2>1. 7 # 8 \/ (2 # 1 /\ 7 > 0)
    OBVIOUS
  <2> QED
    BY <1>1, <2>1, WordsDiffer DEF _result, onStatus
<1>17. code # description
  <2>1. 4 # 11 \/ (2 # 1 /\ 4 > 0)
    OBVIOUS
  <2> QED
    BY <1>1, <2>1, WordsDiffer DEF code, description
<1>18. code # objectEncoding
  <2>1. 4 # 14 \/ (2 # 1 /\ 4 > 0)
    OBVIOUS
  <2> QED
    BY <1>1, <2>1, WordsDiffer DEF code, objectEncoding
<1>19. app # swfUrl
  <2>1. 3 # 6 \/ (1 # 1 /\ 3 > 0)
    OBVIOUS
  <2> QED
    BY <1>1, <2>1, WordsDiffer DEF app, swfUrl
<1>20. app # tcUrl
  <2>1. 3 # 5 \/ (1 # 1 /\ 3 > 0)
    OBVIOUS
  <2> QED
    BY <1>1, <2>1, WordsDiffer DEF app, tcUrl
<1> QED
  BY <1>2, <1>3, <1>4, <1>5, <1>6, <1>7, <1>8, <1>9, <1>10, <1>11,
     <1>12, <1>13, <1>14, <1>15, <1>16, <1>17, <1>18, <1>19, <1>20

-----------------------------------------------------------------------------
(* What a session hears *)

\* What is read of a type is what the other session said in this turn.
LEMMA Heard ==
    ASSUME CommandsInv, NEW s \in {"client", "server"}, NEW type, Reads(s, type)
    PROVE  /\ wire # Quiet /\ wire' = Quiet /\ asserted = FALSE /\ MsgType(wire.bytes) = type
           /\ \/ s = "server" /\ FromClient(client, offered, Stage, wire.bytes)
              \/ s = "client" /\ FromServer(client, Stage, wire.bytes)
              \/ s = "client" /\ type = USER_CONTROL /\ Stage = 10
<1>1. /\ wire.from \in (IF s = "server" THEN {"client"} ELSE {"server", "group"})
      /\ MsgType(wire.bytes) = type /\ ~asserted /\ wire' = Quiet
  BY DEF Reads
<1>2. wire # Quiet
  BY <1>1 DEF Quiet
<1>3. asserted = FALSE
  BY <1>1 DEF CommandsInv, CommandsType
<1>4. \/ wire.from = "client" /\ FromClient(client, offered, Stage, wire.bytes)
      \/ wire.from = "server" /\ FromServer(client, Stage, wire.bytes)
      \/ wire.from = "group" /\ Stage = 10 /\ MsgType(wire.bytes) = USER_CONTROL
  BY <1>2 DEF CommandsInv, OnWire
<1> QED
  BY <1>1, <1>2, <1>3, <1>4

\* The types of messages differ.
LEMMA TypesDiffer ==
    /\ COMMAND_MESSAGE = 20 /\ DATA_MESSAGE = 18 /\ SET_CHUNK_SIZE = 1 /\ USER_CONTROL = 4
    /\ WIN_ACK_SIZE = 5 /\ BANDWIDTH = 6
  BY DEF COMMAND_MESSAGE, DATA_MESSAGE, SET_CHUNK_SIZE, USER_CONTROL, WIN_ACK_SIZE, BANDWIDTH

\* A command that is heard is the one that was told.
LEMMA CommandHeard ==
    ASSUME CommandsInv, NEW s \in {"client", "server"}, NEW name, ReadsCommand(s, name)
    PROVE  /\ wire # Quiet /\ wire' = Quiet /\ asserted = FALSE
           /\ MsgType(wire.bytes) = COMMAND_MESSAGE
           /\ s = "server" => FromClient(client, offered, Stage, wire.bytes)
           /\ s = "client" => FromServer(client, Stage, wire.bytes)
           /\ \A n, t, arguments : Tells(wire.bytes, n, t, arguments) =>
                name = n /\ tid.value.data = t /\ args = arguments
           /\ turn' = turn /\ write_buf_' = write_buf_ /\ offered' = offered /\ meta' = meta
<1>1. /\ Reads(s, COMMAND_MESSAGE) /\ cmd.value.data = name
      /\ turn' = turn /\ write_buf_' = write_buf_ /\ offered' = offered /\ meta' = meta
  BY DEF ReadsCommand
<1>2. COMMAND_MESSAGE # USER_CONTROL
  BY TypesDiffer
<1>3. /\ wire # Quiet /\ wire' = Quiet /\ asserted = FALSE
      /\ MsgType(wire.bytes) = COMMAND_MESSAGE
      /\ \/ s = "server" /\ FromClient(client, offered, Stage, wire.bytes)
         \/ s = "client" /\ FromServer(client, Stage, wire.bytes)
         \/ s = "client" /\ COMMAND_MESSAGE = USER_CONTROL /\ Stage = 10
  BY <1>1, Heard
<1>4. cmd = CmdIn(wire.bytes) /\ tid = TidIn(wire.bytes) /\ args = ArgsIn(wire.bytes)
  BY DEF cmd, tid, args, body, CmdIn, TidIn, ArgsIn
<1>5. \A n, t, arguments : Tells(wire.bytes, n, t, arguments) =>
        name = n /\ tid.value.data = t /\ args = arguments
  BY <1>1, <1>4 DEF Tells
<1>6. s = "server" => FromClient(client, offered, Stage, wire.bytes)
  BY <1>2, <1>3
<1>7. s = "client" => FromServer(client, Stage, wire.bytes)
  BY <1>2, <1>3
<1> QED
  BY <1>1, <1>3, <1>5, <1>6, <1>7

\* What the server hears: each command, in its turn, with the client's names.
LEMMA ServerHears ==
    ASSUME CommandsInv, NEW name, ReadsCommand("server", name)
    PROVE  /\ name = connect =>
                /\ Stage = 2 /\ tid.value.data = Double(ConnectTid)
                /\ args = encode_object(ConnectItems(client.app_name, UrlOf(client),
                                                     UrlOf(client)))
           /\ name \in {releaseStream, FCPublish} => Stage = 6
           /\ name = createStream => Stage = 7 /\ tid.value.data = Double(CreateStreamTid)
           /\ name = publish =>
                /\ Stage = 9 /\ client.type = "PUSH"
                /\ args = encode_null \o encode_string(client.stream_name)
                                      \o encode_string(client.app_name)
           /\ name = play =>
                /\ Stage = 9 /\ client.type = "PULL"
                /\ args = encode_null \o encode_string(client.stream_name)
<1> DEFINE b == wire.bytes
<1>1. /\ MsgType(b) = COMMAND_MESSAGE
      /\ FromClient(client, offered, Stage, b)
      /\ \A n, t, arguments : Tells(b, n, t, arguments) =>
            name = n /\ tid.value.data = t /\ args = arguments
  BY CommandHeard
<1>2. ~TellsSize(b) /\ ~TellsMeta(b, offered)
  BY <1>1, TypesDiffer DEF TellsSize, TellsMeta
<1> DEFINE connected == encode_object(ConnectItems(client.app_name, UrlOf(client),
                                                   UrlOf(client)))
           played == encode_null \o encode_string(client.stream_name)
           published == encode_null \o encode_string(client.stream_name)
                                    \o encode_string(client.app_name)
<1>3. \/ Stage = 2 /\ Tells(b, connect, Double(ConnectTid), connected)
      \/ Stage = 6 /\ \E n \in {releaseStream, FCPublish} :
                        Tells(b, n, Double(StartTid), played)
      \/ Stage = 7 /\ Tells(b, createStream, Double(CreateStreamTid), encode_null)
      \/ /\ Stage = 9 /\ client.type = "PUSH"
         /\ Tells(b, publish, Double(StartTid), published)
      \/ Stage = 9 /\ client.type = "PULL" /\ Tells(b, play, Double(StartTid), played)
  BY <1>1, <1>2 DEF FromClient
<1> HIDE DEF b, connected, played, published
<1>4. \/ Stage = 2 /\ name = connect /\ tid.value.data = Double(ConnectTid) /\ args = connected
      \/ Stage = 6 /\ name \in {releaseStream, FCPublish}
      \/ Stage = 7 /\ name = createStream /\ tid.value.data = Double(CreateStreamTid)
      \/ Stage = 9 /\ client.type = "PUSH" /\ name = publish /\ args = published
      \/ Stage = 9 /\ client.type = "PULL" /\ name = play /\ args = played
  <2>1. CASE Stage = 2 /\ Tells(b, connect, Double(ConnectTid), connected)
    BY <1>1, <2>1
  <2>2. CASE Stage = 6 /\ \E n \in {releaseStream, FCPublish} :
                            Tells(b, n, Double(StartTid), played)
    BY <1>1, <2>2
  <2>3. CASE Stage = 7 /\ Tells(b, createStream, Double(CreateStreamTid), encode_null)
    BY <1>1, <2>3
  <2>4. CASE /\ Stage = 9 /\ client.type = "PUSH"
             /\ Tells(b, publish, Double(StartTid), published)
    BY <1>1, <2>4
  <2>5. CASE Stage = 9 /\ client.type = "PULL" /\ Tells(b, play, Double(StartTid), played)
    BY <1>1, <2>5
  <2> QED
    BY <1>3, <2>1, <2>2, <2>3, <2>4, <2>5
<1>5. name = connect => Stage = 2 /\ tid.value.data = Double(ConnectTid) /\ args = connected
  BY <1>4, NamesDiffer
<1>6. name \in {releaseStream, FCPublish} => Stage = 6
  BY <1>4, NamesDiffer
<1>7. name = createStream => Stage = 7 /\ tid.value.data = Double(CreateStreamTid)
  BY <1>4, NamesDiffer
<1>8. name = publish => Stage = 9 /\ client.type = "PUSH" /\ args = published
  BY <1>4, NamesDiffer
<1>9. name = play => Stage = 9 /\ client.type = "PULL" /\ args = played
  BY <1>4, NamesDiffer
<1> QED
  BY <1>5, <1>6, <1>7, <1>8, <1>9 DEF connected, published, played

\* What the client hears.
LEMMA ClientHears ==
    ASSUME CommandsInv, NEW name, ReadsCommand("client", name)
    PROVE  /\ name = _result =>
                \/ /\ Stage = 6 /\ tid.value.data = Double(ConnectTid)
                   /\ args = encode_object(ResultProperties) \o encode_object(ResultInfo)
                \/ /\ Stage = 8 /\ tid.value.data = Double(CreateStreamTid)
                   /\ args = encode_null \o encode_number(Double(RTMP_MSID))
           /\ name = onStatus =>
                /\ Stage = 10 /\ tid.value.data = Double(0)
                /\ \/ /\ client.type = "PUSH"
                      /\ args = encode_null
                                \o encode_object(StatusItems(PublishStart, Word(1, 16)))
                   \/ /\ client.type = "PULL"
                      /\ args = encode_null
                                \o encode_object(StatusItems(PlayStart, Word(1, 10)))
<1> DEFINE b == wire.bytes
<1>1. /\ MsgType(b) = COMMAND_MESSAGE
      /\ FromServer(client, Stage, b)
      /\ \A n, t, arguments : Tells(b, n, t, arguments) =>
            name = n /\ tid.value.data = t /\ args = arguments
  BY CommandHeard
<1>2. ~TellsSize(b) /\ MsgType(b) \notin {WIN_ACK_SIZE, BANDWIDTH}
  BY <1>1, TypesDiffer DEF TellsSize
<1> DEFINE connected == encode_object(ResultProperties) \o encode_object(ResultInfo)
           created == encode_null \o encode_number(Double(RTMP_MSID))
           published == encode_null \o encode_object(StatusItems(PublishStart, Word(1, 16)))
           played == encode_null \o encode_object(StatusItems(PlayStart, Word(1, 10)))
<1>3. \/ Stage = 6 /\ Tells(b, _result, Double(ConnectTid), connected)
      \/ Stage = 8 /\ Tells(b, _result, Double(CreateStreamTid), created)
      \/ Stage = 10 /\ client.type = "PUSH" /\ Tells(b, onStatus, Double(0), published)
      \/ Stage = 10 /\ client.type = "PULL" /\ Tells(b, onStatus, Double(0), played)
  BY <1>1, <1>2 DEF FromServer
<1> HIDE DEF b, connected, created, published, played
<1>4. \/ Stage = 6 /\ name = _result /\ tid.value.data = Double(ConnectTid) /\ args = connected
      \/ Stage = 8 /\ name = _result /\ tid.value.data = Double(CreateStreamTid) /\ args = created
      \/ /\ Stage = 10 /\ client.type = "PUSH" /\ name = onStatus
         /\ tid.value.data = Double(0) /\ args = published
      \/ /\ Stage = 10 /\ client.type = "PULL" /\ name = onStatus
         /\ tid.value.data = Double(0) /\ args = played
  <2>1. CASE Stage = 6 /\ Tells(b, _result, Double(ConnectTid), connected)
    BY <1>1, <2>1
  <2>2. CASE Stage = 8 /\ Tells(b, _result, Double(CreateStreamTid), created)
    BY <1>1, <2>2
  <2>3. CASE Stage = 10 /\ client.type = "PUSH" /\ Tells(b, onStatus, Double(0), published)
    BY <1>1, <2>3
  <2>4. CASE Stage = 10 /\ client.type = "PULL" /\ Tells(b, onStatus, Double(0), played)
    BY <1>1, <2>4
  <2> QED
    BY <1>3, <2>1, <2>2, <2>3, <2>4
<1>5. name = _result =>
        \/ Stage = 6 /\ tid.value.data = Double(ConnectTid) /\ args = connected
        \/ Stage = 8 /\ tid.value.data = Double(CreateStreamTid) /\ args = created
  BY <1>4, NamesDiffer
<1>6. name = onStatus =>
        /\ Stage = 10 /\ tid.value.data = Double(0)
        /\ \/ client.type = "PUSH" /\ args = published
           \/ client.type = "PULL" /\ args = played
  BY <1>4, NamesDiffer
<1> QED
  BY <1>5, <1>6 DEF connected, created, published, played
-----------------------------------------------------------------------------
(* Media *)

\* What an empty buffer is overwritten with is sent.
LEMMA SentFresh ==
    ASSUME NEW bytes \in Bytes
    PROVE  Sent(<<>>, bytes, Len(bytes)) = bytes
<1>1. <<>> \in Bytes
  BY DEF Bytes
<1> QED
  BY <1>1, SentAll

\* The begin or the end of a stream keeps the invariant.
LEMMA TellSubscriberKeeps ==
    ASSUME CommandsInv, TellSubscriber
    PROVE  CommandsInv'
<1>1. PICK b \in {encode_user_control_stream_begin, encode_user_control_stream_eof} :
        wire' = [from |-> "group", bytes |-> Sent(<<>>, b, ENCODE_USER_CONTROL_RESERVE)]
  BY DEF TellSubscriber
<1>2. /\ b \in Bytes /\ Len(b) = ENCODE_USER_CONTROL_RESERVE
      /\ MsgType(b) = USER_CONTROL /\ WellFramed(b)
  BY Controls
<1>3. Sent(<<>>, b, Len(b)) = b
  BY <1>2, SentFresh
<1>4. wire' = [from |-> "group", bytes |-> b]
  BY <1>1, <1>2, <1>3
<1>5. wire'.from = "group" /\ wire'.bytes = b /\ wire' # Quiet
  BY <1>4 DEF Quiet
<1>6. /\ turn = "media" /\ turn' = turn /\ wire = Quiet /\ write_buf_' = write_buf_
      /\ client' = client /\ server' = server /\ offered' = offered /\ meta' = meta
      /\ asserted' = asserted
  BY DEF TellSubscriber
<1>7. Stage = 10 /\ Stage' = 10
  BY <1>6, StageValues DEF Stage
<1>8. TooLong' = TooLong
  BY <1>6, SameUrl
<1>9. CommandsType'
  BY <1>6 DEF CommandsInv, CommandsType
<1>10. Progress'
  BY <1>6, <1>7, <1>8 DEF CommandsInv, Progress, Done
<1>11. OnWire'
  BY <1>2, <1>5, <1>7 DEF OnWire
<1>12. Framed'
  BY <1>2, <1>5, <1>8 DEF Framed, WellFramed, body
<1>13. MetaDataKept'
  BY <1>6 DEF CommandsInv, MetaDataKept
<1> QED
  BY <1>9, <1>10, <1>11, <1>12, <1>13 DEF CommandsInv

\* A metadata message keeps the invariant.
LEMMA SendMetaDataKeeps ==
    ASSUME CommandsInv, SendMetaData
    PROVE  CommandsInv'
<1>1. PICK n \in 0 .. MaxProperties :
        \E props \in [1 .. n -> Properties], framed \in BOOLEAN, array \in BOOLEAN :
          LET items == MetaItems(props, framed, array) IN
          /\ Len(items) < Base * Base * Base
          /\ offered' = props
          /\ wire' = [from |-> "client", bytes |-> MetaMessage(items)]
  BY DEF SendMetaData
<1>2. PICK props \in [1 .. n -> Properties], framed \in BOOLEAN, array \in BOOLEAN :
        /\ Len(MetaItems(props, framed, array)) < Base * Base * Base
        /\ offered' = props
        /\ wire' = [from |-> "client", bytes |-> MetaMessage(MetaItems(props, framed, array))]
  BY <1>1
<1>3. props \in Seq(Properties)
  <2>1. n \in Nat
    BY CommandsAssumption
  <2> QED
    BY <1>2, <2>1
<1> DEFINE b == MetaMessage(MetaItems(props, framed, array))
<1>4. TellsMeta(b, props) /\ WellFramed(b)
  <2>1. Len(MetaItems(props, framed, array)) < Base * Base * Base
    BY <1>2
  <2> QED
    BY <1>2, <1>3, <2>1, MetaMessageTells
<1>5. wire' = [from |-> "client", bytes |-> b] /\ offered' = props
  BY <1>2
<1> HIDE DEF b
<1>6. wire'.from = "client" /\ wire'.bytes = b /\ wire' # Quiet
  BY <1>5 DEF Quiet
<1>7. /\ turn = "media" /\ turn' = turn /\ wire = Quiet /\ write_buf_' = write_buf_
      /\ client' = client /\ server' = server /\ meta = NoMeta /\ meta' = meta
      /\ asserted' = asserted
  BY DEF SendMetaData
<1>8. Stage = 10 /\ Stage' = 10
  BY <1>7, StageValues DEF Stage
<1>9. TooLong' = TooLong
  BY <1>7, SameUrl
<1>10. CommandsType'
  BY <1>7 DEF CommandsInv, CommandsType
<1>11. Progress'
  BY <1>7, <1>8, <1>9 DEF CommandsInv, Progress, Done
<1>12. OnWire'
  BY <1>4, <1>5, <1>6, <1>8 DEF OnWire, FromClient
<1>13. Framed'
  BY <1>4, <1>6, <1>9 DEF Framed, WellFramed, body
<1>14. MetaDataKept'
  BY <1>7 DEF MetaDataKept
<1> QED
  BY <1>10, <1>11, <1>12, <1>13, <1>14 DEF CommandsInv

\* The server that becomes a subscriber keeps the invariant.
LEMMA OnStatusPlayWrittenKeeps ==
    ASSUME CommandsInv, OnStatusPlayWritten
    PROVE  CommandsInv'
<1>1. /\ turn = "media" /\ server.type = "SERVER" /\ turn' = turn /\ wire' = wire
      /\ write_buf_' = write_buf_ /\ server' = [server EXCEPT !.type = "SUB"]
      /\ client' = client /\ offered' = offered /\ meta' = meta /\ asserted' = asserted
  BY DEF OnStatusPlayWritten
<1>2. Stage = 10 /\ Stage' = 10
  BY <1>1, StageValues DEF Stage
<1>3. TooLong' = TooLong
  BY <1>1, SameUrl
<1>4. CommandsType /\ Progress /\ OnWire /\ Framed /\ MetaDataKept
  BY DEF CommandsInv
<1>5. server \in [type : {"SERVER", "PUB", "SUB"}, app_name : Bytes, stream_name : Bytes,
                  curr_tid : Bytes, chunk_size : Nat]
  BY <1>4 DEF CommandsType
<1>6. /\ server'.type = "SUB" /\ server'.app_name = server.app_name
      /\ server'.stream_name = server.stream_name /\ server'.curr_tid = server.curr_tid
      /\ server'.chunk_size = server.chunk_size
      /\ server' \in [type : {"SERVER", "PUB", "SUB"}, app_name : Bytes, stream_name : Bytes,
                      curr_tid : Bytes, chunk_size : Nat]
  BY <1>1, <1>5
<1>7. CommandsType'
  BY <1>1, <1>4, <1>6 DEF CommandsType
<1>8. \A k : Done(k)' <=> Done(k)
  BY <1>1, <1>2 DEF Done
<1>9. ~(Done(9) /\ client.type = "PUSH")
  BY <1>1, <1>4 DEF Progress
<1>10. Progress'
  <2>1. (server.type \in IF Done(9) /\ client.type = "PUSH" THEN {"PUB"}
                         ELSE IF Stage = 10 THEN {"SERVER", "SUB"} ELSE {"SERVER"})'
    BY <1>1, <1>2, <1>6, <1>8, <1>9
  <2> QED
    BY <1>1, <1>2, <1>3, <1>4, <1>6, <1>8, <2>1 DEF Progress
<1>11. OnWire'
  BY <1>1, <1>2, <1>4 DEF OnWire
<1>12. Framed'
  BY <1>1, <1>3, <1>4 DEF Framed, body
<1>13. MetaDataKept'
  BY <1>1, <1>4 DEF MetaDataKept
<1> QED
  BY <1>7, <1>10, <1>11, <1>12, <1>13 DEF CommandsInv

-----------------------------------------------------------------------------
(* Reading *)

\* With nothing on the wire, the sessions' own part of the invariant is enough.
LEMMA ReadKeeps ==
    ASSUME wire' = Quiet, CommandsType', Progress', MetaDataKept'
    PROVE  CommandsInv'
<1>1. OnWire'
  BY DEF OnWire
<1>2. Framed'
  BY DEF Framed
<1> QED
  BY <1>1, <1>2 DEF CommandsInv

\* What was under way has been read: the turn's message is done.
LEMMA ReadDone ==
    ASSUME CommandsInv, wire # Quiet, wire' = Quiet, turn' = turn
    PROVE  /\ Stage' = Stage /\ Stage \in 0 .. 10
           /\ \A k \in 0 .. 10 : (Done(k) <=> Stage > k) /\ (Done(k)' <=> Stage >= k)
<1>1. Stage' = Stage
  BY DEF Stage
<1>2. Stage \in 0 .. 10
  BY StageIs DEF CommandsInv, CommandsType, Stage
<1> QED
  BY <1>1, <1>2 DEF Done

\* A message whose reading changes nothing keeps the invariant, in a turn that no
\* session's state waits for.
LEMMA ReadAndDropped ==
    ASSUME CommandsInv, wire # Quiet, wire' = Quiet, turn' = turn, write_buf_' = write_buf_,
           client' = client, server' = server, offered' = offered, meta' = meta,
           asserted' = asserted, Stage \notin {1, 2, 5, 7, 8, 9}
    PROVE  CommandsInv'
<1>1. /\ Stage' = Stage /\ Stage \in 0 .. 10
      /\ \A k \in 0 .. 10 : (Done(k) <=> Stage > k) /\ (Done(k)' <=> Stage >= k)
  BY ReadDone
<1>2. \A k \in {1, 2, 5, 7, 8, 9} : Done(k)' <=> Done(k)
  BY <1>1
<1>3. TooLong' = TooLong
  BY SameUrl
<1>4. CommandsType /\ Progress /\ MetaDataKept
  BY DEF CommandsInv
<1>5. CommandsType'
  BY <1>4 DEF CommandsType
<1>6. Progress'
  BY <1>1, <1>2, <1>3, <1>4 DEF Progress
<1>7. MetaDataKept'
  BY <1>4 DEF MetaDataKept
<1> QED
  BY <1>5, <1>6, <1>7, ReadKeeps
\* The chunk sizes and the messages without an effect keep the invariant.
LEMMA ControlKeeps ==
    ASSUME CommandsInv, base_protocol_control_message_handler
    PROVE  CommandsInv'
<1>1. turn' = turn /\ write_buf_' = write_buf_ /\ offered' = offered /\ meta' = meta
      /\ asserted' = asserted
  BY DEF base_protocol_control_message_handler
<1>2. CommandsType /\ Progress /\ MetaDataKept
  BY DEF CommandsInv
<1>3. MetaDataKept'
  BY <1>1, <1>2 DEF MetaDataKept
<1>4. LocalChunkSize \in Nat
  BY CommandsAssumption
<1>5. CASE /\ Reads("server", SET_CHUNK_SIZE)
           /\ server' = [server EXCEPT !.chunk_size = decode_int32(body).value]
           /\ client' = client
  <2>1. /\ wire # Quiet /\ wire' = Quiet /\ MsgType(wire.bytes) = SET_CHUNK_SIZE
        /\ FromClient(client, offered, Stage, wire.bytes)
    BY <1>5, Heard, TypesDiffer
  <2>2. Stage = 1 /\ TellsSize(wire.bytes)
    BY <2>1, TypesDiffer DEF FromClient, Tells, TellsMeta
  <2>3. server' = [server EXCEPT !.chunk_size = LocalChunkSize]
    BY <1>5, <2>2 DEF TellsSize, body
  <2>4. /\ Stage' = Stage
        /\ \A k \in 0 .. 10 : (Done(k) <=> Stage > k) /\ (Done(k)' <=> Stage >= k)
    BY <1>1, <2>1, ReadDone
  <2>5. TooLong' = TooLong
    BY <1>5, SameUrl
  <2>6. /\ server'.type = server.type /\ server'.app_name = server.app_name
        /\ server'.stream_name = server.stream_name /\ server'.curr_tid = server.curr_tid
        /\ server'.chunk_size = LocalChunkSize
    BY <2>3, <1>2 DEF CommandsType
  <2>7. CommandsType'
    BY <1>1, <1>2, <1>4, <1>5, <2>3 DEF CommandsType
  <2>8. Progress'
    <3>1. Done(1)' /\ \A k \in {2, 5, 7, 8, 9} : Done(k)' <=> Done(k)
      BY <2>2, <2>4
    <3> QED
      BY <1>1, <1>2, <1>5, <2>2, <2>4, <2>5, <2>6, <3>1 DEF Progress
  <2> QED
    BY <1>3, <2>1, <2>7, <2>8, ReadKeeps
<1>6. CASE /\ Reads("client", SET_CHUNK_SIZE)
           /\ client' = [client EXCEPT !.chunk_size = decode_int32(body).value]
           /\ server' = server
  <2>1. /\ wire # Quiet /\ wire' = Quiet /\ MsgType(wire.bytes) = SET_CHUNK_SIZE
        /\ FromServer(client, Stage, wire.bytes)
    <3>1. Reads("client", SET_CHUNK_SIZE)
      BY <1>6
    <3>2. /\ wire # Quiet /\ wire' = Quiet /\ MsgType(wire.bytes) = SET_CHUNK_SIZE
          /\ \/ FromServer(client, Stage, wire.bytes)
             \/ SET_CHUNK_SIZE = USER_CONTROL
      BY <3>1, Heard
    <3> QED
      BY <3>2, TypesDiffer
  <2>2. Stage = 5 /\ TellsSize(wire.bytes)
    BY <2>1, TypesDiffer DEF FromServer, Tells
  <2>3. client' = [client EXCEPT !.chunk_size = LocalChunkSize]
    BY <1>6, <2>2 DEF TellsSize, body
  <2>4. /\ Stage' = Stage
        /\ \A k \in 0 .. 10 : (Done(k) <=> Stage > k) /\ (Done(k)' <=> Stage >= k)
    BY <1>1, <2>1, ReadDone
  <2>5. /\ client'.type = client.type /\ client'.app_name = client.app_name
        /\ client'.stream_name = client.stream_name /\ client'.stream_id = client.stream_id
        /\ client'.chunk_size = LocalChunkSize
    BY <2>3, <1>2 DEF CommandsType
  <2>6. TooLong' = TooLong
    BY <2>5, SameUrl
  <2>7. CommandsType'
    BY <1>1, <1>2, <1>4, <1>6, <2>3 DEF CommandsType
  <2>8. Progress'
    <3>1. Done(5)' /\ \A k \in {1, 2, 7, 8, 9} : Done(k)' <=> Done(k)
      BY <2>2, <2>4
    <3> QED
      BY <1>1, <1>2, <1>6, <2>2, <2>4, <2>5, <2>6, <3>1 DEF Progress
  <2> QED
    BY <1>3, <2>1, <2>7, <2>8, ReadKeeps
<1>7. ASSUME NEW type \in {WIN_ACK_SIZE, BANDWIDTH, USER_CONTROL}, Reads("client", type),
             client' = client, server' = server
      PROVE  CommandsInv'
  <2>1. /\ wire # Quiet /\ wire' = Quiet /\ MsgType(wire.bytes) = type
        /\ FromServer(client, Stage, wire.bytes) \/ Stage = 10
    BY <1>7, Heard
  <2>2. Stage \in {3, 4, 10}
    BY <2>1, TypesDiffer DEF FromServer, Tells, TellsSize
  <2> QED
    BY <1>1, <1>7, <2>1, <2>2, ReadAndDropped
<1> QED
  BY <1>5, <1>6, <1>7 DEF base_protocol_control_message_handler

-----------------------------------------------------------------------------
(* Commands *)

\* What follows in a concatenation.
LEMMA RestOfConcat ==
    ASSUME NEW p \in Bytes, NEW q \in Bytes
    PROVE  Rest(p \o q, Len(p)) = q /\ Holds(p \o q, 0, p)
<1> DEFINE in == p \o q
<1>1. in \in Bytes /\ Len(in) = Len(p) + Len(q)
  BY ConcatBytes
<1>2. Holds(in, 0, p \o q)
  BY <1>1, HoldsAll
<1> HIDE DEF in
<1>3. 0 \in Nat
  OBVIOUS
<1>4. Holds(in, 0, p) /\ Holds(in, 0 + Len(p), q)
  BY <1>1, <1>2, <1>3, HoldsSplit
<1>5. Len(p) \in Nat /\ 0 + Len(p) = Len(p)
  BY LenBytes
<1>6. Holds(in, Len(p), q)
  BY <1>4, <1>5
<1>7. Rest(in, Len(p)) = q
  BY <1>1, <1>5, <1>6, RestIs
<1> QED
  BY <1>4, <1>7 DEF in

\* What follows a null.
LEMMA AfterNull ==
    ASSUME NEW p \in Bytes
    PROVE  SkipNull(encode_null \o p) = p
<1>1. encode_null \in Bytes /\ Len(encode_null) = 1
  BY MarkBytes
<1>2. Rest(encode_null \o p, Len(encode_null)) = p
  BY <1>1, RestOfConcat
<1> QED
  BY <1>1, <1>2 DEF SkipNull

\* The server reads the application out of a connect, unless the url is too long.
LEMMA ConnectObject ==
    ASSUME NEW a \in Bytes, NEW u \in Bytes, Len(a) < Len(u)
    PROVE  LET objs == decode_object(encode_object(ConnectItems(a, u, u)))
           IN  /\ Len(u) < LongLen =>
                    /\ objs.ok /\ Has(objs.value, app)
                    /\ get(objs.value, app) = Value(STRINGTYPE, a)
               /\ Len(u) >= LongLen => objs = Failed
<1> DEFINE items == ConnectItems(a, u, u)
           in == encode_object(items)
<1>1. items \in Seq(Items) /\ Len(items) = 3
      /\ items[1] = Named(app, a) /\ items[2] = Named(swfUrl, u) /\ items[3] = Named(tcUrl, u)
  BY ConnectProperties
<1> HIDE DEF items
<1>2. in \in Bytes
  BY <1>1, ObjectBytes
<1> HIDE DEF in
<1>3. Holds(in, 0, encode_object(items))
  BY <1>2, HoldsAll DEF in
<1>4. app \in Bytes /\ swfUrl \in Bytes /\ tcUrl \in Bytes
  BY MoreWords
<1>5. Len(app) < LongLen /\ Len(swfUrl) < LongLen /\ Len(tcUrl) < LongLen
  BY MoreWords, Room
<1>6. /\ items[1].name = app /\ items[1].value = Value(STRINGTYPE, a)
      /\ Len(a) < LongLen <=> Short(items[1].value)
  BY <1>1, <1>4, <1>5, NamedIs
<1>7. items[2].name = swfUrl /\ (Len(u) < LongLen <=> Short(items[2].value))
  BY <1>1, <1>4, <1>5, NamedIs
<1>8. items[3].name = tcUrl /\ (Len(u) < LongLen <=> Short(items[3].value))
  BY <1>1, <1>4, <1>5, NamedIs
<1>9. Len(a) \in Nat /\ Len(u) \in Nat
  BY LenBytes
<1>10. CASE Len(u) < LongLen
  <2>1. \A m, n, l \in Nat : m < n /\ n < l => m < l
    OBVIOUS
  <2>2. Len(a) < LongLen
    BY <1>9, <1>10, <2>1, Room
  <2>3. \A k \in 1 .. Len(items) : Short(items[k].value)
    BY <1>1, <1>6, <1>7, <1>8, <1>10, <2>2
  <2>4. decode_object(in) = Decoded(PutAll(items), Len(encode_object(items)))
    BY <1>1, <1>2, <1>3, <2>3, ReadObject
  <2>5. 1 \in 1 .. Len(items)
    BY <1>1
  <2>6. \A m \in 1 .. Len(items) : m > 1 => items[m].name # items[1].name
    BY <1>1, <1>6, <1>7, <1>8, NamesDiffer
  <2>7. /\ Has(PutAll(items), items[1].name)
        /\ get(PutAll(items), items[1].name) = items[1].value
    BY <1>1, <2>5, <2>6, GetPut
  <2>8. decode_object(in).ok /\ decode_object(in).value = PutAll(items)
    BY <2>4 DEF Decoded
  <2>9. ~(Len(u) >= LongLen)
    BY <1>9, <1>10, Room
  <2> QED
    BY <1>6, <1>10, <2>7, <2>8, <2>9 DEF in, items
<1>11. CASE Len(u) >= LongLen
  <2>1. ~(Len(u) < LongLen)
    BY <1>9, <1>11, Room
  <2>2. \E j \in 1 .. Len(items) : ~Short(items[j].value)
                                   /\ \A k \in 1 .. j - 1 : Short(items[k].value)
    <3>1. CASE Short(items[1].value)
      <4>1. 2 \in 1 .. Len(items) /\ \A k \in 1 .. 2 - 1 : k = 1
        BY <1>1
      <4> QED
        BY <1>7, <2>1, <3>1, <4>1
    <3>2. CASE ~Short(items[1].value)
      <4>1. 1 \in 1 .. Len(items) /\ \A k \in 1 .. 1 - 1 : FALSE
        BY <1>1
      <4> QED
        BY <3>2, <4>1
    <3> QED
      BY <3>1, <3>2
  <2>3. PICK j \in 1 .. Len(items) : ~Short(items[j].value)
                                     /\ \A k \in 1 .. j - 1 : Short(items[k].value)
    BY <2>2
  <2>4. decode_object(in) = Failed
    BY <1>1, <1>2, <1>3, <2>3, ObjectRefused
  <2> QED
    BY <2>1, <2>4 DEF in, items
<1>12. Len(u) < LongLen \/ Len(u) >= LongLen
  BY <1>9, Room
<1> QED
  BY <1>10, <1>11, <1>12

\* The connect that the server reads keeps the invariant.
LEMMA ConnectHeardKeeps ==
    ASSUME CommandsInv, connect_handler
    PROVE  CommandsInv'
<1> DEFINE objs == decode_object(args)
<1>1. ReadsCommand("server", connect)
  BY DEF connect_handler
<1>2. /\ wire # Quiet /\ wire' = Quiet /\ asserted = FALSE
      /\ turn' = turn /\ write_buf_' = write_buf_ /\ offered' = offered /\ meta' = meta
  BY <1>1, CommandHeard
<1>3. /\ Stage = 2 /\ tid.value.data = Double(ConnectTid)
      /\ args = encode_object(ConnectItems(client.app_name, UrlOf(client), UrlOf(client)))
  BY <1>1, ServerHears
<1>4. CommandsType /\ Progress /\ MetaDataKept
  BY DEF CommandsInv
<1>5. /\ client.app_name \in Bytes /\ Url \in Bytes /\ Url = UrlOf(client)
      /\ Len(Url) \in Nat /\ Len(client.app_name) < Len(Url)
  BY <1>4, UrlBytes
<1>6. /\ Len(Url) < LongLen => /\ objs.ok /\ Has(objs.value, app)
                               /\ get(objs.value, app) = Value(STRINGTYPE, client.app_name)
      /\ Len(Url) >= LongLen => objs = Failed
  BY <1>3, <1>5, ConnectObject
<1>7. /\ Stage' = Stage
      /\ \A k \in 0 .. 10 : (Done(k) <=> Stage > k) /\ (Done(k)' <=> Stage >= k)
  BY <1>2, ReadDone
<1>8. Done(2)' /\ \A k \in {1, 5, 7, 8, 9} : Done(k)' <=> Done(k)
  BY <1>3, <1>7
<1>9. ~Done(7) /\ ~Done(2)
  BY <1>3, <1>7
<1>10. MetaDataKept'
  BY <1>2, <1>4 DEF MetaDataKept
<1>11. CASE TooLong
  <2>1. ~objs.ok
    BY <1>6, <1>11 DEF TooLong, Failed
  <2>2. asserted' = TRUE /\ client' = client /\ server' = server
    BY <2>1 DEF connect_handler, Fails
  <2>3. TooLong' = TooLong
    BY <2>2, SameUrl
  <2>4. CommandsType'
    BY <1>2, <1>4, <2>2 DEF CommandsType
  <2>5. Progress'
    BY <1>3, <1>4, <1>7, <1>8, <1>9, <1>11, <2>2, <2>3 DEF Progress
  <2> QED
    BY <1>2, <1>10, <2>4, <2>5, ReadKeeps
<1>12. CASE ~TooLong
  <2>1. Len(Url) < LongLen
    BY <1>5, <1>12, Room DEF TooLong
  <2>2. /\ objs.ok /\ Has(objs.value, app) /\ get(objs.value, app).type = STRINGTYPE
        /\ get(objs.value, app).data = client.app_name
    BY <1>6, <2>1 DEF Value
  <2>3. /\ server' = [server EXCEPT !.curr_tid = Double(ConnectTid),
                                    !.app_name = client.app_name]
        /\ client' = client /\ asserted' = asserted
    BY <1>3, <2>2 DEF connect_handler
  <2>4. Double(ConnectTid) \in Bytes
    BY DoubleIs DEF ConnectTid
  <2>5. /\ server'.type = server.type /\ server'.app_name = client.app_name
        /\ server'.stream_name = server.stream_name
        /\ server'.curr_tid = Double(ConnectTid)
        /\ server'.chunk_size = server.chunk_size
    BY <1>4, <2>3 DEF CommandsType
  <2>6. TooLong' = TooLong
    BY <2>3, SameUrl
  <2>7. CommandsType'
    BY <1>2, <1>4, <1>5, <2>3, <2>4 DEF CommandsType
  <2>8. Progress'
    BY <1>2, <1>3, <1>4, <1>7, <1>8, <1>9, <1>12, <2>3, <2>5, <2>6 DEF Progress
  <2> QED
    BY <1>2, <1>10, <2>7, <2>8, ReadKeeps
<1> QED
  BY <1>11, <1>12

\* The commands that the server ignores keep the invariant.
LEMMA IgnoredKeeps ==
    ASSUME CommandsInv, IgnoredCommand
    PROVE  CommandsInv'
<1>1. PICK name \in {releaseStream, FCPublish} : ReadsCommand("server", name)
  BY DEF IgnoredCommand
<1>2. /\ wire # Quiet /\ wire' = Quiet
      /\ turn' = turn /\ write_buf_' = write_buf_ /\ offered' = offered /\ meta' = meta
  BY <1>1, CommandHeard
<1>3. Stage = 6
  BY <1>1, ServerHears
<1>4. client' = client /\ server' = server /\ asserted' = asserted
  BY DEF IgnoredCommand
<1> QED
  BY <1>2, <1>3, <1>4, ReadAndDropped

\* The createStream that the server reads keeps the invariant.
LEMMA CreateStreamHeardKeeps ==
    ASSUME CommandsInv, create_stream_handler
    PROVE  CommandsInv'
<1>1. ReadsCommand("server", createStream)
  BY DEF create_stream_handler
<1>2. /\ wire # Quiet /\ wire' = Quiet
      /\ turn' = turn /\ write_buf_' = write_buf_ /\ offered' = offered /\ meta' = meta
  BY <1>1, CommandHeard
<1>3. Stage = 7 /\ tid.value.data = Double(CreateStreamTid)
  BY <1>1, ServerHears
<1>4. /\ server' = [server EXCEPT !.curr_tid = Double(CreateStreamTid)]
      /\ client' = client /\ asserted' = asserted
  BY <1>3 DEF create_stream_handler
<1>5. CommandsType /\ Progress /\ MetaDataKept
  BY DEF CommandsInv
<1>6. Double(CreateStreamTid) \in Bytes
  BY DoubleIs DEF CreateStreamTid
<1>7. /\ Stage' = Stage
      /\ \A k \in 0 .. 10 : (Done(k) <=> Stage > k) /\ (Done(k)' <=> Stage >= k)
  BY <1>2, ReadDone
<1>8. Done(7)' /\ \A k \in {1, 2, 5, 8, 9} : Done(k)' <=> Done(k)
  BY <1>3, <1>7
<1>9. /\ server'.type = server.type /\ server'.app_name = server.app_name
      /\ server'.stream_name = server.stream_name
      /\ server'.curr_tid = Double(CreateStreamTid)
      /\ server'.chunk_size = server.chunk_size
  BY <1>4, <1>5 DEF CommandsType
<1>10. TooLong' = TooLong
  BY <1>4, SameUrl
<1>11. CommandsType'
  BY <1>2, <1>4, <1>5, <1>6 DEF CommandsType
<1>12. Progress'
  BY <1>3, <1>4, <1>5, <1>7, <1>8, <1>9, <1>10 DEF Progress
<1>13. MetaDataKept'
  BY <1>2, <1>5 DEF MetaDataKept
<1> QED
  BY <1>2, <1>11, <1>12, <1>13, ReadKeeps

\* The names are short when a publish or a play is heard.
LEMMA ShortLater ==
    ASSUME CommandsInv, Stage > 2
    PROVE  /\ client.app_name \in Bytes /\ Len(client.app_name) < LongLen
           /\ client.stream_name \in Bytes /\ Len(client.stream_name) < LongLen
<1>1. CommandsType /\ Progress
  BY DEF CommandsInv
<1>2. /\ client.app_name \in Bytes /\ client.stream_name \in Bytes
      /\ Len(client.app_name) \in Nat /\ Len(client.stream_name) \in Nat /\ Len(Url) \in Nat
      /\ Len(client.app_name) < Len(Url) /\ Len(client.stream_name) < Len(Url)
  BY <1>1, UrlBytes
<1>3. Stage \in 0 .. 10
  BY <1>1, StageIs DEF CommandsType, Stage
<1>4. ~TooLong
  BY <1>1, <1>3 DEF Progress
<1>5. Len(Url) < LongLen
  BY <1>2, <1>4, Room DEF TooLong
<1>6. \A m, n, l \in Nat : m < n /\ n < l => m < l
  OBVIOUS
<1>7. Len(client.app_name) < LongLen /\ Len(client.stream_name) < LongLen
  BY <1>2, <1>5, <1>6, Room
<1> QED
  BY <1>2, <1>7

\* A string, and what follows it.
LEMMA StringThen ==
    ASSUME NEW s \in Bytes, Len(s) < LongLen, NEW q \in Bytes
    PROVE  LET in == encode_string(s) \o q
               first == decode_string_with_type(in)
           IN  first.ok /\ first.value.data = s /\ Rest(in, first.next) = q
<1> DEFINE e == encode_string(s)
           in == e \o q
<1>1. e \in Bytes /\ Len(e) = Len(s) + 3
  BY StringBytes DEF encode_string_reserve
<1> HIDE DEF e
<1>2. in \in Bytes
  BY <1>1, ConcatBytes
<1>3. Rest(in, Len(e)) = q /\ Holds(in, 0, e)
  BY <1>1, RestOfConcat
<1> HIDE DEF in
<1>4. decode_string_with_type(in) = Decoded(Value(STRINGTYPE, s), Len(s) + 3)
  BY <1>2, <1>3, ReadStringWithType DEF e
<1>5. /\ decode_string_with_type(in).ok /\ decode_string_with_type(in).value.data = s
      /\ decode_string_with_type(in).next = Len(e)
  BY <1>1, <1>4 DEF Decoded, Value
<1>6. Rest(in, decode_string_with_type(in).next) = q
  BY <1>3, <1>5
<1> QED
  BY <1>5, <1>6 DEF in, e

\* A string at the end.
LEMMA StringLast ==
    ASSUME NEW s \in Bytes, Len(s) < LongLen
    PROVE  LET first == decode_string_with_type(encode_string(s))
           IN  first.ok /\ first.value.data = s
<1>1. encode_string(s) \in Bytes
  BY StringBytes
<1>2. Holds(encode_string(s), 0, encode_string(s))
  BY <1>1, HoldsAll
<1>3. decode_string_with_type(encode_string(s)) = Decoded(Value(STRINGTYPE, s), Len(s) + 3)
  BY <1>1, <1>2, ReadStringWithType
<1> QED
  BY <1>3 DEF Decoded, Value

\* The publish that the server reads keeps the invariant.
LEMMA PublishHeardKeeps ==
    ASSUME CommandsInv, publish_handler
    PROVE  CommandsInv'
<1> DEFINE a == client.app_name
           s == client.stream_name
           name == decode_string_with_type(SkipNull(args))
<1>1. ReadsCommand("server", publish)
  BY DEF publish_handler
<1>2. /\ wire # Quiet /\ wire' = Quiet
      /\ turn' = turn /\ write_buf_' = write_buf_ /\ offered' = offered /\ meta' = meta
  BY <1>1, CommandHeard
<1>3. /\ Stage = 9 /\ client.type = "PUSH"
      /\ args = encode_null \o encode_string(s) \o encode_string(a)
  BY <1>1, ServerHears
<1>4. a \in Bytes /\ Len(a) < LongLen /\ s \in Bytes /\ Len(s) < LongLen
  <2>1. Stage > 2
    BY <1>3
  <2> QED
    BY <2>1, ShortLater
<1>5. name.ok /\ name.value.data = s
      /\ decode_string_with_type(Rest(SkipNull(args), name.next)).ok
  <2> HIDE DEF a, s
  <2> DEFINE es == encode_string(s)
             ea == encode_string(a)
  <2>1. es \in Bytes /\ ea \in Bytes /\ encode_null \in Bytes
    BY <1>4, StringBytes, MarkBytes
  <2>2. args = encode_null \o (es \o ea)
    <3> HIDE DEF es, ea
    <3>1. (encode_null \o es) \o ea = encode_null \o (es \o ea)
      BY <2>1, ConcatAssoc
    <3> QED
      BY <1>3, <3>1 DEF es, ea
  <2>3. SkipNull(args) = es \o ea
    <3> HIDE DEF es, ea
    <3>1. es \o ea \in Bytes
      BY <2>1, ConcatBytes
    <3> QED
      BY <2>2, <3>1, AfterNull
  <2>4. /\ decode_string_with_type(es \o ea).ok
        /\ decode_string_with_type(es \o ea).value.data = s
        /\ Rest(es \o ea, decode_string_with_type(es \o ea).next) = ea
    <3> HIDE DEF ea
    <3> QED
      BY <1>4, <2>1, StringThen
  <2>5. decode_string_with_type(ea).ok
    BY <1>4, StringLast
  <2> HIDE DEF es, ea
  <2> QED
    BY <2>3, <2>4, <2>5
<1>6. /\ server' = [server EXCEPT !.stream_name = s, !.type = "PUB"]
      /\ client' = client /\ asserted' = asserted
  BY <1>5 DEF publish_handler
<1>7. CommandsType /\ Progress /\ MetaDataKept
  BY DEF CommandsInv
<1>8. /\ Stage' = Stage
      /\ \A k \in 0 .. 10 : (Done(k) <=> Stage > k) /\ (Done(k)' <=> Stage >= k)
  BY <1>2, ReadDone
<1>9. Done(9)' /\ \A k \in {1, 2, 5, 7, 8} : Done(k)' <=> Done(k)
  BY <1>3, <1>8
<1>10. /\ server'.type = "PUB" /\ server'.app_name = server.app_name
       /\ server'.stream_name = s /\ server'.curr_tid = server.curr_tid
       /\ server'.chunk_size = server.chunk_size
  BY <1>6, <1>7 DEF CommandsType
<1>11. TooLong' = TooLong
  BY <1>6, SameUrl
<1>12. CommandsType'
  BY <1>2, <1>4, <1>6, <1>7 DEF CommandsType
<1>13. Progress'
  BY <1>3, <1>6, <1>7, <1>8, <1>9, <1>10, <1>11 DEF Progress
<1>14. MetaDataKept'
  BY <1>2, <1>7 DEF MetaDataKept
<1> QED
  BY <1>2, <1>12, <1>13, <1>14, ReadKeeps

\* The play that the server reads keeps the invariant.
LEMMA PlayHeardKeeps ==
    ASSUME CommandsInv, play_handler
    PROVE  CommandsInv'
<1> DEFINE s == client.stream_name
           name == decode_string_with_type(SkipNull(args))
<1>1. ReadsCommand("server", play)
  BY DEF play_handler
<1>2. /\ wire # Quiet /\ wire' = Quiet
      /\ turn' = turn /\ write_buf_' = write_buf_ /\ offered' = offered /\ meta' = meta
  BY <1>1, CommandHeard
<1>3. Stage = 9 /\ client.type = "PULL" /\ args = encode_null \o encode_string(s)
  BY <1>1, ServerHears
<1>4. s \in Bytes /\ Len(s) < LongLen
  <2>1. Stage > 2
    BY <1>3
  <2> QED
    BY <2>1, ShortLater
<1>5. name.ok /\ name.value.data = s
  <2> HIDE DEF s
  <2>1. encode_string(s) \in Bytes
    BY <1>4, StringBytes
  <2>2. SkipNull(args) = encode_string(s)
    BY <1>3, <2>1, AfterNull
  <2>3. /\ decode_string_with_type(encode_string(s)).ok
        /\ decode_string_with_type(encode_string(s)).value.data = s
    BY <1>4, StringLast
  <2> QED
    BY <2>2, <2>3
<1>6. /\ server' = [server EXCEPT !.stream_name = s]
      /\ client' = client /\ asserted' = asserted
  BY <1>5 DEF play_handler
<1>7. CommandsType /\ Progress /\ MetaDataKept
  BY DEF CommandsInv
<1>8. /\ Stage' = Stage
      /\ \A k \in 0 .. 10 : (Done(k) <=> Stage > k) /\ (Done(k)' <=> Stage >= k)
  BY <1>2, ReadDone
<1>9. Done(9)' /\ ~Done(9) /\ \A k \in {1, 2, 5, 7, 8} : Done(k)' <=> Done(k)
  BY <1>3, <1>8
<1>10. /\ server'.type = server.type /\ server'.app_name = server.app_name
       /\ server'.stream_name = s /\ server'.curr_tid = server.curr_tid
       /\ server'.chunk_size = server.chunk_size
  BY <1>6, <1>7 DEF CommandsType
<1>11. TooLong' = TooLong
  BY <1>6, SameUrl
<1>12. CommandsType'
  BY <1>2, <1>4, <1>6, <1>7 DEF CommandsType
<1>13. Progress'
  BY <1>3, <1>6, <1>7, <1>8, <1>9, <1>10, <1>11 DEF Progress
<1>14. MetaDataKept'
  BY <1>2, <1>7 DEF MetaDataKept
<1> QED
  BY <1>2, <1>12, <1>13, <1>14, ReadKeeps

\* The code of the object that an answer ends with.
LEMMA CodeRead ==
    ASSUME NEW items \in Seq(Items), \A k \in 1 .. Len(items) : Short(items[k].value),
           NEW status, Len(items) >= 2, items[2] = Named(code, status),
           \A m \in 1 .. Len(items) : m > 2 => items[m].name # code
    PROVE  Status(decode_object(encode_object(items))) = status
<1> DEFINE in == encode_object(items)
<1>1. in \in Bytes
  BY ObjectBytes
<1> HIDE DEF in
<1>2. Holds(in, 0, encode_object(items))
  BY <1>1, HoldsAll DEF in
<1>3. decode_object(in) = Decoded(PutAll(items), Len(encode_object(items)))
  BY <1>1, <1>2, ReadObject
<1>4. items[2].name = code /\ items[2].value.data = status
  BY DEF Named, Item, Value
<1>5. 2 \in 1 .. Len(items)
  <2>1. Len(items) \in Nat
    OBVIOUS
  <2> QED
    BY <2>1
<1>6. \A m \in 1 .. Len(items) : m > 2 => items[m].name # items[2].name
  BY <1>4
<1>7. /\ Has(PutAll(items), items[2].name)
      /\ get(PutAll(items), items[2].name) = items[2].value
  BY <1>5, <1>6, GetPut
<1>8. decode_object(in).ok /\ decode_object(in).value = PutAll(items)
  BY <1>3 DEF Decoded
<1> QED
  BY <1>4, <1>7, <1>8 DEF Status, in

\* What the client reads in an answer to connect.
LEMMA ConnectAnswerRead ==
    LET in == encode_object(ResultProperties) \o encode_object(ResultInfo)
        props == decode_object(in)
    IN  props.ok /\ Status(decode_object(Rest(in, props.next))) = ConnectSuccess
<1> DEFINE first == encode_object(ResultProperties)
           second == encode_object(ResultInfo)
           in == first \o second
<1>1. /\ ResultProperties \in Seq(Items) /\ ResultInfo \in Seq(Items)
      /\ \A k \in 1 .. Len(ResultProperties) : Short(ResultProperties[k].value)
      /\ \A k \in 1 .. Len(ResultInfo) : Short(ResultInfo[k].value)
      /\ Len(ResultInfo) = 4 /\ ResultInfo[2] = Named(code, ConnectSuccess)
      /\ ResultInfo[3].name = description /\ ResultInfo[4].name = objectEncoding
  BY ResultArguments
<1>2. first \in Bytes /\ second \in Bytes
  BY <1>1, ObjectBytes
<1>3. Status(decode_object(second)) = ConnectSuccess
  <2>1. \A m \in 1 .. Len(ResultInfo) : m > 2 => ResultInfo[m].name # code
    BY <1>1, NamesDiffer
  <2>2. Len(ResultInfo) >= 2
    BY <1>1
  <2> QED
    BY <1>1, <2>1, <2>2, CodeRead
<1> HIDE DEF first, second
<1>4. in \in Bytes /\ Rest(in, Len(first)) = second /\ Holds(in, 0, first)
  BY <1>2, ConcatBytes, RestOfConcat
<1> HIDE DEF in
<1>5. decode_object(in) = Decoded(PutAll(ResultProperties), Len(first))
  BY <1>1, <1>4, ReadObject DEF first
<1>6. decode_object(in).ok /\ decode_object(in).next = Len(first)
  BY <1>5 DEF Decoded
<1>7. Status(decode_object(Rest(in, decode_object(in).next))) = ConnectSuccess
  BY <1>3, <1>4, <1>6
<1> QED
  BY <1>6, <1>7 DEF in, first, second

\* The stream id that the client reads in an answer to createStream.
LEMMA StreamIdRead ==
    LET dsid == decode_number_with_type(encode_number(Double(RTMP_MSID)))
    IN  dsid.ok /\ dsid.value.data = Double(RTMP_MSID)
<1> DEFINE d == Double(RTMP_MSID)
<1>1. d \in Bytes /\ Len(d) = 8
  BY DoubleIs DEF RTMP_MSID
<1> HIDE DEF d
<1>2. encode_number(d) \in Bytes
  BY <1>1, NumberBytes
<1>3. Holds(encode_number(d), 0, encode_number(d))
  BY <1>2, HoldsAll
<1>4. decode_number_with_type(encode_number(d)) = Decoded(Value(NUMBER, d), 9)
  BY <1>1, <1>2, <1>3, ReadNumber
<1>5. /\ decode_number_with_type(encode_number(d)).ok
      /\ decode_number_with_type(encode_number(d)).value.data = d
  BY <1>4 DEF Decoded, Value
<1> QED
  BY <1>5 DEF d

\* The status that the client reads.
LEMMA StatusRead ==
    ASSUME NEW n \in 0 .. 100, NEW m \in 0 .. 100
    PROVE  LET in == encode_null \o encode_object(StatusItems(Word(1, n), Word(1, m)))
           IN  Status(decode_object(SkipNull(in))) = Word(1, n)
<1> DEFINE items == StatusItems(Word(1, n), Word(1, m))
<1>1. /\ items \in Seq(Items) /\ Len(items) = 3
      /\ \A k \in 1 .. Len(items) : Short(items[k].value)
      /\ items[2] = Named(code, Word(1, n)) /\ items[3].name = description
  BY StatusArguments, ZenonT(30)
<1> HIDE DEF items
<1>2. \A k \in 1 .. Len(items) : k > 2 => items[k].name # code
  BY <1>1, NamesDiffer
<1>3. Len(items) >= 2
  BY <1>1
<1>4. Status(decode_object(encode_object(items))) = Word(1, n)
  BY <1>1, <1>2, <1>3, CodeRead
<1>5. encode_object(items) \in Bytes
  BY <1>1, ObjectBytes
<1>6. SkipNull(encode_null \o encode_object(items)) = encode_object(items)
  BY <1>5, AfterNull
<1> QED
  BY <1>4, <1>6 DEF items

\* The answers that the client reads keep the invariant.
LEMMA ResultHeardKeeps ==
    ASSUME CommandsInv, cmd_msg_result_handler
    PROVE  CommandsInv'
<1>1. ReadsCommand("client", _result)
  BY DEF cmd_msg_result_handler
<1>2. /\ wire # Quiet /\ wire' = Quiet
      /\ turn' = turn /\ write_buf_' = write_buf_ /\ offered' = offered /\ meta' = meta
  BY <1>1, CommandHeard
<1>3. \/ /\ Stage = 6 /\ tid.value.data = Double(ConnectTid)
         /\ args = encode_object(ResultProperties) \o encode_object(ResultInfo)
      \/ /\ Stage = 8 /\ tid.value.data = Double(CreateStreamTid)
         /\ args = encode_null \o encode_number(Double(RTMP_MSID))
  BY <1>1, ClientHears
<1>4. CommandsType /\ Progress /\ MetaDataKept
  BY DEF CommandsInv
<1>5. Double(CreateStreamTid) # Double(ConnectTid)
  <2>1. Double(1)[8] = 1 /\ Double(2)[8] = 2
    BY DoubleIs
  <2> QED
    BY <2>1 DEF CreateStreamTid, ConnectTid
<1>6. CASE /\ Stage = 6 /\ tid.value.data = Double(ConnectTid)
           /\ args = encode_object(ResultProperties) \o encode_object(ResultInfo)
  <2>1. /\ decode_object(args).ok
        /\ Status(decode_object(Rest(args, decode_object(args).next))) = ConnectSuccess
    BY <1>6, ConnectAnswerRead
  <2>2. client' = client /\ server' = server /\ asserted' = asserted
    <3>1. tid.value.data = Double(ConnectTid)
      BY <1>6
    <3> QED
      BY <1>5, <2>1, <3>1 DEF cmd_msg_result_handler
  <2>3. Stage = 6
    BY <1>6
  <2> QED
    BY <1>2, <2>2, <2>3, ReadAndDropped
<1>7. CASE /\ Stage = 8 /\ tid.value.data = Double(CreateStreamTid)
           /\ args = encode_null \o encode_number(Double(RTMP_MSID))
  <2> DEFINE sid == Double(RTMP_MSID)
             dsid == decode_number_with_type(SkipNull(args))
  <2>1. sid \in Bytes /\ Len(sid) = 8
    BY DoubleIs DEF RTMP_MSID
  <2>2. encode_number(sid) \in Bytes
    <3> HIDE DEF sid
    <3> QED
      BY <2>1, NumberBytes
  <2>3. SkipNull(args) = encode_number(sid)
    <3>1. args = encode_null \o encode_number(sid)
      BY <1>7
    <3> HIDE DEF sid
    <3> QED
      BY <2>2, <3>1, AfterNull
  <2>4. dsid.ok /\ dsid.value.data = sid
    BY <2>3, StreamIdRead
  <2> HIDE DEF sid
  <2>5. /\ client' = [client EXCEPT !.stream_id = sid]
        /\ server' = server /\ asserted' = asserted
    BY <1>5, <1>7, <2>4 DEF cmd_msg_result_handler
  <2>6. /\ Stage' = Stage
        /\ \A k \in 0 .. 10 : (Done(k) <=> Stage > k) /\ (Done(k)' <=> Stage >= k)
    BY <1>2, ReadDone
  <2>7. Done(8)' /\ \A k \in {1, 2, 5, 7, 9} : Done(k)' <=> Done(k)
    BY <1>7, <2>6
  <2>8. /\ client'.type = client.type /\ client'.app_name = client.app_name
        /\ client'.stream_name = client.stream_name /\ client'.stream_id = sid
        /\ client'.chunk_size = client.chunk_size
    BY <1>4, <2>5 DEF CommandsType
  <2>9. TooLong' = TooLong
    BY <2>8, SameUrl
  <2>10. CommandsType'
    BY <1>2, <1>4, <2>1, <2>5 DEF CommandsType
  <2>11. Progress'
    BY <1>4, <1>7, <2>5, <2>6, <2>7, <2>8, <2>9 DEF Progress, sid
  <2>12. MetaDataKept'
    BY <1>2, <1>4 DEF MetaDataKept
  <2> QED
    BY <1>2, <2>10, <2>11, <2>12, ReadKeeps
<1> QED
  BY <1>3, <1>6, <1>7

\* The status that the client reads keeps the invariant.
LEMMA StatusHeardKeeps ==
    ASSUME CommandsInv, cmd_msg_on_status_handler
    PROVE  CommandsInv'
<1> DEFINE status == Status(decode_object(SkipNull(args)))
<1>1. ReadsCommand("client", onStatus)
  BY DEF cmd_msg_on_status_handler
<1>2. /\ wire # Quiet /\ wire' = Quiet
      /\ turn' = turn /\ write_buf_' = write_buf_ /\ offered' = offered /\ meta' = meta
  BY <1>1, CommandHeard
<1>3. /\ Stage = 10 /\ tid.value.data = Double(0)
      /\ \/ /\ client.type = "PUSH"
            /\ args = encode_null \o encode_object(StatusItems(PublishStart, Word(1, 16)))
         \/ /\ client.type = "PULL"
            /\ args = encode_null \o encode_object(StatusItems(PlayStart, Word(1, 10)))
  BY <1>1, ClientHears
<1>4. CommandsType /\ Progress /\ MetaDataKept
  BY DEF CommandsInv
<1>5. 23 \in 0 .. 100 /\ 16 \in 0 .. 100 /\ 20 \in 0 .. 100 /\ 10 \in 0 .. 100
  OBVIOUS
<1>6. client.type = "PUSH" => status = PublishStart
  <2>1. Status(decode_object(SkipNull(
          encode_null \o encode_object(StatusItems(Word(1, 23), Word(1, 16)))))) = Word(1, 23)
    BY <1>5, StatusRead
  <2> QED
    BY <1>3, <2>1 DEF PublishStart
<1>7. client.type = "PULL" => status = PlayStart
  <2>1. Status(decode_object(SkipNull(
          encode_null \o encode_object(StatusItems(Word(1, 20), Word(1, 10)))))) = Word(1, 20)
    BY <1>5, StatusRead
  <2> QED
    BY <1>3, <2>1 DEF PlayStart
<1>8. status = IF client.type = "PUSH" THEN PublishStart ELSE PlayStart
  BY <1>4, <1>6, <1>7 DEF CommandsType
<1>9. /\ client' = [client EXCEPT !.ready = (client.type = "PUSH")]
      /\ server' = server /\ asserted' = asserted
  BY <1>3, <1>8 DEF cmd_msg_on_status_handler
<1>10. /\ Stage' = Stage
       /\ \A k \in 0 .. 10 : (Done(k) <=> Stage > k) /\ (Done(k)' <=> Stage >= k)
  BY <1>2, ReadDone
<1>11. \A k \in {1, 2, 5, 7, 8, 9} : Done(k)' <=> Done(k)
  BY <1>3, <1>10
<1>12. (client.type = "PUSH") \in BOOLEAN
  OBVIOUS
<1>13. /\ client'.type = client.type /\ client'.app_name = client.app_name
       /\ client'.stream_name = client.stream_name /\ client'.stream_id = client.stream_id
       /\ client'.chunk_size = client.chunk_size
  BY <1>4, <1>9 DEF CommandsType
<1>14. TooLong' = TooLong
  BY <1>13, SameUrl
<1>15. CommandsType'
  BY <1>2, <1>4, <1>9, <1>12 DEF CommandsType
<1>16. Progress'
  BY <1>3, <1>4, <1>9, <1>10, <1>11, <1>13, <1>14 DEF Progress
<1>17. MetaDataKept'
  BY <1>2, <1>4 DEF MetaDataKept
<1> QED
  BY <1>2, <1>15, <1>16, <1>17, ReadKeeps

\* The metadata that the server reads keeps the invariant.
LEMMA MetaDataHeardKeeps ==
    ASSUME CommandsInv, base_meta_data_handler
    PROVE  CommandsInv'
<1>1. /\ Reads("server", DATA_MESSAGE)
      /\ turn' = turn /\ write_buf_' = write_buf_ /\ offered' = offered
      /\ client' = client /\ server' = server
  BY DEF base_meta_data_handler
<1>2. /\ wire # Quiet /\ wire' = Quiet /\ MsgType(wire.bytes) = DATA_MESSAGE
      /\ FromClient(client, offered, Stage, wire.bytes)
  BY <1>1, Heard
<1>3. Stage = 10 /\ TellsMeta(wire.bytes, offered)
  BY <1>2, TypesDiffer DEF FromClient, Tells, TellsSize
<1>4. PICK framed \in BOOLEAN, array \in BOOLEAN : body = MetaItems(offered, framed, array)
  BY <1>3 DEF TellsMeta, body
<1>5. offered \in Seq(Properties)
  BY <1>3 DEF TellsMeta
<1> DEFINE from == MetaFrom(body)
           name == decode_string_with_type(from)
           props == decode_metadata(Rest(from, name.next))
<1>6. from = MetaTail(offered, array)
  BY <1>4, <1>5, MetaItemsRead
<1>7. TailReads(from, offered)
  BY <1>5, <1>6, MetaTailRead
<1>8. name.ok /\ name.value.data = onMetaData /\ props.ok /\ props.value = PutAll(offered)
  BY <1>7 DEF TailReads
<1>9. meta' = [bytes |-> from, metadata |-> props.value] /\ asserted' = asserted
  BY <1>8 DEF base_meta_data_handler, MetaFrom
<1> HIDE DEF from
<1>10. meta'.bytes = from /\ meta'.metadata = PutAll(offered)
  BY <1>8, <1>9
<1>11. LastValues(PutAll(offered), offered)
  BY <1>5, PropertyItems, PutAllLast
<1>12. MetaDataKept'
  BY <1>1, <1>8, <1>10, <1>11 DEF MetaDataKept
<1>13. CommandsType /\ Progress
  BY DEF CommandsInv
<1>14. /\ Stage' = Stage
       /\ \A k \in 0 .. 10 : (Done(k) <=> Stage > k) /\ (Done(k)' <=> Stage >= k)
  BY <1>1, <1>2, ReadDone
<1>15. \A k \in {1, 2, 5, 7, 8, 9} : Done(k)' <=> Done(k)
  BY <1>3, <1>14
<1>16. TooLong' = TooLong
  BY <1>1, SameUrl
<1>17. CommandsType'
  BY <1>1, <1>9, <1>13 DEF CommandsType
<1>18. Progress'
  BY <1>1, <1>3, <1>9, <1>13, <1>14, <1>15, <1>16 DEF Progress
<1> QED
  BY <1>2, <1>12, <1>17, <1>18, ReadKeeps

-----------------------------------------------------------------------------
(* Theorems *)

\* The invariant holds before anything is said.
LEMMA InitCommands ==
    ASSUME Init
    PROVE  CommandsInv
<1>1. turn = "clientChunkSize" /\ wire = Quiet /\ asserted = FALSE /\ meta = NoMeta
  BY DEF Init
<1>2. PICK t \in {"PUSH", "PULL"}, a \in AppNames, s \in StreamNames :
        client = [type |-> t, app_name |-> a, stream_name |-> s,
                  stream_id |-> <<>>, chunk_size |-> 128, ready |-> FALSE]
  BY DEF Init
<1>3. server = [type |-> "SERVER", app_name |-> <<>>, stream_name |-> <<>>,
                curr_tid |-> <<>>, chunk_size |-> 128]
  BY DEF Init
<1>4. <<>> \in Bytes
  BY DEF Bytes
<1>5. Stage = 0
  BY <1>1, StageValues DEF Stage
<1>6. CommandsType
  <2>1. turn \in Turns
    BY <1>1 DEF Turns
  <2>2. write_buf_ \in [{"client", "server"} -> Bytes]
    BY <1>4 DEF Init
  <2>3. client \in [type : {"PUSH", "PULL"}, app_name : AppNames, stream_name : StreamNames,
                    stream_id : Bytes, chunk_size : Nat, ready : BOOLEAN]
    BY <1>2, <1>4
  <2>4. server \in [type : {"SERVER", "PUB", "SUB"}, app_name : Bytes, stream_name : Bytes,
                    curr_tid : Bytes, chunk_size : Nat]
    BY <1>3, <1>4
  <2> QED
    BY <1>1, <2>1, <2>2, <2>3, <2>4 DEF CommandsType
<1>7. \A k \in {1, 2, 5, 7, 8, 9} : ~Done(k)
  BY <1>5 DEF Done
<1>8. client.chunk_size = 128 /\ client.stream_id = <<>>
  BY <1>2
<1>9. /\ server.type = "SERVER" /\ server.app_name = <<>> /\ server.stream_name = <<>>
      /\ server.curr_tid = <<>> /\ server.chunk_size = 128
  BY <1>3
<1>10. Progress
  BY <1>1, <1>5, <1>7, <1>8, <1>9 DEF Progress
<1>11. OnWire
  BY <1>1 DEF OnWire
<1>12. Framed
  BY <1>1 DEF Framed
<1>13. MetaDataKept
  BY <1>1 DEF MetaDataKept
<1> QED
  BY <1>6, <1>10, <1>11, <1>12, <1>13 DEF CommandsInv

\* A step that changes nothing keeps the invariant.
LEMMA StutterCommands ==
    ASSUME CommandsInv, UNCHANGED vars
    PROVE  CommandsInv'
<1>1. /\ turn' = turn /\ wire' = wire /\ write_buf_' = write_buf_ /\ client' = client
      /\ server' = server /\ offered' = offered /\ meta' = meta /\ asserted' = asserted
  BY DEF vars
<1>2. CommandsType /\ Progress /\ OnWire /\ Framed /\ MetaDataKept
  BY DEF CommandsInv
<1>3. Stage' = Stage
  BY <1>1 DEF Stage
<1>4. \A k : Done(k)' <=> Done(k)
  BY <1>1, <1>3 DEF Done
<1>5. TooLong' = TooLong
  BY <1>1, SameUrl
<1>6. CommandsType'
  BY <1>1, <1>2 DEF CommandsType
<1>7. Progress'
  BY <1>1, <1>2, <1>3, <1>4, <1>5 DEF Progress
<1>8. OnWire'
  BY <1>1, <1>2, <1>3 DEF OnWire
<1>9. Framed'
  BY <1>1, <1>2, <1>5 DEF Framed, body
<1>10. MetaDataKept'
  BY <1>1, <1>2 DEF MetaDataKept
<1> QED
  BY <1>6, <1>7, <1>8, <1>9, <1>10 DEF CommandsInv

\* Every step keeps the invariant.
LEMMA NextCommands ==
    ASSUME CommandsInv, [Next]_vars
    PROVE  CommandsInv'
<1>1. CASE ClientWriteChunkSize
  BY <1>1, ClientChunkSizeKeeps
<1>2. CASE do_write_rtmp_connect
  BY <1>2, ConnectKeeps
<1>3. CASE AnnounceStream
  BY <1>3, AnnounceKeeps
<1>4. CASE do_write_create_stream
  BY <1>4, CreateStreamKeeps
<1>5. CASE do_write_publish
  BY <1>5, PublishKeeps
<1>6. CASE do_write_play
  BY <1>6, PlayKeeps
<1>7. CASE do_write_win_ack_size
  BY <1>7, WinAckSizeKeeps
<1>8. CASE do_write_peer_bandwidth
  BY <1>8, PeerBandwidthKeeps
<1>9. CASE do_write_chunk_size
  BY <1>9, ChunkSizeKeeps
<1>10. CASE do_write_connect_result
  BY <1>10, ConnectResultKeeps
<1>11. CASE do_write_create_stream_result
  BY <1>11, CreateStreamResultKeeps
<1>12. CASE do_write_on_status_publish
  BY <1>12, PublishStatusKeeps
<1>13. CASE do_write_on_status_play
  BY <1>13, PlayStatusKeeps
<1>14. CASE OnStatusPlayWritten
  BY <1>14, OnStatusPlayWrittenKeeps
<1>15. CASE TellSubscriber
  BY <1>15, TellSubscriberKeeps
<1>16. CASE SendMetaData
  BY <1>16, SendMetaDataKeeps
<1>17. CASE base_protocol_control_message_handler
  BY <1>17, ControlKeeps
<1>18. CASE connect_handler
  BY <1>18, ConnectHeardKeeps
<1>19. CASE IgnoredCommand
  BY <1>19, IgnoredKeeps
<1>20. CASE create_stream_handler
  BY <1>20, CreateStreamHeardKeeps
<1>21. CASE publish_handler
  BY <1>21, PublishHeardKeeps
<1>22. CASE play_handler
  BY <1>22, PlayHeardKeeps
<1>23. CASE cmd_msg_result_handler
  BY <1>23, ResultHeardKeeps
<1>24. CASE cmd_msg_on_status_handler
  BY <1>24, StatusHeardKeeps
<1>25. CASE base_meta_data_handler
  BY <1>25, MetaDataHeardKeeps
<1>26. CASE Over
  BY <1>26, StutterCommands DEF Over
<1>27. CASE UNCHANGED vars
  BY <1>27, StutterCommands
<1> QED
  BY <1>1, <1>2, <1>3, <1>4, <1>5, <1>6, <1>7, <1>8, <1>9, <1>10, <1>11, <1>12, <1>13,
     <1>14, <1>15, <1>16, <1>17, <1>18, <1>19, <1>20, <1>21, <1>22, <1>23, <1>24, <1>25,
     <1>26, <1>27 DEF Next

\* In every state the sessions know what has been said, and what is on the wire is what
\* the turn calls for: the variables have their types, and each field of a session is
\* what the messages read so far make it.
THEOREM CommandsInvariant == Spec => []CommandsInv
<1>1. Init => CommandsInv
  BY InitCommands
<1>2. CommandsInv /\ [Next]_vars => CommandsInv'
  BY NextCommands
<1> QED
  BY <1>1, <1>2, PTL DEF Spec

\* Whatever write_buf_ held before, for all names and bases of counting: what a session
\* writes is one header, with the length of what follows, and whole AMF0 items.
THEOREM CommandsFramed == Spec => []Framed
<1>1. CommandsInv => Framed
  BY DEF CommandsInv
<1> QED
  BY <1>1, CommandsInvariant, PTL

\* Each session takes from the other's commands the application, the stream, the
\* transaction and the stream id that the other put there.
THEOREM CommandsUnderstood == Spec => []Understood
<1>1. CommandsInv => Understood
  <2> SUFFICES ASSUME CommandsInv PROVE Understood
    OBVIOUS
  <2>1. CommandsType /\ Progress
    BY DEF CommandsInv
  <2>2. /\ server.curr_tid \in {<<>>, Double(ConnectTid), Double(CreateStreamTid)}
        /\ client.stream_id \in {<<>>, Double(RTMP_MSID)}
        /\ server.app_name \in {<<>>, client.app_name}
        /\ server.stream_name \in {<<>>, client.stream_name}
    BY <2>1 DEF Progress
  <2>3. ASSUME turn = "media"
        PROVE  /\ server.app_name = client.app_name
               /\ server.stream_name = client.stream_name
               /\ client.stream_id = Double(RTMP_MSID)
               /\ server.chunk_size = LocalChunkSize
               /\ client.chunk_size = LocalChunkSize
    <3>1. Stage = 10
      BY <2>3, StageValues DEF Stage
    <3>2. ~TooLong
      BY <2>1, <3>1 DEF Progress
    <3>3. \A k \in {1, 2, 5, 8, 9} : Done(k)
      BY <3>1 DEF Done
    <3> QED
      BY <2>1, <3>2, <3>3 DEF Progress
  <2> QED
    BY <2>2, <2>3 DEF Understood
<1> QED
  BY <1>1, CommandsInvariant, PTL

\* The only connect that a server refuses is one with a url too long for a string of AMF0.
THEOREM OnlyLongUrlsRefused == Spec => []OnlyLongRefused
<1>1. CommandsInv => OnlyLongRefused
  BY DEF CommandsInv, Progress, OnlyLongRefused
<1> QED
  BY <1>1, CommandsInvariant, PTL

\* For all metadata: the group gets the last value of each property, and the bytes it
\* forwards decode to the same.
THEOREM MetaDataSurvives == Spec => []MetaDataKept
<1>1. CommandsInv => MetaDataKept
  BY DEF CommandsInv
<1> QED
  BY <1>1, CommandsInvariant, PTL
=============================================================================
