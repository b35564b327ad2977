----------------------------- MODULE HmacProofs -----------------------------
(***************************************************************************)
(* Theorems about Hmac, for any bytes, sizes, keys, texts and cuts.        *)
(*                                                                         *)
(* The heart is PaddingIsBlocks: the padding of a context that took a text *)
(* completes the blocks that the standard gives that text.                 *)
(***************************************************************************)
EXTENDS Hmac, Integers, SequenceTheorems, TLAPS

-----------------------------------------------------------------------------
(* Numbers *)

\* A quotient and a remainder are the only ones.
LEMMA DivUnique ==
    ASSUME NEW d \in Nat \ {0}, NEW q \in Nat, NEW r \in 0 .. d - 1
    PROVE  (d * q + r) \div d = q /\ (d * q + r) % d = r
<1> DEFINE n == d * q + r
           p == n \div d
           s == n % d
<1>1. n \in Nat
  OBVIOUS
<1>2. p \in Nat /\ s \in 0 .. d - 1 /\ n = d * p + s
  BY <1>1
<1>3. d * (p - q) = r - s
  BY <1>1, <1>2
<1> HIDE DEF n, p, s
<1>4. ASSUME p > q PROVE FALSE
  <2>1. p - q >= 1
    BY <1>2, <1>4
  <2>2. d * (p - q) >= d
    BY <1>2, <2>1
  <2> QED
    BY <1>2, <1>3, <2>2
<1>5. ASSUME p < q PROVE FALSE
  <2>1. q - p >= 1
    BY <1>2, <1>5
  <2>2. d * (q - p) >= d
    BY <1>2, <2>1
  <2>3. d * (q - p) = s - r
    BY <1>2, <1>3
  <2> QED
    BY <1>2, <2>2, <2>3
<1>6. p = q
  BY <1>2, <1>4, <1>5
<1>7. s = r
  BY <1>2, <1>3, <1>6
<1> QED
  BY <1>6, <1>7 DEF n, p, s

\* Place i of m rows of d.
LEMMA RowAndColumn ==
    ASSUME NEW d \in Nat \ {0}, NEW m \in Nat, NEW i \in 1 .. d * m
    PROVE  /\ (i - 1) \div d \in 0 .. m - 1 /\ (i - 1) % d \in 0 .. d - 1
           /\ i = d * ((i - 1) \div d) + ((i - 1) % d) + 1
<1> DEFINE q == (i - 1) \div d
           s == (i - 1) % d
<1>1. d * m \in Nat
  OBVIOUS
<1>2. i - 1 \in Nat /\ i - 1 < d * m
  BY <1>1
<1>3. q \in Int /\ s \in 0 .. d - 1 /\ i - 1 = d * q + s
  BY <1>2
<1> HIDE DEF q, s
<1>4. ASSUME q <= -1 PROVE FALSE
  <2>1. -q - 1 \in Nat
    BY <1>3, <1>4
  <2>2. d * (-q - 1) \in Nat /\ d * (-q - 1) = -(d * q) - d
    BY <1>3, <2>1
  <2> QED
    BY <1>2, <1>3, <2>2
<1>5. ASSUME q >= m PROVE FALSE
  <2>1. q - m \in Nat
    BY <1>3, <1>5
  <2>2. d * (q - m) \in Nat /\ d * (q - m) = d * q - d * m
    BY <1>3, <2>1
  <2> QED
    BY <1>1, <1>2, <1>3, <2>2
<1>6. q \in 0 .. m - 1
  BY <1>3, <1>4, <1>5
<1> QED
  BY <1>2, <1>3, <1>6 DEF q, s

-----------------------------------------------------------------------------
(* Sizes *)

LEMMA Sizes ==
    /\ BlockSize \in Nat \ {0} /\ LengthSize \in Nat \ {0} /\ LengthSize < BlockSize
    /\ HashSize \in Nat /\ HashSize <= BlockSize
    /\ HalfLength \in Nat /\ 8 < HalfLength /\ MaxText \in Nat
    /\ Zero \in Byte /\ PadByte \in Byte /\ Junk \in Byte
BY Sha256Assumption, HmacAssumption

\* Byte j of block b, in n blocks.
LEMMA PlaceInBlocks ==
    ASSUME NEW n \in Nat, NEW b \in 1 .. n, NEW j \in Index
    PROVE  BlockSize * (b - 1) + j + 1 \in 1 .. BlockSize * n
<1>1. BlockSize * (b - 1) \in Nat /\ BlockSize * n \in Nat
      /\ BlockSize * (n - b) \in Nat
  BY Sizes
<1>2. BlockSize * n = BlockSize * (b - 1) + BlockSize + BlockSize * (n - b)
  BY Sizes
<1>3. j \in 0 .. BlockSize - 1
  BY DEF Index
<1> QED
  BY <1>1, <1>2, <1>3, Sizes

\* Contexts within a step, whose block may be full.
Filling ==
    [computed_ : BOOLEAN, corrupted_ : BOOLEAN,
     length_low_ : 0 .. HalfLength - 1, length_high_ : 0 .. HalfLength - 1,
     message_block_index_ : 0 .. BlockSize, intermediate_hash_ : Seq(Block),
     message_block_ : Block]

LEMMA ContextIsFilling == Context \subseteq Filling
BY Sizes DEF Context, Filling, Index

\* The two halves count the bits of a text as long as it is short.
LEMMA LengthCounts ==
    ASSUME NEW c \in Filling, NEW n \in Nat,
           8 * n = HalfLength * c.length_high_ + c.length_low_, Short(n + 1)
    PROVE  /\ AddLength(c).length_low_ \in 0 .. HalfLength - 1
           /\ AddLength(c).length_high_ \in 0 .. HalfLength - 1
           /\ AddLength(c).corrupted_ = FALSE
           /\ 8 * (n + 1) = HalfLength * AddLength(c).length_high_ + AddLength(c).length_low_
<1> DEFINE a == AddLength(c)
           high == c.length_high_
           low == c.length_low_
<1>1. high \in 0 .. HalfLength - 1 /\ low \in 0 .. HalfLength - 1
  BY DEF Filling
<1>2. /\ a.length_low_ = IF Carries(c) THEN low + 8 - HalfLength ELSE low + 8
      /\ a.length_high_ = IF Carries(c) THEN (high + 1) % HalfLength ELSE high
      /\ a.corrupted_ = (Carries(c) /\ (high + 1) % HalfLength = 0)
  BY DEF AddLength, Filling
<1>3. Carries(c) = (low + 8 >= HalfLength)
  BY DEF Carries
<1>4. 8 * (n + 1) = HalfLength * high + low + 8 /\ 8 * (n + 1) < HalfLength * HalfLength
  BY <1>1, Sizes DEF Short
<1> HIDE DEF a, high, low
<1>5. CASE low + 8 >= HalfLength
  <2>1. HalfLength * (high + 1) = HalfLength * high + HalfLength
    BY <1>1, Sizes
  <2>2. high + 1 < HalfLength
    <3>1. ASSUME high + 1 = HalfLength PROVE FALSE
      <4>1. HalfLength * (high + 1) = HalfLength * HalfLength
        BY <3>1
      <4>2. HalfLength * high \in Nat /\ HalfLength * HalfLength \in Nat
        BY <1>1, Sizes
      <4> QED
        BY ONLY <1>1, <1>4, <1>5, <2>1, <4>1, <4>2, Sizes, n \in Nat
    <3> QED
      BY <1>1, <3>1, Sizes
  <2>3. (high + 1) % HalfLength = high + 1
    <3> DEFINE h == high + 1
    <3>1. h \in 0 .. HalfLength - 1 /\ HalfLength \in Nat \ {0} /\ 0 \in Nat
      BY <1>1, <2>2, Sizes
    <3> HIDE DEF h
    <3>2. (HalfLength * 0 + h) % HalfLength = h
      BY <3>1, DivUnique
    <3>3. HalfLength * 0 + h = h
      BY <3>1
    <3> QED
      BY <3>2, <3>3 DEF h
  <2>4. a.length_high_ = high + 1 /\ a.length_low_ = low + 8 - HalfLength
    BY <1>2, <1>3, <1>5, <2>3
  <2>5. ~((high + 1) % HalfLength = 0)
    BY <1>1, <2>3
  <2>6. a.corrupted_ = FALSE
    BY <1>2, <2>5
  <2> QED
    BY <1>1, <1>4, <1>5, <2>1, <2>2, <2>4, <2>6, Sizes DEF a
<1>6. CASE ~(low + 8 >= HalfLength)
  <2>1. a.length_high_ = high /\ a.length_low_ = low + 8 /\ a.corrupted_ = FALSE
    BY <1>1, <1>2, <1>3, <1>6
  <2> QED
    BY <1>1, <1>4, <1>6, <2>1, Sizes DEF a
<1> QED
  BY <1>5, <1>6

-----------------------------------------------------------------------------
(* The fields of a context *)

\* What each part of input and result does to a context.
LEMMA PutFields ==
    ASSUME NEW c \in Context, NEW byte \in Byte
    PROVE  LET p == Put(c, byte) IN
           /\ p \in Filling /\ p.computed_ = c.computed_
           /\ p.message_block_index_ = c.message_block_index_ + 1
           /\ p.message_block_ = [c.message_block_ EXCEPT ![c.message_block_index_] = byte]
           /\ p.intermediate_hash_ = c.intermediate_hash_
           /\ p.length_low_ = c.length_low_ /\ p.length_high_ = c.length_high_
<1> DEFINE i == c.message_block_index_
           block == [c.message_block_ EXCEPT ![i] = byte]
           p == Put(c, byte)
<1>1. i \in Index /\ i + 1 \in 0 .. BlockSize /\ c.message_block_ \in Block
  BY Sizes DEF Context, Index
<1>2. block \in Block
  BY <1>1 DEF Block
<1>3. p = [c EXCEPT !.message_block_ = block, !.message_block_index_ = i + 1]
  BY DEF Put
<1> HIDE DEF p, i, block
<1>4. /\ p \in Filling /\ p.computed_ = c.computed_
      /\ p.message_block_index_ = i + 1 /\ p.message_block_ = block
      /\ p.intermediate_hash_ = c.intermediate_hash_
      /\ p.length_low_ = c.length_low_ /\ p.length_high_ = c.length_high_
  BY <1>1, <1>2, <1>3 DEF Filling, Context
<1> QED
  BY <1>4 DEF p, i, block

LEMMA ZeroFields ==
    ASSUME NEW c \in Filling, NEW end \in Nat
    PROVE  LET z == ZeroUpTo(c, end) IN
           /\ z \in Filling
           /\ \A j \in Index : z.message_block_[j] =
                IF j \in c.message_block_index_ .. end - 1 THEN Zero ELSE c.message_block_[j]
           /\ z.message_block_index_ = c.message_block_index_
           /\ z.intermediate_hash_ = c.intermediate_hash_
           /\ z.length_low_ = c.length_low_ /\ z.length_high_ = c.length_high_
<1> DEFINE block == [j \in Index |-> IF j \in c.message_block_index_ .. end - 1
                                     THEN Zero ELSE c.message_block_[j]]
           z == ZeroUpTo(c, end)
<1>1. block \in Block
  BY Sizes DEF Block, Filling
<1>2. z = [c EXCEPT !.message_block_ = block]
  BY DEF ZeroUpTo
<1>3. \A j \in Index : block[j] =
        IF j \in c.message_block_index_ .. end - 1 THEN Zero ELSE c.message_block_[j]
  OBVIOUS
<1> HIDE DEF z, block
<1>4. /\ z \in Filling /\ z.message_block_ = block
      /\ z.message_block_index_ = c.message_block_index_
      /\ z.intermediate_hash_ = c.intermediate_hash_
      /\ z.length_low_ = c.length_low_ /\ z.length_high_ = c.length_high_
  BY <1>1, <1>2 DEF Filling
<1> QED
  BY <1>3, <1>4 DEF z

LEMMA LengthFields ==
    ASSUME FieldIsBytes, NEW c \in Filling
    PROVE  LET w == WithLength(c) IN
           /\ w \in Filling
           /\ \A j \in Index : w.message_block_[j] =
                IF j < BlockSize - LengthSize THEN c.message_block_[j]
                ELSE LengthField(c.length_high_, c.length_low_)[j - (BlockSize - LengthSize) + 1]
           /\ w.intermediate_hash_ = c.intermediate_hash_
           /\ w.length_low_ = c.length_low_ /\ w.length_high_ = c.length_high_
<1> DEFINE field == LengthField(c.length_high_, c.length_low_)
           block == [j \in Index |-> IF j < BlockSize - LengthSize THEN c.message_block_[j]
                                     ELSE field[j - (BlockSize - LengthSize) + 1]]
           w == WithLength(c)
<1>1. field \in [1 .. LengthSize -> Byte] /\ c.message_block_ \in [Index -> Byte]
  BY DEF FieldIsBytes, Filling, Block
<1>2. block \in Block
  <2>1. ASSUME NEW j \in Index, ~(j < BlockSize - LengthSize)
        PROVE  j - (BlockSize - LengthSize) + 1 \in 1 .. LengthSize
    BY <2>1, Sizes DEF Index
  <2> HIDE DEF field
  <2> QED
    BY <1>1, <2>1 DEF Block
<1>3. w = [c EXCEPT !.message_block_ = block]
  BY DEF WithLength
<1>4. \A j \in Index : block[j] = IF j < BlockSize - LengthSize THEN c.message_block_[j]
                                  ELSE field[j - (BlockSize - LengthSize) + 1]
  OBVIOUS
<1> HIDE DEF w, block
<1>5. /\ w \in Filling /\ w.message_block_ = block
      /\ w.intermediate_hash_ = c.intermediate_hash_
      /\ w.length_low_ = c.length_low_ /\ w.length_high_ = c.length_high_
  BY <1>2, <1>3 DEF Filling
<1> QED
  BY <1>4, <1>5 DEF w

LEMMA ProcessFields ==
    ASSUME NEW c \in Filling
    PROVE  LET r == process_message_block(c) IN
           /\ r \in Context /\ r.message_block_index_ = 0
           /\ r.computed_ = c.computed_ /\ r.corrupted_ = c.corrupted_
           /\ r.intermediate_hash_ = Append(c.intermediate_hash_, c.message_block_)
           /\ r.length_low_ = c.length_low_ /\ r.length_high_ = c.length_high_
<1> DEFINE hash == Append(c.intermediate_hash_, c.message_block_)
           r == process_message_block(c)
<1>1. c.intermediate_hash_ \in Seq(Block) /\ c.message_block_ \in Block
  BY DEF Filling
<1>2. hash \in Seq(Block)
  BY <1>1, AppendProperties
<1>3. r = [c EXCEPT !.intermediate_hash_ = hash, !.message_block_index_ = 0]
  BY DEF process_message_block
<1>4. 0 \in Index
  BY Sizes DEF Index
<1> HIDE DEF hash, r
<1>5. /\ r \in Context /\ r.message_block_index_ = 0 /\ r.intermediate_hash_ = hash
      /\ r.computed_ = c.computed_ /\ r.corrupted_ = c.corrupted_
      /\ r.length_low_ = c.length_low_ /\ r.length_high_ = c.length_high_
  BY <1>2, <1>3, <1>4 DEF Filling, Context
<1> QED
  BY <1>5 DEF hash, r

-----------------------------------------------------------------------------
(* sha256::input *)

\* A context that was just started holds nothing.
LEMMA StartedAbsorbs ==
    ASSUME NEW block \in Block
    PROVE  Started(block) \in Context /\ Absorbed(Started(block), <<>>)
<1>1. Started(block) \in Context
  BY Sizes DEF Started, Context, Index
<1>2. Absorbed(Started(block), <<>>)
  BY Sizes DEF Started, Absorbed
<1> QED
  BY <1>1, <1>2

LEMMA NewAbsorbs == New \in Context /\ Absorbed(New, <<>>)
<1>1. [j \in Index |-> Junk] \in Block
  BY Sizes DEF Block
<1> QED
  BY <1>1, StartedAbsorbs DEF New

LEMMA ResetAbsorbs ==
    ASSUME NEW c \in Context PROVE Reset(c) \in Context /\ Absorbed(Reset(c), <<>>)
<1>1. c.message_block_ \in Block
  BY DEF Context
<1> QED
  BY <1>1, StartedAbsorbs DEF Reset

\* One more byte leaves a context that has taken one more byte.
LEMMA InputAbsorbs ==
    ASSUME NEW c \in Context, NEW bytes \in Seq(Byte), Absorbed(c, bytes),
           NEW byte \in Byte, Short(Len(bytes) + 1)
    PROVE  /\ InputByte(c, byte) \in Context
           /\ Absorbed(InputByte(c, byte), Append(bytes, byte))
<1> DEFINE k == Len(c.intermediate_hash_)
           n == BlockSize * k
           i == c.message_block_index_
           p == Put(c, byte)
           a == AddLength(p)
           more == Append(bytes, byte)
<1>1. /\ k \in Nat /\ n \in Nat /\ i \in Index /\ i \in Nat /\ i < BlockSize
      /\ c.intermediate_hash_ \in Seq(Block) /\ c.message_block_ \in Block
      /\ c.computed_ = FALSE /\ c.corrupted_ = FALSE
      /\ Len(bytes) = n + i /\ Len(bytes) \in Nat
  BY Sizes, SMTT(30) DEF Context, Absorbed, Index
<1>0. n = BlockSize * k /\ 8 * Len(bytes) = HalfLength * c.length_high_ + c.length_low_
  BY DEF Absorbed
<1>2. /\ p \in Filling /\ p.computed_ = FALSE
      /\ p.message_block_ = [c.message_block_ EXCEPT ![i] = byte]
      /\ p.message_block_index_ = i + 1 /\ p.intermediate_hash_ = c.intermediate_hash_
      /\ p.length_low_ = c.length_low_ /\ p.length_high_ = c.length_high_
  BY <1>1, PutFields
<1>3. /\ a.length_low_ \in 0 .. HalfLength - 1 /\ a.length_high_ \in 0 .. HalfLength - 1
      /\ a.corrupted_ = FALSE
      /\ 8 * (Len(bytes) + 1) = HalfLength * a.length_high_ + a.length_low_
  <2> HIDE DEF p
  <2> QED
    BY <1>0, <1>1, <1>2, LengthCounts
<1>4. /\ a.computed_ = FALSE /\ a.message_block_ = p.message_block_
      /\ a.message_block_index_ = i + 1 /\ a.intermediate_hash_ = c.intermediate_hash_
      /\ a \in Filling
  <2>1. a = [p EXCEPT !.length_low_ = a.length_low_, !.length_high_ = a.length_high_,
                      !.corrupted_ = a.corrupted_]
    BY <1>2 DEF AddLength, Filling
  <2> HIDE DEF a, p
  <2> QED
    BY <1>2, <1>3, <2>1 DEF Filling
<1>5. /\ more \in Seq(Byte) /\ Len(more) = n + i + 1
      /\ \A x \in 1 .. n + i : more[x] = bytes[x]
      /\ more[n + i + 1] = byte
  BY <1>1
<1>6. \A j \in 0 .. i : p.message_block_[j] = more[n + j + 1]
  <2>1. ASSUME NEW j \in 0 .. i - 1 PROVE p.message_block_[j] = more[n + j + 1]
    <3>1. j # i /\ j \in Index /\ n + j + 1 \in 1 .. n + i
      <4> HIDE DEF i, n
      <4> QED
        BY <1>1, Sizes DEF Index
    <3>2. c.message_block_[j] = bytes[n + j + 1]
      BY DEF Absorbed
    <3>3. p.message_block_[j] = c.message_block_[j]
      BY <1>1, <1>2, <3>1 DEF Block
    <3> HIDE DEF p, more
    <3> QED
      BY <1>5, <3>1, <3>2, <3>3
  <2>2. p.message_block_[i] = byte
    BY <1>1, <1>2 DEF Block
  <2> HIDE DEF p, more
  <2> QED
    BY <1>1, <1>5, <2>1, <2>2, SMTT(30)
<1>7. \A b \in 1 .. k, j \in Index :
        c.intermediate_hash_[b][j] = more[BlockSize * (b - 1) + j + 1]
  <2> SUFFICES ASSUME NEW b \in 1 .. k, NEW j \in Index
               PROVE  c.intermediate_hash_[b][j] = more[BlockSize * (b - 1) + j + 1]
    OBVIOUS
  <2>1. BlockSize * (b - 1) + j + 1 \in 1 .. n + i
    <3> HIDE DEF k
    <3>1. BlockSize * (b - 1) + j + 1 \in 1 .. n
      BY <1>0, <1>1, PlaceInBlocks
    <3>2. BlockSize * (b - 1) + j + 1 \in Nat
      BY <1>1, Sizes DEF Index
    <3> HIDE DEF i, n
    <3> QED
      BY <1>1, <3>1
  <2>2. c.intermediate_hash_[b][j] = bytes[BlockSize * (b - 1) + j + 1]
    BY DEF Absorbed
  <2> HIDE DEF more
  <2> QED
    BY <1>5, <2>1, <2>2
<1> HIDE DEF a, more, p, n, k, i
<1>8. CASE i + 1 = BlockSize
  <2> DEFINE r == process_message_block(a)
             hash == Append(c.intermediate_hash_, p.message_block_)
  <2>1. InputByte(c, byte) = r
    BY <1>3, <1>4, <1>8 DEF InputByte, a, p
  <2>2. /\ r.computed_ = FALSE /\ r.corrupted_ = FALSE /\ r.message_block_index_ = 0
        /\ r.intermediate_hash_ = hash
        /\ r.length_high_ = a.length_high_ /\ r.length_low_ = a.length_low_
        /\ r \in Context
    BY <1>3, <1>4, ProcessFields
  <2>3. p.message_block_ \in Block
    BY <1>2 DEF Filling
  <2>4. /\ hash \in Seq(Block) /\ Len(hash) = k + 1 /\ hash[k + 1] = p.message_block_
        /\ \A b \in 1 .. k : hash[b] = c.intermediate_hash_[b]
    BY <1>1, <2>3, AppendProperties DEF k
  <2>5. /\ BlockSize * (k + 1) = n + BlockSize /\ Len(more) = n + BlockSize
        /\ BlockSize * ((k + 1) - 1) = n
    BY <1>0, <1>1, <1>5, <1>8, Sizes
  <2> HIDE DEF hash, r
  <2>6. \A b \in 1 .. k + 1, j \in Index : hash[b][j] = more[BlockSize * (b - 1) + j + 1]
    <3> SUFFICES ASSUME NEW b \in 1 .. k + 1, NEW j \in Index
                 PROVE  hash[b][j] = more[BlockSize * (b - 1) + j + 1]
      OBVIOUS
    <3>1. CASE b = k + 1
      <4>1. j \in 0 .. i
        BY <1>1, <1>8 DEF Index
      <4> QED
        BY <1>6, <2>4, <2>5, <3>1, <4>1
    <3>2. CASE b # k + 1
      <4>1. b \in 1 .. k
        BY <1>1, <3>2
      <4> QED
        BY <1>7, <2>4, <4>1
    <3> QED
      BY <3>1, <3>2
  <2>7. /\ Len(more) = BlockSize * Len(r.intermediate_hash_) + r.message_block_index_
        /\ 8 * Len(more) = HalfLength * r.length_high_ + r.length_low_
    <3>1. Len(more) = Len(bytes) + 1
      BY <1>1, <1>5
    <3>2. Len(more) = BlockSize * (k + 1) + 0
      BY <1>1, <1>5, <2>5, Sizes
    <3> QED
      BY <1>3, <2>2, <2>4, <3>1, <3>2
  <2>8. \A j \in 0 .. r.message_block_index_ - 1 :
          r.message_block_[j] = more[BlockSize * Len(r.intermediate_hash_) + j + 1]
    BY <2>2
  <2>9. Absorbed(r, more)
    BY <2>2, <2>4, <2>6, <2>7, <2>8 DEF Absorbed
  <2> QED
    BY <2>1, <2>2, <2>4, <2>9 DEF more
<1>9. CASE i + 1 # BlockSize
  <2>1. InputByte(c, byte) = a
    BY <1>3, <1>4, <1>9 DEF InputByte, a, p
  <2>2. p.message_block_ \in Block /\ i + 1 \in Index
    <3>1. i + 1 \in 0 .. BlockSize - 1
      BY <1>1, <1>9, Sizes
    <3> QED
      BY <1>2, <3>1 DEF Filling, Index
  <2>3. a \in Context
    <3>1. a \in Filling /\ a.message_block_index_ \in Index
      BY <1>4, <2>2
    <3> QED
      BY <3>1 DEF Filling, Context
  <2>4. a.intermediate_hash_ = c.intermediate_hash_ /\ Len(a.intermediate_hash_) = k
    BY <1>4 DEF k
  <2>5. /\ Len(more) = BlockSize * Len(a.intermediate_hash_) + a.message_block_index_
        /\ 8 * Len(more) = HalfLength * a.length_high_ + a.length_low_
    <3>1. Len(more) = Len(bytes) + 1 /\ Len(more) = n + (i + 1)
      BY <1>1, <1>5
    <3> QED
      BY <1>0, <1>3, <1>4, <2>4, <3>1
  <2>6. \A j \in 0 .. a.message_block_index_ - 1 :
          a.message_block_[j] = more[BlockSize * Len(a.intermediate_hash_) + j + 1]
    <3>1. (i + 1) - 1 = i
      BY <1>1
    <3> QED
      BY <1>0, <1>4, <1>6, <2>4, <3>1
  <2>7. Absorbed(a, more)
    BY <1>3, <1>4, <1>7, <2>4, <2>5, <2>6 DEF Absorbed
  <2> QED
    BY <2>1, <2>3, <2>7 DEF more
<1> QED
  BY <1>8, <1>9

-----------------------------------------------------------------------------
(* The blocks of a text *)

\* The blocks of a text leave room for the mark and the length.
LEMMA CountBounds ==
    ASSUME NEW t \in Seq(Byte)
    PROVE  /\ BlockCount(t) \in Nat \ {0} /\ BlockSize * BlockCount(t) \in Nat
           /\ BlockSize * BlockCount(t) - LengthSize \in Nat
           /\ Len(t) + 1 <= BlockSize * BlockCount(t) - LengthSize
<1> DEFINE l == Len(t) + LengthSize
           q == l \div BlockSize
           s == l % BlockSize
<1>1. l \in Nat /\ Len(t) \in Nat
  BY Sizes
<1>2. q \in Nat /\ s \in 0 .. BlockSize - 1 /\ l = BlockSize * q + s
  <2> DEFINE e == l + 1
  <2>1. e \in 1 .. BlockSize * e /\ BlockSize \in Nat \ {0} /\ e \in Nat /\ e - 1 = l
    BY <1>1, Sizes
  <2> HIDE DEF e
  <2>2. /\ (e - 1) \div BlockSize \in 0 .. e - 1 /\ (e - 1) % BlockSize \in 0 .. BlockSize - 1
        /\ e = BlockSize * ((e - 1) \div BlockSize) + ((e - 1) % BlockSize) + 1
    BY <2>1, RowAndColumn
  <2> HIDE DEF l
  <2>3. (e - 1) \div BlockSize = q /\ (e - 1) % BlockSize = s
    BY <2>1 DEF q, s
  <2> HIDE DEF q, s
  <2>4. q \in 0 .. e - 1 /\ s \in 0 .. BlockSize - 1 /\ e = BlockSize * q + s + 1
    BY <2>2, <2>3
  <2>5. BlockSize * q \in Nat
    BY <2>1, <2>4
  <2> QED
    BY <1>1, <2>1, <2>4, <2>5
<1>3. BlockCount(t) = q + 1
  BY DEF BlockCount
<1> HIDE DEF q, s
<1>4. BlockSize * (q + 1) = BlockSize * q + BlockSize /\ BlockSize * q \in Nat
  BY <1>2, Sizes
<1> QED
  BY <1>1, <1>2, <1>3, <1>4, Sizes DEF l

\* The length of a short text fits in the two halves.
LEMMA HalvesFit ==
    ASSUME NEW n \in Nat, Short(n)
    PROVE  /\ (8 * n) \div HalfLength \in 0 .. HalfLength - 1
           /\ (8 * n) % HalfLength \in 0 .. HalfLength - 1
<1>1. 8 * n + 1 \in 1 .. HalfLength * HalfLength /\ HalfLength \in Nat \ {0}
  BY Sizes DEF Short
<1>2. (8 * n + 1) - 1 = 8 * n
  OBVIOUS
<1> QED
  BY <1>1, <1>2, RowAndColumn

LEMMA PaddedIsByte ==
    ASSUME FieldIsBytes, NEW t \in Seq(Byte), Short(Len(t)),
           NEW i \in 1 .. BlockSize * BlockCount(t)
    PROVE  PaddedByte(t, i) \in Byte
<1> DEFINE begin == BlockSize * BlockCount(t) - LengthSize
           high == (8 * Len(t)) \div HalfLength
           low == (8 * Len(t)) % HalfLength
<1>1. begin \in Nat /\ Len(t) \in Nat /\ BlockSize * BlockCount(t) \in Nat
  BY CountBounds
<1>2. LengthField(high, low) \in [1 .. LengthSize -> Byte]
  BY <1>1, HalvesFit DEF FieldIsBytes
<1>3. ASSUME i > begin PROVE i - begin \in 1 .. LengthSize
  BY <1>1, <1>3, Sizes
<1> HIDE DEF begin, high, low
<1>4. PaddedByte(t, i) = IF i <= Len(t) THEN t[i]
                         ELSE IF i = Len(t) + 1 THEN PadByte
                         ELSE IF i <= begin THEN Zero
                         ELSE LengthField(high, low)[i - begin]
  BY DEF PaddedByte, begin, high, low
<1>5. CASE i <= Len(t)
  BY <1>1, <1>4, <1>5
<1>6. CASE ~(i <= Len(t))
  BY <1>1, <1>2, <1>3, <1>4, <1>6, Sizes
<1> QED
  BY <1>5, <1>6

LEMMA BlocksAreBlocks ==
    ASSUME FieldIsBytes, NEW t \in Seq(Byte), Short(Len(t))
    PROVE  /\ Blocks(t) \in Seq(Block) /\ Len(Blocks(t)) = BlockCount(t)
           /\ \A b \in 1 .. BlockCount(t) :
                Blocks(t)[b] = [j \in Index |-> PaddedByte(t, BlockSize * (b - 1) + j + 1)]
<1>1. BlockCount(t) \in Nat
  BY CountBounds
<1>2. ASSUME NEW b \in 1 .. BlockCount(t)
      PROVE  [j \in Index |-> PaddedByte(t, BlockSize * (b - 1) + j + 1)] \in Block
  BY <1>1, PlaceInBlocks, PaddedIsByte DEF Block
<1> QED
  BY <1>1, <1>2 DEF Blocks

\* The digest of a text is bytes.
LEMMA ShaIsBytes ==
    ASSUME FieldIsBytes, DigestIsBytes, NEW t \in Seq(Byte), Short(Len(t))
    PROVE  Sha(t) \in [1 .. HashSize -> Byte] /\ Sha(t) \in Seq(Byte) /\ Len(Sha(t)) = HashSize
<1>1. Sha(t) \in [1 .. HashSize -> Byte]
  BY BlocksAreBlocks DEF Sha, DigestIsBytes
<1> QED
  BY <1>1, Sizes

-----------------------------------------------------------------------------
(* sha256::result *)

\* The last block: zeros up to the length, and the length.
LEMMA LastBlock ==
    ASSUME FieldIsBytes, NEW c \in Filling
    PROVE  LET r == process_message_block(WithLength(ZeroUpTo(c, BlockSize - LengthSize))) IN
           /\ r \in Context
           /\ \E block \in Block :
                /\ r.intermediate_hash_ = Append(c.intermediate_hash_, block)
                /\ \A j \in Index : block[j] =
                     IF j >= BlockSize - LengthSize
                     THEN LengthField(c.length_high_, c.length_low_)
                              [j - (BlockSize - LengthSize) + 1]
                     ELSE IF j >= c.message_block_index_ THEN Zero ELSE c.message_block_[j]
<1> DEFINE end == BlockSize - LengthSize
           z == ZeroUpTo(c, end)
           w == WithLength(z)
           r == process_message_block(w)
<1>1. end \in Nat /\ c.message_block_index_ \in Nat
  BY Sizes DEF Filling
<1>2. /\ z \in Filling
      /\ \A j \in Index : z.message_block_[j] =
           IF j \in c.message_block_index_ .. end - 1 THEN Zero ELSE c.message_block_[j]
      /\ z.intermediate_hash_ = c.intermediate_hash_
      /\ z.length_low_ = c.length_low_ /\ z.length_high_ = c.length_high_
  <2> HIDE DEF end
  <2> QED
    BY <1>1, ZeroFields
<1> HIDE DEF z
<1>3. /\ w \in Filling
      /\ \A j \in Index : w.message_block_[j] =
           IF j < end THEN z.message_block_[j]
           ELSE LengthField(c.length_high_, c.length_low_)[j - end + 1]
      /\ w.intermediate_hash_ = c.intermediate_hash_
  BY <1>2, LengthFields
<1> HIDE DEF w
<1>4. r \in Context /\ r.intermediate_hash_ = Append(c.intermediate_hash_, w.message_block_)
  BY <1>3, ProcessFields
<1>5. w.message_block_ \in Block
  BY <1>3 DEF Filling
<1> HIDE DEF r
<1>6. \A j \in Index : w.message_block_[j] =
        IF j >= end THEN LengthField(c.length_high_, c.length_low_)[j - end + 1]
        ELSE IF j >= c.message_block_index_ THEN Zero ELSE c.message_block_[j]
  <2> HIDE DEF end
  <2> SUFFICES ASSUME NEW j \in Index
               PROVE  w.message_block_[j] =
                        IF j >= end THEN LengthField(c.length_high_, c.length_low_)[j - end + 1]
                        ELSE IF j >= c.message_block_index_ THEN Zero ELSE c.message_block_[j]
    OBVIOUS
  <2>1. j \in Nat
    BY Sizes DEF Index
  <2>2. CASE j >= end
    BY <1>1, <1>3, <2>1, <2>2
  <2>3. CASE ~(j >= end)
    BY <1>1, <1>2, <1>3, <2>1, <2>3
  <2> QED
    BY <2>2, <2>3
<1> QED
  BY <1>4, <1>5, <1>6 DEF r, w, z, end

\* The blocks that a context has worked on are the first ones of the text.
LEMMA FirstBlocks ==
    ASSUME NEW c \in Context, NEW bytes \in Seq(Byte), Absorbed(c, bytes),
           NEW b \in 1 .. Len(c.intermediate_hash_)
    PROVE  c.intermediate_hash_[b] =
             [j \in Index |-> PaddedByte(bytes, BlockSize * (b - 1) + j + 1)]
<1> DEFINE k == Len(c.intermediate_hash_)
<1>1. k \in Nat /\ BlockSize * k \in Nat /\ c.intermediate_hash_ \in Seq(Block)
      /\ c.message_block_index_ \in Nat
  BY Sizes DEF Context, Index
<1>2. Len(bytes) = BlockSize * k + c.message_block_index_
  BY DEF Absorbed
<1>3. c.intermediate_hash_[b] \in [Index -> Byte]
  BY <1>1, ElementOfSeq DEF Block
<1>4. ASSUME NEW j \in Index
      PROVE  c.intermediate_hash_[b][j] = PaddedByte(bytes, BlockSize * (b - 1) + j + 1)
  <2> DEFINE x == BlockSize * (b - 1) + j + 1
  <2>1. c.intermediate_hash_[b][j] = bytes[x]
    BY DEF Absorbed
  <2>2. x \in 1 .. BlockSize * k
    <3> HIDE DEF k
    <3> QED
      BY <1>1, PlaceInBlocks DEF k
  <2> HIDE DEF x, k
  <2>3. x <= Len(bytes)
    BY <1>1, <1>2, <2>2
  <2>4. PaddedByte(bytes, x) = bytes[x]
    BY <2>3 DEF PaddedByte
  <2> QED
    BY <2>1, <2>4 DEF x
<1> QED
  BY <1>3, <1>4

\* The padding completes the blocks of the text.
LEMMA PaddingIsBlocks ==
    ASSUME FieldIsBytes, NEW c \in Context, NEW bytes \in Seq(Byte), Absorbed(c, bytes),
           Short(Len(bytes))
    PROVE  pad_message(c) \in Context /\ pad_message(c).intermediate_hash_ = Blocks(bytes)
<1> DEFINE k == Len(c.intermediate_hash_)
           n == BlockSize * k
           i == c.message_block_index_
           end == BlockSize - LengthSize
           high == c.length_high_
           low == c.length_low_
           m == Put(c, PadByte)
           f == process_message_block(ZeroUpTo(m, BlockSize))
           count == BlockCount(bytes)
<1>1. /\ k \in Nat /\ n \in Nat /\ i \in Nat /\ i < BlockSize /\ end \in Nat /\ end < BlockSize
      /\ c.intermediate_hash_ \in Seq(Block) /\ c.message_block_ \in Block /\ i \in Index
      /\ Len(bytes) = n + i /\ Len(bytes) \in Nat
      /\ high \in 0 .. HalfLength - 1 /\ low \in 0 .. HalfLength - 1
  BY Sizes, SMTT(30) DEF Context, Absorbed, Index
<1>2. /\ (8 * Len(bytes)) \div HalfLength = high
      /\ (8 * Len(bytes)) % HalfLength = low
  <2>1. 8 * Len(bytes) = HalfLength * high + low
    BY DEF Absorbed
  <2>2. HalfLength \in Nat \ {0} /\ high \in Nat
    BY <1>1, Sizes
  <2> HIDE DEF high, low
  <2>3. /\ (HalfLength * high + low) \div HalfLength = high
        /\ (HalfLength * high + low) % HalfLength = low
    BY <1>1, <2>2, DivUnique
  <2> QED
    BY <2>1, <2>3
<1>3. /\ m \in Filling /\ m.message_block_index_ = i + 1
      /\ m.intermediate_hash_ = c.intermediate_hash_
      /\ m.length_low_ = low /\ m.length_high_ = high
  BY PutFields, Sizes
<1>4. /\ \A j \in 0 .. i - 1 : m.message_block_[j] = bytes[n + j + 1]
      /\ m.message_block_[i] = PadByte
  <2>1. m.message_block_ = [c.message_block_ EXCEPT ![i] = PadByte]
    BY PutFields, Sizes
  <2>2. ASSUME NEW j \in 0 .. i - 1
        PROVE  j # i /\ j \in Index /\ c.message_block_[j] = bytes[n + j + 1]
    <3>1. c.message_block_[j] = bytes[n + j + 1]
      BY DEF Absorbed
    <3> HIDE DEF i, n
    <3>2. j # i /\ j \in Index
      BY <1>1, Sizes DEF Index
    <3> QED
      BY <3>1, <3>2
  <2> HIDE DEF m
  <2> QED
    BY <1>1, <2>1, <2>2 DEF Block
<1>5. \A x \in Nat : PaddedByte(bytes, x) =
        IF x <= n + i THEN bytes[x]
        ELSE IF x = n + i + 1 THEN PadByte
        ELSE IF x <= BlockSize * count - LengthSize THEN Zero
        ELSE LengthField(high, low)[x - (BlockSize * count - LengthSize)]
  BY <1>1, <1>2 DEF PaddedByte
<1>6. \A b \in 1 .. k : c.intermediate_hash_[b] =
        [j \in Index |-> PaddedByte(bytes, BlockSize * (b - 1) + j + 1)]
  BY FirstBlocks
<1>7. /\ Blocks(bytes) \in Seq(Block) /\ Len(Blocks(bytes)) = count
      /\ \A b \in 1 .. count :
           Blocks(bytes)[b] = [j \in Index |-> PaddedByte(bytes, BlockSize * (b - 1) + j + 1)]
  BY BlocksAreBlocks
<1>8. \A j \in Index : j \in Nat /\ j < BlockSize
  BY Sizes DEF Index
<1> HIDE DEF m, high, low, i, k, n, count
<1>9. CASE i < end
  <2>1. count = k + 1
    <3>1. i + LengthSize \in 0 .. BlockSize - 1 /\ BlockSize \in Nat \ {0}
      BY <1>1, <1>9, Sizes
    <3>2. (BlockSize * k + (i + LengthSize)) \div BlockSize = k
      BY <1>1, <3>1, DivUnique
    <3>3. Len(bytes) + LengthSize = BlockSize * k + (i + LengthSize)
      BY <1>1, Sizes DEF n
    <3> QED
      BY <3>2, <3>3 DEF count, BlockCount
  <2>2. BlockSize * count - LengthSize = n + end /\ BlockSize * (count - 1) = n
    BY <1>1, <2>1, Sizes DEF n
  <2>3. pad_message(c) = process_message_block(WithLength(ZeroUpTo(m, end)))
    BY <1>1, <1>9 DEF pad_message, m, i
  <2>4. PICK block \in Block :
          /\ pad_message(c).intermediate_hash_ = Append(c.intermediate_hash_, block)
          /\ \A j \in Index : block[j] =
               IF j >= end THEN LengthField(high, low)[j - end + 1]
               ELSE IF j >= i + 1 THEN Zero ELSE m.message_block_[j]
    BY <1>3, <2>3, LastBlock
  <2>5. pad_message(c) \in Context
    BY <1>3, <2>3, LastBlock
  <2>6. ASSUME NEW j \in Index PROVE block[j] = PaddedByte(bytes, n + j + 1)
    <3>1. n + j + 1 \in Nat /\ n + j + 1 - (n + end) = j - end + 1 /\ j \in Nat
      BY <1>1, <1>8
    <3> HIDE DEF end
    <3>2. CASE j >= end
      BY <1>1, <1>5, <1>9, <2>2, <2>4, <3>1, <3>2
    <3>3. CASE j < end /\ j >= i + 1
      BY <1>1, <1>5, <2>2, <2>4, <3>1, <3>3
    <3>4. CASE j = i
      BY <1>1, <1>4, <1>5, <1>9, <2>4, <3>1, <3>4
    <3>5. CASE j < i
      BY <1>1, <1>4, <1>5, <1>9, <2>4, <3>1, <3>5
    <3> QED
      BY <1>1, <3>1, <3>2, <3>3, <3>4, <3>5
  <2>7. block = [j \in Index |-> PaddedByte(bytes, n + j + 1)]
    BY <2>6 DEF Block
  <2> DEFINE s == Append(c.intermediate_hash_, block)
  <2>8. /\ s \in Seq(Block) /\ Len(s) = count /\ s[count] = block
        /\ \A b \in 1 .. k : s[b] = c.intermediate_hash_[b]
    BY <1>1, <2>1, AppendProperties DEF k
  <2> HIDE DEF s
  <2>9. ASSUME NEW b \in 1 .. Len(s) PROVE s[b] = Blocks(bytes)[b]
    <3>1. CASE b = count
      BY <1>7, <2>2, <2>7, <2>8, <3>1
    <3>2. CASE b # count
      <4>1. b \in 1 .. k
        BY <1>1, <2>1, <2>8, <3>2
      <4> QED
        BY <1>6, <1>7, <2>8, <4>1
    <3> QED
      BY <3>1, <3>2
  <2>10. s = Blocks(bytes)
    BY <1>7, <2>8, <2>9, SeqEqual
  <2> QED
    BY <2>4, <2>5, <2>10 DEF s
<1>10. CASE ~(i < end)
  <2>1. count = k + 2
    <3>1. i + LengthSize - BlockSize \in 0 .. BlockSize - 1 /\ BlockSize \in Nat \ {0}
      BY <1>1, <1>10, Sizes
    <3>2. (BlockSize * (k + 1) + (i + LengthSize - BlockSize)) \div BlockSize = k + 1
      BY <1>1, <3>1, DivUnique
    <3>3. Len(bytes) + LengthSize = BlockSize * (k + 1) + (i + LengthSize - BlockSize)
      BY <1>1, Sizes DEF n
    <3> QED
      BY <1>1, <3>2, <3>3 DEF count, BlockCount
  <2>2. /\ BlockSize * count - LengthSize = n + BlockSize + end
        /\ BlockSize * (count - 1) = n + BlockSize /\ BlockSize * ((count - 1) - 1) = n
    BY <1>1, <2>1, Sizes DEF n
  <2>3. pad_message(c) = process_message_block(WithLength(ZeroUpTo(f, end)))
    BY <1>1, <1>10 DEF pad_message, m, i
  <2> DEFINE z == ZeroUpTo(m, BlockSize)
             first == z.message_block_
  <2>4. /\ z \in Filling /\ first \in Block
        /\ z.intermediate_hash_ = c.intermediate_hash_
        /\ z.length_low_ = low /\ z.length_high_ = high
        /\ \A j \in Index : first[j] = IF j \in i + 1 .. BlockSize - 1 THEN Zero
                                       ELSE m.message_block_[j]
    <3>1. BlockSize \in Nat
      BY Sizes
    <3>2. z \in Filling
      BY <1>3, <3>1, ZeroFields
    <3>3. first \in Block
      BY <3>2 DEF Filling
    <3> HIDE DEF first
    <3> QED
      BY <1>3, <3>1, <3>2, <3>3, ZeroFields DEF first
  <2> HIDE DEF z, first
  <2>5. /\ f \in Context /\ f \in Filling /\ f.message_block_index_ = 0
        /\ f.intermediate_hash_ = Append(c.intermediate_hash_, first)
        /\ f.length_low_ = low /\ f.length_high_ = high
    BY <2>4, ProcessFields, ContextIsFilling DEF z, first
  <2> HIDE DEF f
  <2>6. PICK block \in Block :
          /\ pad_message(c).intermediate_hash_ = Append(f.intermediate_hash_, block)
          /\ \A j \in Index : block[j] =
               IF j >= end THEN LengthField(high, low)[j - end + 1]
               ELSE IF j >= 0 THEN Zero ELSE f.message_block_[j]
    BY <2>3, <2>5, LastBlock, SMTT(30)
  <2>7. pad_message(c) \in Context
    BY <2>3, <2>5, LastBlock
  <2>8. ASSUME NEW j \in Index PROVE first[j] = PaddedByte(bytes, n + j + 1)
    <3>1. /\ n + j + 1 \in Nat /\ j \in Nat /\ j < BlockSize
          /\ n + j + 1 <= n + BlockSize + end
      <4> HIDE DEF end
      <4> QED
        BY <1>1, <1>8, Sizes
    <3> HIDE DEF end
    <3>2. CASE j >= i + 1
      <4>1. first[j] = Zero
        BY <1>1, <2>4, <3>1, <3>2, Sizes
      <4>2. ~(n + j + 1 <= n + i) /\ ~(n + j + 1 = n + i + 1)
        BY <1>1, <3>1, <3>2
      <4> QED
        BY <1>5, <2>2, <3>1, <4>1, <4>2
    <3>3. CASE j = i
      BY <1>1, <1>4, <1>5, <2>4, <3>1, <3>3
    <3>4. CASE j < i
      BY <1>1, <1>4, <1>5, <2>4, <3>1, <3>4
    <3> QED
      BY <1>1, <3>1, <3>2, <3>3, <3>4
  <2>9. first = [j \in Index |-> PaddedByte(bytes, n + j + 1)]
    BY <2>4, <2>8 DEF Block
  <2>10. ASSUME NEW j \in Index PROVE block[j] = PaddedByte(bytes, (n + BlockSize) + j + 1)
    <3>1. /\ (n + BlockSize) + j + 1 \in Nat /\ j \in Nat
          /\ (n + BlockSize) + j + 1 - (n + BlockSize + end) = j - end + 1
          /\ (n + BlockSize) + j + 1 > n + i + 1
      BY <1>1, <1>8, Sizes
    <3> HIDE DEF end
    <3>2. CASE j >= end
      BY <1>1, <1>5, <2>2, <2>6, <3>1, <3>2, Sizes, SMTT(30)
    <3>3. CASE ~(j >= end)
      BY <1>1, <1>5, <2>2, <2>6, <3>1, <3>3, Sizes
    <3> QED
      BY <3>2, <3>3
  <2>11. block = [j \in Index |-> PaddedByte(bytes, (n + BlockSize) + j + 1)]
    BY <2>10 DEF Block
  <2> DEFINE t == Append(c.intermediate_hash_, first)
             s == Append(t, block)
  <2>12. /\ t \in Seq(Block) /\ Len(t) = k + 1 /\ t[k + 1] = first
         /\ \A b \in 1 .. k : t[b] = c.intermediate_hash_[b]
    BY <1>1, <2>4, AppendProperties DEF k
  <2> HIDE DEF t
  <2>13. /\ s \in Seq(Block) /\ Len(s) = k + 2 /\ s[k + 2] = block
         /\ \A b \in 1 .. k + 1 : s[b] = t[b]
    <3>1. Len(t) + 1 = k + 2
      BY <1>1, <2>12
    <3> QED
      BY <1>1, <2>12, <3>1, AppendProperties
  <2> HIDE DEF s
  <2>14. ASSUME NEW b \in 1 .. Len(s) PROVE s[b] = Blocks(bytes)[b]
    <3>1. CASE b = count
      BY <1>7, <2>1, <2>2, <2>11, <2>13, <3>1
    <3>2. CASE b = k + 1
      <4>1. b = count - 1 /\ b \in 1 .. count /\ b \in 1 .. k + 1
        BY <1>1, <2>1, <3>2
      <4> QED
        BY <1>7, <2>2, <2>9, <2>12, <2>13, <3>2, <4>1
    <3>3. CASE b # count /\ b # k + 1
      <4>1. b \in 1 .. k /\ b \in 1 .. count /\ b \in 1 .. k + 1
        BY <1>1, <2>1, <2>13, <3>3
      <4> QED
        BY <1>6, <1>7, <2>12, <2>13, <4>1
    <3> QED
      BY <3>1, <3>2, <3>3
  <2>15. s = Blocks(bytes)
    BY <1>7, <2>1, <2>13, <2>14, SeqEqual
  <2> QED
    BY <2>5, <2>6, <2>7, <2>15 DEF s, t
<1> QED
  BY <1>9, <1>10

\* The result of a context is the digest of what it was fed.
LEMMA DigestIsSha ==
    ASSUME FieldIsBytes, NEW c \in Context, NEW bytes \in Seq(Byte), Absorbed(c, bytes),
           Short(Len(bytes))
    PROVE  result(c) \in Context /\ DigestOf(c) = Sha(bytes)
<1> DEFINE p == pad_message(c)
           zeros == [j \in Index |-> Zero]
           r == result(c)
<1>1. p \in Context /\ p.intermediate_hash_ = Blocks(bytes)
  BY PaddingIsBlocks
<1>2. c.corrupted_ = FALSE /\ c.computed_ = FALSE
  BY DEF Absorbed, Context
<1>3. r = [p EXCEPT !.message_block_ = zeros, !.length_low_ = 0, !.length_high_ = 0,
                    !.computed_ = TRUE]
  BY <1>2 DEF result, finalize
<1>4. zeros \in Block /\ 0 \in 0 .. HalfLength - 1
  BY Sizes DEF Block
<1> HIDE DEF p, zeros, r
<1>5. r \in Context /\ r.intermediate_hash_ = p.intermediate_hash_
  BY <1>1, <1>3, <1>4 DEF Context
<1> QED
  BY <1>1, <1>5 DEF r, DigestOf, Sha

-----------------------------------------------------------------------------
(* hmac *)

\* What the theorems suppose of the two functions that are left open.
Open == FieldIsBytes /\ DigestIsBytes

LEMMA PadIsBytes ==
    ASSUME NEW k \in Seq(Byte), NEW mask \in {InnerPad, OuterPad}
    PROVE  Pad(k, mask) \in Seq(Byte) /\ Len(Pad(k, mask)) = BlockSize
<1>1. ASSUME NEW i \in 1 .. BlockSize
      PROVE  (IF i <= Len(k) THEN k[i] ELSE Zero) \in Byte
  BY Sizes
<1>2. \A byte \in Byte : Xor(byte, mask) \in Byte
  BY HmacAssumption
<1>3. ASSUME NEW i \in 1 .. BlockSize
      PROVE  Xor(IF i <= Len(k) THEN k[i] ELSE Zero, mask) \in Byte
  BY <1>1, <1>2
<1> QED
  BY <1>3, Sizes DEF Pad

LEMMA BlockKeyIsBytes ==
    ASSUME Open, NEW k \in Keys PROVE BlockKey(k) \in Seq(Byte)
<1>1. k \in Seq(Byte) /\ Short(Len(k))
  BY HmacAssumption
<1> QED
  BY <1>1, ShaIsBytes DEF Open, BlockKey

LEMMA ShortIsMonotone ==
    ASSUME NEW m \in Nat, NEW n \in Nat, m <= n, Short(n) PROVE Short(m)
<1>1. HalfLength * HalfLength \in Nat
  BY Sizes
<1> QED
  BY <1>1 DEF Short

LEMMA InnerIsBytes ==
    ASSUME Open, NEW k \in Keys, NEW t \in Seq(Byte), Len(t) <= MaxText
    PROVE  /\ Pad(BlockKey(k), InnerPad) \o t \in Seq(Byte)
           /\ Short(Len(Pad(BlockKey(k), InnerPad) \o t))
<1> DEFINE p == Pad(BlockKey(k), InnerPad)
<1>1. p \in Seq(Byte) /\ Len(p) = BlockSize
  BY BlockKeyIsBytes, PadIsBytes
<1> HIDE DEF p
<1>2. /\ p \o t \in Seq(Byte) /\ Len(p \o t) \in Nat /\ Len(p \o t) <= BlockSize + MaxText
      /\ BlockSize + MaxText \in Nat
  BY <1>1, Sizes
<1> QED
  BY <1>2, ShortIsMonotone, HmacAssumption DEF p

LEMMA OuterIsBytes ==
    ASSUME Open, NEW k \in Keys, NEW t \in Seq(Byte), Len(t) <= MaxText
    PROVE  LET inner == Pad(BlockKey(k), InnerPad) \o t
               outer == Pad(BlockKey(k), OuterPad) \o Sha(inner)
           IN  outer \in Seq(Byte) /\ Short(Len(outer)) /\ Sha(inner) \in Seq(Byte)
<1> DEFINE inner == Pad(BlockKey(k), InnerPad) \o t
           p == Pad(BlockKey(k), OuterPad)
           s == Sha(inner)
<1>1. p \in Seq(Byte) /\ Len(p) = BlockSize
  BY BlockKeyIsBytes, PadIsBytes
<1>2. s \in Seq(Byte) /\ Len(s) = HashSize
  <2>1. inner \in Seq(Byte) /\ Short(Len(inner))
    BY InnerIsBytes
  <2> HIDE DEF inner
  <2> QED
    BY <2>1, ShaIsBytes DEF Open
<1> HIDE DEF p, s
<1>3. /\ p \o s \in Seq(Byte) /\ Len(p \o s) \in Nat /\ Len(p \o s) <= BlockSize + HashSize
      /\ BlockSize + HashSize \in Nat
  BY <1>1, <1>2, Sizes
<1>4. Short(Len(p \o s))
  BY <1>3, ShortIsMonotone, HmacAssumption
<1> QED
  BY <1>2, <1>3, <1>4 DEF p, s

\* What a context is fed is short enough for its length.
LEMMA GoalIsShort ==
    ASSUME Open, TypeOK, Len(text) <= MaxText
    PROVE  Goal \in Seq(Byte) /\ Short(Len(Goal))
<1>1. key \in Seq(Byte) /\ Short(Len(key))
  BY HmacAssumption DEF TypeOK
<1>2. key \in Keys /\ text \in Seq(Byte)
  BY DEF TypeOK
<1> QED
  BY <1>1, <1>2, InnerIsBytes, OuterIsBytes DEF Goal

LEMMA MoveHead ==
    ASSUME NEW s \in Seq(Byte), NEW t \in Seq(Byte), t # <<>>
    PROVE  /\ Head(t) \in Byte /\ Tail(t) \in Seq(Byte)
           /\ Append(s, Head(t)) \in Seq(Byte)
           /\ Append(s, Head(t)) \o Tail(t) = s \o t
           /\ Len(s) + 1 <= Len(s \o t)
OBVIOUS

-----------------------------------------------------------------------------
(* The invariant *)

HmacInv ==
    /\ TypeOK
    /\ NothingSkipped
    /\ step = "key" => Len(key) > BlockSize /\ text = <<>>
    /\ Len(text) <= MaxText
    /\ step # "done" => mac = NoCode
    /\ step = "done" => todo = <<>> /\ mac = Code(key, text)

\* A new object holds a new context.
LEMMA InitInv == ASSUME Open, Init PROVE HmacInv
<1>1. key \in Keys /\ key \in Seq(Byte) /\ text = <<>> /\ mac = NoCode
  BY HmacAssumption DEF Init
<1>2. Pad(key, InnerPad) \in Seq(Byte) /\ Pad(key, OuterPad) \in Seq(Byte)
  BY <1>1, PadIsBytes
<1>3. hasher_ \in Context /\ Absorbed(hasher_, fed) /\ fed = <<>>
  BY NewAbsorbs DEF Init
<1>4. Len(key) \in Nat /\ BlockSize \in Nat /\ MaxText \in Nat
  BY <1>1, Sizes
<1>5. CASE Len(key) > BlockSize
  <2>1. step = "key" /\ todo = key /\ k_opad_ = <<>> /\ Goal = key
    BY <1>5 DEF Init, Goal
  <2> QED
    BY <1>1, <1>3, <1>4, <1>5, <2>1 DEF HmacInv, TypeOK, NothingSkipped, NoCode
<1>6. CASE ~(Len(key) > BlockSize)
  <2>1. step = "inner" /\ todo = Pad(key, InnerPad) /\ k_opad_ = Pad(key, OuterPad)
    BY <1>6 DEF Init
  <2>2. BlockKey(key) = key /\ Goal = Pad(key, InnerPad) \o <<>>
    BY <1>1, <1>6, <2>1 DEF BlockKey, Goal
  <2>3. fed \o todo = Goal
    BY <1>2, <1>3, <2>1, <2>2
  <2> QED
    BY <1>1, <1>2, <1>3, <1>4, <2>1, <2>2, <2>3 DEF HmacInv, TypeOK, NothingSkipped, NoCode
<1> QED
  BY <1>5, <1>6

LEMMA InputInv == ASSUME Open, HmacInv, Input PROVE HmacInv'
<1> DEFINE byte == Head(todo)
<1>1. /\ hasher_ \in Context /\ fed \in Seq(Byte) /\ todo \in Seq(Byte) /\ todo # <<>>
      /\ step # "done" /\ Absorbed(hasher_, fed) /\ fed \o todo = Goal
  BY DEF HmacInv, TypeOK, NothingSkipped, Input
<1>2. /\ byte \in Byte /\ Tail(todo) \in Seq(Byte) /\ Append(fed, byte) \in Seq(Byte)
      /\ Append(fed, byte) \o Tail(todo) = Goal /\ Len(fed) + 1 <= Len(Goal)
  BY <1>1, MoveHead
<1>3. Short(Len(fed) + 1)
  <2>1. Goal \in Seq(Byte) /\ Short(Len(Goal))
    BY GoalIsShort DEF HmacInv
  <2>2. Len(fed) + 1 \in Nat /\ Len(Goal) \in Nat
    BY <1>1, <2>1
  <2> QED
    BY <1>2, <2>1, <2>2, ShortIsMonotone
<1>4. /\ hasher_' = InputByte(hasher_, byte) /\ fed' = Append(fed, byte)
      /\ todo' = Tail(todo)
      /\ UNCHANGED <<k_opad_, step, key, text, mac>>
  BY <1>1 DEF Input, Absorbed
<1> HIDE DEF byte
<1>5. hasher_' \in Context /\ Absorbed(hasher_', fed')
  BY <1>1, <1>2, <1>3, <1>4, InputAbsorbs
<1>6. Goal' = Goal
  BY <1>4 DEF Goal
<1>7. TypeOK'
  BY <1>2, <1>4, <1>5 DEF HmacInv, TypeOK
<1>8. NothingSkipped'
  BY <1>2, <1>4, <1>5, <1>6 DEF HmacInv, NothingSkipped
<1> QED
  BY <1>1, <1>4, <1>7, <1>8 DEF HmacInv

LEMMA KeyHashedInv == ASSUME Open, HmacInv, KeyHashed PROVE HmacInv'
<1>1. /\ hasher_ \in Context /\ fed \in Seq(Byte) /\ step = "key" /\ todo = <<>>
      /\ Absorbed(hasher_, fed) /\ fed \o todo = Goal /\ Goal = key
      /\ key \in Keys /\ key \in Seq(Byte) /\ Short(Len(key)) /\ Len(key) > BlockSize
      /\ text = <<>> /\ mac = NoCode
  BY HmacAssumption DEF HmacInv, TypeOK, NothingSkipped, KeyHashed, Goal
<1>2. fed = key
  BY <1>1, ConcatEmptySeq
<1>3. DigestOf(hasher_) = Sha(key) /\ BlockKey(key) = Sha(key)
  BY <1>1, <1>2, DigestIsSha DEF Open, BlockKey
<1>4. /\ Pad(BlockKey(key), InnerPad) \in Seq(Byte)
      /\ Pad(BlockKey(key), OuterPad) \in Seq(Byte)
  BY <1>1, BlockKeyIsBytes, PadIsBytes
<1>5. /\ hasher_' = New /\ todo' = Pad(BlockKey(key), InnerPad) /\ fed' = <<>>
      /\ step' = "inner" /\ k_opad_' = Pad(BlockKey(key), OuterPad)
      /\ UNCHANGED <<key, text, mac>>
  BY <1>3 DEF KeyHashed, Take
<1>6. hasher_' \in Context /\ Absorbed(hasher_', fed')
  BY <1>5, NewAbsorbs
<1>7. Goal' = Pad(BlockKey(key), InnerPad) \o <<>>
  BY <1>1, <1>5 DEF Goal, BlockKey, Pad
<1>8. fed' \o todo' = Goal'
  BY <1>4, <1>5, <1>7, ConcatEmptySeq
<1>9. TypeOK'
  BY <1>4, <1>5, <1>6 DEF HmacInv, TypeOK
<1>10. NothingSkipped'
  BY <1>5, <1>6, <1>8 DEF NothingSkipped, BlockKey, Pad
<1> QED
  BY <1>1, <1>5, <1>9, <1>10 DEF HmacInv

LEMMA UpdateInv == ASSUME Open, HmacInv, NEW s \in Pieces, Update(s) PROVE HmacInv'
<1>1. /\ step = "inner" /\ todo = <<>> /\ Len(text) + Len(s) <= MaxText
      /\ todo' = s /\ text' = text \o s
      /\ UNCHANGED <<hasher_, k_opad_, fed, step, key, mac>>
  BY DEF Update
<1>2. /\ s \in Seq(Byte) /\ text \in Seq(Byte) /\ key \in Keys /\ fed \in Seq(Byte)
      /\ fed \o todo = Goal
  BY <1>1, HmacAssumption DEF HmacInv, TypeOK, NothingSkipped
<1>3. text' \in Seq(Byte) /\ Len(text') <= MaxText
  BY <1>1, <1>2, ConcatProperties
<1>4. fed = Pad(BlockKey(key), InnerPad) \o text
  BY <1>1, <1>2, ConcatEmptySeq DEF Goal
<1>5. Pad(BlockKey(key), InnerPad) \in Seq(Byte)
  BY <1>2, BlockKeyIsBytes, PadIsBytes
<1>6. Goal' = Pad(BlockKey(key), InnerPad) \o (text \o s)
  BY <1>1 DEF Goal, BlockKey, Pad
<1>7. fed' \o todo' = Goal'
  <2> DEFINE p == Pad(BlockKey(key), InnerPad)
  <2>1. p \in Seq(Byte)
    BY <1>5
  <2> HIDE DEF p
  <2>2. (p \o text) \o s = p \o (text \o s)
    BY <1>2, <2>1, ConcatAssociative, SMTT(30)
  <2> QED
    BY <1>1, <1>4, <1>6, <2>2 DEF p
<1>8. TypeOK'
  BY <1>1, <1>2, <1>3 DEF HmacInv, TypeOK
<1>9. NothingSkipped'
  BY <1>1, <1>7 DEF HmacInv, NothingSkipped, BlockKey, Pad, Absorbed
<1> QED
  BY <1>1, <1>3, <1>8, <1>9 DEF HmacInv

LEMMA ResultInv == ASSUME Open, HmacInv, Result PROVE HmacInv'
<1> DEFINE inner == Pad(BlockKey(key), InnerPad) \o text
           outer == Pad(BlockKey(key), OuterPad) \o Sha(inner)
<1>1. /\ hasher_ \in Context /\ fed \in Seq(Byte) /\ step = "inner" /\ todo = <<>>
      /\ Absorbed(hasher_, fed) /\ fed \o todo = Goal
      /\ key \in Keys /\ text \in Seq(Byte) /\ Len(text) <= MaxText
      /\ k_opad_ = Pad(BlockKey(key), OuterPad) /\ mac = NoCode
  BY DEF HmacInv, TypeOK, NothingSkipped, Result
<1>2. fed = inner
  BY <1>1, ConcatEmptySeq DEF Goal
<1>3. inner \in Seq(Byte) /\ Short(Len(inner)) /\ outer \in Seq(Byte)
  BY <1>1, InnerIsBytes, OuterIsBytes
<1> HIDE DEF inner
<1>4. result(hasher_) \in Context /\ DigestOf(hasher_) = Sha(inner)
  BY <1>1, <1>2, <1>3, DigestIsSha DEF Open
<1>5. /\ hasher_' = Reset(result(hasher_)) /\ todo' = outer /\ fed' = <<>>
      /\ step' = "outer" /\ UNCHANGED <<k_opad_, key, text, mac>>
  BY <1>1, <1>4 DEF Result, Take
<1>6. hasher_' \in Context /\ Absorbed(hasher_', fed')
  BY <1>4, <1>5, ResetAbsorbs
<1>7. Goal' = outer
  BY <1>5 DEF Goal, inner
<1>8. fed' \o todo' = Goal'
  BY <1>3, <1>5, <1>7, ConcatEmptySeq
<1>9. TypeOK'
  BY <1>3, <1>5, <1>6 DEF HmacInv, TypeOK
<1>10. NothingSkipped'
  BY <1>1, <1>5, <1>6, <1>8 DEF NothingSkipped
<1> QED
  BY <1>1, <1>5, <1>9, <1>10 DEF HmacInv

LEMMA OuterResultInv ==
    ASSUME Open, HmacInv, OuterResult PROVE HmacInv' /\ mac' = Code(key, text)
<1> DEFINE inner == Pad(BlockKey(key), InnerPad) \o text
           outer == Pad(BlockKey(key), OuterPad) \o Sha(inner)
<1>1. /\ hasher_ \in Context /\ fed \in Seq(Byte) /\ step = "outer" /\ todo = <<>>
      /\ Absorbed(hasher_, fed) /\ fed \o todo = Goal
      /\ key \in Keys /\ text \in Seq(Byte) /\ Len(text) <= MaxText
  BY DEF HmacInv, TypeOK, NothingSkipped, OuterResult
<1>2. fed = outer
  BY <1>1, ConcatEmptySeq DEF Goal
<1>3. outer \in Seq(Byte) /\ Short(Len(outer))
  BY <1>1, OuterIsBytes
<1>4. result(hasher_) \in Context /\ DigestOf(hasher_) = Sha(outer)
  <2> HIDE DEF outer
  <2> QED
    BY <1>1, <1>2, <1>3, DigestIsSha DEF Open
<1>5. Sha(outer) = Code(key, text)
  BY DEF Code
<1>6. Sha(outer) \in [1 .. HashSize -> Byte]
  <2> HIDE DEF outer
  <2> QED
    BY <1>3, ShaIsBytes DEF Open
<1> HIDE DEF outer
<1>7. /\ hasher_' = result(hasher_) /\ mac' = Code(key, text) /\ step' = "done"
      /\ UNCHANGED <<k_opad_, todo, fed, key, text>>
  BY <1>4, <1>5 DEF OuterResult
<1>8. TypeOK'
  BY <1>4, <1>5, <1>6, <1>7 DEF HmacInv, TypeOK
<1>9. NothingSkipped'
  BY <1>7 DEF NothingSkipped
<1>10. Code(key, text)' = Code(key, text)
  BY <1>7 DEF Code, BlockKey, Pad, Sha, Blocks
<1> QED
  BY <1>1, <1>7, <1>8, <1>9, <1>10 DEF HmacInv

LEMMA AgainInv == ASSUME Open, HmacInv, NEW k \in Keys, Again(k) PROVE HmacInv'
<1>1. key' = k /\ text' = <<>> /\ mac' = NoCode /\ Begin(k) /\ k \in Seq(Byte)
  BY HmacAssumption DEF Again
<1>2. Pad(k, InnerPad) \in Seq(Byte) /\ Pad(k, OuterPad) \in Seq(Byte)
  BY <1>1, PadIsBytes
<1>3. hasher_' = New /\ fed' = <<>>
  BY <1>1 DEF Begin, Take
<1>4. hasher_' \in Context /\ Absorbed(hasher_', fed')
  BY <1>3, NewAbsorbs
<1>5. Len(k) \in Nat /\ BlockSize \in Nat /\ MaxText \in Nat
  BY <1>1, Sizes
<1>6. CASE Len(k) > BlockSize
  <2>1. step' = "key" /\ todo' = k /\ k_opad_' = <<>> /\ Goal' = k
    BY <1>1, <1>6 DEF Begin, Take, Goal
  <2> QED
    BY <1>1, <1>3, <1>4, <1>5, <1>6, <2>1 DEF HmacInv, TypeOK, NothingSkipped, NoCode
<1>7. CASE ~(Len(k) > BlockSize)
  <2>1. step' = "inner" /\ todo' = Pad(k, InnerPad) /\ k_opad_' = Pad(k, OuterPad)
    BY <1>1, <1>7 DEF Begin, Take
  <2>2. BlockKey(key') = k /\ Goal' = Pad(k, InnerPad) \o <<>>
    BY <1>1, <1>7, <2>1 DEF BlockKey, Goal
  <2>3. fed' \o todo' = Goal'
    BY <1>2, <1>3, <2>1, <2>2
  <2> QED
    BY <1>1, <1>2, <1>3, <1>4, <1>5, <2>1, <2>2, <2>3
       DEF HmacInv, TypeOK, NothingSkipped, NoCode
<1> QED
  BY <1>6, <1>7

LEMMA StutterInv == ASSUME HmacInv, UNCHANGED vars PROVE HmacInv'
BY DEF vars, HmacInv, TypeOK, NothingSkipped, Goal, Absorbed, Code

LEMMA StepInv == ASSUME Open, HmacInv, [Next]_vars PROVE HmacInv'
BY InputInv, KeyHashedInv, UpdateInv, ResultInv, OuterResultInv, AgainInv, StutterInv
   DEF Next

-----------------------------------------------------------------------------
(* Theorems *)

LEMMA HmacInvariant == ASSUME Open PROVE Spec => []HmacInv
<1>1. Init => HmacInv
  BY InitInv
<1>2. HmacInv /\ [Next]_vars => HmacInv'
  BY StepInv
<1> QED
  BY <1>1, <1>2, PTL DEF Spec

\* The context, what it was fed and the code are always what they should be
\* (sha256::input, result and reset, hmac::reset and result).
THEOREM HmacTypeCorrect == ASSUME Open PROVE Spec => []TypeOK
<1>1. HmacInv => TypeOK
  BY DEF HmacInv
<1> QED
  BY <1>1, HmacInvariant, PTL

\* For any text, block size and cut into updates, no byte is lost or taken twice
\* (sha256::input, hmac::input).
THEOREM EveryByteOnce == ASSUME Open PROVE Spec => []NothingSkipped
<1>1. HmacInv => NothingSkipped
  BY DEF HmacInv
<1> QED
  BY <1>1, HmacInvariant, PTL

LEMMA StepMaps ==
    ASSUME Open, HmacInv, HmacInv', [Next]_vars PROVE [M!Next]_(M!macVars)
<1>1. ASSUME Input \/ KeyHashed \/ Result \/ UNCHANGED vars
      PROVE  UNCHANGED M!macVars
  BY <1>1 DEF Input, KeyHashed, Result, vars, M!macVars
<1>2. ASSUME NEW s \in Pieces, Update(s) PROVE M!Update(s)
  BY <1>2 DEF HmacInv, Update, M!Update
<1>3. ASSUME OuterResult PROVE M!Final
  <2>1. mac' = Code(key, text)
    BY <1>3, OuterResultInv
  <2> QED
    BY <1>3, <2>1 DEF HmacInv, OuterResult, M!Final
<1>4. ASSUME NEW k \in Keys, Again(k) PROVE M!Begin(k)
  BY <1>4 DEF Again, M!Begin
<1> QED
  BY <1>1, <1>2, <1>3, <1>4 DEF Next, M!Next

\* For any bytes, sizes, keys and cuts, the result of hmac<sha256> is the HMAC of
\* the key and of all that was passed to update (hmac.hpp, sha256.hpp).
THEOREM HmacIsMac == ASSUME Open PROVE Spec => ImplementsMac
<1>1. Init => M!Init
  BY DEF Init, M!Init
<1>2. HmacInv /\ HmacInv' /\ [Next]_vars => [M!Next]_(M!macVars)
  BY StepMaps
<1> QED
  BY <1>1, <1>2, HmacInvariant, PTL DEF Spec, ImplementsMac, M!Spec
=============================================================================
