------------------------------- MODULE Buffer -------------------------------
(***************************************************************************)
(* chef::basic_buffer: the bytes between read_index_ and write_index_ of   *)
(* an array that is moved, replaced by a larger one when room is needed,   *)
(* and replaced by one of the first capacity when it has been drained.     *)
(*                                                                         *)
(* Memory that was never written, by new[] or by a writer, holds Junk.     *)
(***************************************************************************)
EXTENDS Naturals, Sequences

CONSTANTS
    Byte,            \* what callers write
    Junk,            \* an indeterminate byte
    InitCapacity,    \* init_capacity_
    ShrinkCapacity,  \* shrink_capacity_
    Doublings,       \* the powers of two a capacity is multiplied by at once
    MaxCapacity,     \* the largest capacity (bound)
    MaxLen           \* the longest string written at once (bound)

ASSUME BufferAssumption ==
    /\ Junk \notin Byte
    /\ InitCapacity \in Nat \ {0}
    /\ ShrinkCapacity \in Nat
    /\ InitCapacity <= ShrinkCapacity
    /\ Doublings \subseteq Nat \ {0}
    /\ MaxCapacity \in Nat /\ MaxLen \in Nat

VARIABLES
    buf,    \* [data, capacity, read, write]
    call    \* the last call that changed what can be read; history

vars == <<buf, call>>

Memory == Byte \cup {Junk}

Arrays(n) == [0 .. n - 1 -> Memory]

\* b is within its array, and the bytes to read have been written.
WellFormed(b) ==
    /\ b = [data |-> b.data, capacity |-> b.capacity, read |-> b.read, write |-> b.write]
    /\ b.capacity \in Nat \ {0} /\ b.read \in Nat /\ b.write \in Nat
    /\ b.read <= b.write /\ b.write <= b.capacity
    /\ b.data \in Arrays(b.capacity)
    /\ \A i \in b.read .. b.write - 1 : b.data[i] \in Byte

TypeOK ==
    /\ WellFormed(buf)
    /\ call[1] \in {"none", "write", "erase", "rollback"}

Buf(data, capacity, read, write) ==
    [data |-> data, capacity |-> capacity, read |-> read, write |-> write]

\* basic_buffer(init_capacity, shrink_capacity)
Fresh == Buf([i \in 0 .. InitCapacity - 1 |-> Junk], InitCapacity, 0, 0)

Init == buf = Fresh /\ call = <<"none", 0>>

\* The unread bytes of b, as a sequence.
Unread(b) == [i \in 1 .. b.write - b.read |-> b.data[b.read + i - 1]]

readable_size == buf.write - buf.read

-----------------------------------------------------------------------------
\* memcpy of the unread bytes to the start of a new array.
Reallocated(capacity) ==
    Buf([i \in 0 .. capacity - 1 |->
            IF i < readable_size THEN buf.data[buf.read + i] ELSE Junk],
        capacity, 0, readable_size)

\* memmove of the unread bytes to the start of the same array.
Moved ==
    Buf([i \in 0 .. buf.capacity - 1 |->
            IF i < readable_size THEN buf.data[buf.read + i] ELSE buf.data[i]],
        buf.capacity, 0, readable_size)

\* The first doubling that is enough for len more bytes.
Enough(d, len) == buf.capacity * d >= readable_size + len

FirstEnough(len) ==
    {d \in Doublings : /\ buf.capacity * d <= MaxCapacity
                       /\ Enough(d, len)
                       /\ \A e \in Doublings : e < d => ~Enough(e, len)}

\* Mutant: the free room is compared with len as if nothing had been read, and
\* the bytes are not moved.
reserve_without_move(len) ==
    IF buf.capacity - readable_size >= len THEN {buf}
    ELSE {Reallocated(buf.capacity * d) : d \in FirstEnough(len)}

\* The buffers that reserve(len) can leave: one, when the bounds suffice.
reserve(len) ==
    IF buf.capacity - buf.write >= len THEN {buf}
    ELSE IF buf.capacity - readable_size >= len THEN {Moved}
    ELSE {Reallocated(buf.capacity * d) : d \in FirstEnough(len)}

\* Bytes s written at write_pos, and seek_write_pos past them.
Filled(b, s) ==
    Buf([i \in 0 .. b.capacity - 1 |->
            IF i \in b.write .. b.write + Len(s) - 1 THEN s[i - b.write + 1] ELSE b.data[i]],
        b.capacity, b.read, b.write + Len(s))

Strings == UNION {[1 .. n -> Byte] : n \in 0 .. MaxLen}

\* append(data, len)
AppendBytes(s) ==
    /\ \E b \in reserve(Len(s)) : buf' = Filled(b, s)
    /\ call' = <<"write", s>>

Reserve(len) ==
    /\ buf' \in reserve(len)
    /\ UNCHANGED call

\* The caller writes at write_pos and calls seek_write_pos, whose assertion
\* keeps it within the array.
Fill(s) ==
    /\ buf.capacity - buf.write >= Len(s)
    /\ buf' = Filled(buf, s)
    /\ call' = <<"write", s>>

\* seek_write_pos_rollback
Rollback(n) ==
    /\ readable_size >= n
    /\ buf' = [buf EXCEPT !.write = @ - n]
    /\ call' = <<"rollback", n>>

\* Mutants: the shrunk array is filled from the start of the old one; and a
\* buffer only shrinks when it is empty.
erase_copies_from_start(n) ==
    /\ readable_size >= n
    /\ LET left == readable_size - n IN
       IF left < InitCapacity /\ buf.capacity > ShrinkCapacity
       THEN buf' = Buf([i \in 0 .. InitCapacity - 1 |->
                           IF i < left THEN buf.data[i] ELSE Junk],
                       InitCapacity, 0, left)
       ELSE buf' = [buf EXCEPT !.read = @ + n]
    /\ call' = <<"erase", n>>

erase_keeps_capacity(n) ==
    /\ readable_size >= n
    /\ buf' = [buf EXCEPT !.read = @ + n]
    /\ call' = <<"erase", n>>

erase(n) ==
    /\ readable_size >= n
    /\ LET left == readable_size - n IN
       IF left < InitCapacity /\ buf.capacity > ShrinkCapacity
       THEN buf' = Buf([i \in 0 .. InitCapacity - 1 |->
                           IF i < left THEN buf.data[buf.read + n + i] ELSE Junk],
                       InitCapacity, 0, left)
       ELSE buf' = [buf EXCEPT !.read = @ + n]
    /\ call' = <<"erase", n>>

\* What is left is erased, and the indexes start again.
clear ==
    /\ buf' = IF buf.capacity > ShrinkCapacity THEN Fresh
              ELSE [buf EXCEPT !.read = 0, !.write = 0]
    /\ call' = <<"erase", readable_size>>

\* The copy constructor: the copy has the capacity of the original and starts
\* at 0.
Copy ==
    /\ buf' = Reallocated(buf.capacity)
    /\ UNCHANGED call

Next ==
    \/ \E s \in Strings : AppendBytes(s) \/ Fill(s)
    \/ \E len \in 0 .. MaxLen : Reserve(len)
    \/ \E n \in 0 .. readable_size : erase(n) \/ Rollback(n)
    \/ clear
    \/ Copy

Spec == Init /\ [][Next]_vars

-----------------------------------------------------------------------------
(* Properties *)

\* Whatever is moved, reallocated or shrunk in between, what is read is what was
\* written, in order and once (append, reserve, seek_write_pos, erase, clear).
Bytes == INSTANCE ByteString WITH string <- Unread(buf)

ImplementsBytes == Bytes!Spec

\* "Extra memory is released when more than shrink_capacity was allocated and less
\* than init_capacity is in use": a call that uses up bytes (erase, clear) never
\* leaves an array that is too large for what is left in it.
ReleasesMemory ==
    [][/\ call'[1] = "erase" /\ readable_size' < readable_size
       /\ buf'.capacity > ShrinkCapacity
       => readable_size' >= InitCapacity]_vars
=============================================================================
