-------------------------------- MODULE Fifo --------------------------------
(***************************************************************************)
(* What a sending session promises its caller, and an RTMP connection its  *)
(* two ends: what is accepted reaches the other side whole, once, and in   *)
(* the order it was accepted.  A connection that is lost delivers nothing  *)
(* more.                                                                   *)
(***************************************************************************)
EXTENDS Naturals, Sequences

CONSTANT Buffers

VARIABLES accepted, delivered

fifoVars == <<accepted, delivered>>

Init == accepted = <<>> /\ delivered = <<>>

Put(b) ==
    /\ accepted' = Append(accepted, b)
    /\ UNCHANGED delivered

Deliver ==
    /\ Len(delivered) < Len(accepted)
    /\ delivered' = Append(delivered, accepted[Len(delivered) + 1])
    /\ UNCHANGED accepted

Next == Deliver \/ \E b \in Buffers : Put(b)

Spec == Init /\ [][Next]_fifoVars
=============================================================================
