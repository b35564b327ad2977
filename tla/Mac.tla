--------------------------------- MODULE Mac ---------------------------------
(***************************************************************************)
(* What a message authentication code promises: the code of a key and of   *)
(* all that was passed since the key was, however it was cut.              *)
(***************************************************************************)
EXTENDS Naturals, Sequences

CONSTANTS Keys, Pieces, Code(_, _), NoCode

VARIABLES key, text, mac

macVars == <<key, text, mac>>

Init == key \in Keys /\ text = <<>> /\ mac = NoCode

Begin(k) == key' = k /\ text' = <<>> /\ mac' = NoCode

Update(s) ==
    /\ mac = NoCode
    /\ text' = text \o s
    /\ UNCHANGED <<key, mac>>

Final ==
    /\ mac = NoCode
    /\ mac' = Code(key, text)
    /\ UNCHANGED <<key, text>>

Next ==
    \/ \E k \in Keys : Begin(k)
    \/ \E s \in Pieces : Update(s)
    \/ Final

Spec == Init /\ [][Next]_macVars
=============================================================================
