----------------------------- MODULE ByteString -----------------------------
(***************************************************************************)
(* What a buffer promises: a string of bytes that grows at its end and is  *)
(* taken away from either end.                                             *)
(***************************************************************************)
EXTENDS Naturals, Sequences

CONSTANT Strings    \* what may be written at once

VARIABLES
    string,    \* the bytes written and not used yet
    call       \* the last call that changed it

byteVars == <<string, call>>

Init == string = <<>> /\ call = <<"none", 0>>

Extend(s) ==
    /\ string' = string \o s
    /\ call' = <<"write", s>>

\* The reader has used the first n bytes.
Consume(n) ==
    /\ string' = SubSeq(string, n + 1, Len(string))
    /\ call' = <<"erase", n>>

\* The writer takes back the last n bytes.
Retract(n) ==
    /\ string' = SubSeq(string, 1, Len(string) - n)
    /\ call' = <<"rollback", n>>

Next ==
    \/ \E s \in Strings : Extend(s)
    \/ \E n \in 0 .. Len(string) : Consume(n) \/ Retract(n)

Spec == Init /\ [][Next]_byteVars
=============================================================================
