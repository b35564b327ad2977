------------------------------ MODULE MCBroker ------------------------------
(* Broker on small instances: symmetry of the identities whose order no      *)
(* action and no property looks at.                                          *)
EXTENDS Broker, TLC

Symmetry == Permutations(Sessions) \cup Permutations(Clients)
            \cup Permutations(Gids) \cup Permutations(Streams \ {NoName})
=============================================================================
