---------------------------- MODULE MCGroupMedia ----------------------------
(* Two HttpFlvSubs that are alike, and an RTMP session.                      *)
EXTENDS GroupMedia

FlvSubs == Permutations(FlvOuts)
=============================================================================
