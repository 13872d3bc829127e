----------------------------- MODULE MCSessions -----------------------------
(* Instances of Sessions for TLC.  The symmetry is for runs of invariants   *)
(* and action properties only.                                              *)
EXTENDS Sessions, TLC

Symmetry == Permutations(Users) \cup Permutations(Browsers) \cup Permutations(Requests)
              \cup Permutations(SessionIds) \cup Permutations(TokenIds)
=============================================================================
