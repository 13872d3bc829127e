----------------------------- MODULE MCProduct -----------------------------
(* Instances of Product for TLC.  Two names and three candidates for each:   *)
(* the first tries "a", "a-1" and "a-2", the second "a-1", "a-1-1" and       *)
(* "a-1-2", so the searches for the two names meet.                          *)
EXTENDS Product, TLC

TwoBases == {"a", "a-1"}
CandidatesOfTwo ==
  [b \in TwoBases |->
    CASE b = "a"   -> [i \in 0 .. 2 |-> <<"a", "a-1", "a-2">>[i + 1]]
      [] b = "a-1" -> [i \in 0 .. 2 |-> <<"a-1", "a-1-1", "a-1-2">>[i + 1]]]
SlugsOfTwo == {"a", "a-1", "a-2", "a-1-1", "a-1-2"}

Symmetry == Permutations(Requests)
=============================================================================
