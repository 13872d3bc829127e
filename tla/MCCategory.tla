----------------------------- MODULE MCCategory -----------------------------
(* Instances of Category for TLC.  Names are model values.                  *)
EXTENDS Category, TLC

CONSTANTS n3, n4   \* two names with one slug

\* slugifyStr gives n3 and n4 the same slug, every other name its own: a slug is
\* the set of the names that have it.
SlugFunction == [n \in Names |-> IF n \in {n3, n4} THEN {n3, n4} ELSE {n}]
SlugSet == {SlugFunction[n] : n \in Names}

Symmetry == Permutations(CategoryIds) \cup Permutations(Requests)
              \cup Permutations(Readers) \cup Permutations(Names \ {n3, n4})
              \cup Permutations(Names \cap {n3, n4})
=============================================================================
