--------------------------- MODULE MCAddressBook ---------------------------
(* Instances of AddressBook for TLC.  Every set is a set of model values    *)
(* that the specification treats alike, so their permutations are a         *)
(* symmetry.                                                                *)
EXTENDS AddressBook, TLC

Symmetry == Permutations(Users) \cup Permutations(AddressIds)
              \cup Permutations(Requests)
=============================================================================
