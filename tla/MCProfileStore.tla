--------------------------- MODULE MCProfileStore ---------------------------
(* A small instance of ProfileStore for TLC. *)
EXTENDS ProfileStore, TLC
Symmetry == Permutations(Ids) \cup Permutations(Bodies) \cup Permutations(Servers)
=============================================================================
