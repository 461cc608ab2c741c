------------------------ MODULE MCConnectionDialogs ------------------------
(* ConnectionDialogs for TLC: two ids of each kind, used and reused. *)
EXTENDS ConnectionDialogs

Symmetry == Permutations(NewIds) \cup Permutations(ImportedIds)
=============================================================================
