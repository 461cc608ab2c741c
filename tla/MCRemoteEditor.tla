--------------------------- MODULE MCRemoteEditor ---------------------------
(* RemoteEditor for TLC: two hosts with one file each. *)
EXTENDS RemoteEditor, TLC

Symmetry == Permutations(Hosts)
=============================================================================
