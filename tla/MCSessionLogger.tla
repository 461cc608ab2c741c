--------------------------- MODULE MCSessionLogger ---------------------------
(* A terminal with room for three chunks and reads of two show a hang-up with  *)
(* more output than one read takes; two inputs fill the child's side and more. *)
EXTENDS SessionLogger
==============================================================================
