---------------------------- MODULE MCLiveControl ----------------------------
(* Three windows are enough for one that serves, one that starts and one that  *)
(* stops; two calls for one that waits behind the other's message box.         *)
EXTENDS LiveControl
==============================================================================
