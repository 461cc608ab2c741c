------------------------------ MODULE LiveCalls ------------------------------
(* What a live call of waypane-mcp promises its caller, whatever happens to    *)
(* the desktop window meanwhile: the window takes the request up at most once, *)
(* "refused" means that it never did and never will, "ok" means that it did,   *)
(* and every call returns.  An "error" promises nothing: the request may have  *)
(* been taken up, or may still be.                                             *)
EXTENDS Naturals

CONSTANT Calls

VARIABLES
    phase,  \* where each call stands for its caller
    taken   \* how often the window took up each call's request

vars == <<phase, taken>>

Phases == {"idle", "waiting", "ok", "refused", "error"}

Init == /\ phase = [c \in Calls |-> "idle"]
        /\ taken = [c \in Calls |-> 0]

Ask(c) == /\ phase[c] = "idle"
          /\ phase' = [phase EXCEPT ![c] = "waiting"]
          /\ UNCHANGED taken

TakeUp(c) == /\ phase[c] \in {"waiting", "error"}
             /\ taken[c] = 0
             /\ taken' = [taken EXCEPT ![c] = 1]
             /\ UNCHANGED phase

Return(c) == /\ phase[c] = "waiting"
             /\ \E r \in {"ok", "refused", "error"} :
                   /\ r = "ok" => taken[c] = 1
                   /\ r = "refused" => taken[c] = 0
                   /\ phase' = [phase EXCEPT ![c] = r]
             /\ UNCHANGED taken

Fail(c) == /\ phase[c] = "idle"
           /\ phase' = [phase EXCEPT ![c] = "error"]
           /\ UNCHANGED taken

Next == \E c \in Calls : Ask(c) \/ TakeUp(c) \/ Return(c) \/ Fail(c)

Safety == Init /\ [][Next]_vars

Spec == Safety /\ \A c \in Calls : WF_vars(Return(c))
=============================================================================
