-------------------------- MODULE SerialTransfers --------------------------
(***************************************************************************)
(* What the file panel promises about transfers, without rsync, KIO, the   *)
(* file panel or its dialogs: accepted requests are carried out one at a   *)
(* time in the order in which they were accepted, each exactly once.       *)
(***************************************************************************)
EXTENDS Naturals, Sequences

CONSTANTS Requests, NoRequest

VARIABLES
  pending,  \* requests accepted and not begun
  current,  \* the request being carried out, or NoRequest
  ended     \* how many requests have ended

vars == <<pending, current, ended>>

Init ==
  /\ pending = <<>>
  /\ current = NoRequest
  /\ ended = 0

\* An idle panel begins the request at once; a busy one keeps it for later.
Accept(r) ==
  /\ \/ /\ current = NoRequest
        /\ current' = r
        /\ UNCHANGED pending
     \/ /\ current # NoRequest
        /\ pending' = Append(pending, r)
        /\ UNCHANGED current
  /\ UNCHANGED ended

\* The current request ends, and the oldest pending one begins in the same step.
End ==
  /\ current # NoRequest
  /\ ended' = ended + 1
  /\ \/ /\ pending = <<>>
        /\ current' = NoRequest
        /\ UNCHANGED pending
     \/ /\ pending # <<>>
        /\ current' = Head(pending)
        /\ pending' = Tail(pending)

Next ==
  \/ \E r \in Requests : Accept(r)
  \/ End

\* The same promise without the obligation to make progress.
SafeSpec == Init /\ [][Next]_vars

Spec == SafeSpec /\ WF_vars(End)
=============================================================================
