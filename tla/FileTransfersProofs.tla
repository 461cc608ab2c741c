------------------------ MODULE FileTransfersProofs ------------------------
(***************************************************************************)
(* Proofs about FileTransfers for every set of profiles and every bound.   *)
(***************************************************************************)
EXTENDS FileTransfers, SequenceTheorems, TLAPS

QueueInv == TypeOK /\ Sequential /\ AsAccepted

(***************************************************************************)
(* What the queue helpers do: starting the next transfer of a well-formed  *)
(* queue when no other job runs leaves at most one job, running the head.  *)
(***************************************************************************)
LEMMA StartNext ==
  ASSUME NEW q \in Seq(Request), StartNextTransfer(q, {})
  PROVE  /\ transferActive' \in BOOLEAN
         /\ queue' \in Seq(Request)
         /\ jobs' \subseteq Job
         /\ \A j, k \in jobs' : j = k
         /\ transferActive' <=> jobs' # {}
         /\ q = <<>> => jobs' = {} /\ queue' = <<>>
         /\ q # <<>> => /\ jobs' # {}
                        /\ Len(q) = Len(queue') + 1
                        /\ \A j \in jobs' : j.req = q[1]
                        /\ \A i \in 1 .. Len(queue') : queue'[i] = q[i + 1]
<1>1. CASE q = <<>>
  BY <1>1 DEF StartNextTransfer, GoIdle
<1>2. CASE q # <<>>
  <2>1. /\ Head(q) \in Request
        /\ Tail(q) \in Seq(Request)
        /\ Head(q) = q[1]
        /\ Len(q) = Len(Tail(q)) + 1
        /\ \A i \in 1 .. Len(Tail(q)) : Tail(q)[i] = q[i + 1]
    BY <1>2
  <2>2. PICK tool \in ToolsFor(Head(q)) :
          jobs' = {} \cup {[tool |-> tool, req |-> Head(q)]}
    BY <1>2 DEF StartNextTransfer, Begin
  <2>3. transferActive' = TRUE /\ queue' = Tail(q)
    BY <1>2 DEF StartNextTransfer, Begin
  <2>4. tool \in {"rsync", "kio"}
    BY <2>2 DEF ToolsFor
  <2>5. [tool |-> tool, req |-> Head(q)] \in Job
    BY <2>1, <2>4 DEF Job
  <2>6. jobs' = {[tool |-> tool, req |-> Head(q)]}
    BY <2>2
  <2>7. QED
    BY <1>2, <2>1, <2>3, <2>5, <2>6
<1>3. QED
  BY <1>1, <1>2

(* FinishTransfer of the only job keeps the queue and its history in step. *)
LEMMA FinishKeepsQueue ==
  ASSUME QueueInv, NEW j \in jobs, FinishTransfer(j)
  PROVE  /\ queue' \in Seq(Request) /\ owed' \in Seq(Request)
         /\ accepted' \in Nat /\ finished' \in Nat
         /\ transferActive' \in BOOLEAN
         /\ jobs' \subseteq Job
         /\ Sequential'
         /\ AsAccepted'
<1>1. jobs \ {j} = {}
  BY DEF QueueInv, Sequential
<1>2. /\ queue \in Seq(Request) /\ owed \in Seq(Request)
      /\ accepted \in Nat /\ finished \in Nat
  BY DEF QueueInv, TypeOK
<1>3. /\ owed # <<>> /\ Len(owed) = Len(queue) + 1
      /\ accepted = finished + Len(owed)
      /\ \A i \in 1 .. Len(queue) : queue[i] = owed[i + 1]
  BY DEF QueueInv, AsAccepted
<1>4. /\ finished' = finished + 1
      /\ owed' = Tail(owed)
      /\ accepted' = accepted
      /\ StartNextTransfer(queue, {})
  BY <1>1 DEF FinishTransfer
<1>5. /\ owed' \in Seq(Request)
      /\ Len(owed') = Len(queue)
      /\ \A i \in 1 .. Len(queue) : owed'[i] = queue[i]
  BY <1>2, <1>3, <1>4
<1>6. accepted' = finished' + Len(owed')
  <2>1. Len(queue) \in Nat
    BY <1>2
  <2>2. accepted = finished + (Len(queue) + 1)
    BY <1>3
  <2>3. finished \in Nat /\ accepted' = finished + (Len(queue) + 1)
    BY <1>2, <1>4, <2>2
  <2>4. finished' = finished + 1 /\ Len(owed') = Len(queue)
    BY <1>4, <1>5
  <2>5. QED
    BY <2>1, <2>3, <2>4
<1>7. /\ transferActive' \in BOOLEAN
      /\ queue' \in Seq(Request)
      /\ jobs' \subseteq Job
      /\ \A a, b \in jobs' : a = b
      /\ transferActive' <=> jobs' # {}
      /\ queue = <<>> => jobs' = {} /\ queue' = <<>>
      /\ queue # <<>> => /\ jobs' # {}
                         /\ Len(queue) = Len(queue') + 1
                         /\ \A a \in jobs' : a.req = queue[1]
                         /\ \A i \in 1 .. Len(queue') : queue'[i] = queue[i + 1]
  BY <1>2, <1>4, StartNext
<1>8. Sequential'
  BY <1>7 DEF Sequential
<1>9. AsAccepted'
  <2>1. CASE queue = <<>>
    <3>1. owed' = <<>>
      BY <2>1, <1>5
    <3>2. QED
      BY <2>1, <3>1, <1>6, <1>7 DEF AsAccepted
  <2>2. CASE queue # <<>>
    <3>1. Len(queue) >= 1 /\ Len(queue') \in Nat
      BY <2>2, <1>2, <1>7
    <3>2. /\ jobs' # {}
          /\ Len(queue) = Len(queue') + 1
          /\ \A a \in jobs' : a.req = queue[1]
          /\ \A i \in 1 .. Len(queue') : queue'[i] = queue[i + 1]
      BY <2>2, <1>7
    <3>3. owed' # <<>> /\ owed'[1] = queue[1]
      BY <3>1, <1>5
    <3>4. \A i \in 1 .. Len(queue') : i + 1 <= Len(owed') /\ queue'[i] = owed'[i + 1]
      BY <3>1, <3>2, <1>5
    <3>5. QED
      BY <3>2, <3>3, <3>4, <1>5, <1>6 DEF AsAccepted
  <2>3. QED
    BY <2>1, <2>2
<1>10. QED
  BY <1>2, <1>4, <1>5, <1>7, <1>8, <1>9

(* Accepting a request appends it to what is owed, running or waiting. *)
LEMMA AcceptKeepsQueue ==
  ASSUME QueueInv, NEW r \in Request, Accept(r)
  PROVE  /\ queue' \in Seq(Request) /\ owed' \in Seq(Request)
         /\ accepted' \in Nat /\ finished' \in Nat
         /\ transferActive' \in BOOLEAN
         /\ jobs' \subseteq Job
         /\ Sequential'
         /\ AsAccepted'
<1>1. /\ queue \in Seq(Request) /\ owed \in Seq(Request)
      /\ accepted \in Nat /\ finished \in Nat
      /\ transferActive \in BOOLEAN /\ jobs \subseteq Job
  BY DEF QueueInv, TypeOK
<1>2. /\ \A j, k \in jobs : j = k
      /\ transferActive <=> jobs # {}
      /\ queue # <<>> => transferActive
  BY DEF QueueInv, Sequential
<1>3. /\ accepted = finished + Len(owed)
      /\ jobs = {} => owed = <<>>
      /\ \A j \in jobs : /\ owed # <<>> /\ j.req = owed[1]
                         /\ Len(owed) = Len(queue) + 1
      /\ \A i \in 1 .. Len(queue) : i + 1 <= Len(owed) /\ queue[i] = owed[i + 1]
  BY DEF QueueInv, AsAccepted
<1>4. accepted' = accepted + 1 /\ owed' = Append(owed, r) /\ finished' = finished
  BY DEF Accept
<1>5. /\ owed' \in Seq(Request)
      /\ Len(owed') = Len(owed) + 1
      /\ \A i \in 1 .. Len(owed) : owed'[i] = owed[i]
      /\ owed'[Len(owed) + 1] = r
      /\ accepted' \in Nat /\ finished' \in Nat
      /\ accepted' = finished' + Len(owed')
  BY <1>1, <1>3, <1>4
<1>6. CASE transferActive
  <2>1. queue' = Append(queue, r) /\ transferActive' = transferActive /\ jobs' = jobs
    BY <1>6 DEF Accept
  <2>2. /\ queue' \in Seq(Request)
        /\ Len(queue') = Len(queue) + 1
        /\ \A i \in 1 .. Len(queue) : queue'[i] = queue[i]
        /\ queue'[Len(queue) + 1] = r
    BY <1>1, <2>1
  <2>3. jobs # {} /\ Len(owed) = Len(queue) + 1
    BY <1>2, <1>3, <1>6
  <2>4. Sequential'
    BY <1>2, <1>6, <2>1 DEF Sequential
  <2>5. ASSUME NEW j \in jobs'
        PROVE  owed' # <<>> /\ j.req = owed'[1] /\ Len(owed') = Len(queue') + 1
    BY <1>1, <1>3, <1>5, <2>1, <2>2, <2>3
  <2>6. ASSUME NEW i \in 1 .. Len(queue')
        PROVE  i + 1 <= Len(owed') /\ queue'[i] = owed'[i + 1]
    <3>1. CASE i \in 1 .. Len(queue)
      <4>1. i + 1 <= Len(owed) /\ queue[i] = owed[i + 1]
        BY <3>1, <1>3
      <4>2. i + 1 \in 1 .. Len(owed) /\ Len(owed) \in Nat
        BY <3>1, <1>1, <4>1
      <4>3. owed'[i + 1] = owed[i + 1] /\ queue'[i] = queue[i]
        BY <3>1, <4>2, <1>5, <2>2
      <4>4. i + 1 <= Len(owed')
        BY <4>2, <1>5
      <4>5. QED
        BY <4>1, <4>3, <4>4
    <3>2. CASE i = Len(queue) + 1
      BY <3>2, <1>1, <1>5, <2>2, <2>3
    <3>3. QED
      BY <1>1, <2>2, <3>1, <3>2
  <2>7. AsAccepted'
    BY <1>5, <2>1, <2>3, <2>5, <2>6 DEF AsAccepted
  <2>8. QED
    BY <1>1, <1>5, <2>1, <2>2, <2>4, <2>7
<1>7. CASE ~transferActive
  <2>1. jobs = {} /\ queue = <<>> /\ owed = <<>>
    BY <1>2, <1>3, <1>7
  <2>2. StartNextTransfer(<<r>>, {})
    BY <1>7, <2>1 DEF Accept
  <2>3. <<r>> \in Seq(Request) /\ <<r>> # <<>> /\ Len(<<r>>) = 1 /\ <<r>>[1] = r
    OBVIOUS
  <2>4. /\ transferActive' \in BOOLEAN
        /\ queue' \in Seq(Request)
        /\ jobs' \subseteq Job
        /\ \A j, k \in jobs' : j = k
        /\ transferActive' <=> jobs' # {}
        /\ jobs' # {}
        /\ 1 = Len(queue') + 1
        /\ \A j \in jobs' : j.req = r
    BY <2>2, <2>3, StartNext
  <2>5. Len(queue') = 0 /\ queue' = <<>> /\ Len(owed') = 1 /\ owed'[1] = r
    BY <2>1, <2>4, <1>5
  <2>6. Sequential'
    BY <2>4, <2>5 DEF Sequential
  <2>7. AsAccepted'
    BY <1>5, <2>4, <2>5 DEF AsAccepted
  <2>8. QED
    BY <1>5, <2>4, <2>6, <2>7
<1>8. QED
  BY <1>1, <1>6, <1>7

QueueFacts ==
  /\ queue \in Seq(Request) /\ owed \in Seq(Request)
  /\ accepted \in Nat /\ finished \in Nat
  /\ transferActive \in BOOLEAN
  /\ jobs \subseteq Job
  /\ Sequential
  /\ AsAccepted

PanelFacts ==
  /\ fileProfile \in Hosts /\ sftpAlias \in Hosts /\ browserHost \in Hosts
  /\ overlapped \in BOOLEAN
  /\ dialogs \in Seq(Profiles \cup {FailureNotice})

(* The invariant is about two groups of variables. *)
LEMMA QueueInvParts ==
  /\ QueueInv => QueueFacts /\ PanelFacts
  /\ QueueFacts' /\ PanelFacts' => QueueInv'
  BY DEF QueueInv, QueueFacts, PanelFacts, TypeOK

(* A handler that hands one request to the queue keeps the invariant. *)
LEMMA EnqueueKeepsInv ==
  ASSUME QueueInv, NEW host \in Hosts, NEW upload \in BOOLEAN,
         EnqueueTransfer(host, upload), UNCHANGED <<panelVars, dialogs>>
  PROVE  QueueInv'
<1> DEFINE r == [host |-> host, profile |-> fileProfile,
                 alias |-> sftpAlias, upload |-> upload]
<1>1. PanelFacts
  BY QueueInvParts
<1>2. r \in Request
  BY <1>1 DEF EnqueueTransfer, PanelFacts, Hosts, Request
<1>3. Accept(r)
  BY DEF EnqueueTransfer
<1>4. QueueFacts'
  BY <1>2, <1>3, AcceptKeepsQueue DEF QueueFacts
<1>5. PanelFacts'
  BY <1>1 DEF PanelFacts, panelVars
<1>6. QED
  BY <1>4, <1>5, QueueInvParts

(* The panel's own actions leave the queue alone. *)
LEMMA PanelKeepsInv ==
  ASSUME QueueInv, UNCHANGED queueVars, PanelFacts'
  PROVE  QueueInv'
<1>1. QueueFacts
  BY QueueInvParts
<1>2. QueueFacts'
  BY <1>1 DEF QueueFacts, Sequential, AsAccepted, queueVars, historyVars
<1>3. QED
  BY <1>2, QueueInvParts

LEMMA QueueInvInit == Init => QueueInv
<1> SUFFICES ASSUME Init PROVE QueueInv
  OBVIOUS
<1>1. TypeOK
  <2>1. /\ dialogs \in Seq(Profiles \cup {FailureNotice})
        /\ queue \in Seq(Request) /\ owed \in Seq(Request)
    BY DEF Init
  <2>2. jobs \subseteq Job
    BY DEF Init
  <2>3. QED
    BY <2>1, <2>2 DEF Init, TypeOK, Hosts
<1>2. Sequential
  BY DEF Init, Sequential
<1>3. Len(owed) = 0 /\ Len(queue) = 0
  BY DEF Init
<1>4. AsAccepted
  BY <1>3 DEF Init, AsAccepted
<1>5. QED
  BY <1>1, <1>2, <1>4 DEF QueueInv

LEMMA QueueInvStep == QueueInv /\ [Next]_vars => QueueInv'
<1> SUFFICES ASSUME QueueInv, [Next]_vars PROVE QueueInv'
  OBVIOUS
<1>0. QueueFacts /\ PanelFacts
  BY QueueInvParts
<1>1. ASSUME NEW p \in Profiles, NEW managed \in BOOLEAN, NEW readable \in BOOLEAN,
             Browse(p, managed, readable)
      PROVE  QueueInv'
  <2>1. /\ UNCHANGED queueVars /\ fileProfile' \in Hosts /\ sftpAlias' \in Hosts
        /\ overlapped' \in BOOLEAN
    BY <1>1 DEF Browse, Hosts
  <2>2. browserHost' \in Hosts /\ dialogs' \in Seq(Profiles \cup {FailureNotice})
    BY <1>0, <1>1 DEF Browse, PointPaneAt, PanelFacts, Hosts
  <2>3. QED
    BY <2>1, <2>2, PanelKeepsInv DEF PanelFacts
<1>2. CASE Dismiss
  <2>1. /\ UNCHANGED queueVars /\ fileProfile' \in Hosts /\ sftpAlias' \in Hosts
        /\ overlapped' \in BOOLEAN /\ browserHost' \in Hosts
    BY <1>0, <1>2 DEF Dismiss, PanelFacts, Hosts
  <2>2. dialogs' \in Seq(Profiles \cup {FailureNotice})
    <3>1. /\ dialogs \in Seq(Profiles \cup {FailureNotice}) /\ dialogs # <<>>
          /\ dialogs' = SubSeq(dialogs, 1, Len(dialogs) - 1)
      BY <1>0, <1>2 DEF Dismiss, PanelFacts
    <3>2. QED
      BY <3>1
  <2>3. QED
    BY <2>1, <2>2, PanelKeepsInv DEF PanelFacts
<1>3. CASE CloseFilePanel
  <2>1. UNCHANGED queueVars /\ PanelFacts'
    BY <1>0, <1>3 DEF CloseFilePanel, PanelFacts, Hosts
  <2>2. QED
    BY <2>1, PanelKeepsInv
<1>4. CASE Upload
  BY <1>0, <1>4, EnqueueKeepsInv DEF Upload, PanelFacts
<1>5. CASE Download
  BY <1>0, <1>5, EnqueueKeepsInv DEF Download, PanelFacts
<1>6. ASSUME NEW host \in Profiles, DropOntoLocal(host)
      PROVE  QueueInv'
  BY <1>6, EnqueueKeepsInv DEF DropOntoLocal, Hosts
<1>7. ASSUME NEW j \in jobs, NEW ok \in BOOLEAN, RsyncFinished(j, ok)
      PROVE  QueueInv'
  <2>1. PanelFacts'
    BY <1>0, <1>7 DEF RsyncFinished, PanelFacts, panelVars
  <2>2. CASE ok
    <3>1. FinishTransfer(j)
      BY <1>7, <2>2 DEF RsyncFinished
    <3>2. QueueFacts'
      BY <3>1, FinishKeepsQueue DEF QueueFacts
    <3>3. QED
      BY <2>1, <3>2, QueueInvParts
  <2>3. CASE ~ok
    <3>1. /\ jobs' = (jobs \ {j}) \cup {[tool |-> "kio", req |-> j.req]}
          /\ UNCHANGED <<queue, transferActive, historyVars>>
      BY <1>7, <2>3 DEF RsyncFinished
    <3>2. jobs = {j}
      BY <1>0 DEF QueueFacts, Sequential
    <3>3. jobs' = {[tool |-> "kio", req |-> j.req]}
      BY <3>1, <3>2
    <3>4. j.req \in Request
      BY <1>0 DEF QueueFacts, Job
    <3>5. jobs' \subseteq Job
      BY <3>3, <3>4 DEF Job
    <3>6. Sequential'
      BY <1>0, <3>1, <3>3 DEF QueueFacts, Sequential
    <3>7. AsAccepted'
      <4>1. /\ accepted = finished + Len(owed)
            /\ owed # <<>> /\ j.req = owed[1] /\ Len(owed) = Len(queue) + 1
            /\ \A i \in 1 .. Len(queue) : i + 1 <= Len(owed) /\ queue[i] = owed[i + 1]
        BY <1>0 DEF QueueFacts, AsAccepted
      <4>2. jobs' # {} /\ \A k \in jobs' : k.req = j.req
        BY <3>3
      <4>3. accepted' = accepted /\ finished' = finished /\ owed' = owed /\ queue' = queue
        BY <3>1 DEF historyVars
      <4>4. QED
        BY <4>1, <4>2, <4>3 DEF AsAccepted
    <3>8. QueueFacts'
      BY <1>0, <3>1, <3>5, <3>6, <3>7 DEF QueueFacts, historyVars
    <3>9. QED
      BY <2>1, <3>8, QueueInvParts
  <2>4. QED
    BY <2>2, <2>3
<1>8. ASSUME NEW j \in jobs, NEW ok \in BOOLEAN, KioResult(j, ok)
      PROVE  QueueInv'
  <2>1. FinishTransfer(j) /\ UNCHANGED panelVars
    BY <1>8 DEF KioResult
  <2>2. dialogs' \in Seq(Profiles \cup {FailureNotice})
    BY <1>0, <1>8 DEF KioResult, PanelFacts
  <2>3. PanelFacts'
    BY <1>0, <2>1, <2>2 DEF PanelFacts, panelVars
  <2>4. QueueFacts'
    BY <2>1, FinishKeepsQueue DEF QueueFacts
  <2>5. QED
    BY <2>3, <2>4, QueueInvParts
<1>9. CASE UNCHANGED vars
  <2>1. UNCHANGED queueVars /\ PanelFacts'
    BY <1>0, <1>9 DEF vars, PanelFacts, panelVars
  <2>2. QED
    BY <2>1, PanelKeepsInv
<1>10. QED
  BY <1>1, <1>2, <1>3, <1>4, <1>5, <1>6, <1>7, <1>8, <1>9 DEF Next

THEOREM QueueInvariant == Spec => []QueueInv
  BY QueueInvInit, QueueInvStep, PTL DEF Spec

(***************************************************************************)
(* Type correctness, for every set of profiles.                            *)
(***************************************************************************)
THEOREM TypeCorrect == Spec => []TypeOK
<1>1. QueueInv => TypeOK
  BY DEF QueueInv
<1>2. QED
  BY <1>1, QueueInvariant, PTL

(***************************************************************************)
(* Transfers are sequential: at most one rsync process or KIO job runs.    *)
(***************************************************************************)
THEOREM TransfersAreSequential == Spec => []Sequential
<1>1. QueueInv => Sequential
  BY DEF QueueInv
<1>2. QED
  BY <1>1, QueueInvariant, PTL

(***************************************************************************)
(* Every accepted request is carried out once, in its turn, exactly as it  *)
(* was captured, whatever host became visible in between.                  *)
(***************************************************************************)
THEOREM TransfersAsAccepted == Spec => []AsAccepted
<1>1. QueueInv => AsAccepted
  BY DEF QueueInv
<1>2. QED
  BY <1>1, QueueInvariant, PTL

-----------------------------------------------------------------------------
(* rsync and secrets *)

\* A captured alias is the captured profile's own, or none.
OwnAlias(r) == r.alias \in {NoProfile, r.profile}

SafeJob(j) == j.tool = "rsync" => OwnAlias(j.req) /\ RsyncEligible(j.req)

\* What makes RsyncNeedsNoSecret inductive: the panel and every waiting request
\* pair a profile with its own alias.
RsyncInv ==
  /\ sftpAlias \in {NoProfile, fileProfile}
  /\ \A i \in 1 .. Len(queue) : OwnAlias(queue[i])
  /\ \A j \in jobs : SafeJob(j)

(* Starting the next transfer keeps jobs and queue safe. *)
LEMMA StartNextSafe ==
  ASSUME NEW q \in Seq(Request), NEW others, StartNextTransfer(q, others),
         \A i \in 1 .. Len(q) : OwnAlias(q[i]),
         \A j \in others : SafeJob(j)
  PROVE  /\ \A i \in 1 .. Len(queue') : OwnAlias(queue'[i])
         /\ \A j \in jobs' : SafeJob(j)
<1>1. CASE q = <<>>
  <2>1. queue' = <<>> /\ jobs' = others
    BY <1>1 DEF StartNextTransfer, GoIdle
  <2>2. QED
    BY <2>1
<1>2. CASE q # <<>>
  <2>1. /\ Head(q) = q[1] /\ 1 \in 1 .. Len(q)
        /\ \A i \in 1 .. Len(Tail(q)) : i + 1 \in 1 .. Len(q) /\ Tail(q)[i] = q[i + 1]
    BY <1>2
  <2>2. PICK tool \in ToolsFor(Head(q)) :
          jobs' = others \cup {[tool |-> tool, req |-> Head(q)]}
    BY <1>2 DEF StartNextTransfer, Begin
  <2>3. queue' = Tail(q)
    BY <1>2 DEF StartNextTransfer, Begin
  <2>4. SafeJob([tool |-> tool, req |-> Head(q)])
    BY <2>1, <2>2 DEF ToolsFor, SafeJob
  <2>5. QED
    BY <2>1, <2>2, <2>3, <2>4
<1>3. QED
  BY <1>1, <1>2

(* An accepted request pairs the visible profile with its own alias. *)
LEMMA EnqueueSafe ==
  ASSUME QueueInv, RsyncInv, NEW host \in Hosts, NEW upload \in BOOLEAN,
         EnqueueTransfer(host, upload), UNCHANGED panelVars
  PROVE  RsyncInv'
<1> DEFINE r == [host |-> host, profile |-> fileProfile,
                 alias |-> sftpAlias, upload |-> upload]
<1>1. /\ queue \in Seq(Request)
      /\ r \in Request
  BY DEF QueueInv, TypeOK, EnqueueTransfer, Hosts, Request
<1>2. Append(queue, r) \in Seq(Request)
  BY <1>1
<1>3. \A i \in 1 .. Len(Append(queue, r)) : OwnAlias(Append(queue, r)[i])
  <2>1. OwnAlias(r)
    BY DEF RsyncInv, OwnAlias
  <2>2. QED
    BY <1>1, <2>1 DEF RsyncInv
<1>4. sftpAlias' \in {NoProfile, fileProfile'}
  BY DEF RsyncInv, panelVars
<1>5. Accept(r)
  BY DEF EnqueueTransfer
<1>6. CASE transferActive
  BY <1>3, <1>4, <1>5, <1>6 DEF Accept, RsyncInv
<1>7. CASE ~transferActive
  <2>1. StartNextTransfer(Append(queue, r), jobs)
    BY <1>5, <1>7 DEF Accept
  <2>2. \A j \in jobs : SafeJob(j)
    BY DEF RsyncInv
  <2>3. QED
    BY <1>2, <1>3, <1>4, <2>1, <2>2, StartNextSafe DEF RsyncInv
<1>8. QED
  BY <1>6, <1>7

(* Finishing a job hands the next safe request to a safe tool. *)
LEMMA FinishSafe ==
  ASSUME QueueInv, RsyncInv, NEW j \in jobs, FinishTransfer(j), UNCHANGED panelVars
  PROVE  RsyncInv'
<1>1. StartNextTransfer(queue, jobs \ {j}) /\ queue \in Seq(Request)
  BY DEF FinishTransfer, QueueInv, TypeOK
<1>2. /\ \A i \in 1 .. Len(queue) : OwnAlias(queue[i])
      /\ \A k \in jobs \ {j} : SafeJob(k)
  BY DEF RsyncInv
<1>3. sftpAlias' \in {NoProfile, fileProfile'}
  BY DEF RsyncInv, panelVars
<1>4. QED
  BY <1>1, <1>2, <1>3, StartNextSafe DEF RsyncInv

LEMMA RsyncInvStep == QueueInv /\ RsyncInv /\ [Next]_vars => RsyncInv'
<1> SUFFICES ASSUME QueueInv, RsyncInv, [Next]_vars PROVE RsyncInv'
  OBVIOUS
<1>0. browserHost \in Hosts
  BY DEF QueueInv, TypeOK
<1>1. ASSUME NEW p \in Profiles, NEW managed \in BOOLEAN, NEW readable \in BOOLEAN,
             Browse(p, managed, readable)
      PROVE  RsyncInv'
  BY <1>1 DEF Browse, RsyncInv, queueVars
<1>2. CASE Dismiss
  BY <1>2 DEF Dismiss, RsyncInv, queueVars
<1>3. CASE CloseFilePanel
  BY <1>3 DEF CloseFilePanel, RsyncInv, queueVars
<1>4. CASE Upload
  BY <1>0, <1>4, EnqueueSafe DEF Upload
<1>5. CASE Download
  BY <1>0, <1>5, EnqueueSafe DEF Download
<1>6. ASSUME NEW host \in Profiles, DropOntoLocal(host)
      PROVE  RsyncInv'
  BY <1>6, EnqueueSafe DEF DropOntoLocal, Hosts
<1>7. ASSUME NEW j \in jobs, NEW ok \in BOOLEAN, RsyncFinished(j, ok)
      PROVE  RsyncInv'
  <2>1. CASE ok
    BY <1>7, <2>1, FinishSafe DEF RsyncFinished
  <2>2. CASE ~ok
    <3>1. /\ jobs' = (jobs \ {j}) \cup {[tool |-> "kio", req |-> j.req]}
          /\ queue' = queue /\ UNCHANGED panelVars
      BY <1>7, <2>2 DEF RsyncFinished
    <3>2. SafeJob([tool |-> "kio", req |-> j.req])
      BY DEF SafeJob
    <3>3. QED
      BY <3>1, <3>2 DEF RsyncInv, panelVars
  <2>3. QED
    BY <2>1, <2>2
<1>8. ASSUME NEW j \in jobs, NEW ok \in BOOLEAN, KioResult(j, ok)
      PROVE  RsyncInv'
  BY <1>8, FinishSafe DEF KioResult
<1>9. CASE UNCHANGED vars
  BY <1>9 DEF vars, RsyncInv, panelVars, queueVars
<1>10. QED
  BY <1>1, <1>2, <1>3, <1>4, <1>5, <1>6, <1>7, <1>8, <1>9 DEF Next

(***************************************************************************)
(* A running rsync never belongs to a profile that needs a secret.         *)
(***************************************************************************)
THEOREM RsyncWithoutSecrets == Spec => []RsyncNeedsNoSecret
<1>1. Init => RsyncInv
  <2> SUFFICES ASSUME Init PROVE RsyncInv
    OBVIOUS
  <2>1. Len(queue) = 0 /\ jobs = {} /\ sftpAlias = NoProfile
    BY DEF Init
  <2>2. QED
    BY <2>1 DEF RsyncInv
<1>2. RsyncInv => RsyncNeedsNoSecret
  BY DEF RsyncInv, SafeJob, OwnAlias, RsyncEligible, RsyncNeedsNoSecret
<1>3. QED
  BY <1>1, <1>2, RsyncInvStep, QueueInvariant, PTL DEF Spec

-----------------------------------------------------------------------------
(* Uploads and the visible host *)

\* The pane shows the captured profile, or will once the one suspended browse
\* handler goes on, unless browse handlers have overlapped.
PaneInv ==
  ~overlapped /\ fileProfile # NoProfile =>
    \/ Suspended = {} /\ browserHost = fileProfile
    \/ \E i \in DOMAIN dialogs : Suspended = {i} /\ dialogs[i] = fileProfile

LEMMA PaneInvStep == QueueInv /\ PaneInv /\ [Next]_vars => PaneInv'
<1> SUFFICES ASSUME QueueInv, PaneInv, [Next]_vars PROVE PaneInv'
  OBVIOUS
<1>0. /\ dialogs \in Seq(Profiles \cup {FailureNotice})
      /\ FailureNotice \notin Profiles
  BY ProfilesAssumption DEF QueueInv, TypeOK
<1>1. ASSUME UNCHANGED <<panelVars, dialogs>>
      PROVE  PaneInv'
  BY <1>1 DEF PaneInv, Suspended, panelVars
<1>2. ASSUME NEW p \in Profiles, NEW managed \in BOOLEAN, NEW readable \in BOOLEAN,
             Browse(p, managed, readable)
      PROVE  PaneInv'
  <2>1. fileProfile' = p /\ overlapped' = (Suspended # {})
    BY <1>2 DEF Browse
  <2>2. CASE Suspended # {}
    BY <2>1, <2>2 DEF PaneInv
  <2>3. CASE Suspended = {} /\ browserHost' = p /\ UNCHANGED dialogs
    BY <2>1, <2>3 DEF PaneInv, Suspended
  <2>4. CASE Suspended = {} /\ dialogs' = Append(dialogs, p)
    <3>1. /\ DOMAIN dialogs' = 1 .. Len(dialogs) + 1
          /\ DOMAIN dialogs = 1 .. Len(dialogs) /\ Len(dialogs) \in Nat
          /\ dialogs'[Len(dialogs) + 1] = p
          /\ \A i \in DOMAIN dialogs : dialogs'[i] = dialogs[i]
      BY <1>0, <2>4
    <3>2. \A i \in DOMAIN dialogs : dialogs[i] \notin Profiles
      BY <2>4 DEF Suspended
    <3>3. Suspended' = {Len(dialogs) + 1}
      BY <3>1, <3>2 DEF Suspended
    <3>4. Len(dialogs) + 1 \in DOMAIN dialogs'
      BY <3>1
    <3>5. QED
      BY <2>1, <3>1, <3>3, <3>4 DEF PaneInv
  <2>5. QED
    BY <1>2, <2>2, <2>3, <2>4 DEF Browse, PointPaneAt
<1>3. CASE Dismiss
  <2> DEFINE n == Len(dialogs)
  <2>1. /\ dialogs # <<>> /\ dialogs' = SubSeq(dialogs, 1, n - 1)
        /\ browserHost' = IF dialogs[n] \in Profiles THEN dialogs[n] ELSE browserHost
        /\ fileProfile' = fileProfile /\ overlapped' = overlapped
    BY <1>3 DEF Dismiss
  <2>2. /\ n \in Nat \ {0} /\ DOMAIN dialogs = 1 .. n
        /\ DOMAIN dialogs' = 1 .. n - 1
        /\ \A i \in 1 .. n - 1 : dialogs'[i] = dialogs[i]
    BY <1>0, <2>1
  <2>3. Suspended' = Suspended \ {n}
    BY <2>2 DEF Suspended
  <2>4. CASE dialogs[n] \in Profiles
    <3>1. n \in Suspended
      BY <2>2, <2>4 DEF Suspended
    <3>2. QED
      BY <2>1, <2>3, <2>4, <3>1 DEF PaneInv
  <2>5. CASE dialogs[n] \notin Profiles
    <3>1. n \notin Suspended /\ Suspended' = Suspended
      BY <2>3, <2>5 DEF Suspended
    <3>2. \A i \in Suspended : i \in DOMAIN dialogs' /\ dialogs'[i] = dialogs[i]
      BY <2>2, <3>1 DEF Suspended
    <3>3. QED
      BY <2>1, <2>5, <3>1, <3>2 DEF PaneInv
  <2>6. QED
    BY <2>4, <2>5
<1>4. CASE CloseFilePanel
  BY <1>4 DEF CloseFilePanel, PaneInv
<1>5. ASSUME Upload \/ Download \/ \E host \in Profiles : DropOntoLocal(host)
      PROVE  PaneInv'
  BY <1>1, <1>5 DEF Upload, Download, DropOntoLocal
<1>6. ASSUME NEW j \in jobs, NEW ok \in BOOLEAN, RsyncFinished(j, ok)
      PROVE  PaneInv'
  BY <1>1, <1>6 DEF RsyncFinished
<1>7. ASSUME NEW j \in jobs, NEW ok \in BOOLEAN, KioResult(j, ok)
      PROVE  PaneInv'
  <2>1. CASE UNCHANGED dialogs
    BY <1>1, <1>7, <2>1 DEF KioResult
  <2>2. CASE dialogs' = Append(dialogs, FailureNotice)
    <3>1. /\ DOMAIN dialogs' = DOMAIN dialogs \cup {Len(dialogs) + 1}
          /\ dialogs'[Len(dialogs) + 1] = FailureNotice
          /\ \A i \in DOMAIN dialogs : dialogs'[i] = dialogs[i]
      BY <1>0, <2>2
    <3>2. Suspended' = Suspended
      BY <1>0, <3>1 DEF Suspended
    <3>3. UNCHANGED panelVars
      BY <1>7 DEF KioResult
    <3>4. QED
      BY <3>1, <3>2, <3>3 DEF PaneInv, panelVars
  <2>3. QED
    BY <1>7, <2>1, <2>2 DEF KioResult
<1>8. CASE UNCHANGED vars
  BY <1>1, <1>8 DEF vars
<1>9. QED
  BY <1>2, <1>3, <1>4, <1>5, <1>6, <1>7, <1>8 DEF Next

(* Whatever is accepted is accepted with the panel's profile. *)
LEMMA UploadStep ==
  QueueInv /\ PaneInv /\ [Next]_vars =>
    [ accepted' > accepted =>
        LET r == owed'[Len(owed')]
        IN  r.upload /\ ~overlapped => r.host = r.profile ]_vars
<1> DEFINE last == owed'[Len(owed')]
<1> SUFFICES ASSUME QueueInv, PaneInv, Next, accepted' > accepted,
                    last.upload, ~overlapped
             PROVE  last.host = last.profile
  BY DEF QueueInv, TypeOK, vars, queueVars, historyVars
<1>0. /\ owed \in Seq(Request) /\ accepted \in Nat
      /\ browserHost \in Hosts /\ fileProfile \in Hosts /\ sftpAlias \in Hosts
  BY DEF QueueInv, TypeOK
<1>1. ASSUME NEW host \in Hosts, NEW upload \in BOOLEAN, EnqueueTransfer(host, upload)
      PROVE  /\ last.host = host /\ last.profile = fileProfile /\ last.upload = upload
             /\ fileProfile # NoProfile
  <2> DEFINE r == [host |-> host, profile |-> fileProfile,
                   alias |-> sftpAlias, upload |-> upload]
  <2>1. fileProfile # NoProfile /\ owed' = Append(owed, r)
    BY <1>1 DEF EnqueueTransfer, Accept
  <2>2. r \in Request
    BY <1>0, <2>1 DEF Request, Hosts
  <2>3. last = r
    <3> HIDE DEF r
    <3>1. QED
      BY <1>0, <2>1, <2>2
  <2>4. r.host = host /\ r.profile = fileProfile /\ r.upload = upload
    OBVIOUS
  <2>5. QED
    BY <2>1, <2>3, <2>4, Zenon
<1>2. CASE Upload
  <2>1. dialogs = <<>> /\ EnqueueTransfer(browserHost, TRUE)
    BY <1>2 DEF Upload
  <2>2. Suspended = {} /\ DOMAIN dialogs = {}
    BY <2>1 DEF Suspended
  <2>3. last.host = browserHost /\ last.profile = fileProfile /\ fileProfile # NoProfile
    BY <1>0, <1>1, <2>1
  <2>4. QED
    BY <2>2, <2>3 DEF PaneInv
<1>3. ASSUME Download \/ \E host \in Profiles : DropOntoLocal(host)
      PROVE  FALSE
  BY <1>0, <1>1, <1>3 DEF Download, DropOntoLocal, Hosts
<1>4. ASSUME Dismiss \/ CloseFilePanel
               \/ \E p \in Profiles, managed, readable \in BOOLEAN : Browse(p, managed, readable)
      PROVE  FALSE
  BY <1>0, <1>4 DEF Dismiss, CloseFilePanel, Browse, queueVars, historyVars
<1>5. ASSUME \E j \in jobs, ok \in BOOLEAN : RsyncFinished(j, ok) \/ KioResult(j, ok)
      PROVE  FALSE
  BY <1>0, <1>5 DEF RsyncFinished, KioResult, FinishTransfer, historyVars
<1>6. QED
  BY <1>2, <1>3, <1>4, <1>5 DEF Next

(***************************************************************************)
(* An upload goes to the host the remote pane shows, unless the latest     *)
(* browse began while another one was suspended.                           *)
(***************************************************************************)
THEOREM UploadsFollowThePane == Spec => UploadsGoWhereShown
<1>1. Init => PaneInv
  BY DEF Init, PaneInv
<1>2. QED
  BY <1>1, PaneInvStep, UploadStep, QueueInvariant, PTL DEF Spec, UploadsGoWhereShown

-----------------------------------------------------------------------------
(* Refinement of the serial executor *)

(* A running job is the abstract current request, and none is NoRequest. *)
LEMMA RunningIs ==
  ASSUME QueueInv
  PROVE  /\ NoRequest \notin Request
         /\ jobs = {} => Running = NoRequest
         /\ \A j \in jobs : Running = j.req /\ j.req \in Request
<1>1. NoRequest \notin Request
  BY ProfilesAssumption DEF NoRequest, Request
<1>2. jobs = {} => Running = NoRequest
  BY DEF Running
<1>3. ASSUME NEW j \in jobs
      PROVE  Running = j.req /\ j.req \in Request
  <2>1. jobs = {j}
    BY DEF QueueInv, Sequential
  <2>2. (CHOOSE k \in jobs : TRUE) = j
    BY <2>1
  <2>3. j.req \in Request
    BY DEF QueueInv, TypeOK, Job
  <2>4. QED
    BY <2>1, <2>2, <2>3 DEF Running
<1>4. QED
  BY <1>1, <1>2, <1>3

(* Taking the next transfer of q makes its head the running request. *)
LEMMA StartNextRuns ==
  ASSUME NEW q \in Seq(Request), StartNextTransfer(q, {})
  PROVE  /\ q = <<>> => Running' = NoRequest /\ queue' = <<>>
         /\ q # <<>> => Running' = Head(q) /\ queue' = Tail(q)
<1>1. CASE q = <<>>
  BY <1>1 DEF StartNextTransfer, GoIdle, Running
<1>2. CASE q # <<>>
  <2>1. PICK tool \in ToolsFor(Head(q)) :
          jobs' = {} \cup {[tool |-> tool, req |-> Head(q)]}
    BY <1>2 DEF StartNextTransfer, Begin
  <2>2. queue' = Tail(q)
    BY <1>2 DEF StartNextTransfer, Begin
  <2>3. jobs' = {[tool |-> tool, req |-> Head(q)]}
    BY <2>1
  <2>4. (CHOOSE k \in jobs' : TRUE) = [tool |-> tool, req |-> Head(q)]
    BY <2>3
  <2>5. QED
    BY <1>2, <2>2, <2>3, <2>4 DEF Running
<1>3. QED
  BY <1>1, <1>2

LEMMA AcceptRefines ==
  ASSUME QueueInv, NEW r \in Request, Accept(r)
  PROVE  Serial!Accept(r)
<1>1. queue \in Seq(Request) /\ (transferActive <=> jobs # {})
  BY DEF QueueInv, TypeOK, Sequential
<1>2. finished' = finished
  BY DEF Accept
<1>3. CASE transferActive
  <2>1. queue' = Append(queue, r) /\ jobs' = jobs
    BY <1>3 DEF Accept
  <2>2. Running # NoRequest /\ Running' = Running
    BY <1>1, <1>3, <2>1, RunningIs DEF Running
  <2>3. QED
    BY <1>2, <2>1, <2>2 DEF Serial!Accept
<1>4. CASE ~transferActive
  <2>1. jobs = {} /\ queue = <<>>
    BY <1>1, <1>4 DEF QueueInv, Sequential
  <2>2. StartNextTransfer(<<r>>, {})
    BY <1>4, <2>1 DEF Accept
  <2>3. <<r>> \in Seq(Request) /\ <<r>> # <<>> /\ Head(<<r>>) = r /\ Tail(<<r>>) = <<>>
    OBVIOUS
  <2>4. Running' = r /\ queue' = <<>>
    BY <2>2, <2>3, StartNextRuns
  <2>5. Running = NoRequest
    BY <2>1, RunningIs
  <2>6. QED
    BY <1>2, <2>1, <2>4, <2>5 DEF Serial!Accept
<1>5. QED
  BY <1>3, <1>4

LEMMA FinishRefines ==
  ASSUME QueueInv, NEW j \in jobs, FinishTransfer(j)
  PROVE  Serial!End
<1>1. jobs \ {j} = {} /\ queue \in Seq(Request)
  BY DEF QueueInv, TypeOK, Sequential
<1>2. Running # NoRequest
  BY RunningIs
<1>3. finished' = finished + 1 /\ StartNextTransfer(queue, {})
  BY <1>1 DEF FinishTransfer
<1>4. /\ queue = <<>> => Running' = NoRequest /\ queue' = <<>>
      /\ queue # <<>> => Running' = Head(queue) /\ queue' = Tail(queue)
  BY <1>1, <1>3, StartNextRuns
<1>5. QED
  BY <1>2, <1>3, <1>4 DEF Serial!End

LEMMA StepRefines == QueueInv /\ [Next]_vars => [Serial!Next]_Serial!vars
<1> SUFFICES ASSUME QueueInv, [Next]_vars
             PROVE  Serial!Next \/ UNCHANGED Serial!vars
  OBVIOUS
<1>0. browserHost \in Hosts /\ sftpAlias \in Hosts /\ fileProfile \in Hosts
  BY DEF QueueInv, TypeOK
<1>1. ASSUME NEW host \in Hosts, NEW upload \in BOOLEAN, EnqueueTransfer(host, upload)
      PROVE  Serial!Next
  <2> DEFINE r == [host |-> host, profile |-> fileProfile,
                   alias |-> sftpAlias, upload |-> upload]
  <2>1. Accept(r) /\ r \in Request
    BY <1>0, <1>1 DEF EnqueueTransfer, Request, Hosts
  <2>2. Serial!Accept(r)
    BY <2>1, AcceptRefines
  <2>3. QED
    BY <2>1, <2>2 DEF Serial!Next
<1>2. ASSUME UNCHANGED queueVars
      PROVE  UNCHANGED Serial!vars
  BY <1>2 DEF queueVars, historyVars, Serial!vars, Running
<1>3. CASE Upload
  BY <1>0, <1>1, <1>3 DEF Upload
<1>4. CASE Download
  BY <1>0, <1>1, <1>4 DEF Download
<1>5. ASSUME NEW host \in Profiles, DropOntoLocal(host)
      PROVE  Serial!Next
  BY <1>1, <1>5 DEF DropOntoLocal, Hosts
<1>6. ASSUME NEW j \in jobs, NEW ok \in BOOLEAN, RsyncFinished(j, ok)
      PROVE  Serial!Next \/ UNCHANGED Serial!vars
  <2>1. CASE ok
    BY <1>6, <2>1, FinishRefines DEF RsyncFinished, Serial!Next
  <2>2. CASE ~ok
    <3>1. jobs \ {j} = {}
      BY DEF QueueInv, Sequential
    <3>2. /\ jobs' = {[tool |-> "kio", req |-> j.req]}
          /\ queue' = queue /\ finished' = finished
      BY <1>6, <2>2, <3>1 DEF RsyncFinished, historyVars
    <3>3. (CHOOSE k \in jobs' : TRUE) = [tool |-> "kio", req |-> j.req]
      BY <3>2
    <3>4. Running' = j.req
      BY <3>2, <3>3 DEF Running
    <3>5. Running = j.req
      BY RunningIs
    <3>6. QED
      BY <3>2, <3>4, <3>5 DEF Serial!vars
  <2>3. QED
    BY <2>1, <2>2
<1>7. ASSUME NEW j \in jobs, NEW ok \in BOOLEAN, KioResult(j, ok)
      PROVE  Serial!Next
  BY <1>7, FinishRefines DEF KioResult, Serial!Next
<1>8. ASSUME \/ Dismiss \/ CloseFilePanel
             \/ \E p \in Profiles, managed, readable \in BOOLEAN : Browse(p, managed, readable)
      PROVE  UNCHANGED Serial!vars
  BY <1>2, <1>8 DEF Dismiss, CloseFilePanel, Browse
<1>9. CASE UNCHANGED vars
  BY <1>2, <1>9 DEF vars
<1>10. QED
  BY <1>3, <1>4, <1>5, <1>6, <1>7, <1>8, <1>9 DEF Next

(***************************************************************************)
(* The queue, rsync and its KIO retry implement the serial executor: every *)
(* step of theirs is one of its steps, or none.                            *)
(***************************************************************************)
THEOREM RefinesSerial == Spec => Serial!SafeSpec
<1>1. Init => Serial!Init
  BY DEF Init, Serial!Init, Running
<1>2. QED
  BY <1>1, StepRefines, QueueInvariant, PTL DEF Spec, Serial!SafeSpec
=============================================================================
