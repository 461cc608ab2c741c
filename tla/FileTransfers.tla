--------------------------- MODULE FileTransfers ---------------------------
(***************************************************************************)
(* The file panel of WaypaneWindow and its transfer queue                  *)
(* (src/src/app/waypanewindow.cpp).  One GUI thread runs every action;     *)
(* what interleaves are the user's clicks, the live-control requests, the  *)
(* end of an rsync process or a KIO job, and the nested event loops of     *)
(* modal dialogs, in which the last three go on while the handler that     *)
(* opened the dialog is suspended.                                         *)
(***************************************************************************)
EXTENDS Naturals, Sequences, FiniteSets

CONSTANTS
  Profiles,          \* the saved connection profiles
  PasswordProfiles,  \* those with authentication = "password"
  SecretProfiles,    \* those with a keyring entry (non-empty secretId)
  NoProfile,         \* an empty m_fileProfile or an empty sftp alias
  FailureNotice,     \* the "File transfer failed" message box
  MaxRequests,       \* bound: transfers accepted in one behaviour
  MaxNested          \* bound: browse handlers suspended at once

ASSUME ProfilesAssumption ==
  /\ PasswordProfiles \subseteq Profiles
  /\ SecretProfiles \subseteq Profiles
  /\ NoProfile \notin Profiles
  /\ FailureNotice \notin Profiles \cup {NoProfile}

ASSUME BoundsAssumption == MaxRequests \in Nat /\ MaxNested \in Nat

VARIABLES
  fileProfile,     \* m_fileProfile
  sftpAlias,       \* m_sftpAlias, as the profile whose alias it is
  browserHost,     \* host of m_fileBrowser->url(), as the profile it reaches
  dialogs,         \* open message boxes, outermost first
  queue,           \* m_transferQueue
  transferActive,  \* m_transferActive
  jobs,            \* rsync processes and KIO jobs that run
  owed,            \* history: the requests accepted and not ended, as accepted
  accepted,        \* history: how many requests were accepted
  finished,        \* history: how many requests finishTransfer ended
  overlapped       \* history: the latest browse began inside another one

panelVars == <<fileProfile, sftpAlias, browserHost, overlapped>>
historyVars == <<owed, accepted, finished>>
queueVars == <<queue, transferActive, jobs, historyVars>>
vars == <<panelVars, dialogs, queueVars>>

Hosts == Profiles \cup {NoProfile}

\* TransferRequest; host is the remote host its sftp URLs name.
Request == [host : Hosts, profile : Profiles, alias : Hosts, upload : BOOLEAN]

Job == [tool : {"rsync", "kio"}, req : Request]

Init ==
  /\ fileProfile = NoProfile
  /\ sftpAlias = NoProfile
  /\ browserHost = NoProfile
  /\ overlapped = FALSE
  /\ dialogs = <<>>
  /\ queue = <<>>
  /\ transferActive = FALSE
  /\ jobs = {}
  /\ owed = <<>>
  /\ accepted = 0
  /\ finished = 0

-----------------------------------------------------------------------------
(* The transfer queue *)

\* Fault: the checks for password authentication and for a secret are missing.
RsyncEligibleAlways(r) == r.alias # NoProfile

\* The conditions under which startRsyncTransfer does not decline the request.
RsyncEligible(r) ==
  /\ r.alias # NoProfile
  /\ r.profile \notin PasswordProfiles
  /\ r.profile \notin SecretProfiles

\* An eligible request still goes to KIO when rsync is missing, does not start
\* in time, or the ssh path has a space.
ToolsFor(r) == {"kio"} \cup (IF RsyncEligible(r) THEN {"rsync"} ELSE {})

\* Transfer r starts while rest waits and the jobs in others go on.
Begin(r, rest, others) ==
  /\ transferActive' = TRUE
  /\ queue' = rest
  /\ \E tool \in ToolsFor(r) : jobs' = others \cup {[tool |-> tool, req |-> r]}

GoIdle(others) ==
  /\ transferActive' = FALSE
  /\ queue' = <<>>
  /\ jobs' = others

\* Fault: the newest request is taken instead of the oldest.
StartNewestTransfer(q, others) ==
  \/ q = <<>> /\ GoIdle(others)
  \/ q # <<>> /\ Begin(q[Len(q)], SubSeq(q, 1, Len(q) - 1), others)

\* Fault: the alias is read when the transfer starts, not when it is queued.
StartWithVisibleAlias(q, others) ==
  \/ q = <<>> /\ GoIdle(others)
  \/ q # <<>> /\ Begin([Head(q) EXCEPT !.alias = sftpAlias], Tail(q), others)

\* startNextTransfer, called with m_transferActive false on queue q.
StartNextTransfer(q, others) ==
  \/ q = <<>> /\ GoIdle(others)
  \/ q # <<>> /\ Begin(Head(q), Tail(q), others)

FinishTransfer(j) ==
  /\ finished' = finished + 1
  /\ owed' = Tail(owed)
  /\ UNCHANGED accepted
  /\ StartNextTransfer(queue, jobs \ {j})

\* Request r enters the queue, and starts at once when nothing runs.
Accept(r) ==
  /\ accepted < MaxRequests
  /\ accepted' = accepted + 1
  /\ owed' = Append(owed, r)
  /\ \/ /\ transferActive
        /\ queue' = Append(queue, r)
        /\ UNCHANGED <<transferActive, jobs>>
     \/ /\ ~transferActive
        /\ StartNextTransfer(Append(queue, r), jobs)
  /\ UNCHANGED finished

\* Fault: the early return without m_fileProfile is missing.
EnqueueUnguarded(host, upload) ==
  Accept([host |-> host, profile |-> fileProfile, alias |-> sftpAlias, upload |-> upload])

\* Without m_fileProfile the call returns at once and changes nothing.
EnqueueTransfer(host, upload) ==
  /\ fileProfile # NoProfile
  /\ Accept([host |-> host, profile |-> fileProfile, alias |-> sftpAlias, upload |-> upload])

\* uploadFiles, and a drop of local files onto the remote pane.
Upload ==
  /\ dialogs = <<>>
  /\ EnqueueTransfer(browserHost, TRUE)
  /\ UNCHANGED <<panelVars, dialogs>>

\* downloadSelected: the selected items are items of the browsed host.
Download ==
  /\ dialogs = <<>>
  /\ EnqueueTransfer(browserHost, FALSE)
  /\ UNCHANGED <<panelVars, dialogs>>

\* A drop onto the local pane: eventFilter asks for sftp URLs, of any host.
DropOntoLocal(host) ==
  /\ dialogs = <<>>
  /\ EnqueueTransfer(host, FALSE)
  /\ UNCHANGED <<panelVars, dialogs>>

\* Fault: the queue goes on when rsync fails, and KIO retries beside it.
RsyncFailedTwice(j, ok) ==
  /\ j \in jobs /\ j.tool = "rsync"
  /\ finished' = finished + 1
  /\ owed' = Tail(owed)
  /\ StartNextTransfer(queue, IF ok THEN jobs \ {j} ELSE {[tool |-> "kio", req |-> j.req]})
  /\ UNCHANGED <<accepted, panelVars, dialogs>>

\* QProcess::finished of an rsync: on failure the same request goes to KIO.
RsyncFinished(j, ok) ==
  /\ j \in jobs /\ j.tool = "rsync"
  /\ \/ /\ ok
        /\ FinishTransfer(j)
     \/ /\ ~ok
        /\ jobs' = (jobs \ {j}) \cup {[tool |-> "kio", req |-> j.req]}
        /\ UNCHANGED <<queue, transferActive, historyVars>>
  /\ UNCHANGED <<panelVars, dialogs>>

\* Fault: the failure path shows its message without finishing the transfer.
KioFailureForgotten(j, ok) ==
  /\ j \in jobs /\ j.tool = "kio"
  /\ \/ /\ ok
        /\ FinishTransfer(j)
        /\ UNCHANGED dialogs
     \/ /\ ~ok
        /\ jobs' = jobs \ {j}
        /\ dialogs' = Append(dialogs, FailureNotice)
        /\ UNCHANGED <<queue, transferActive, historyVars>>
  /\ UNCHANGED panelVars

\* KJob::result of KIO::copy: the queue moves on before the failure is shown.
KioResult(j, ok) ==
  /\ j \in jobs /\ j.tool = "kio"
  /\ FinishTransfer(j)
  /\ dialogs' = IF ok THEN dialogs ELSE Append(dialogs, FailureNotice)
  /\ UNCHANGED panelVars

-----------------------------------------------------------------------------
(* The panel *)

NeedsSecret(p) == p \in PasswordProfiles \cap SecretProfiles

Suspended == {i \in DOMAIN dialogs : dialogs[i] \in Profiles}

\* The rest of browseSelectedFiles for p: show p's host, unless the message
\* box about an unreadable password comes first.
PointPaneAt(p, readable) ==
  \/ /\ NeedsSecret(p) => readable
     /\ browserHost' = p
     /\ UNCHANGED dialogs
  \/ /\ NeedsSecret(p) /\ ~readable
     /\ Cardinality(Suspended) < MaxNested
     /\ dialogs' = Append(dialogs, p)
     /\ UNCHANGED browserHost

\* Fault: an already visible profile is kept as the captured one.
BrowseKeepsProfile(p, managed, readable) ==
  /\ fileProfile' = IF fileProfile = NoProfile THEN p ELSE fileProfile
  /\ sftpAlias' = IF managed THEN p ELSE NoProfile
  /\ overlapped' = (Suspended # {})
  /\ PointPaneAt(p, readable)
  /\ UNCHANGED queueVars

\* browseSelectedFiles for profile p, from the button or, even under an open
\* dialog, from a live-control request.  managed: ensureManagedSshConfig or the
\* imported alias gave an alias.  readable: the keyring gave the password.
Browse(p, managed, readable) ==
  /\ fileProfile' = p
  /\ sftpAlias' = IF managed THEN p ELSE NoProfile
  /\ overlapped' = (Suspended # {})
  /\ PointPaneAt(p, readable)
  /\ UNCHANGED queueVars

\* The user answers the innermost message box.  A browse suspended behind it
\* goes on to point the remote pane at the profile it was called for.
Dismiss ==
  /\ dialogs # <<>>
  /\ LET top == dialogs[Len(dialogs)]
     IN  browserHost' = IF top \in Profiles THEN top ELSE browserHost
  /\ dialogs' = SubSeq(dialogs, 1, Len(dialogs) - 1)
  /\ UNCHANGED <<fileProfile, sftpAlias, overlapped, queueVars>>

\* closeFilePanel hides the panel; the remote pane keeps its URL.
CloseFilePanel ==
  /\ dialogs = <<>>
  /\ fileProfile # NoProfile
  /\ fileProfile' = NoProfile
  /\ sftpAlias' = NoProfile
  /\ UNCHANGED <<browserHost, overlapped, dialogs, queueVars>>

-----------------------------------------------------------------------------
(* The specification *)

\* A running rsync process or KIO job ends, one way or the other.
JobEnds == \E j \in jobs, ok \in BOOLEAN : RsyncFinished(j, ok) \/ KioResult(j, ok)

Next ==
  \/ \E p \in Profiles, managed, readable \in BOOLEAN : Browse(p, managed, readable)
  \/ Dismiss
  \/ CloseFilePanel
  \/ Upload
  \/ Download
  \/ \E host \in Profiles : DropOntoLocal(host)
  \/ \E j \in jobs, ok \in BOOLEAN : RsyncFinished(j, ok)
  \/ \E j \in jobs, ok \in BOOLEAN : KioResult(j, ok)

\* Processes and KIO jobs end; nothing obliges the user or a client to act.
Spec == Init /\ [][Next]_vars /\ WF_vars(JobEnds)

-----------------------------------------------------------------------------
(* Properties *)

\* Every variable has its type.
TypeOK ==
  /\ fileProfile \in Hosts /\ sftpAlias \in Hosts /\ browserHost \in Hosts
  /\ overlapped \in BOOLEAN /\ transferActive \in BOOLEAN
  /\ dialogs \in Seq(Profiles \cup {FailureNotice})
  /\ queue \in Seq(Request) /\ owed \in Seq(Request)
  /\ jobs \subseteq Job
  /\ accepted \in Nat /\ finished \in Nat

\* Transfers are sequential whatever ends in whichever nested event loop: at
\* most one process or job runs, m_transferActive says whether one does, and a
\* request waits only behind a running one.
Sequential ==
  /\ \A j, k \in jobs : j = k
  /\ transferActive <=> jobs # {}
  /\ queue # <<>> => transferActive

\* Queued transfers are carried out in the order and with the profile, alias
\* and URLs they were accepted with, each exactly once, however often the
\* visible host changed and rsync gave way to KIO in between.
AsAccepted ==
  /\ accepted = finished + Len(owed)
  /\ jobs = {} => owed = <<>>
  /\ \A j \in jobs : /\ owed # <<>> /\ j.req = owed[1]
                     /\ Len(owed) = Len(queue) + 1
  /\ \A i \in 1 .. Len(queue) : i + 1 <= Len(owed) /\ queue[i] = owed[i + 1]

\* rsync runs without a terminal, so it is never given a profile whose login
\* needs a stored or typed secret, even after such a profile was visible.
RsyncNeedsNoSecret ==
  \A j \in jobs : j.tool = "rsync" =>
    /\ j.req.alias = j.req.profile
    /\ j.req.profile \notin PasswordProfiles \cup SecretProfiles

\* An upload is accepted for the host the remote pane shows: the captured
\* profile is the one in the URL unless the latest browse began inside another.
UploadsGoWhereShown ==
  [][ accepted' > accepted =>
        LET r == owed'[Len(owed')]
        IN  r.upload /\ ~overlapped => r.host = r.profile ]_vars

\* Every accepted request ends, with success or with a failure.
EveryRequestEnds ==
  \A n \in 1 .. MaxRequests : accepted >= n ~> finished >= n

\* rsync copies from or to the host that the transfer's URLs name.
RsyncReachesNamedHost ==
  \A j \in jobs : j.tool = "rsync" => j.req.alias = j.req.host

\* The queue carries requests out as an abstract serial executor does.
NoRequest == [host |-> NoProfile, profile |-> NoProfile,
              alias |-> NoProfile, upload |-> FALSE]

Running == IF jobs = {} THEN NoRequest ELSE (CHOOSE j \in jobs : TRUE).req

Serial == INSTANCE SerialTransfers
            WITH Requests <- Request, pending <- queue,
                 current <- Running, ended <- finished

ImplementsSerial == Serial!Spec
=============================================================================
