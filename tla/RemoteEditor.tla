---------------------------- MODULE RemoteEditor ----------------------------
(***************************************************************************)
(* The remote text editor of WaypaneWindow (src/src/app/waypanewindow.cpp).*)
(* Files are read and written by asynchronous KIO jobs.  Their results     *)
(* arrive while the user types, while a message box waits for an answer    *)
(* and after the editor has moved on to another file; live-control         *)
(* requests arrive under open message boxes too.  Passwords and transfers, *)
(* the other business of the file panel, are in FileTransfers.             *)
(***************************************************************************)
EXTENDS Naturals, Sequences, FiniteSets

CONSTANTS
  Hosts,       \* hosts of saved profiles
  Paths,       \* paths of remote text files
  NoFile,      \* an empty m_remoteEditorUrl
  MaxEdits,    \* bound: texts the user types
  MaxJobs,     \* bound: KIO jobs running at once
  MaxDialogs   \* bound: message boxes open at once

ASSUME EditorAssumption ==
  /\ NoFile \notin Hosts \X Paths
  /\ {MaxEdits, MaxJobs, MaxDialogs} \subseteq Nat

VARIABLES
  browserHost,  \* host of m_fileBrowser->url()
  page,         \* current page of m_fileStack: "files" or "editor"
  panelOpen,    \* m_fileStack is shown
  url,          \* m_remoteEditorUrl
  text,         \* text of m_remoteEditor
  modified,     \* its document()->isModified()
  dialogs,      \* open message boxes, outermost first
  remote,       \* what the files hold
  jobs,         \* KIO jobs whose result was not delivered yet
  edits,        \* history: number of edits
  overlapped    \* history: a save ran across a read or an edit of this text

viewVars == <<browserHost, page, panelOpen>>
editorVars == <<url, text, modified, overlapped>>
vars == <<viewVars, editorVars, dialogs, remote, jobs, edits>>

Files == Hosts \X Paths

\* A text, with the file it was read from.
Text == [origin : Files, version : 0 .. MaxEdits]
NoText == [origin |-> NoFile, version |-> 0]

\* A storedGet or storedPut; ran: the file was read or written already.
Job == [id : 1 .. MaxJobs, kind : {"put"}, file : Files, text : Text, ran : BOOLEAN]
  \cup [id : 1 .. MaxJobs, kind : {"get"}, file : Files, text : Text, ran : {TRUE}]
  \cup [id : 1 .. MaxJobs, kind : {"get"}, file : Files, text : {NoText}, ran : {FALSE}]

\* What goes on when a message box is answered.
Dialog == [then : {"nothing", "back"}] \cup [then : {"browse"}, host : Hosts]
            \cup [then : {"edit"}, host : Hosts, path : Paths]

Init ==
  /\ browserHost \in Hosts
  /\ page = "files" /\ panelOpen = TRUE
  /\ url = NoFile /\ text = NoText /\ modified = FALSE /\ overlapped = FALSE
  /\ dialogs = <<>>
  /\ remote = [f \in Files |-> [origin |-> f, version |-> 0]]
  /\ jobs = {} /\ edits = 0

Puts == {j \in jobs : j.kind = "put"}

FreeIds == (1 .. MaxJobs) \ {j.id : j \in jobs}

StartJob(kind, f, t) ==
  \E new \in FreeIds :
    /\ \A k \in FreeIds : new <= k
    /\ jobs' = jobs \cup {[id |-> new, kind |-> kind, file |-> f, text |-> t, ran |-> FALSE]}

-----------------------------------------------------------------------------
(* Opening a file *)

\* Fault: the editor names the new file before it holds its text.
UrlSetAtRequest(f) ==
  /\ StartJob("get", f, NoText)
  /\ url' = f
  /\ UNCHANGED <<text, modified, overlapped>>

\* openRemoteEditor: only the job's result touches the editor.
OpenRemoteEditor(f) ==
  /\ StartJob("get", f, NoText)
  /\ UNCHANGED editorVars

\* editRemoteSelected, from the toolbar of the file page.
EditSelected(path) ==
  /\ dialogs = <<>> /\ panelOpen /\ page = "files"
  /\ OpenRemoteEditor(<<browserHost, path>>)
  /\ UNCHANGED <<viewVars, dialogs, remote, edits>>

\* The condition under which confirmDiscardRemoteEdit has nothing to ask.
NothingToDiscard == page # "editor" \/ ~modified

Ask(d) ==
  /\ ~NothingToDiscard
  /\ Len(dialogs) < MaxDialogs
  /\ dialogs' = Append(dialogs, d)
  /\ UNCHANGED <<viewVars, editorVars, jobs>>

\* The part of browseSelectedFiles behind the confirmation.
ShowFiles(host) ==
  /\ browserHost' = host
  /\ page' = "files"
  /\ panelOpen' = TRUE

\* Fault: browsing another host does not ask.
BrowseUnasked(host) ==
  /\ ShowFiles(host)
  /\ UNCHANGED <<editorVars, dialogs, jobs, remote, edits>>

\* browseSelectedFiles, from the button or from a live-control request.
Browse(host) ==
  /\ \/ /\ NothingToDiscard
        /\ ShowFiles(host)
        /\ UNCHANGED <<editorVars, dialogs, jobs>>
     \/ Ask([then |-> "browse", host |-> host])
  /\ UNCHANGED <<remote, edits>>

\* editRemoteFileById: browse, then open the path on whatever host is browsed.
LiveEdit(host, path) ==
  /\ \/ /\ NothingToDiscard
        /\ ShowFiles(host)
        /\ OpenRemoteEditor(<<host, path>>)
        /\ UNCHANGED dialogs
     \/ Ask([then |-> "edit", host |-> host, path |-> path])
  /\ UNCHANGED <<remote, edits>>

\* The job reads the remote file.
GetRuns(j) ==
  /\ j \in jobs /\ j.kind = "get" /\ ~j.ran
  /\ jobs' = (jobs \ {j}) \cup {[j EXCEPT !.ran = TRUE, !.text = remote[j.file]]}
  /\ UNCHANGED <<viewVars, editorVars, dialogs, remote, edits>>

\* Fault: the result's error is not looked at.
ErrorIgnored(j) ==
  /\ j \in jobs /\ j.kind = "get"
  /\ jobs' = jobs \ {j}
  /\ url' = j.file
  /\ text' = j.text
  /\ modified' = FALSE
  /\ page' = "editor"
  /\ overlapped' = (Puts # {} \/ remote[j.file] # j.text)
  /\ UNCHANGED <<browserHost, panelOpen, dialogs, remote, edits>>

\* A file that was read and is text of at most 5 MiB replaces the editor's.
GetResult(j) ==
  /\ j \in jobs /\ j.kind = "get" /\ j.ran
  /\ jobs' = jobs \ {j}
  /\ url' = j.file
  /\ text' = j.text
  /\ modified' = FALSE
  /\ page' = "editor"
  /\ overlapped' = (Puts # {} \/ remote[j.file] # j.text)
  /\ UNCHANGED <<browserHost, panelOpen, dialogs, remote, edits>>

-----------------------------------------------------------------------------
(* Editing and saving *)

\* The user types in the visible editor.
Edit ==
  /\ dialogs = <<>> /\ panelOpen /\ page = "editor" /\ url # NoFile
  /\ edits < MaxEdits
  /\ edits' = edits + 1
  /\ text' = [text EXCEPT !.version = edits + 1]
  /\ modified' = TRUE
  /\ overlapped' = (overlapped \/ Puts # {})
  /\ UNCHANGED <<viewVars, url, dialogs, remote, jobs>>

\* saveRemoteEdit takes the text and the URL as they are now.
SaveRemoteEdit ==
  /\ dialogs = <<>> /\ panelOpen /\ page = "editor" /\ url # NoFile
  /\ StartJob("put", url, text)
  /\ UNCHANGED <<viewVars, editorVars, dialogs, remote, edits>>

\* The job replaces the remote file.
PutRuns(j) ==
  /\ j \in jobs /\ j.kind = "put" /\ ~j.ran
  /\ jobs' = (jobs \ {j}) \cup {[j EXCEPT !.ran = TRUE]}
  /\ remote' = [remote EXCEPT ![j.file] = j.text]
  /\ UNCHANGED <<viewVars, editorVars, dialogs, edits>>

\* A successful save clears the modified mark of what the editor holds by then.
PutResult(j) ==
  /\ j \in jobs /\ j.kind = "put" /\ j.ran
  /\ jobs' = jobs \ {j}
  /\ modified' = FALSE
  /\ UNCHANGED <<viewVars, url, text, overlapped, dialogs, remote, edits>>

\* Fault: the result's error is looked at after the mark is cleared.
FailureClearsMark(j) ==
  /\ j \in jobs
  /\ Len(dialogs) < MaxDialogs
  /\ jobs' = jobs \ {j}
  /\ dialogs' = Append(dialogs, [then |-> "nothing"])
  /\ modified' = (modified /\ j.kind = "get")
  /\ UNCHANGED <<viewVars, url, text, overlapped, remote, edits>>

\* A job that fails at any point, or reads an unsupported file, shows a message.
JobFails(j) ==
  /\ j \in jobs
  /\ Len(dialogs) < MaxDialogs
  /\ jobs' = jobs \ {j}
  /\ dialogs' = Append(dialogs, [then |-> "nothing"])
  /\ UNCHANGED <<viewVars, editorVars, remote, edits>>

-----------------------------------------------------------------------------
(* Leaving the editor *)

\* The back button of the editor page.
Back ==
  /\ dialogs = <<>> /\ panelOpen /\ page = "editor"
  /\ \/ /\ NothingToDiscard
        /\ page' = "files"
        /\ UNCHANGED <<browserHost, panelOpen, editorVars, dialogs, jobs>>
     \/ Ask([then |-> "back"])
  /\ UNCHANGED <<remote, edits>>

\* closeFilePanel, whose button is on the file page: there is nothing to ask,
\* and the hidden stack keeps its page.
CloseFilePanel ==
  /\ dialogs = <<>> /\ panelOpen /\ page = "files"
  /\ panelOpen' = FALSE
  /\ UNCHANGED <<browserHost, page, editorVars, dialogs, remote, jobs, edits>>

\* The innermost message box is answered first.
Top == dialogs[Len(dialogs)]

CloseTop ==
  /\ dialogs # <<>>
  /\ dialogs' = SubSeq(dialogs, 1, Len(dialogs) - 1)
  /\ UNCHANGED <<url, text, overlapped, remote, edits>>

\* The message of a failed job is read.
Dismiss ==
  /\ CloseTop
  /\ Top.then = "nothing"
  /\ UNCHANGED <<viewVars, modified, jobs>>

\* Discard clears the mark, and the handler that asked goes on.
Discard ==
  /\ CloseTop
  /\ modified' = FALSE
  /\ \/ /\ Top.then = "back"
        /\ page' = "files"
        /\ UNCHANGED <<browserHost, panelOpen, jobs>>
     \/ /\ Top.then = "browse"
        /\ ShowFiles(Top.host)
        /\ UNCHANGED jobs
     \/ /\ Top.then = "edit"
        /\ ShowFiles(Top.host)
        /\ StartJob("get", <<Top.host, Top.path>>, NoText)

\* Cancel: the handler gives up, but editRemoteFileById still opens its path.
Cancel ==
  /\ CloseTop
  /\ \/ /\ Top.then \in {"back", "browse"}
        /\ UNCHANGED jobs
     \/ /\ Top.then = "edit"
        /\ StartJob("get", <<browserHost, Top.path>>, NoText)
  /\ UNCHANGED <<viewVars, modified>>

-----------------------------------------------------------------------------
Next ==
  \/ \E path \in Paths : EditSelected(path)
  \/ \E host \in Hosts : Browse(host) \/ \E path \in Paths : LiveEdit(host, path)
  \/ \E j \in jobs : GetRuns(j) \/ GetResult(j) \/ PutRuns(j) \/ PutResult(j) \/ JobFails(j)
  \/ Edit \/ SaveRemoteEdit
  \/ Back \/ CloseFilePanel
  \/ Dismiss \/ Discard \/ Cancel

Spec == Init /\ [][Next]_vars

-----------------------------------------------------------------------------
(* Properties *)

\* The variables hold values of their types: a job number is used once at a time.
TypeOK ==
  /\ browserHost \in Hosts /\ page \in {"files", "editor"} /\ panelOpen \in BOOLEAN
  /\ url \in Files \cup {NoFile} /\ text \in Text \cup {NoText}
  /\ modified \in BOOLEAN /\ overlapped \in BOOLEAN
  /\ dialogs \in Seq(Dialog) /\ Len(dialogs) <= MaxDialogs
  /\ remote \in [Files -> Text]
  /\ jobs \subseteq Job /\ \A j, k \in jobs : j.id = k.id => j = k
  /\ edits \in 0 .. MaxEdits

\* However reads and saves overlap with typing and with the choice of another
\* file, one file's text is never written to another: saveRemoteEdit captures
\* text and URL together, and openRemoteEditor's result replaces them together.
TextStaysWithItsFile ==
  /\ text.origin = url
  /\ \A j \in Puts : j.text.origin = j.file
  /\ \A f \in Files : remote[f].origin = f

\* Unsaved text is never out of sight: every way out of the editor page goes
\* through confirmDiscardRemoteEdit, also when a read or a save ends, or a live
\* request comes in, while it waits for the answer.
UnsavedTextIsShown == modified => page = "editor" /\ panelOpen

\* An editor whose text is not marked as modified shows what the file holds,
\* unless a save was running when the text was read or edited.  Nobody else
\* writes the files of this model.
UnmarkedTextIsSaved ==
  page = "editor" /\ ~modified /\ ~overlapped => remote[url] = text

\* What the message box of confirmDiscardRemoteEdit promises: unsaved text is
\* only replaced by what the user types.  A read that was requested before the
\* edit, or that editRemoteFileById starts after Cancel, replaces it too.
DiscardIsAsked == [][modified /\ text' # text => edits' # edits]_vars
=============================================================================
