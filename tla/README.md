# A TLA+ model of Waypane

Waypane is a desktop SSH client for KDE: saved connections, terminals, tunnels,
an SFTP panel with a transfer queue and a text editor, a recorder of sessions,
and a control interface for other programs (MCP). It is a Qt program with one
GUI thread, a few helper executables, and a Python server, `waypane-mcp`, of
which any number may run. Paths below are relative to the repository.

Nothing in it is parallel inside one process, and yet almost everything
interleaves: a modal dialog is a *nested event loop*, in which the results of
KIO jobs, the end of processes and the requests of live-control clients are
delivered while the handler that opened the dialog is suspended in the middle of
its work. The second source of trouble is files with several writers or a late
reader: `connections.json`, which the GUI and the MCP servers rewrite without
knowing of each other, and the two OpenSSH configurations, which `ssh` reads some
time after it was started. The third is the helper programs around a session: a
relay with signals and hang-ups, and a socket that several windows may serve. The
modules below are about these three things.

## 1. Inventory

| Component | Code | State it keeps | Operations | What makes it hard | What makes it correct |
|---|---|---|---|---|---|
| File panel and transfer queue | `waypanewindow.cpp` 1226-1308, 1365-1496, 1759-1785 | `m_fileProfile`, `m_sftpAlias`, URL of the remote pane, `m_transferQueue`, `m_transferActive`, running rsync or KIO job | browse, upload, download, drop, start, finish, fall back, close | results inside nested loops, live browse under a message box, late results | one transfer at a time, in order, as accepted, never stuck; rsync without secrets; uploads to the host shown |
| Remote text editor | 1310-1390, 593-597, 902-911 | URL, text, modified mark, page of the panel, jobs in flight | open, edit, save, back, question about unsaved text | results in any order, edits while a save runs, live requests while the question is open | text never goes to another file, unsaved text stays visible and is not lost unasked |
| Profile store | `connectionstore.cpp`, `connectionlistmodel.cpp`, `tools/waypane-mcp` | `connections.json`, the GUI's list, what a server read | load, upsert, remove, import, MCP upsert and delete | read-modify-write by several processes, crashes, failed saves | no torn file, acknowledged changes lost to stale copies only, list and file agree |
| Connection dialogs, keyring | `waypanewindow.cpp` 799-911, 1113-1192, 1267-1277, 1625-1662, `secretstore.cpp` | list, tree, current row, keyring entries | add, edit, forward, delete, import | current row changed under an open dialog; keyring and file written one after the other | what was confirmed is what happens; no orphan and no missing secret |
| Live control | `livecontrolserver.cpp`, `waypane-mcp` 37-58 | local socket, requests in progress | list, connect, tunnels, browse, edit, reply, start of the server | client gives up after 3 s, socket deleted while its handler sits in a nested loop, two instances starting | one window serves and is reached; a reply goes to its own caller; at most once |
| SSH launch and runtime | `waypanewindow.cpp` 1010-1083, `sshcommandbuilder.cpp`, `sshruntime.cpp`, `sshrunner.cpp`, `sshhelper.cpp` | none to speak of; wrapped argument vectors | open a session or a tunnel, choose the ssh binary | combinations of legacy, audit, secret, imported alias; ssh reads its files later than it was started | a legacy shell never runs the system's ssh, an audited session is always recorded; the session reaches its profile |
| Session logger | `sessionlogger.cpp` | PTY, child, transcript, window size | relay, resize, end | poll events arriving together, blocking writes to both sides, signals | the transcript is what was shown, loss at a hang-up is bounded, ends when the child ends and the pane takes its output |
| Terminal tabs and workspace | `waypanewindow.cpp` 938-996, 1085-1100, 1675-1757, 1787-1814 | tabs, splits, saved layout | open, split, close, exit of a part, save, restore | deferred close, exit during split, restart | map and widgets agree, a timer closes no live pane, what was saved comes back and no more |
| Managed SSH configuration | `managedsshconfig.cpp` | fragment in the data directory, `Include` line in `~/.ssh/config` | sync, install | idempotence, the user's own lines, failing writes, the user editing meanwhile, a second window writing | installed at most once and only by consent, hosts of the user's own keep their settings |
| OpenSSH import | `opensshconfigimporter.cpp` | none | parse | order of options, `Match` | the effective options of ssh |
| Profile schema | `connectionprofile.cpp` | none | validation, JSON | data only | - |
| MCP protocol | `tools/waypane-mcp` | none | JSON-RPC, tools | - | - |
| Settings, theme, frame; build and packaging | `settingsdialog.cpp`, `main.cpp`, `tools/build-private-openssh` | `QSettings` | - | - | - |

**How they interact.** A live-control request calls the same handlers as the
user's buttons (`connectToProfileId`, `openTunnelsProfileId`,
`browseProfileFilesById`, `editRemoteFileById`), first selecting the profile's
row in the connection tree; unlike a click, it is not kept out by a modal
dialog. The file panel and the editor share the URL of the remote pane and the
page shown. Dialogs, import and live requests share the list and its current
row. The GUI and `waypane-mcp` share `connections.json`. A second window only
warns that it cannot serve live control (`main.cpp` 52-55) and goes on, so two
windows share `connections.json`, the managed configuration and `~/.ssh/config`.

## 2. Modules

| Module | Models | Role |
|---|---|---|
| `SerialTransfers` | what the panel promises about transfers | abstract specification |
| `FileTransfers` | file panel and transfer queue | implements `SerialTransfers` |
| `FileTransfersProofs` | | theorems about `FileTransfers` |
| `ProfileStore` | `connections.json`, the GUI, the servers | |
| `ProfileStoreProofs` | | theorems about `ProfileStore` |
| `RemoteEditor` | the editor and the ways out of it | |
| `RemoteEditorProofs` | | theorems about `RemoteEditor` |
| `ConnectionDialogs` | dialogs, tree, current row, keyring | |
| `ConnectionDialogsProofs` | | theorems about `ConnectionDialogs` |
| `LiveCalls` | what a live call promises its caller | abstract specification |
| `LiveControl` | the socket, its windows and their callers | implements `LiveCalls` |
| `LiveControlProofs` | | theorems about `LiveControl` |
| `SessionLogger` | runner, logger and PTY of one audited session | |
| `SessionLoggerProofs` | | theorems about `SessionLogger` |
| `Filters` | what of a sequence is kept: a filter that can be reasoned about | operators |
| `Terminals` | tabs, panes, deferred close, saved layout | uses `Filters` |
| `TerminalsProofs` | | theorems about `Terminals` |
| `SshConfig` | managed file, Include, import; what ssh makes of them | operators, uses `Filters` |
| `SshSessions` | profiles, the two files, opening a session | uses `SshConfig` |
| `SshSessionsProofs` | | theorems about `SshSessions` |
| `MC*` | | constants and symmetry for TLC |

Definitions whose comment begins with "Fault:" or whose name begins with `Bug`
are not used by any specification. Each is a definition of the model with a
plausible mistake in it; put in its place, it breaks the property that
`PROJECT.json` names beside it, which shows that the property can fail.

### 2.1 `FileTransfers`

*State.* `fileProfile`, `sftpAlias`, `queue` and `transferActive` are the
members of those names. A profile stands for itself, for its host and for its
SSH alias. `browserHost` is the host in the URL of the remote pane; `dialogs` is
the stack of message boxes, where a profile stands for a `browseSelectedFiles`
suspended at "Open saved password" (1254) and `FailureNotice` for the message
of a failed copy; `jobs` are the running processes and KIO jobs. `owed`,
`accepted`, `finished` and `overlapped` are history.

*Actions.* `Browse` is all of `browseSelectedFiles`: it sets `m_fileProfile` and
the alias and goes on to the URL, or stays behind in a message box and lets
`Dismiss` set the URL later. It is enabled with a message box open, because a
live request calls it then. `Upload`, `Download` and `DropOntoLocal` are the
three callers of `enqueueTransfer`, and need the user, that is, no open message
box. `RsyncFinished` and `KioResult` are the two result handlers; both run
`finishTransfer`, which runs `startNextTransfer`, as one step, and the copy's
failure message is opened after that, as in 1433-1437.

*Abstracted.* File lists, names and progress texts. The question of
`ensureManagedSshConfig` comes before anything is assigned, so `Browse` is the
part after it. The question about unsaved text is in `RemoteEditor`.

### 2.2 `ProfileStore`

*State.* `disk` is the file: a function from ids to bodies or `Absent`, or
`Corrupt`, which the user's editor or a failing disk may make of it at any time
(`Damage`). `Loaded` is `ConnectionStore::load`, for which a corrupt file is an
empty list. The GUI's list is read in `GuiStart` alone. A server's call holds the
document it read, with its change, and how far its temporary file is. `good`,
`acked`, `stale` and `contended` are history: the last document in the file, what
callers were told, which ids changed behind a process's back since it read, and
whether somebody has saved such a copy (a GUI that starts over a corrupt file
holds a copy in which every id is stale).

*Actions.* `save_document` is `McpOpenTemp`, `McpWriteTemp` and `McpCommit`
(`os.replace` and the answer), and `McpAbort` where it fails or the server is
killed, before any of them. A call that began before the file was damaged
replaces it all the same. `QSaveFile` in the GUI is one step that happens or
fails: the GUI does nothing else meanwhile. `GuiUpsert`, `GuiRemove` and
`GuiImport` include `persist()` and, when it fails, the rollback of the list.

### 2.3 `RemoteEditor`

*State.* The editor's URL, text and modified mark, the page of the file stack,
the browsed host, message boxes, remote files, and the KIO jobs whose result was
not delivered. A text is the file it was read from and the number of its last
edit; `overlapped` is history and says that a save ran across a read or an edit.

*Actions.* A KIO job has two steps (`GetRuns`/`GetResult`, `PutRuns`/`PutResult`)
or fails between any two (`JobFails`), also after a write took effect. `Browse`,
`LiveEdit` and `Back` open the question of `confirmDiscardRemoteEdit`, and
`Discard` and `Cancel` run the rest of whichever handler asked; `Cancel` of a live
edit still opens its path (`editRemoteFileById`, 902-911, ignores that
`browseSelectedFiles` gave up).

*Abstracted.* Size and encoding checks are a failing job. The rest of a handler
behind Discard is one step: the dialogs that `ensureManagedSshConfig` may show in
it find no unsaved text. Nobody else writes the remote files. Closing the window,
which does not ask, is not an action here.

### 2.4 `ConnectionDialogs`

*State.* `list` is `m_profiles` (id, and whether a secret is referred to), `tree`
the ids behind the rows of the tree model, `row` its current row, `keyring` the
entries of the keyring folder, `dialogs` the open dialogs with the profile copy
their handler holds. `mishap` is history: a handler did only some of its steps,
removed another row than it asked about, or an import overwrote a `secretId`.

*Actions.* Each handler is two actions: up to `exec()`, and after it.
`LiveRequest` selects a row at any time. `Deleted` follows `deleteConnection`:
the secret is that of the profile the question named, the row that of the tree
when the question was answered.

*Abstracted.* A file that is imported names at most `MaxImported` aliases, in any
order and with repetitions; `Imported` is the loop over them. A save of the list
succeeds or fails (what is in the file is `ProfileStore`). The keyring itself is
external. `syncManagedSshConfig`, which
each of these handlers calls after a success, touches none of this state.

### 2.5 `LiveControl` and `LiveCalls`

*State.* `gui[g]` is how far a window is: `LiveControlServer::start` is three
steps, because two windows may start at once (`waitForConnected`, `removeServer`,
`listen`). `file` says whose socket the path names. A call is one connection with
one request line (`live_request` writes one); `phase` is what its caller knows,
`at` the window at the other end, `unread` the requests that no handler has read,
`answer` what was written back, `freed` the sockets a window has deleted. The
handlers that wait in message boxes form `stack[g]`. `taken` counts how often a
request was taken up; `overlap` is history.

*Actions.* `Refuse`, `Perform` and `Begin` are the ways through the lambda of
`acceptConnection`: it answers with an error, carries the request out, or stops
in a message box; `Dismiss` runs the rest of the innermost such handler. `TimeOut`
is the three seconds of `settimeout`, `Hangup` the `disconnected` handler, which
deletes the socket. `Quit` ends a window orderly, which removes the path whoever
it names, and `Crash` leaves a dead socket behind. What a request does to the
panel, the list, the terminals and the sessions is in the other modules.

*`LiveCalls`.* A request is taken up at most once; `refused` means never, `ok`
means it was; every call returns. An error promises nothing: the caller may have
given up on a request that is carried out afterwards. `ok` promises no more than
that a handler took the request up: it says the same when the handler showed the
user why it did nothing (`livecontrolserver.cpp:88`).

### 2.6 `SessionLogger`

*State.* The child's output is counted in chunks, so the transcript `log` is a
sequence of numbers and the footer, and "what the pane showed" is a number.
`pc` is the place in the logger's loop; it is split wherever a signal, the child
or the user makes a difference, e.g. between the test of the resize flag and
`poll`. `keys` is the pane's unread input, `fed` what the child's terminal holds,
`outer`, `current` and `inner` are the three copies of the window size.

*Actions.* One per step of the loop, in the order of the code: `Test`, `GetSize`,
`SetSize`, `Block`, `PollReturns`, `ReadMaster`, `ShowBatch` or `ShowFails`,
`RecordBatch`, `ReadInput`, `Feed`, `CheckHup`, `Finish`; `StartFails` for a log
file or fork that fails. `Reap` and `Acknowledge` are the runner. The child, the
user, resizes and what becomes of the pane are the environment. Partial writes of
`writeAll` are one step, since nobody can see them; a failing write to the
transcript is a choice.

*The pane.* The logger leaves the pane's terminal in cooked mode, so Ctrl+S stops
it (`StopOrGo`), and the blocking write of line 135, like that of a message, then
waits: `ShowBatch` needs an open pane. When the pane is closed, the programs get
SIGHUP and die (`Interrupt`), or, where that is ignored, go on with a write that
fails and is not looked at (`HangUp`, `ShowFails`). Hence two counters: `taken` is
what was read of the child, `shown` what the pane got.

### 2.7 `Terminals`

*State.* `tabs` are the splitters of the tab widget, `panes[w]` the widgets of a
splitter, `session` is `m_terminalSessions`, `timers` the queued closes of idle
tabs, `active` is `m_activeProfileId`. The settings keep the layout, whether to
restore it and whether to reconnect. While `restoreWorkspace` runs, `todo` is the
rest of the layout and `workspace` its local pointer to the tab being restored;
`box` says that a message box runs the event loop in its middle.

*Actions.* `Exit` is the end of a pane's process: the widget leaves its splitter
and the map at once, and the tab is left to the timer, which looks again
(`TimerFires`). `CloseTab` and the timer share `CloseTerminal`. `Quit` saves the
layout, `Crash` does not. `Select` is the pair of loops of `saveWorkspace`, which
drop panes and then the tabs that are left without any; `Restorable` is the same
for the panes that are to be restored. `RestorePane`, `SkipPane` and `PaneFails`
are one pass of the inner loop of `restoreWorkspace`, `NextTab` the end of the
outer one. When the tab of `workspace` is gone, the next pane is put into a
deleted splitter, or after the last pane the deleted splitter is turned (1748, in
`TabDone`): the model stops in both cases with `phase = "wild"`, since a dangling
pointer may do anything.

### 2.8 `SshConfig` and `SshSessions`

*State.* The window's profiles, the managed file as a map from aliases to port
and jump host, `~/.ssh/config` as a sequence of lines of the kinds that matter
(blank, marker, the Include, heads of blocks, a `Match all`, ports), the question
of `ensureManagedSshConfig`, the one session being opened, and two histories:
`lost` says that since this window last wrote the managed file another one has, or
a write of its own failed; `wanted` what the user last said of an Include, by an
answer or by hand. The port stands for every option that both files can set.

*Operators.* `Render`, `IsIncluded`, `Install` and `ImportFile` are the functions
of `managedsshconfig.cpp` and `opensshconfigimporter.cpp`, on lines; the loops
that retain lines use `Filters`. `FirstPort` and `Meets` are `ssh_config(5)`: the
first value found in a block that applies wins, and an Include is read in place.

*Actions.* Each handler that changes the list ends in `Sync`, as in the code.
`OpenSshSession` is the whole of `openSshSession`, with its five reasons to
refuse, and builds the command line; `Connect` is the moment when ssh reads its
configuration, any time later. "Not now" is `Decline`, "Enable integration" is
`Enable`. `EditByHand` is the user's own editor, and `Restart` a window that finds
another `connections.json`. A second window, whose list may be any, writes the
managed file and repairs the Include (`OtherWindowWrites`), and its user may
answer the same question there (`OtherWindowAnswered`); its own sessions are those
of this window with the roles exchanged.

*Abstracted.* The keyring and the prompt of `waypane-ssh-helper` are external. A
name that nothing resolves leads nowhere (`None`). The temporary files and
`QSaveFile` are one step that happens or fails.

## 3. Runs

All with deadlock checking on, except `logger` and `logger_loss`, where a session
that is over is the end of everything. Each finishes within three minutes.

| Run | Bounds | Distinct states | Shows |
|---|---|---|---|
| `transfers` | 2 profiles (one with a key, one with a stored password), 3 requests, 1 suspended browse | 86,313 | queue, capture, fallback, liveness, refinement |
| `store` | 2 ids, 2 bodies, 2 servers and the GUI, symmetric | 1,907,986 | what uncoordinated writers still guarantee, over crashes and damage |
| `editor` | 2 hosts, 1 path, 3 edits, 2 jobs in flight, 2 message boxes, symmetric hosts | 1,277,310 | reads, saves, edits and live requests in every order |
| `dialogs` | 2 new and 2 imported ids, 2 aliases in an import, 3 nested dialogs, symmetric | 436,720 | list, tree, row and keyring under nested dialogs |
| `live` | 3 windows, 2 calls | 368,032 | start races, crashes, nested handlers, time-outs; refinement |
| `logger` | 3 chunks of output, room for 3, reads of 2, 2 inputs, room for 1, 2 sizes | 717,220 | the relay loop against signals, hang-ups, a stopped or closed pane, failing writes |
| `terminals` | 1 profile, 2 splitters, 3 panes | 912,781 | exits, splits and timers in every order; save and restore with failures |
| `ssh` | 2 profiles (one with a secret, one imported) of 2 versions each, every jump of the one by the other, 3 ports, 5 user configurations | 258,258 | launch checks, what ssh reads late, a second window, the Include |
| `transfers_route`, `editor_discard`, `dialogs_delete`, `logger_loss` | as above, the last without inputs | - | the disagreements of section 6 |

*Why the bounds are enough.* A transfer needs a running predecessor and a waiting
successor for the queue to matter: three requests give both, and a fallback in
the middle. Two profiles give a visible and a captured one, with one eligible
for rsync and one not. One suspended browse is what it takes for another to
overlap it. Two servers and the GUI are three read-modify-writes, and two ids
tell a change from a collateral one. Two jobs in flight give a read across a save
and two reads in the wrong order; the editor was also run once with three jobs
and two edits (7.6 million states) without an error. In `dialogs` only the
outermost dialog belongs to a user's handler, and the others are notices of live
requests, so three levels are as good as more. An id that neither the list nor
the keyring knows may be used again as a fresh uuid, so no counter bounds the
length of a behaviour there or in `ProfileStore`.

Three windows give one that serves, one that starts and one that leaves; two
calls one that waits behind the other's message box. In `logger` the terminal
holds one chunk more than a read takes, which is what it takes to lose output at
a hang-up, and two inputs are one more than the child's side holds. In
`terminals` three panes give a split tab beside another, or a tab whose last pane
has gone while a new one is split in. In `ssh` each of the five user
configurations is one way of standing around an Include: none, a block without
one, an Include behind a `Host *`, two Includes, and one in the middle of a
block. The user's lines name a port (`userPort`) that no profile has but by an
import, so that what they say cannot be mistaken for what a profile says.

*What the properties say.* Each is stated in words above its definition. Their
conditions are part of the result. `UploadsGoWhereShown` excludes browse handlers
that began inside one another: with them, one host can be shown under another's
profile. `UncontendedAcksSurvive` says what is left of acknowledged changes in
the absence of locks: they are kept until somebody saves a copy that was stale.
`FileStaysWhole` says of each step of a save, and of its end at any of them, that
it leaves no half document. `UnmarkedTextIsSaved` excludes saves that an edit or
a read overlaps, because the result of the save then clears a mark that is not
its own. `SecretsMatchProfiles` holds until `mishap`, since the code does not
undo the keyring half of a failed handler.

`ListenerReachable` holds until two starts overlap: nothing but the time between
`waitForConnected` and `listen` keeps a second window from taking the path away.
`LossBounded` states what is lost when the child hangs up with more output than
one read takes, and leaves out a last round with input, whose failing write
breaks off before the output is read. `SessionEnds` and `OutputIsShown` hold if
the pane is not stopped for good, or again and again. `RestoresLayout` speaks of
starts in which no session failed to open. `SessionReachesProfile` and
`SavedJumpIsReached` are one promise in two strengths: with a saved jump host ssh
is given the managed file alone and must reach the profile; otherwise what the
user's own configuration says first of that very host, for which the managed
block may stand too late or not at all, may differ (`OwnPorts`). Both speak of
sessions whose names all resolve, and hold as long as this window was the last to
write the managed file (`lost`): after another window's write the old list of
that window is what ssh finds. `LaunchKeepsPromises` tells what is to be started
from what is there (`wrappers`, `installed`). `ConsentBeforeInclude` follows the
answers through all writes of both windows: an Include is never there when the
user last said no.

*Fairness.* `FileTransfers`: weak fairness of `JobEnds`: a started
process or KIO job ends, with success or not. Qt delivers its result, also inside
the nested event loop of a message box, so no user action is needed for the queue
to drain. `startRsyncTransfer` and `KIO::copy` have no timeout of their own: that
a job ends is an assumption about ssh and KIO, not about this code. Nothing
obliges a user or a client to act.
`LiveControl`: `TimeOut` is a socket timeout in the caller's own process; nothing
is assumed of the windows, whose handlers may wait for a user or the keyring.
`SessionLogger`: the logger and the runner are scheduled, and the child, which is
ssh, goes on reading its terminal; it need not end nor write. Their writes to the
pane have no time limit, and nothing obliges the user to let a stopped pane go on:
that it is not stopped for good is a premise of both liveness properties, and no
fairness. `Terminals`: an expired
`QTimer::singleShot` is delivered, in a nested loop too, and restoring goes on
except in a message box. The remaining modules have safety properties only.

## 4. Theorems

Proved with TLAPS for every value of the constants that satisfies the named
assumptions (`ProfilesAssumption`, `BoundsAssumption`, `StoreAssumption`,
`EditorAssumption`, `DialogsAssumption`, `GuisAssumption`, `LoggerAssumption`,
`TerminalsAssumption`, `SessionsAssumption`: placeholders are no data and bounds
are numbers; `ConfigAssumption` says besides that two profiles have two aliases).

*`FileTransfersProofs`.* `QueueInv == TypeOK /\ Sequential /\ AsAccepted` is
inductive. No part is so alone: that a finished transfer is the oldest owed one
needs that only one runs, and that the queue is empty when nothing runs is needed
for a new request to be first in line. `StartNext`, `FinishKeepsQueue` and
`AcceptKeepsQueue` say once what the queue helpers do, and the step proof has one
case per action. `RsyncWithoutSecrets`, that rsync is started only for profiles
that need no secret, is stated of waiting requests too: an alias that is there is
that of the captured profile; it is proved and has no run of its own.
`UploadsFollowThePane` needs an invariant about suspended browses: without an
overlap, the innermost suspended one is of the captured profile. `RefinesSerial`
shows that each step is one of `SerialTransfers` or a stutter, under `QueueInv`
(without it `Running`, a CHOOSE over `jobs`, is meaningless).

*`ProfileStoreProofs`.* `StoreInv` speaks of `good`, the last document in the
file, which damage leaves as it was: the file is that document or damaged
(`DiskIsGood`), the list agrees with it outside its stale ids (`GuiShowsGood`),
every call in progress outside its own id and its stale ids (`CallsShowDisk`), and
without a contended save it is what callers were told (`GoodIsAcked`).
`GuiShowsDisk` and `UncontendedAcksSurvive` follow where the file can be read. One
lemma, `ReplaceFacts`, carries the argument for all writers: a document that
differs from the last one in its targets and stale ids only keeps acknowledged
changes, and extends the stale sets of all others by what it changed. `Writers`
says who changes the document at all, from which `NoCollateralChange` follows.

*`RemoteEditorProofs`.* `EditorInv` adds `ReadsAreOfTheirFile` (what a read found
is of its file) and `SavesAreOfTheText` (without overlap, running saves are of
the text shown, and one that ran left it in the file). The second is what makes
clearing the mark in `PutResult` right.

*`ConnectionDialogsProofs`.* `DialogsInv == TypeOK /\ TreeShowsList /\ DialogsOK
/\ SecretsMatchProfiles`. `DialogsOK` is the part that no run checks by itself: a
dialog that is not a notice lies at the bottom of the stack, and until it returns
the profile its handler took is still in the list, unchanged, because only the
handlers that it keeps out change the list. Without it an edit could write the
secret of a profile that is gone. The type of the list, no id twice, needs what
an import of any number of aliases does to it; that is an induction over the
aliases (see below). `SecretsLeaveOnlyByName` is an argument about single steps.

*`LiveControlProofs`.* `PathOK` strengthens `ListenerReachable`: while no two
starts have overlapped, at most one window starts, and none serves then; without
it, `removeServer` could take the path of a serving window. `CallsOK` says how far
a call has come when something was done about it, and `StacksOK` that each handler
behind a message box is the only one of its call, in the call's own window, and
has not answered. Together they make `CallerIsServed` inductive: the reply of the
innermost handler cannot be another caller's. `RefinesCalls` is the step
simulation of `LiveCalls` under `CallsOK`: `Ask` is `Ask` or `Fail`, `Perform` and
`Begin` are `TakeUp`, `Receive` and `TimeOut` are `Return`, the rest stutters.

*`SessionLoggerProofs`.* `CountsOK` and `PhasesOK` tie the counters to the place
in the loop, and `shown` to `taken`: a pane that is there was given all but the
batch at hand. With them `TranscriptIsWhatWasShown` is inductive, since only
`ReadMaster` adds to `taken`, only `ShowBatch` to `shown`, and only `RecordBatch`
to the transcript. For
`LossBounded` the invariant follows the last round: once the poll has reported a
hang-up the child adds nothing, and the one read left leaves at most the room
less one read. For `ResizeNotForgotten`: a copy of an old size has the flag set.

*`SshSessionsProofs`.* `SessionsInv`: unless `lost`, the managed file is the
rendering of the list (`ManagedFileIsCurrent`, for which every handler that
changes the list must be seen to end in `Sync`), and the command of a started
session is consistent with the profile it was made from (`CommandOK`).
`FilesInv`: the managed file has blocks of aliases only, and `~/.ssh/config` is a
sequence of lines, whoever writes it. `Destinations` says where a session goes,
and over which jump host, in terms of the file that ssh is given.
`SavedJumpsAreReached` follows the evaluation of the managed file by ssh
(`ManagedPort`, `RenderIs`); `ProfilesAreReached` that of the user's file: the
first port that applies is the first of the user's own lines for that host, or
nothing is said of it at all, or it is in the managed file, at the place of the
Include (`PortsGiven`), and that file says what the list says now
(`ManagedPortsAreNow`). `IncludeNeedsConsent` goes through all writers of
`~/.ssh/config`: all but an answer and the user's hand change a file only that has
an Include already (`RepairIs`). `InstallIsHarmless` is about `Install` on any
sequence of lines: what it retains are the user's lines in their order
(`InstallIs`, `OnlyOfOnly`), the Include it writes stands first and once, and a
host that is no alias meets the same lines as before, in the same blocks, since
blank lines, markers and Includes neither open a block nor set a port
(`OwnPlaces`, `SameLinesSamePort`).

*`TerminalsProofs`.* `TabsInv` adds to `SessionsMatchPanes` that no splitter is
in two tabs and no pane twice in a splitter: `RemoveFirst` takes one occurrence
out, and only then is what it removes gone. `LayoutInv` follows a restore: n tabs
of the saved layout are done, and m panes of the next; what is left is the rest
of the layout (`Left`), and the window shows the done part, filtered, with the
tab in progress as the last one if any of its panes was restored (`Done`).
`NewTabShown` and `NewPaneShown` say what opening a pane adds to what is shown,
`PaneIsDone` and `TabIsDone` what the filters add for the same step, and at the
end (`RestoredIs`) nothing is left. TLC found both invariants to hold on the
bounds of the run `terminals` before they were proved. `EmptyTabsAreQueued` is
the part of `EmptyTabsClose` that is about states: a tab without panes has its
timer queued, and only the event loop's delivery of it is left to fairness; after
a dangling pointer was used it says nothing, since the behaviour ends there.
`TimersSpareLiveTabs` needs only that `session` is a map.

*Induction over data.* The library's induction theorems take an operator as a
parameter, which the provers cannot instantiate. The lemmas `LeastElement` and
`InductiveSet` do without: a set of numbers that is not empty has a least element
(from `WFMin` and `NatLessThanWellFounded`), so a set with 0 that is closed under
successors has all of them; the claim is stated as the set of the lengths for
which it holds. `KeptIs` and `ImportedIs` show that the recursive functions of
`Filters` and `Imported` satisfy their equations, and the lemmas on filters and
imports are inductions of this form. `SelectSeq` and `FoldLeft` themselves cannot
be unfolded by the provers, hence `Filters` and the recursive function in
`Imported`. The lemmas on filters stand in both modules that need them.

*Model-checked only.* All safety invariants and action properties of the passing
runs are proved, but `FileStaysWhole`, which is a matter of each step alone. What
is left to TLC besides is liveness, which is beyond the prover with ENABLED:
`EveryRequestEnds`, `SessionEnds`, `OutputIsShown`, `EmptyTabsClose`, and in the
two refinements (`ImplementsSerial`, `KeepsPromise`) the fairness of the abstract
specification; their initial states and steps are proved (`RefinesSerial`,
`RefinesCalls`).

## 5. Not modelled

- Profile fields, their validation and their JSON (`connectionprofile.cpp`):
  functions from data to data without state; what a profile says is one value in
  `ProfileStore` and its port, jump host and legacy mark in `SshSessions`.
- Settings dialog, theme and window frame, widgets: data and layout. The three
  settings that other handlers read are variables or choices (`restore`,
  `reconnect`, `logging`).
- JSON-RPC framing and the read-only tools of `waypane-mcp`: one request, one
  answer, no state. The tools that change the store are in `ProfileStore`, the
  live ones in `LiveControl`.
- Build, packaging and release scripts.
- `aliasFor` maps all characters but a few to dashes, so hand-written ids could
  collide; ids are UUIDs, on which it is one-to-one (`ConfigAssumption`).
- The time between `isPrivateRuntime` (`waypanewindow.cpp:1023`) and the second
  look at the same files in `SshRuntime::executable` (1053) is one step.
- What follows the use of a dangling pointer (`restoreWorkspace`, 1727-1748):
  `phase = "wild"`.
- Whether an event loop gets round to a request: a handler that waits for the
  keyring blocks its window, and no document sets a time for it.
- The bytes of lines: `installInclude` reads `~/.ssh/config` as UTF-8 and writes it
  back as UTF-8 (`managedsshconfig.cpp` 192, 202), so a line of the user's that is
  not valid UTF-8 is altered. `InstallKeepsSettings` is about whole lines.
- Closing the window (1755) does not ask about unsaved remote text; no document
  says that it would, and a property would only restate that.

## 6. Disagreements found

Shown by runs that end in a violation:

1. `transfers_route`: rsync takes the host from the captured alias and drops that
   of the URLs. A drop of files of another host onto the local pane fetches the
   same paths from the visible host (`waypanewindow.cpp:1468`, 1773-1776).
2. `editor_discard`: unsaved text is replaced without the question, by a read that
   was requested before the edit or by a live edit after Cancel
   (`waypanewindow.cpp:1340`).
3. `dialogs_delete`: a live request under the delete question changes the row that
   the confirmed deletion removes (`waypanewindow.cpp:1182`).
4. `logger_loss`: `docs/architecture.md` 64-65 says that the session logger "relays
   a nested PTY byte-for-byte and writes output to an owner-only transcript". After
   a hang-up it makes one read and leaves the rest (`sessionlogger.cpp:146`); how
   much that may be is `LossBounded`.

Met while reading the code for the models, and visible in them as the choices and
conditions they contain, without a run of their own:

5. The session logger never puts the pane's terminal into raw mode, so
   the pane echoes what is typed at a password prompt and Ctrl+C ends logger and
   runner (`Interrupt`), while `docs/architecture.md` 63-66 leaves the echo to the
   child's terminal.
6. An end of file on the logger's input closes it for good
   (`sessionlogger.cpp:140`, `ReadInput`), though the terminal could deliver more;
   and a line typed ahead acknowledges the runner's banner at once
   (`sshrunner.cpp:108`, `Acknowledge`).
7. An input in the loop's last round whose write fails breaks the loop off before
   what else the child wrote is read (`sessionlogger.cpp:142`, the condition of
   `LossBounded`); a failing write to the transcript is ignored (136, `gaps`).
8. `README.md` 73 says that Waypane refuses the system's ssh for a legacy
   profile. That holds of its own shell and tunnels (`LaunchKeepsPromises`); rsync
   (`waypanewindow.cpp:1448`) and a legacy jump host of a modern profile run under
   it.
9. Port 22 is not passed on the command line (`sshcommandbuilder.cpp:20`), so a
   port that the user's own `Host *` sets wins over the profile's; and the managed
   block of an imported alias stands above the user's own blocks and wins over
   them (`OwnPorts` in `SessionReachesProfile`). Edits of an imported profile have
   no effect on its shells before the Include is installed.
10. The importer skips `Match` lines and keeps the last value of an option where
   ssh takes the first (`opensshconfigimporter.cpp:87`, `LastPort`).
11. The live server answers `ok` for a request whose handler told the user why it
   did nothing (`livecontrolserver.cpp:88`).
12. An acknowledged MCP change (`docs/mcp.md` 12-13) is undone by the next save of
   the GUI or of another server that read the file before
   (`connectionlistmodel.cpp:198`, `waypane-mcp` 334-366). When this happens, and
   that only this does it, is what `UncontendedAcksSurvive` and
   `NoCollateralChange` say.
13. A second window replaces the managed file by its own list, and a session that
   the first one has started may then go where that list says (`main.cpp:52`,
   `OtherWindowWrites`).
14. Ctrl+S in a pane holds up the relay and, after the child's end, the closing of
   the transcript, for as long as it lasts (`sessionlogger.cpp:135`).

## 7. What could come next

All components with control of their own are modelled. What is left, in order of
worth: a composition of `LiveControl` with `FileTransfers` and `RemoteEditor`, in
which a request's place in the stack of handlers and the suspended handlers of
the panel are the same thing; two managed options instead of one in `SshConfig`;
the state part of the other liveness properties as invariants, as
`EmptyTabsAreQueued` is of `EmptyTabsClose`: that whoever waits has someone to
wait for.
