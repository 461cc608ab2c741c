---------------------------- MODULE ProfileStore ----------------------------
(***************************************************************************)
(* connections.json and the processes that rewrite it: the GUI, whose      *)
(* ConnectionListModel reads it once and then saves its own list, and the  *)
(* waypane-mcp servers, which read, change and replace it on every call.   *)
(* Nothing locks the file, and it may be damaged at any time.              *)
(* Sources: src/src/core/connectionstore.cpp, src/tools/waypane-mcp and    *)
(* src/src/app/connectionlistmodel.cpp.                                    *)
(***************************************************************************)
EXTENDS Naturals, FiniteSets

CONSTANTS
  Ids,      \* profile ids
  Bodies,   \* what a profile can say
  Servers,  \* waypane-mcp processes
  Gui,      \* the desktop application
  Absent,   \* no profile under an id
  Corrupt   \* a file that is not a profile document

ASSUME StoreAssumption ==
  /\ Gui \notin Servers
  /\ Absent \notin Bodies
  /\ Corrupt \notin [Ids -> Bodies \cup {Absent}]

VARIABLES
  disk,       \* the file: a document or Corrupt; a missing file is an empty one
  good,       \* history: the last document that was in the file
  guiUp,      \* the GUI runs
  guiList,    \* m_profiles of its ConnectionListModel
  call,       \* call[s]: the mutation server s is carrying out
  acked,      \* history: the last state of each id that a caller was told of
  stale,      \* history: stale[p] holds the ids others wrote since p last read
  contended   \* history: some process has saved a copy with stale ids

vars == <<disk, good, guiUp, guiList, call, acked, stale, contended>>

Document == [Ids -> Bodies \cup {Absent}]
Empty == [id \in Ids |-> Absent]
Processes == Servers \cup {Gui}

\* A call holds the document it read with its change already applied to it, and
\* has yet to create its temporary file, is writing it, or has it on the disk.
NoCall == [busy |-> FALSE]
CallAt(id, doc, temp) == [busy |-> TRUE, id |-> id, doc |-> doc, temp |-> temp]
Call == [busy : {TRUE}, id : Ids, doc : Document, temp : {"none", "partial", "whole"}]
          \cup {NoCall}

\* Fault: the error path of load does not return an empty list.
LoadedUnchecked == disk

\* ConnectionStore::load: anything unreadable gives an empty list.
Loaded == IF disk = Corrupt THEN Empty ELSE disk

Changed(old, new) == {id \in Ids : old[id] # new[id]}

Init ==
  /\ disk \in {Empty, Corrupt}
  /\ good = Empty
  /\ guiUp = FALSE
  /\ guiList = Empty
  /\ call = [s \in Servers |-> NoCall]
  /\ acked = Empty
  /\ stale = [p \in Processes |-> {}]
  /\ contended = FALSE

\* Process p replaces the file with doc and tells its caller so for targets.
Replace(p, doc, targets) ==
  /\ disk' = doc
  /\ good' = doc
  /\ acked' = [id \in Ids |-> IF id \in targets THEN doc[id] ELSE acked[id]]
  /\ contended' = (contended \/ stale[p] # {})
  /\ stale' = [q \in Processes |->
                 IF q = p THEN {} ELSE stale[q] \cup Changed(good, doc)]

\* The user's editor or a failing disk leaves something that cannot be read.
Damage ==
  /\ disk' = Corrupt
  /\ UNCHANGED <<good, guiUp, guiList, call, acked, stale, contended>>

-----------------------------------------------------------------------------
(* The GUI *)

\* The constructor of ConnectionListModel: the only time the GUI reads the file.
GuiStart ==
  /\ ~guiUp
  /\ guiUp' = TRUE
  /\ guiList' = Loaded
  /\ stale' = [stale EXCEPT ![Gui] = IF disk = Corrupt THEN Ids ELSE {}]
  /\ UNCHANGED <<disk, good, call, acked, contended>>

\* The window is closed, or the process is killed.
GuiStop ==
  /\ guiUp
  /\ guiUp' = FALSE
  /\ guiList' = Empty
  /\ UNCHANGED <<disk, good, call, acked, stale, contended>>

\* Fault: a failed save leaves the change in the list.
PersistWithoutRollback(new, targets, saved) ==
  /\ guiUp
  /\ guiList' = new
  /\ \/ saved /\ Replace(Gui, new, targets)
     \/ ~saved /\ UNCHANGED <<disk, good, acked, stale, contended>>
  /\ UNCHANGED <<guiUp, call>>

\* The list becomes new, which the user asked for in targets, and persist()
\* saves it, or fails and the list is rolled back.  QSaveFile replaces the file
\* at once or leaves it alone.
Persist(new, targets, saved) ==
  /\ guiUp
  /\ \/ /\ saved
        /\ guiList' = new
        /\ Replace(Gui, new, targets)
     \/ /\ ~saved
        /\ UNCHANGED <<guiList, disk, good, acked, stale, contended>>
  /\ UNCHANGED <<guiUp, call>>

\* A new profile gets a fresh uuid, which is nobody's id yet.
Fresh(id) ==
  /\ guiList[id] = Absent /\ good[id] = Absent /\ acked[id] = Absent
  /\ \A s \in Servers : call[s].busy => call[s].doc[id] = Absent

\* upsertConnection, for a new profile or one the list holds.
GuiUpsert(id, body, saved) ==
  /\ guiUp
  /\ guiList[id] # Absent \/ Fresh(id)
  /\ Persist([guiList EXCEPT ![id] = body], {id}, saved)

\* removeConnection.
GuiRemove(id, saved) ==
  /\ guiList[id] # Absent
  /\ Persist([guiList EXCEPT ![id] = Absent], {id}, saved)

\* Fault: the imported profiles take the place of the whole list.
ImportOnly(ids, body, saved) ==
  Persist([id \in Ids |-> IF id \in ids THEN body ELSE Absent], ids, saved)

\* importOpenSshConfig: an imported profile has an id derived from its alias,
\* so importing again overwrites what the list holds under it.
GuiImport(ids, body, saved) ==
  Persist([id \in Ids |-> IF id \in ids THEN body ELSE guiList[id]], ids, saved)

-----------------------------------------------------------------------------
(* A waypane-mcp server *)

\* Fault: the other profiles are not carried over into the new document.
BeginWithoutOthers(s, id, new) ==
  /\ call' = [call EXCEPT ![s] = CallAt(id, [Empty EXCEPT ![id] = new], "none")]
  /\ stale' = [stale EXCEPT ![s] = {}]

\* The document that s read, with id changed to new.
Begin(s, id, new) ==
  /\ call' = [call EXCEPT ![s] = CallAt(id, [Loaded EXCEPT ![id] = new], "none")]
  /\ stale' = [stale EXCEPT ![s] = {}]

\* load_document and the change to the loaded document: an upsert replaces the
\* profile or appends it, a delete (new = Absent) needs the profile to be there.
\* A corrupt document raises, and the call ends with an error.
McpBegin(s, id, new) ==
  /\ ~call[s].busy
  /\ disk # Corrupt
  /\ new = Absent => disk[id] # Absent
  /\ Begin(s, id, new)
  /\ UNCHANGED <<disk, good, guiUp, guiList, acked, contended>>

\* save_document goes from one state of its temporary file to the next.
Saving(s, from, to) ==
  /\ call[s].busy /\ call[s].temp = from
  /\ call' = [call EXCEPT ![s] = CallAt(@.id, @.doc, to)]
  /\ UNCHANGED <<good, guiUp, guiList, acked, stale, contended>>

\* Fault: the document is rewritten in place, so it is torn until that is done.
OpenInPlace(s) == Saving(s, "none", "partial") /\ disk' = Corrupt

\* mkstemp; then the document is written, flushed and synced.
McpOpenTemp(s) == Saving(s, "none", "partial") /\ UNCHANGED disk
McpWriteTemp(s) == Saving(s, "partial", "whole") /\ UNCHANGED disk

\* os.replace, and the answer to the client.
McpCommit(s) ==
  /\ call[s].busy /\ call[s].temp = "whole"
  /\ Replace(s, call[s].doc, {call[s].id})
  /\ call' = [call EXCEPT ![s] = NoCall]
  /\ UNCHANGED <<guiUp, guiList>>

\* A step of the call fails and the temporary file is unlinked, or the server is
\* killed and leaves it behind, where nobody reads it.
McpAbort(s) ==
  /\ call[s].busy
  /\ call' = [call EXCEPT ![s] = NoCall]
  /\ UNCHANGED <<disk, good, guiUp, guiList, acked, stale, contended>>

-----------------------------------------------------------------------------

Next ==
  \/ GuiStart
  \/ GuiStop
  \/ Damage
  \/ \E id \in Ids, body \in Bodies, saved \in BOOLEAN : GuiUpsert(id, body, saved)
  \/ \E id \in Ids, saved \in BOOLEAN : GuiRemove(id, saved)
  \/ \E ids \in SUBSET Ids, body \in Bodies, saved \in BOOLEAN : GuiImport(ids, body, saved)
  \/ \E s \in Servers, id \in Ids, new \in Bodies \cup {Absent} : McpBegin(s, id, new)
  \/ \E s \in Servers : McpOpenTemp(s)
  \/ \E s \in Servers : McpWriteTemp(s)
  \/ \E s \in Servers : McpCommit(s)
  \/ \E s \in Servers : McpAbort(s)

Spec == Init /\ [][Next]_vars

-----------------------------------------------------------------------------
(* Properties *)

\* Every variable has its type.
TypeOK ==
  /\ disk \in Document \cup {Corrupt} /\ good \in Document
  /\ guiUp \in BOOLEAN /\ contended \in BOOLEAN
  /\ guiList \in Document /\ acked \in Document
  /\ call \in [Servers -> Call]
  /\ stale \in [Processes -> SUBSET Ids]

\* The list in the GUI agrees with a readable file on every id that no server has
\* written since the GUI read or saved it, failed saves included.
GuiShowsDisk ==
  guiUp /\ disk # Corrupt => \A id \in Ids \ stale[Gui] : guiList[id] = disk[id]

\* What a caller was told is what a readable file says, across failed saves,
\* killed servers, restarts and damage, as long as nobody saved a stale copy or
\* the empty list that the GUI starts with over a damaged file.
UncontendedAcksSurvive ==
  ~contended /\ disk # Corrupt => \A id \in Ids : disk[id] = acked[id]

\* What is in the file changes under an id only when the saving process was asked
\* to change that id, or held a copy in which that id was stale; a call that
\* began before the file was damaged puts back what was in it.
NoCollateralChange ==
  [][ \A id \in Changed(good, good') :
        \/ guiUp /\ call' = call /\ (guiList'[id] # guiList[id] \/ id \in stale[Gui])
        \/ \E s \in Servers : /\ call[s].busy /\ ~call'[s].busy
                              /\ id = call[s].id \/ id \in stale[s] ]_vars

\* No step of a save leaves half a document in the file, whether it is the last
\* one, fails, or is where a server is killed: only damage from outside, which
\* moves nobody on, makes a readable file unreadable.
FileStaysWhole ==
  [][disk # Corrupt /\ disk' = Corrupt => UNCHANGED <<guiUp, guiList, call>>]_vars
=============================================================================
