-------------------------- MODULE ConnectionDialogs --------------------------
(***************************************************************************)
(* The handlers of WaypaneWindow that add, edit, delete and import         *)
(* connections (src/src/app/waypanewindow.cpp), each of which waits in a   *)
(* modal dialog, and the secrets they keep in the desktop keyring          *)
(* (src/src/app/secretstore.cpp).  A modal dialog keeps the user out but   *)
(* not the live-control requests, which select a row of the list.          *)
(***************************************************************************)
EXTENDS Naturals, Sequences, FiniteSets, SequencesExt

CONSTANTS
  NewIds,      \* ids of profiles made in the dialog (random uuids)
  ImportedIds, \* ids of imported profiles (uuids of the OpenSSH aliases)
  MaxImported, \* bound: aliases in the file that is imported
  MaxDialogs   \* bound: dialogs open at once

ASSUME DialogsAssumption ==
  MaxDialogs \in Nat /\ MaxImported \in Nat /\ NewIds \cap ImportedIds = {}

Ids == NewIds \cup ImportedIds

VARIABLES
  list,     \* m_profiles of the ConnectionListModel
  tree,     \* the ids behind the rows of m_connectionTreeModel
  row,      \* the current row, as an index of list; 0: none, or a folder
  keyring,  \* ids with an entry in the keyring folder "Waypane"
  dialogs,  \* open dialogs, outermost first, with what their handlers hold
  mishap    \* history: a handler did only some of its steps, or removed another
            \* row than it asked about, or an import overwrote a secretId

vars == <<list, tree, row, keyring, dialogs, mishap>>

\* A profile; secret: its secretId is not empty, and then it is its id.
Profile == [id : Ids, secret : BOOLEAN]

Dialog == [for : {"add", "notice"}]
            \cup [for : {"edit", "forwards", "delete", "deleteRow"}, profile : Profile]

IdsOf(profiles) == {p.id : p \in ToSet(profiles)}
IdRows(profiles) == [i \in DOMAIN profiles |-> profiles[i].id]
RowOf(profiles, id) == SelectInSeq(profiles, LAMBDA p : p.id = id)

\* profiles with p in the place of the one of its id, or else at the end.
Put(profiles, p) ==
  IF p.id \in IdsOf(profiles) THEN ReplaceAt(profiles, RowOf(profiles, p.id), p)
                              ELSE Append(profiles, p)

\* Profiles without a secretId, for the aliases of ids, are put in one by one.
Imported(profiles, ids) ==
  LET after[n \in 0 .. Len(ids)] ==
        IF n = 0 THEN profiles ELSE Put(after[n - 1], [id |-> ids[n], secret |-> FALSE])
  IN  after[Len(ids)]

WithSecret(profiles) == {p.id : p \in {q \in ToSet(profiles) : q.secret}}

Init ==
  /\ list = <<>> /\ tree = <<>> /\ row = 0
  /\ keyring = {}
  /\ dialogs = <<>>
  /\ mishap = FALSE

\* refreshConnections: rebuild the tree and select a row of it.
Refresh(r) ==
  /\ tree' = IdRows(list')
  /\ row' = IF r \in DOMAIN list' THEN r ELSE IF list' = <<>> THEN 0 ELSE 1

-----------------------------------------------------------------------------
(* Opening dialogs *)

Open(d) ==
  /\ Len(dialogs) < MaxDialogs
  /\ dialogs' = Append(dialogs, d)

OpenOnSelected(handler) ==
  /\ dialogs = <<>>
  /\ row # 0
  /\ Open([for |-> handler, profile |-> list[row]])
  /\ UNCHANGED <<list, tree, row, keyring, mishap>>

AddConnection ==
  /\ dialogs = <<>>
  /\ Open([for |-> "add"])
  /\ UNCHANGED <<list, tree, row, keyring, mishap>>

EditConnection == OpenOnSelected("edit")
ConfigurePortForwards == OpenOnSelected("forwards")
DeleteConnection == OpenOnSelected("delete")

\* The user selects a row or a folder.
Select(r) ==
  /\ dialogs = <<>>
  /\ row' = r
  /\ UNCHANGED <<list, tree, keyring, dialogs, mishap>>

\* A live connect, tunnels, browse or edit request for a profile: its row
\* becomes current, and what follows may show a message box.
LiveRequest(id) ==
  /\ id \in IdsOf(list)
  /\ UNCHANGED list
  /\ Refresh(RowOf(list, id))
  /\ UNCHANGED dialogs \/ Open([for |-> "notice"])
  /\ UNCHANGED <<keyring, mishap>>

-----------------------------------------------------------------------------
(* Answering the innermost dialog *)

Top == dialogs[Len(dialogs)]

CloseTop ==
  /\ dialogs # <<>>
  /\ dialogs' = SubSeq(dialogs, 1, Len(dialogs) - 1)

ReplaceTop(d) ==
  /\ dialogs # <<>>
  /\ dialogs' = [dialogs EXCEPT ![Len(dialogs)] = d]

\* Cancel or No, or a notice is read.
Dismiss ==
  /\ CloseTop
  /\ Top.for # "deleteRow"
  /\ UNCHANGED <<list, tree, row, keyring, mishap>>

\* SecretStore::write fails: a warning, and the dialog's input is lost.
SecretNotWritten ==
  /\ dialogs # <<>>
  /\ Top.for \in {"add", "edit"}
  /\ ReplaceTop([for |-> "notice"])
  /\ UNCHANGED <<list, tree, row, keyring, mishap>>

\* Fault: the new profile is appended without a look at the ids in the list.
UpsertAppends(p, r, saved) ==
  \/ /\ saved
     /\ list' = Append(list, p)
     /\ Refresh(r)
  \/ /\ ~saved
     /\ UNCHANGED <<list, tree, row>>

\* upsertConnection with its rollback, and the refresh after a success.
Upsert(p, r, saved) ==
  \/ /\ saved
     /\ list' = Put(list, p)
     /\ Refresh(r)
  \/ /\ ~saved
     /\ UNCHANGED <<list, tree, row>>

\* addConnection after its dialog, under a new uuid: the secret, if one was
\* entered, then the profile, which is selected when it could be saved.
Added(id, secret, saved) ==
  /\ CloseTop
  /\ Top.for = "add"
  /\ id \notin IdsOf(list) \cup keyring
  /\ keyring' = IF secret THEN keyring \cup {id} ELSE keyring
  /\ Upsert([id |-> id, secret |-> secret], Len(list) + 1, saved)
  /\ mishap' = (mishap \/ (secret /\ ~saved))

\* editConnection after its dialog: the profile keeps its id and secretId.
Edited(secret, saved) ==
  /\ CloseTop
  /\ Top.for = "edit"
  /\ LET p == Top.profile IN
       /\ keyring' = IF secret THEN keyring \cup {p.id} ELSE keyring
       /\ Upsert([p EXCEPT !.secret = p.secret \/ secret], row, saved)
       /\ mishap' = (mishap \/ (secret /\ ~saved))

\* configurePortForwards after its dialog; what it goes on to start may show a
\* message box.
Forwarded(saved) ==
  /\ \/ saved /\ CloseTop
     \/ ReplaceTop([for |-> "notice"])
  /\ Top.for = "forwards"
  /\ Upsert(Top.profile, RowOf(list, Top.profile.id), saved)
  /\ UNCHANGED <<keyring, mishap>>

\* Fault: the list is not shown anew after a row was removed.
RemoveUnseen(named, secretGone, saved) ==
  \/ /\ row # 0 /\ saved
     /\ list' = RemoveAt(list, row)
     /\ UNCHANGED <<tree, row>>
     /\ mishap' = mishap
  \/ /\ row = 0 \/ ~saved
     /\ UNCHANGED <<list, tree, row>>
     /\ mishap' = (mishap \/ secretGone)

\* The end of deleteConnection removes the row that is current by now;
\* secretGone: the named profile's secret was removed.
RemoveCurrentRow(named, secretGone, saved) ==
  \/ /\ row # 0 /\ saved
     /\ list' = RemoveAt(list, row)
     /\ Refresh(IF row < Len(list) THEN row ELSE Len(list) - 1)
     /\ mishap' = (mishap \/ list[row] # named \/ (named.secret /\ ~secretGone))
  \/ /\ row = 0 \/ ~saved
     /\ UNCHANGED <<list, tree, row>>
     /\ mishap' = (mishap \/ secretGone)

\* Fault: the secret that is removed is that of the row that is current by now.
SecretOfCurrentRow(saved) ==
  /\ CloseTop
  /\ Top.for = "delete"
  /\ row # 0
  /\ keyring' = keyring \ {list[row].id}
  /\ RemoveCurrentRow(Top.profile, list[row].secret, saved)

\* Fault: the row goes and its secret stays.
SecretForgotten(saved) ==
  /\ CloseTop
  /\ Top.for = "delete"
  /\ RemoveCurrentRow(Top.profile, Top.profile.secret, saved)
  /\ UNCHANGED keyring

\* deleteConnection after Yes, without trouble from the keyring.
Deleted(saved) ==
  /\ CloseTop
  /\ Top.for = "delete"
  /\ keyring' = IF Top.profile.secret THEN keyring \ {Top.profile.id} ELSE keyring
  /\ RemoveCurrentRow(Top.profile, Top.profile.secret, saved)

\* The keyring is closed to us, or lacks the entry: a warning before the row goes.
SecretNotRemoved ==
  /\ dialogs # <<>>
  /\ Top.for = "delete" /\ Top.profile.secret
  /\ ReplaceTop([for |-> "deleteRow", profile |-> Top.profile])
  /\ UNCHANGED <<list, tree, row, keyring, mishap>>

DeletedAfterWarning(saved) ==
  /\ CloseTop
  /\ Top.for = "deleteRow"
  /\ RemoveCurrentRow(Top.profile, FALSE, saved)
  /\ UNCHANGED keyring

\* importConnections: profiles of the aliases, or none of them; the first row is
\* selected, and a message is shown.
ImportConnections(ids, saved) ==
  /\ dialogs = <<>>
  /\ list' = IF saved THEN Imported(list, ids) ELSE list
  /\ Refresh(1)
  /\ mishap' = (mishap \/ WithSecret(list) # WithSecret(list'))
  /\ Open([for |-> "notice"])
  /\ UNCHANGED keyring

-----------------------------------------------------------------------------
Next ==
  \/ AddConnection \/ EditConnection \/ ConfigurePortForwards \/ DeleteConnection
  \/ \E r \in 0 .. Len(list) : Select(r)
  \/ \E id \in Ids : LiveRequest(id)
  \/ Dismiss \/ SecretNotWritten \/ SecretNotRemoved
  \/ \E id \in NewIds, secret, saved \in BOOLEAN : Added(id, secret, saved)
  \/ \E secret, saved \in BOOLEAN : Edited(secret, saved)
  \/ \E saved \in BOOLEAN : Forwarded(saved) \/ Deleted(saved) \/ DeletedAfterWarning(saved)
  \/ \E ids \in SeqOf(ImportedIds, MaxImported), saved \in BOOLEAN : ImportConnections(ids, saved)

Spec == Init /\ [][Next]_vars

-----------------------------------------------------------------------------
(* Properties *)

\* The variables hold values of their types, and no id occurs twice in the list.
TypeOK ==
  /\ list \in Seq(Profile)
  /\ \A i, j \in DOMAIN list : list[i].id = list[j].id => i = j
  /\ tree \in Seq(Ids) /\ row \in Nat
  /\ keyring \subseteq Ids /\ mishap \in BOOLEAN
  /\ dialogs \in Seq(Dialog) /\ Len(dialogs) <= MaxDialogs

\* The rows the user sees and the handlers look up are those of the list: the
\* current row always stands for the profile it shows, in every nested dialog.
TreeShowsList == tree = IdRows(list) /\ row \in 0 .. Len(list)

\* The keyring holds exactly the secrets the profiles refer to, unless a handler
\* failed half-way, the row moved under a delete, or an import overwrote a
\* profile with a secret.
SecretsMatchProfiles == ~mishap => keyring = WithSecret(list)

\* Only the confirmed deletion of a profile takes its secret out of the keyring,
\* even if another row is current when the user confirms.
SecretsLeaveByName ==
  [][ \A id \in keyring \ keyring' :
        dialogs # <<>> /\ Top.for = "delete" /\ Top.profile.id = id ]_vars

\* The message box of deleteConnection asks about a profile by name: that one,
\* and no other, is removed.
DeletesNamedProfile ==
  [][ \A id \in IdsOf(list) \ IdsOf(list') : Top.profile.id = id ]_vars
=============================================================================
