------------------------- MODULE ProfileStoreProofs -------------------------
(***************************************************************************)
(* Proofs about ProfileStore for any ids, profiles and number of servers.  *)
(***************************************************************************)
EXTENDS ProfileStore, TLAPS

\* A call in progress agrees with what was last in the file outside its own id and
\* outside what others wrote since it read.
CallsShowDisk ==
  \A s \in Servers : call[s].busy =>
    \A id \in Ids \ stale[s] : id # call[s].id => call[s].doc[id] = good[id]

\* The same of the GUI's list and of what callers were told: both are about the
\* last document in the file, which damage leaves as it was.
GuiShowsGood == guiUp => \A id \in Ids \ stale[Gui] : guiList[id] = good[id]
GoodIsAcked == ~contended => \A id \in Ids : good[id] = acked[id]
DiskIsGood == disk = Corrupt \/ disk = good

StoreInv == TypeOK /\ DiskIsGood /\ GuiShowsGood /\ CallsShowDisk /\ GoodIsAcked

LEMMA LoadedIsDocument == ASSUME TypeOK PROVE Loaded \in Document
  BY DEF TypeOK, Loaded, Document, Empty

LEMMA LoadedIsGood == ASSUME StoreInv, disk # Corrupt PROVE Loaded = good
  BY DEF StoreInv, DiskIsGood, Loaded

(***************************************************************************)
(* Replacing the file with doc: if doc differs from the file only in the   *)
(* targets and in what was stale for p, the acknowledged state survives    *)
(* unless that stale part is not empty, and everybody else's stale set     *)
(* covers what changed under them.                                         *)
(***************************************************************************)
LEMMA ReplaceFacts ==
  ASSUME TypeOK, GoodIsAcked,
         NEW p \in Processes, NEW doc \in Document, NEW targets \in SUBSET Ids,
         \A id \in Ids \ (stale[p] \cup targets) : doc[id] = good[id],
         Replace(p, doc, targets)
  PROVE  /\ disk' = doc /\ good' = doc
         /\ acked' \in Document
         /\ contended' \in BOOLEAN
         /\ stale' \in [Processes -> SUBSET Ids]
         /\ GoodIsAcked'
         /\ stale'[p] = {}
         /\ \A q \in Processes \ {p}, id \in Ids :
              id \notin stale'[q] => id \notin stale[q] /\ good'[id] = good[id]
<1>1. disk' = doc
  BY DEF Replace
<1>2. good' = doc
  BY DEF Replace
<1>3. acked' = [id \in Ids |-> IF id \in targets THEN doc[id] ELSE acked[id]]
  BY DEF Replace
<1>4. acked' \in Document
  BY <1>3 DEF TypeOK, Document
<1>5. contended' \in BOOLEAN /\ (~contended' => ~contended /\ stale[p] = {})
  BY DEF Replace, TypeOK
<1>6. stale' = [q \in Processes |->
                  IF q = p THEN {} ELSE stale[q] \cup Changed(good, doc)]
  BY DEF Replace
<1>7. stale' \in [Processes -> SUBSET Ids]
  BY <1>6 DEF TypeOK, Changed
<1>8. GoodIsAcked'
  <2> SUFFICES ASSUME ~contended', NEW id \in Ids PROVE good'[id] = acked'[id]
    BY DEF GoodIsAcked
  <2>1. ~contended /\ stale[p] = {}
    BY <1>5
  <2>2. CASE id \in targets
    BY <2>2, <1>2, <1>3
  <2>3. CASE id \notin targets
    BY <2>1, <2>3, <1>2, <1>3 DEF GoodIsAcked
  <2>4. QED
    BY <2>2, <2>3
<1>9. stale'[p] = {}
  BY <1>6
<1>10. ASSUME NEW q \in Processes \ {p}, NEW id \in Ids, id \notin stale'[q]
       PROVE  id \notin stale[q] /\ good'[id] = good[id]
  <2>1. stale'[q] = stale[q] \cup Changed(good, doc)
    BY <1>6, <1>10
  <2>2. QED
    BY <1>2, <1>10, <2>1 DEF Changed
<1>11. QED
  BY <1>1, <1>2, <1>4, <1>5, <1>7, <1>8, <1>9, <1>10

(* A save by the GUI, or its failure and the rollback. *)
LEMMA PersistKeepsInv ==
  ASSUME StoreInv, NEW new \in Document, NEW targets \in SUBSET Ids, NEW saved \in BOOLEAN,
         \A id \in Ids \ targets : new[id] = guiList[id],
         Persist(new, targets, saved)
  PROVE  StoreInv'
<1>1. CASE ~saved
  <2>1. UNCHANGED vars
    BY <1>1 DEF Persist, vars
  <2>2. QED
    BY <2>1 DEF StoreInv, TypeOK, GuiShowsGood, CallsShowDisk, GoodIsAcked,
                vars, DiskIsGood
<1>2. CASE saved
  <2>1. /\ guiUp /\ guiUp' = guiUp /\ call' = call /\ guiList' = new
        /\ Replace(Gui, new, targets)
    BY <1>2 DEF Persist
  <2>2. Gui \in Processes
    BY DEF Processes
  <2>3. \A id \in Ids \ (stale[Gui] \cup targets) : new[id] = good[id]
    BY <2>1 DEF StoreInv, GuiShowsGood
  <2>4. TypeOK /\ GoodIsAcked
    BY DEF StoreInv
  <2>5. /\ disk' = new /\ good' = new
        /\ acked' \in Document
        /\ contended' \in BOOLEAN
        /\ stale' \in [Processes -> SUBSET Ids]
        /\ GoodIsAcked'
        /\ stale'[Gui] = {}
        /\ \A q \in Processes \ {Gui}, id \in Ids :
             id \notin stale'[q] => id \notin stale[q] /\ good'[id] = good[id]
    BY <2>1, <2>2, <2>3, <2>4, ReplaceFacts
  <2>6. TypeOK'
    BY <2>1, <2>4, <2>5 DEF TypeOK
  <2>7. GuiShowsGood'
    BY <2>1, <2>5 DEF GuiShowsGood
  <2>8. CallsShowDisk'
    <3>1. \A s \in Servers : s \in Processes \ {Gui}
      BY StoreAssumption DEF Processes
    <3>2. QED
      BY <2>1, <2>5, <3>1 DEF StoreInv, CallsShowDisk
  <2>9. DiskIsGood'
    BY <2>5 DEF DiskIsGood
  <2>10. QED
    BY <2>5, <2>6, <2>7, <2>8, <2>9 DEF StoreInv
<1>3. QED
  BY <1>1, <1>2

LEMMA StoreInvInit == Init => StoreInv
<1> SUFFICES ASSUME Init PROVE StoreInv
  OBVIOUS
<1>1. Empty \in Document
  BY DEF Empty, Document
<1>2. TypeOK
  BY <1>1 DEF Init, TypeOK, Call, NoCall
<1>3. GuiShowsGood
  BY DEF Init, GuiShowsGood
<1>4. CallsShowDisk
  BY DEF Init, CallsShowDisk, NoCall
<1>5. GoodIsAcked /\ DiskIsGood
  BY DEF Init, GoodIsAcked, DiskIsGood
<1>6. QED
  BY <1>2, <1>3, <1>4, <1>5 DEF StoreInv

LEMMA StoreInvStep == StoreInv /\ [Next]_vars => StoreInv'
<1> SUFFICES ASSUME StoreInv, [Next]_vars PROVE StoreInv'
  OBVIOUS
<1>0. /\ TypeOK /\ Loaded \in Document
      /\ \A s \in Servers : s \in Processes /\ s # Gui
      /\ Gui \in Processes
  BY LoadedIsDocument, StoreAssumption DEF StoreInv, Processes
<1>1. CASE GuiStart
  <2>1. /\ guiUp' /\ guiList' = Loaded /\ UNCHANGED <<disk, good, call, acked, contended>>
        /\ stale' = [stale EXCEPT ![Gui] = IF disk = Corrupt THEN Ids ELSE {}]
    BY <1>1 DEF GuiStart
  <2>2. disk # Corrupt => Loaded = good
    BY LoadedIsGood
  <2>3. TypeOK'
    BY <1>0, <1>1, <2>1 DEF GuiStart, TypeOK
  <2>4. GuiShowsGood'
    <3>1. stale'[Gui] = IF disk = Corrupt THEN Ids ELSE {}
      BY <1>0, <2>1 DEF TypeOK
    <3>2. QED
      BY <2>1, <2>2, <3>1 DEF GuiShowsGood
  <2>5. CallsShowDisk'
    BY <1>0, <2>1 DEF StoreInv, TypeOK, CallsShowDisk
  <2>6. GoodIsAcked' /\ DiskIsGood'
    BY <2>1 DEF StoreInv, GoodIsAcked, DiskIsGood
  <2>7. QED
    BY <2>3, <2>4, <2>5, <2>6 DEF StoreInv
<1>2. CASE GuiStop
  <2>1. ~guiUp' /\ guiList' = Empty /\ UNCHANGED <<disk, good, call, acked, stale, contended>>
    BY <1>2 DEF GuiStop, TypeOK
  <2>2. guiUp' \in BOOLEAN
    BY <1>2 DEF GuiStop
  <2>3. TypeOK'
    BY <1>0, <2>1, <2>2 DEF TypeOK, Empty, Document
  <2>4. QED
    BY <2>1, <2>3 DEF StoreInv, GuiShowsGood, CallsShowDisk, GoodIsAcked, DiskIsGood
<1>3. ASSUME NEW id \in Ids, NEW body \in Bodies, NEW saved \in BOOLEAN,
             GuiUpsert(id, body, saved)
      PROVE  StoreInv'
  <2> DEFINE new == [guiList EXCEPT ![id] = body]
  <2>1. new \in Document /\ \A i \in Ids \ {id} : new[i] = guiList[i]
    BY <1>0 DEF TypeOK, Document
  <2>2. Persist(new, {id}, saved)
    BY <1>3 DEF GuiUpsert
  <2> HIDE DEF new
  <2>3. QED
    BY <2>1, <2>2, PersistKeepsInv
<1>4. ASSUME NEW id \in Ids, NEW saved \in BOOLEAN, GuiRemove(id, saved)
      PROVE  StoreInv'
  <2> DEFINE new == [guiList EXCEPT ![id] = Absent]
  <2>1. new \in Document /\ \A i \in Ids \ {id} : new[i] = guiList[i]
    BY <1>0 DEF TypeOK, Document
  <2>2. Persist(new, {id}, saved)
    BY <1>4 DEF GuiRemove
  <2> HIDE DEF new
  <2>3. QED
    BY <2>1, <2>2, PersistKeepsInv
<1>5. ASSUME NEW ids \in SUBSET Ids, NEW body \in Bodies, NEW saved \in BOOLEAN,
             GuiImport(ids, body, saved)
      PROVE  StoreInv'
  <2> DEFINE new == [i \in Ids |-> IF i \in ids THEN body ELSE guiList[i]]
  <2>1. new \in Document /\ \A i \in Ids \ ids : new[i] = guiList[i]
    BY <1>0 DEF TypeOK, Document
  <2>2. Persist(new, ids, saved)
    BY <1>5 DEF GuiImport
  <2> HIDE DEF new
  <2>3. QED
    BY <2>1, <2>2, PersistKeepsInv
<1>6. ASSUME NEW s \in Servers, NEW id \in Ids, NEW new \in Bodies \cup {Absent},
             McpBegin(s, id, new)
      PROVE  StoreInv'
  <2> DEFINE doc == [Loaded EXCEPT ![id] = new]
  <2>1. /\ UNCHANGED <<disk, good, guiUp, guiList, acked, contended>>
        /\ call' = [call EXCEPT ![s] = CallAt(id, doc, "none")]
        /\ stale' = [stale EXCEPT ![s] = {}]
    BY <1>6 DEF McpBegin, Begin
  <2>2. Loaded = good
    BY <1>6, LoadedIsGood DEF McpBegin
  <2>3. doc \in Document /\ \A i \in Ids : i # id => doc[i] = good[i]
    BY <1>0, <2>2 DEF Document
  <2> HIDE DEF doc
  <2>4. TypeOK'
    <3>1. CallAt(id, doc, "none") \in Call
      BY <2>3 DEF Call, CallAt
    <3>2. QED
      BY <1>0, <2>1, <3>1 DEF TypeOK
  <2>5. GuiShowsGood'
    BY <1>0, <2>1 DEF StoreInv, TypeOK, GuiShowsGood
  <2>6. CallsShowDisk'
    <3> SUFFICES ASSUME NEW t \in Servers, call'[t].busy, NEW i \in Ids \ stale'[t],
                        i # call'[t].id
                 PROVE  call'[t].doc[i] = good'[i]
      BY DEF CallsShowDisk
    <3>1. CASE t = s
      <4>1. call'[t] = CallAt(id, doc, "none")
        BY <1>0, <2>1, <3>1 DEF TypeOK
      <4>2. QED
        BY <2>1, <2>3, <4>1 DEF CallAt
    <3>2. CASE t # s
      <4>1. call'[t] = call[t] /\ stale'[t] = stale[t]
        BY <1>0, <2>1, <3>2 DEF TypeOK
      <4>2. QED
        BY <2>1, <4>1 DEF StoreInv, CallsShowDisk
    <3>3. QED
      BY <3>1, <3>2
  <2>7. GoodIsAcked' /\ DiskIsGood'
    BY <2>1 DEF StoreInv, GoodIsAcked, DiskIsGood
  <2>8. QED
    BY <2>4, <2>5, <2>6, <2>7 DEF StoreInv
<1>7. ASSUME NEW s \in Servers, McpCommit(s)
      PROVE  StoreInv'
  <2> DEFINE doc == call[s].doc
             target == call[s].id
  <2>1. /\ call[s].busy /\ Replace(s, doc, {target})
        /\ call' = [call EXCEPT ![s] = NoCall]
        /\ UNCHANGED <<guiUp, guiList>>
    BY <1>7 DEF McpCommit
  <2>2. doc \in Document /\ target \in Ids
    <3>1. call[s] \in Call
      BY <1>0 DEF TypeOK
    <3>2. call[s] # NoCall
      BY <2>1 DEF NoCall
    <3>3. call[s] \in [busy : {TRUE}, id : Ids, doc : Document, temp : {"none", "partial", "whole"}]
      BY <3>1, <3>2 DEF Call
    <3>4. QED
      BY <3>3
  <2>3. \A id \in Ids \ (stale[s] \cup {target}) : doc[id] = good[id]
    BY <2>1 DEF StoreInv, CallsShowDisk
  <2>4. s \in Processes /\ {target} \in SUBSET Ids /\ GoodIsAcked
    BY <1>0, <2>2 DEF StoreInv
  <2> HIDE DEF doc, target
  <2>5. /\ disk' = doc /\ good' = doc
        /\ acked' \in Document
        /\ contended' \in BOOLEAN
        /\ stale' \in [Processes -> SUBSET Ids]
        /\ GoodIsAcked'
        /\ \A q \in Processes \ {s}, id \in Ids :
             id \notin stale'[q] => id \notin stale[q] /\ good'[id] = good[id]
    BY <1>0, <2>1, <2>2, <2>3, <2>4, ReplaceFacts
  <2>6. TypeOK'
    <3>1. NoCall \in Call
      BY DEF Call
    <3>2. call' \in [Servers -> Call]
      BY <1>0, <2>1, <3>1 DEF TypeOK
    <3>3. QED
      BY <1>0, <2>1, <2>2, <2>5, <3>2 DEF TypeOK
  <2>7. GuiShowsGood'
    BY <1>0, <2>1, <2>5 DEF StoreInv, GuiShowsGood
  <2>8. CallsShowDisk'
    <3> SUFFICES ASSUME NEW t \in Servers, call'[t].busy, NEW i \in Ids \ stale'[t],
                        i # call'[t].id
                 PROVE  call'[t].doc[i] = good'[i]
      BY DEF CallsShowDisk
    <3>1. CASE t = s
      BY <1>0, <2>1, <3>1 DEF TypeOK, NoCall
    <3>2. CASE t # s
      <4>1. call'[t] = call[t] /\ t \in Processes \ {s}
        BY <1>0, <2>1, <3>2 DEF TypeOK
      <4>2. QED
        BY <2>5, <4>1 DEF StoreInv, CallsShowDisk
    <3>3. QED
      BY <3>1, <3>2
  <2>9. DiskIsGood'
    BY <2>5 DEF DiskIsGood
  <2>10. QED
    BY <2>5, <2>6, <2>7, <2>8, <2>9 DEF StoreInv
<1>8. ASSUME NEW s \in Servers, McpAbort(s)
      PROVE  StoreInv'
  <2>1. /\ call' = [call EXCEPT ![s] = NoCall]
        /\ UNCHANGED <<disk, good, guiUp, guiList, acked, stale, contended>>
    BY <1>8 DEF McpAbort
  <2>2. TypeOK'
    BY <1>0, <2>1 DEF TypeOK, Call
  <2>3. CallsShowDisk'
    BY <1>0, <2>1 DEF StoreInv, TypeOK, CallsShowDisk, NoCall
  <2>4. QED
    BY <2>1, <2>2, <2>3 DEF StoreInv, GuiShowsGood, GoodIsAcked, DiskIsGood
<1>9. ASSUME NEW s \in Servers, McpOpenTemp(s) \/ McpWriteTemp(s)
      PROVE  StoreInv'
  <2>1. PICK to \in {"partial", "whole"} :
          /\ call[s].busy /\ call' = [call EXCEPT ![s] = CallAt(call[s].id, call[s].doc, to)]
          /\ UNCHANGED <<disk, good, guiUp, guiList, acked, stale, contended>>
    BY <1>9 DEF McpOpenTemp, McpWriteTemp, Saving
  <2>2. call[s] \in [busy : {TRUE}, id : Ids, doc : Document, temp : {"none", "partial", "whole"}]
    <3>1. call[s] \in Call /\ call[s] # NoCall
      BY <1>0, <2>1 DEF TypeOK, NoCall
    <3>2. QED
      BY <3>1 DEF Call
  <2> DEFINE new == CallAt(call[s].id, call[s].doc, to)
  <2>3. new \in Call /\ new.busy /\ new.id = call[s].id /\ new.doc = call[s].doc
    BY <2>1, <2>2 DEF Call, CallAt
  <2>4. call' = [call EXCEPT ![s] = new]
    BY <2>1
  <2> HIDE DEF new
  <2>5. TypeOK'
    BY <1>0, <2>1, <2>3, <2>4 DEF TypeOK
  <2>6. CallsShowDisk'
    BY <1>0, <2>1, <2>3, <2>4 DEF StoreInv, TypeOK, CallsShowDisk
  <2>7. QED
    BY <2>1, <2>5, <2>6 DEF StoreInv, GuiShowsGood, GoodIsAcked, DiskIsGood
<1>10. CASE Damage
  BY <1>10 DEF Damage, StoreInv, TypeOK, GuiShowsGood, CallsShowDisk, GoodIsAcked, DiskIsGood
<1>11. CASE UNCHANGED vars
  BY <1>11 DEF StoreInv, TypeOK, GuiShowsGood, CallsShowDisk, GoodIsAcked, DiskIsGood, vars
<1>12. QED
  BY <1>1, <1>2, <1>3, <1>4, <1>5, <1>6, <1>7, <1>8, <1>9, <1>10, <1>11 DEF Next

THEOREM StoreInvariant == Spec => []StoreInv
  BY StoreInvInit, StoreInvStep, PTL DEF Spec

(***************************************************************************)
(* The file, the list, the calls and the histories keep their types.       *)
(***************************************************************************)
THEOREM StoreTypeCorrect == Spec => []TypeOK
<1>1. StoreInv => TypeOK
  BY DEF StoreInv
<1>2. QED
  BY <1>1, StoreInvariant, PTL

(***************************************************************************)
(* The GUI's list is what a readable file says wherever no server wrote    *)
(* behind its back.                                                        *)
(***************************************************************************)
THEOREM GuiListIsCurrent == Spec => []GuiShowsDisk
<1>1. StoreInv => GuiShowsDisk
  BY DEF StoreInv, DiskIsGood, GuiShowsGood, GuiShowsDisk
<1>2. QED
  BY <1>1, StoreInvariant, PTL

(***************************************************************************)
(* Acknowledged changes survive failed saves, killed servers, restarts and *)
(* damage that a save of a current copy mends, unless some process saved a *)
(* stale copy.                                                             *)
(***************************************************************************)
THEOREM AcksSurviveUncontended == Spec => []UncontendedAcksSurvive
<1>1. StoreInv => UncontendedAcksSurvive
  BY DEF StoreInv, DiskIsGood, GoodIsAcked, UncontendedAcksSurvive
<1>2. QED
  BY <1>1, StoreInvariant, PTL

-----------------------------------------------------------------------------
(* Who changes the file *)

(***************************************************************************)
(* A document comes into the file when the GUI saves its list, or when a   *)
(* server commits the document of its call.                                *)
(***************************************************************************)
LEMMA Writers ==
  ASSUME StoreInv, [Next]_vars
  PROVE  \/ UNCHANGED good
         \/ good' \in Document /\ good' = guiList' /\ guiUp /\ call' = call
         \/ \E s \in Servers : /\ call[s].busy /\ call' = [call EXCEPT ![s] = NoCall]
                               /\ good' = call[s].doc /\ good' \in Document
<1>0. TypeOK
  BY DEF StoreInv
<1>1. ASSUME NEW new, NEW targets, NEW saved \in BOOLEAN, Persist(new, targets, saved), good' # good
      PROVE  good' = new /\ guiList' = new /\ guiUp /\ call' = call
  BY <1>1 DEF Persist, Replace
<1>2. ASSUME NEW id \in Ids, NEW body \in Bodies, NEW saved \in BOOLEAN, GuiUpsert(id, body, saved), good' # good
      PROVE  good' \in Document /\ good' = guiList' /\ guiUp /\ call' = call
  <2>1. [guiList EXCEPT ![id] = body] \in Document
    BY <1>0 DEF TypeOK, Document
  <2>2. QED
    BY <1>1, <1>2, <2>1 DEF GuiUpsert
<1>3. ASSUME NEW id \in Ids, NEW saved \in BOOLEAN, GuiRemove(id, saved), good' # good
      PROVE  good' \in Document /\ good' = guiList' /\ guiUp /\ call' = call
  <2>1. [guiList EXCEPT ![id] = Absent] \in Document
    BY <1>0 DEF TypeOK, Document
  <2>2. QED
    BY <1>1, <1>3, <2>1 DEF GuiRemove
<1>4. ASSUME NEW ids \in SUBSET Ids, NEW body \in Bodies, NEW saved \in BOOLEAN, GuiImport(ids, body, saved), good' # good
      PROVE  good' \in Document /\ good' = guiList' /\ guiUp /\ call' = call
  <2>1. [id \in Ids |-> IF id \in ids THEN body ELSE guiList[id]] \in Document
    BY <1>0 DEF TypeOK, Document
  <2>2. QED
    BY <1>1, <1>4, <2>1 DEF GuiImport
<1>5. ASSUME NEW s \in Servers, McpCommit(s)
      PROVE  /\ call[s].busy /\ call' = [call EXCEPT ![s] = NoCall]
             /\ good' = call[s].doc /\ good' \in Document
  <2>1. call[s].busy /\ good' = call[s].doc /\ call' = [call EXCEPT ![s] = NoCall]
    BY <1>5 DEF McpCommit, Replace
  <2>2. call[s] \in Call /\ call[s] # NoCall
    BY <1>0, <2>1 DEF TypeOK, NoCall
  <2>3. QED
    BY <2>1, <2>2 DEF Call
<1>6. CASE GuiStart \/ GuiStop \/ Damage \/ UNCHANGED vars
  BY <1>6 DEF GuiStart, GuiStop, Damage, vars
<1>7. ASSUME NEW s \in Servers, NEW id \in Ids, NEW new \in Bodies \cup {Absent},
             McpBegin(s, id, new)
      PROVE  UNCHANGED good
  BY <1>7 DEF McpBegin
<1>8. ASSUME NEW s \in Servers, McpAbort(s) \/ McpOpenTemp(s) \/ McpWriteTemp(s)
      PROVE  UNCHANGED good
  BY <1>8 DEF McpAbort, McpOpenTemp, McpWriteTemp, Saving
<1>9. QED
  BY <1>2, <1>3, <1>4, <1>5, <1>6, <1>7, <1>8 DEF Next

(***************************************************************************)
(* Under an id that nobody asked to change, only a saver whose copy was    *)
(* stale there changes the file.                                           *)
(***************************************************************************)
THEOREM NothingElseChanges == Spec => NoCollateralChange
<1> DEFINE Asked ==
      \A id \in Changed(good, good') :
        \/ guiUp /\ call' = call /\ (guiList'[id] # guiList[id] \/ id \in stale[Gui])
        \/ \E s \in Servers : /\ call[s].busy /\ ~call'[s].busy
                              /\ id = call[s].id \/ id \in stale[s]
<1>1. StoreInv /\ [Next]_vars => Asked
  <2> SUFFICES ASSUME StoreInv, [Next]_vars, NEW id \in Ids, good'[id] # good[id]
               PROVE  \/ guiUp /\ call' = call /\ (guiList'[id] # guiList[id] \/ id \in stale[Gui])
                      \/ \E s \in Servers : /\ call[s].busy /\ ~call'[s].busy
                                            /\ id = call[s].id \/ id \in stale[s]
    BY DEF Changed
  <2>1. CASE good' \in Document /\ good' = guiList' /\ guiUp /\ call' = call
    BY <2>1 DEF StoreInv, GuiShowsGood
  <2>2. ASSUME NEW s \in Servers, call[s].busy, call' = [call EXCEPT ![s] = NoCall],
               good' = call[s].doc, good' \in Document
        PROVE  call[s].busy /\ ~call'[s].busy /\ (id = call[s].id \/ id \in stale[s])
    <3>1. call'[s] = NoCall
      BY <2>2 DEF StoreInv, TypeOK
    <3>2. ~call'[s].busy
      BY <3>1 DEF NoCall
    <3>3. call[s].doc[id] # good[id]
      BY <2>2
    <3>4. id = call[s].id \/ id \in stale[s]
      BY <2>2, <3>3 DEF StoreInv, CallsShowDisk
    <3>5. QED
      BY <2>2, <3>2, <3>4
  <2>3. QED
    BY <2>1, <2>2, Writers
<1>2. StoreInv /\ [Next]_vars => [Asked]_vars
  BY <1>1
<1>3. QED
  BY StoreInvariant, <1>2, PTL DEF Spec, NoCollateralChange
=============================================================================
