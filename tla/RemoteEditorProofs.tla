------------------------- MODULE RemoteEditorProofs -------------------------
(***************************************************************************)
(* Proofs about RemoteEditor for any hosts and paths, and any number of    *)
(* edits, jobs and message boxes.                                          *)
(***************************************************************************)
EXTENDS RemoteEditor, SequenceTheorems, TLAPS

\* What a read found belongs to the file it read.
ReadsAreOfTheirFile == \A j \in jobs : j.ran /\ j.kind = "get" => j.text.origin = j.file

\* Without overlap, the saves that run are saves of the very text shown, and
\* one that ran has left it in the file.
SavesAreOfTheText ==
  ~overlapped => \A j \in Puts :
    /\ j.file = url /\ j.text = text
    /\ j.ran => remote[url] = text

EditorInv ==
  /\ TypeOK
  /\ ReadsAreOfTheirFile
  /\ TextStaysWithItsFile
  /\ UnsavedTextIsShown
  /\ SavesAreOfTheText
  /\ UnmarkedTextIsSaved

-----------------------------------------------------------------------------
(* Jobs *)

JobsOK(js) == js \subseteq Job /\ \A j, k \in js : j.id = k.id => j = k

\* A started job gets a number of its own.
LEMMA StartedJobs ==
  ASSUME TypeOK, NEW f \in Files, NEW kind, NEW t,
         \/ kind = "get" /\ t = NoText
         \/ kind = "put" /\ t \in Text,
         StartJob(kind, f, t)
  PROVE  /\ JobsOK(jobs')
         /\ \E new \in Job : /\ jobs' = jobs \cup {new}
                             /\ new.kind = kind /\ new.file = f
                             /\ new.text = t /\ ~new.ran
<1>1. PICK i \in FreeIds :
        jobs' = jobs \cup {[id |-> i, kind |-> kind, file |-> f, text |-> t, ran |-> FALSE]}
  BY DEF StartJob
<1> DEFINE new == [id |-> i, kind |-> kind, file |-> f, text |-> t, ran |-> FALSE]
<1>2. new \in Job
  BY DEF FreeIds, Job
<1>3. \A j \in jobs : j.id # i
  BY DEF FreeIds
<1>4. jobs' \subseteq Job
  BY <1>1, <1>2 DEF TypeOK
<1>5. \A j, k \in jobs' : j.id = k.id => j = k
  <2> SUFFICES ASSUME NEW j \in jobs', NEW k \in jobs', j.id = k.id PROVE j = k
    OBVIOUS
  <2>1. new.id = i
    OBVIOUS
  <2>2. (j \in jobs \/ j = new) /\ (k \in jobs \/ k = new)
    BY <1>1
  <2> HIDE DEF new
  <2>3. QED
    BY <2>1, <2>2, <1>3 DEF TypeOK
<1>6. QED
  BY <1>1, <1>2, <1>4, <1>5 DEF JobsOK

\* A job that ends frees its number, a job that runs keeps it.
LEMMA EndedJobs == ASSUME TypeOK, NEW j PROVE JobsOK(jobs \ {j})
  BY DEF TypeOK, JobsOK

LEMMA RanJobs ==
  ASSUME TypeOK, NEW j \in jobs, NEW ran \in Job, ran.id = j.id
  PROVE  JobsOK((jobs \ {j}) \cup {ran})
  BY DEF TypeOK, JobsOK

\* Message boxes open and close at the inner end.
LEMMA DialogsOpened ==
  ASSUME TypeOK, NEW d \in Dialog, Len(dialogs) < MaxDialogs,
         dialogs' = Append(dialogs, d)
  PROVE  dialogs' \in Seq(Dialog) /\ Len(dialogs') <= MaxDialogs
<1>1. dialogs \in Seq(Dialog)
  BY DEF TypeOK
<1>2. Append(dialogs, d) \in Seq(Dialog) /\ Len(Append(dialogs, d)) = Len(dialogs) + 1
  BY <1>1, AppendProperties
<1>3. QED
  BY <1>1, <1>2, LenProperties, EditorAssumption

LEMMA DialogsClosed ==
  ASSUME TypeOK, CloseTop
  PROVE  /\ dialogs' \in Seq(Dialog) /\ Len(dialogs') <= MaxDialogs
         /\ Top \in Dialog
<1>1. dialogs \in Seq(Dialog) /\ dialogs # <<>> /\ Len(dialogs) <= MaxDialogs
  BY DEF TypeOK, CloseTop
<1>2. Len(dialogs) \in Nat \ {0} /\ \A i \in 1 .. Len(dialogs) : dialogs[i] \in Dialog
  BY <1>1
<1>3. Top \in Dialog
  BY <1>2 DEF Top
<1> DEFINE n == Len(dialogs) - 1
<1>4. n \in Int /\ \A i \in 1 .. n : dialogs[i] \in Dialog
  BY <1>2
<1>5. /\ SubSeq(dialogs, 1, n) \in Seq(Dialog)
      /\ Len(SubSeq(dialogs, 1, n)) = IF 1 <= n THEN n - 1 + 1 ELSE 0
  BY <1>4, SubSeqProperties
<1>6. Len(SubSeq(dialogs, 1, n)) <= MaxDialogs
  BY <1>1, <1>2, <1>5, EditorAssumption
<1>7. QED
  BY <1>3, <1>5, <1>6 DEF CloseTop

\* The kinds of message boxes and what they carry.
LEMMA DialogKinds ==
  ASSUME NEW d \in Dialog
  PROVE  /\ d.then \in {"nothing", "back", "browse", "edit"}
         /\ d.then \in {"browse", "edit"} => d.host \in Hosts
         /\ d.then = "edit" => d.path \in Paths
  BY DEF Dialog

-----------------------------------------------------------------------------
(* Type correctness *)

LEMMA InitInv == Init => EditorInv
<1> SUFFICES ASSUME Init PROVE EditorInv
  OBVIOUS
<1>1. remote \in [Files -> Text] /\ 0 \in 0 .. MaxEdits
  BY EditorAssumption DEF Init, Text
<1>2. <<>> \in Seq(Dialog) /\ Len(<<>>) <= MaxDialogs
  BY EditorAssumption
<1>3. TypeOK
  BY <1>1, <1>2 DEF Init, TypeOK
<1>4. \A f \in Files : remote[f].origin = f
  BY DEF Init
<1>5. QED
  BY <1>3, <1>4 DEF Init, EditorInv, ReadsAreOfTheirFile, TextStaysWithItsFile,
     UnsavedTextIsShown, SavesAreOfTheText, UnmarkedTextIsSaved, Puts, NoText

\* The handlers that start a read or ask, as one: what they do to the types.
LEMMA OpenTypes ==
  ASSUME TypeOK, NEW f \in Files, OpenRemoteEditor(f)
  PROVE  JobsOK(jobs') /\ UNCHANGED editorVars
  BY StartedJobs DEF OpenRemoteEditor

LEMMA AskTypes ==
  ASSUME TypeOK, NEW d \in Dialog, Ask(d)
  PROVE  /\ dialogs' \in Seq(Dialog) /\ Len(dialogs') <= MaxDialogs
         /\ UNCHANGED <<viewVars, editorVars, jobs>>
  BY DialogsOpened DEF Ask

LEMMA TypeStep == ASSUME EditorInv, [Next]_vars PROVE TypeOK'
<1> USE DEF EditorInv
<1>1. ASSUME NEW path \in Paths, EditSelected(path) PROVE TypeOK'
  <2>1. <<browserHost, path>> \in Files
    BY DEF TypeOK, Files
  <2>2. QED
    BY <1>1, <2>1, OpenTypes DEF EditSelected, TypeOK, JobsOK, viewVars, editorVars
<1>2. ASSUME NEW host \in Hosts, Browse(host) PROVE TypeOK'
  <2>1. CASE Ask([then |-> "browse", host |-> host])
    <3>1. [then |-> "browse", host |-> host] \in Dialog
      BY DEF Dialog
    <3>2. QED
      BY <1>2, <2>1, <3>1, AskTypes DEF Browse, TypeOK, viewVars, editorVars
  <2>2. CASE ~Ask([then |-> "browse", host |-> host])
    BY <1>2, <2>2 DEF Browse, ShowFiles, TypeOK, editorVars
  <2>3. QED
    BY <2>1, <2>2
<1>3. ASSUME NEW host \in Hosts, NEW path \in Paths, LiveEdit(host, path) PROVE TypeOK'
  <2>1. CASE Ask([then |-> "edit", host |-> host, path |-> path])
    <3>1. [then |-> "edit", host |-> host, path |-> path] \in Dialog
      BY DEF Dialog
    <3>2. QED
      BY <1>3, <2>1, <3>1, AskTypes DEF LiveEdit, TypeOK, viewVars, editorVars
  <2>2. CASE ~Ask([then |-> "edit", host |-> host, path |-> path])
    <3>1. <<host, path>> \in Files
      BY DEF Files
    <3>2. QED
      BY <1>3, <2>2, <3>1, OpenTypes DEF LiveEdit, ShowFiles, TypeOK, JobsOK, editorVars
  <2>3. QED
    BY <2>1, <2>2
<1>4. ASSUME NEW j \in jobs, GetRuns(j) PROVE TypeOK'
  <2>1. j \in Job /\ remote[j.file] \in Text
    BY <1>4 DEF TypeOK, Job
  <2>2. [j EXCEPT !.ran = TRUE, !.text = remote[j.file]] \in Job
    BY <1>4, <2>1 DEF GetRuns, Job
  <2>3. [j EXCEPT !.ran = TRUE, !.text = remote[j.file]].id = j.id
    BY <2>1 DEF Job
  <2>4. JobsOK(jobs')
    BY <1>4, <2>2, <2>3, RanJobs DEF GetRuns
  <2>5. QED
    BY <1>4, <2>4 DEF GetRuns, TypeOK, JobsOK, viewVars, editorVars
<1>5. ASSUME NEW j \in jobs, GetResult(j) PROVE TypeOK'
  <2>1. j.file \in Files /\ j.text \in Text
    BY <1>5 DEF GetResult, TypeOK, Job
  <2>2. JobsOK(jobs')
    BY <1>5, EndedJobs DEF GetResult
  <2>3. QED
    BY <1>5, <2>1, <2>2 DEF GetResult, TypeOK, JobsOK
<1>6. ASSUME Edit PROVE TypeOK'
  <2>1. text \in Text
    BY <1>6, EditorAssumption DEF Edit, TypeOK, TextStaysWithItsFile, NoText, Files
  <2>2. edits + 1 \in 0 .. MaxEdits
    BY <1>6, EditorAssumption DEF Edit, TypeOK
  <2>3. text' \in Text
    BY <1>6, <2>1, <2>2 DEF Edit, Text
  <2>4. overlapped' \in BOOLEAN
    BY <1>6 DEF Edit, TypeOK
  <2>5. QED
    BY <1>6, <2>2, <2>3, <2>4 DEF Edit, TypeOK, viewVars
<1>7. ASSUME SaveRemoteEdit PROVE TypeOK'
  <2>1. url \in Files /\ text \in Text
    BY <1>7, EditorAssumption DEF SaveRemoteEdit, TypeOK, TextStaysWithItsFile, NoText, Files
  <2>2. JobsOK(jobs')
    BY <1>7, <2>1, StartedJobs DEF SaveRemoteEdit
  <2>3. QED
    BY <1>7, <2>2 DEF SaveRemoteEdit, TypeOK, JobsOK, viewVars, editorVars
<1>8. ASSUME NEW j \in jobs, PutRuns(j) PROVE TypeOK'
  <2>1. j \in Job /\ j.file \in Files /\ j.text \in Text
    BY <1>8 DEF PutRuns, TypeOK, Job
  <2>2. [j EXCEPT !.ran = TRUE] \in Job
    BY <1>8, <2>1 DEF PutRuns, Job
  <2>3. [j EXCEPT !.ran = TRUE].id = j.id
    BY <2>1 DEF Job
  <2>4. JobsOK(jobs')
    BY <1>8, <2>2, <2>3, RanJobs DEF PutRuns
  <2>5. remote' \in [Files -> Text]
    BY <1>8, <2>1 DEF PutRuns, TypeOK
  <2>6. QED
    BY <1>8, <2>4, <2>5 DEF PutRuns, TypeOK, JobsOK, viewVars, editorVars
<1>9. ASSUME NEW j \in jobs, PutResult(j) PROVE TypeOK'
  <2>1. JobsOK(jobs')
    BY <1>9, EndedJobs DEF PutResult
  <2>2. QED
    BY <1>9, <2>1 DEF PutResult, TypeOK, JobsOK, viewVars
<1>10. ASSUME NEW j \in jobs, JobFails(j) PROVE TypeOK'
  <2>1. JobsOK(jobs')
    BY <1>10, EndedJobs DEF JobFails
  <2>2. [then |-> "nothing"] \in Dialog
    BY DEF Dialog
  <2>3. dialogs' \in Seq(Dialog) /\ Len(dialogs') <= MaxDialogs
    BY <1>10, <2>2, DialogsOpened DEF JobFails
  <2>4. QED
    BY <1>10, <2>1, <2>3 DEF JobFails, TypeOK, JobsOK, viewVars, editorVars
<1>11. ASSUME Back PROVE TypeOK'
  <2>1. CASE Ask([then |-> "back"])
    <3>1. [then |-> "back"] \in Dialog
      BY DEF Dialog
    <3>2. QED
      BY <1>11, <2>1, <3>1, AskTypes DEF Back, TypeOK, viewVars, editorVars
  <2>2. CASE ~Ask([then |-> "back"])
    BY <1>11, <2>2 DEF Back, TypeOK, editorVars
  <2>3. QED
    BY <2>1, <2>2
<1>12. ASSUME CloseFilePanel PROVE TypeOK'
  BY <1>12 DEF CloseFilePanel, TypeOK, editorVars
<1>13. ASSUME Dismiss PROVE TypeOK'
  BY <1>13, DialogsClosed DEF Dismiss, CloseTop, TypeOK, viewVars
<1>14. ASSUME Discard PROVE TypeOK'
  <2>1. dialogs' \in Seq(Dialog) /\ Len(dialogs') <= MaxDialogs /\ Top \in Dialog
    BY <1>14, DialogsClosed DEF Discard
  <2>2. CASE Top.then \in {"back", "browse"}
    BY <1>14, <2>1, <2>2, DialogKinds DEF Discard, CloseTop, ShowFiles, TypeOK
  <2>3. CASE Top.then = "edit"
    <3>1. <<Top.host, Top.path>> \in Files
      BY <2>1, <2>3, DialogKinds DEF Files
    <3>2. StartJob("get", <<Top.host, Top.path>>, NoText) /\ ShowFiles(Top.host)
      BY <1>14, <2>3 DEF Discard
    <3>3. JobsOK(jobs')
      BY <3>1, <3>2, StartedJobs
    <3>4. QED
      BY <1>14, <2>1, <2>3, <3>2, <3>3, DialogKinds
         DEF Discard, CloseTop, ShowFiles, TypeOK, JobsOK
  <2>4. QED
    BY <1>14, <2>2, <2>3 DEF Discard
<1>15. ASSUME Cancel PROVE TypeOK'
  <2>1. dialogs' \in Seq(Dialog) /\ Len(dialogs') <= MaxDialogs /\ Top \in Dialog
    BY <1>15, DialogsClosed DEF Cancel
  <2>2. JobsOK(jobs')
    <3>1. CASE Top.then = "edit"
      <4>1. <<browserHost, Top.path>> \in Files
        BY <2>1, <3>1, DialogKinds DEF Files, TypeOK
      <4>2. QED
        BY <1>15, <3>1, <4>1, StartedJobs DEF Cancel
    <3>2. CASE Top.then # "edit"
      BY <1>15, <3>2 DEF Cancel, TypeOK, JobsOK
    <3>3. QED
      BY <3>1, <3>2
  <2>3. QED
    BY <1>15, <2>1, <2>2 DEF Cancel, CloseTop, TypeOK, JobsOK, viewVars
<1>16. CASE UNCHANGED vars
  BY <1>16 DEF vars, viewVars, editorVars, TypeOK
<1>17. QED
  BY <1>1, <1>2, <1>3, <1>4, <1>5, <1>6, <1>7, <1>8, <1>9, <1>10, <1>11, <1>12,
     <1>13, <1>14, <1>15, <1>16 DEF Next

-----------------------------------------------------------------------------
(* Texts and files *)

\* What a step may do to url, text, remote and the jobs: enough for the two
\* invariants about texts.
LEMMA TextStep ==
  ASSUME EditorInv, [Next]_vars
  PROVE  ReadsAreOfTheirFile' /\ TextStaysWithItsFile'
<1> USE DEF EditorInv
<1>1. ASSUME NEW f \in Files, NEW kind, NEW t, StartJob(kind, f, t),
             \/ kind = "get" /\ t = NoText
             \/ kind = "put" /\ t \in Text /\ t.origin = f,
             UNCHANGED <<url, text, remote>>
      PROVE  ReadsAreOfTheirFile' /\ TextStaysWithItsFile'
  <2>1. PICK new \in Job : /\ jobs' = jobs \cup {new}
                           /\ new.kind = kind /\ new.file = f
                           /\ new.text = t /\ ~new.ran
    <3>1. \/ kind = "get" /\ t = NoText
          \/ kind = "put" /\ t \in Text
      BY <1>1
    <3>2. TypeOK
      OBVIOUS
    <3>3. QED
      BY <1>1, <3>1, <3>2, StartedJobs
  <2>2. QED
    BY <1>1, <2>1 DEF ReadsAreOfTheirFile, TextStaysWithItsFile, Puts
<1>2. ASSUME jobs' \subseteq jobs, UNCHANGED <<url, text, remote>>
      PROVE  ReadsAreOfTheirFile' /\ TextStaysWithItsFile'
  BY <1>2 DEF ReadsAreOfTheirFile, TextStaysWithItsFile, Puts
<1>3. ASSUME NEW path \in Paths, EditSelected(path)
      PROVE  ReadsAreOfTheirFile' /\ TextStaysWithItsFile'
  <2>1. <<browserHost, path>> \in Files
    BY DEF TypeOK, Files
  <2>2. QED
    BY <1>1, <1>3, <2>1 DEF EditSelected, OpenRemoteEditor, editorVars
<1>4. ASSUME NEW host \in Hosts, Browse(host)
      PROVE  ReadsAreOfTheirFile' /\ TextStaysWithItsFile'
  BY <1>2, <1>4 DEF Browse, Ask, editorVars
<1>5. ASSUME NEW host \in Hosts, NEW path \in Paths, LiveEdit(host, path)
      PROVE  ReadsAreOfTheirFile' /\ TextStaysWithItsFile'
  <2>1. <<host, path>> \in Files
    BY DEF Files
  <2>2. QED
    BY <1>1, <1>2, <1>5, <2>1 DEF LiveEdit, OpenRemoteEditor, Ask, editorVars
<1>6. ASSUME NEW j \in jobs, GetRuns(j)
      PROVE  ReadsAreOfTheirFile' /\ TextStaysWithItsFile'
  <2> DEFINE ran == [j EXCEPT !.ran = TRUE, !.text = remote[j.file]]
  <2>1. j \in Job /\ j.file \in Files
    BY DEF TypeOK, Job
  <2>2. ran.kind = "get" /\ ran.file = j.file /\ ran.text = remote[j.file]
    BY <1>6, <2>1 DEF GetRuns, Job
  <2>3. ran.text.origin = ran.file
    BY <2>1, <2>2 DEF TextStaysWithItsFile
  <2>4. jobs' = (jobs \ {j}) \cup {ran} /\ UNCHANGED <<url, text, remote>>
    BY <1>6 DEF GetRuns, editorVars
  <2> HIDE DEF ran
  <2>5. QED
    BY <2>2, <2>3, <2>4 DEF ReadsAreOfTheirFile, TextStaysWithItsFile, Puts
<1>7. ASSUME NEW j \in jobs, GetResult(j)
      PROVE  ReadsAreOfTheirFile' /\ TextStaysWithItsFile'
  BY <1>7 DEF GetResult, ReadsAreOfTheirFile, TextStaysWithItsFile, Puts
<1>8. ASSUME Edit PROVE ReadsAreOfTheirFile' /\ TextStaysWithItsFile'
  <2>1. text'.origin = text.origin
    BY <1>8 DEF Edit, TypeOK, Text, NoText
  <2>2. QED
    BY <1>8, <2>1 DEF Edit, ReadsAreOfTheirFile, TextStaysWithItsFile, Puts
<1>9. ASSUME SaveRemoteEdit PROVE ReadsAreOfTheirFile' /\ TextStaysWithItsFile'
  <2>1. url \in Files /\ text \in Text /\ text.origin = url
    BY <1>9, EditorAssumption DEF SaveRemoteEdit, TypeOK, TextStaysWithItsFile, NoText, Files
  <2>2. QED
    BY <1>1, <1>9, <2>1 DEF SaveRemoteEdit, editorVars
<1>10. ASSUME NEW j \in jobs, PutRuns(j)
       PROVE  ReadsAreOfTheirFile' /\ TextStaysWithItsFile'
  <2> DEFINE ran == [j EXCEPT !.ran = TRUE]
  <2>1. j \in Job /\ j.file \in Files /\ j \in Puts
    BY <1>10 DEF PutRuns, TypeOK, Job, Puts
  <2>2. ran.kind = "put" /\ ran.file = j.file /\ ran.text = j.text
    BY <1>10, <2>1 DEF PutRuns, Job
  <2>3. jobs' = (jobs \ {j}) \cup {ran} /\ UNCHANGED <<url, text>>
    BY <1>10 DEF PutRuns, editorVars
  <2>4. j.text.origin = j.file
    BY <2>1 DEF TextStaysWithItsFile
  <2>5. remote' = [remote EXCEPT ![j.file] = j.text] /\ remote \in [Files -> Text]
    BY <1>10 DEF PutRuns, TypeOK
  <2>6. \A f \in Files : remote'[f].origin = f
    BY <2>4, <2>5 DEF TextStaysWithItsFile
  <2> HIDE DEF ran
  <2>7. QED
    BY <2>2, <2>3, <2>4, <2>6 DEF ReadsAreOfTheirFile, TextStaysWithItsFile, Puts
<1>11. ASSUME NEW j \in jobs, PutResult(j) \/ JobFails(j)
       PROVE  ReadsAreOfTheirFile' /\ TextStaysWithItsFile'
  BY <1>2, <1>11 DEF PutResult, JobFails, editorVars
<1>12. ASSUME Back \/ CloseFilePanel PROVE ReadsAreOfTheirFile' /\ TextStaysWithItsFile'
  BY <1>2, <1>12 DEF Back, CloseFilePanel, Ask, editorVars
<1>13. ASSUME Dismiss PROVE ReadsAreOfTheirFile' /\ TextStaysWithItsFile'
  BY <1>2, <1>13 DEF Dismiss, CloseTop
<1>14. ASSUME Discard \/ Cancel PROVE ReadsAreOfTheirFile' /\ TextStaysWithItsFile'
  <2>1. CloseTop /\ UNCHANGED <<url, text, remote>>
    BY <1>14 DEF Discard, Cancel, CloseTop
  <2>2. Top \in Dialog
    BY <2>1, DialogsClosed
  <2>3. \/ jobs' = jobs
        \/ \E host \in Hosts, path \in Paths : StartJob("get", <<host, path>>, NoText)
    BY <1>14, <2>2, DialogKinds DEF Discard, Cancel, TypeOK
  <2>4. \A host \in Hosts, path \in Paths : <<host, path>> \in Files
    BY DEF Files
  <2>5. QED
    BY <1>1, <1>2, <2>1, <2>3, <2>4
<1>15. CASE UNCHANGED vars
  BY <1>2, <1>15 DEF vars, editorVars
<1>16. QED
  BY <1>3, <1>4, <1>5, <1>6, <1>7, <1>8, <1>9, <1>10, <1>11, <1>12, <1>13, <1>14,
     <1>15 DEF Next

-----------------------------------------------------------------------------
(* The modified mark *)

LEMMA ShownStep == ASSUME EditorInv, [Next]_vars PROVE UnsavedTextIsShown'
<1> USE DEF EditorInv, UnsavedTextIsShown
<1>1. ASSUME NEW path \in Paths, EditSelected(path) PROVE UnsavedTextIsShown'
  BY <1>1 DEF EditSelected, OpenRemoteEditor, viewVars, editorVars
<1>2. ASSUME NEW host \in Hosts, Browse(host) PROVE UnsavedTextIsShown'
  BY <1>2 DEF Browse, Ask, NothingToDiscard, viewVars, editorVars
<1>3. ASSUME NEW host \in Hosts, NEW path \in Paths, LiveEdit(host, path)
      PROVE  UnsavedTextIsShown'
  BY <1>3 DEF LiveEdit, OpenRemoteEditor, Ask, NothingToDiscard, viewVars, editorVars
<1>4. ASSUME NEW j \in jobs,
             GetRuns(j) \/ GetResult(j) \/ PutRuns(j) \/ PutResult(j) \/ JobFails(j)
      PROVE  UnsavedTextIsShown'
  BY <1>4 DEF GetRuns, GetResult, PutRuns, PutResult, JobFails, viewVars, editorVars
<1>5. ASSUME Edit \/ SaveRemoteEdit PROVE UnsavedTextIsShown'
  BY <1>5 DEF Edit, SaveRemoteEdit, viewVars, editorVars
<1>6. ASSUME Back PROVE UnsavedTextIsShown'
  BY <1>6 DEF Back, Ask, NothingToDiscard, viewVars, editorVars
<1>7. ASSUME CloseFilePanel PROVE UnsavedTextIsShown'
  BY <1>7 DEF CloseFilePanel, editorVars
<1>8. ASSUME Dismiss \/ Discard \/ Cancel PROVE UnsavedTextIsShown'
  BY <1>8 DEF Dismiss, Discard, Cancel, viewVars
<1>9. CASE UNCHANGED vars
  BY <1>9 DEF vars, viewVars, editorVars
<1>10. QED
  BY <1>1, <1>2, <1>3, <1>4, <1>5, <1>6, <1>7, <1>8, <1>9 DEF Next

-----------------------------------------------------------------------------
(* The modified mark against the file *)

LEMMA SavedStep ==
  ASSUME EditorInv, [Next]_vars
  PROVE  SavesAreOfTheText' /\ UnmarkedTextIsSaved'
<1> USE DEF EditorInv
<1> DEFINE Goal == SavesAreOfTheText' /\ UnmarkedTextIsSaved'
\* Steps that leave the editor, the files and the running saves alone, and
\* move to the file page or nowhere.
<1>1. ASSUME Puts' \subseteq Puts, UNCHANGED <<url, text, overlapped, remote>>,
             page' = "files" \/ (page' = page /\ modified' = modified)
      PROVE  Goal
  BY <1>1 DEF SavesAreOfTheText, UnmarkedTextIsSaved
<1>2. ASSUME jobs' \subseteq jobs PROVE Puts' \subseteq Puts
  BY <1>2 DEF Puts
<1>3. ASSUME NEW f \in Files, StartJob("get", f, NoText) PROVE Puts' = Puts
  <2>1. PICK new \in Job : jobs' = jobs \cup {new} /\ new.kind = "get"
    BY <1>3, StartedJobs
  <2>2. QED
    BY <2>1 DEF Puts
<1>4. ASSUME NEW path \in Paths, EditSelected(path) PROVE Goal
  <2>1. <<browserHost, path>> \in Files
    BY DEF TypeOK, Files
  <2>2. QED
    BY <1>1, <1>3, <1>4, <2>1 DEF EditSelected, OpenRemoteEditor, viewVars, editorVars
<1>5. ASSUME NEW host \in Hosts, Browse(host) PROVE Goal
  BY <1>1, <1>2, <1>5 DEF Browse, Ask, ShowFiles, viewVars, editorVars
<1>6. ASSUME NEW host \in Hosts, NEW path \in Paths, LiveEdit(host, path) PROVE Goal
  <2>1. <<host, path>> \in Files
    BY DEF Files
  <2>2. Puts' \subseteq Puts
    BY <1>2, <1>3, <1>6, <2>1 DEF LiveEdit, OpenRemoteEditor, Ask
  <2>3. QED
    BY <1>1, <1>6, <2>2 DEF LiveEdit, OpenRemoteEditor, Ask, ShowFiles, viewVars, editorVars
<1>7. ASSUME NEW j \in jobs, GetRuns(j) PROVE Goal
  <2> DEFINE ran == [j EXCEPT !.ran = TRUE, !.text = remote[j.file]]
  <2>1. ran.kind = "get" /\ jobs' = (jobs \ {j}) \cup {ran}
    BY <1>7 DEF GetRuns, TypeOK, Job
  <2> HIDE DEF ran
  <2>2. Puts' \subseteq Puts
    BY <2>1 DEF Puts
  <2>3. QED
    BY <1>1, <1>7, <2>2 DEF GetRuns, viewVars, editorVars
<1>8. ASSUME NEW j \in jobs, GetResult(j) PROVE Goal
  <2>1. Puts' = Puts
    BY <1>8 DEF GetResult, Puts
  <2>2. ~overlapped' => Puts = {} /\ remote[j.file] = j.text
    BY <1>8 DEF GetResult
  <2>3. QED
    BY <1>8, <2>1, <2>2 DEF GetResult, SavesAreOfTheText, UnmarkedTextIsSaved
<1>9. ASSUME Edit PROVE Goal
  <2>1. Puts' = Puts /\ (~overlapped' => Puts = {}) /\ modified' = TRUE
    BY <1>9 DEF Edit, Puts
  <2>2. QED
    BY <2>1 DEF SavesAreOfTheText, UnmarkedTextIsSaved
<1>10. ASSUME SaveRemoteEdit PROVE Goal
  <2>1. url \in Files /\ text \in Text
    BY <1>10, EditorAssumption DEF SaveRemoteEdit, TypeOK, TextStaysWithItsFile, NoText, Files
  <2>2. PICK new \in Job : /\ jobs' = jobs \cup {new}
                           /\ new.file = url /\ new.text = text /\ ~new.ran
    BY <1>10, <2>1, StartedJobs DEF SaveRemoteEdit
  <2>3. UNCHANGED <<page, url, text, modified, overlapped, remote>>
    BY <1>10 DEF SaveRemoteEdit, viewVars, editorVars
  <2>4. QED
    BY <2>2, <2>3 DEF SavesAreOfTheText, UnmarkedTextIsSaved, Puts
<1>11. ASSUME NEW j \in jobs, PutRuns(j) PROVE Goal
  <2> DEFINE ran == [j EXCEPT !.ran = TRUE]
  <2>1. j \in Puts /\ j.file \in Files
    BY <1>11 DEF PutRuns, TypeOK, Job, Puts
  <2>2. ran.kind = "put" /\ ran.file = j.file /\ ran.text = j.text
    BY <1>11 DEF PutRuns, TypeOK, Job
  <2>3. jobs' = (jobs \ {j}) \cup {ran}
    BY <1>11 DEF PutRuns
  <2>4. remote'[j.file] = j.text
    BY <1>11, <2>1 DEF PutRuns, TypeOK
  <2>5. UNCHANGED <<page, url, text, modified, overlapped>>
    BY <1>11 DEF PutRuns, viewVars, editorVars
  <2>6. ~overlapped => j.file = url /\ j.text = text
    BY <2>1 DEF SavesAreOfTheText
  <2>7. ~overlapped => remote'[url] = text
    BY <2>4, <2>6
  <2> HIDE DEF ran
  <2>8. SavesAreOfTheText'
    BY <2>2, <2>3, <2>5, <2>6, <2>7 DEF SavesAreOfTheText, Puts
  <2>9. UnmarkedTextIsSaved'
    BY <2>5, <2>7 DEF UnmarkedTextIsSaved
  <2>10. QED
    BY <2>8, <2>9
<1>12. ASSUME NEW j \in jobs, PutResult(j) PROVE Goal
  <2>1. j \in Puts /\ j.ran /\ Puts' \subseteq Puts
    BY <1>12 DEF PutResult, Puts
  <2>2. ~overlapped => remote[url] = text
    BY <2>1 DEF SavesAreOfTheText
  <2>3. UNCHANGED <<url, text, overlapped, remote>>
    BY <1>12 DEF PutResult, viewVars
  <2>4. QED
    BY <2>1, <2>2, <2>3 DEF SavesAreOfTheText, UnmarkedTextIsSaved
<1>13. ASSUME NEW j \in jobs, JobFails(j) PROVE Goal
  BY <1>1, <1>2, <1>13 DEF JobFails, viewVars, editorVars
<1>14. ASSUME Back \/ CloseFilePanel PROVE Goal
  BY <1>1, <1>2, <1>14 DEF Back, CloseFilePanel, Ask, viewVars, editorVars
<1>15. ASSUME Dismiss PROVE Goal
  BY <1>1, <1>2, <1>15 DEF Dismiss, CloseTop, viewVars
<1>16. ASSUME Discard \/ Cancel PROVE Goal
  <2>1. CloseTop
    BY <1>16 DEF Discard, Cancel
  <2>2. Top \in Dialog
    BY <2>1, DialogsClosed
  <2>3. \/ jobs' = jobs
        \/ \E host \in Hosts, path \in Paths : StartJob("get", <<host, path>>, NoText)
    BY <1>16, <2>2, DialogKinds DEF Discard, Cancel, TypeOK
  <2>4. \A host \in Hosts, path \in Paths : <<host, path>> \in Files
    BY DEF Files
  <2>5. Puts' \subseteq Puts
    BY <1>2, <1>3, <2>3, <2>4
  <2>6. page' = "files" \/ (page' = page /\ modified' = modified)
    BY <1>16 DEF Discard, Cancel, ShowFiles, viewVars
  <2>7. QED
    BY <1>1, <2>1, <2>5, <2>6 DEF CloseTop
<1>17. CASE UNCHANGED vars
  BY <1>1, <1>2, <1>17 DEF vars, viewVars, editorVars
<1>18. QED
  BY <1>4, <1>5, <1>6, <1>7, <1>8, <1>9, <1>10, <1>11, <1>12, <1>13, <1>14, <1>15,
     <1>16, <1>17 DEF Next

-----------------------------------------------------------------------------
(* The theorems *)

\* All of the invariant, on every state of every behaviour of the editor.
THEOREM EditorInvariant == Spec => []EditorInv
<1>1. EditorInv /\ [Next]_vars => EditorInv'
  BY TypeStep, TextStep, ShownStep, SavedStep DEF EditorInv
<1>2. QED
  BY InitInv, <1>1, PTL DEF Spec

\* The editor, its message boxes and its jobs stay well-formed, the numbers of
\* running jobs distinct.
THEOREM EditorTypeCorrect == Spec => []TypeOK
<1>1. EditorInv => TypeOK
  BY DEF EditorInv
<1>2. QED
  BY EditorInvariant, <1>1, PTL

\* saveRemoteEdit and openRemoteEditor never write one file's text to another.
THEOREM NoTextChangesFile == Spec => []TextStaysWithItsFile
<1>1. EditorInv => TextStaysWithItsFile
  BY DEF EditorInv
<1>2. QED
  BY EditorInvariant, <1>1, PTL

\* Unsaved text stays on the screen until it is saved or given up.
THEOREM UnsavedStaysVisible == Spec => []UnsavedTextIsShown
<1>1. EditorInv => UnsavedTextIsShown
  BY DEF EditorInv
<1>2. QED
  BY EditorInvariant, <1>1, PTL

\* Without overlapping saves, the cleared mark means that the file holds the text.
THEOREM UnmarkedMeansSaved == Spec => []UnmarkedTextIsSaved
<1>1. EditorInv => UnmarkedTextIsSaved
  BY DEF EditorInv
<1>2. QED
  BY EditorInvariant, <1>1, PTL
=============================================================================
