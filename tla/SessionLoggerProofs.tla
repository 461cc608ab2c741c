------------------------- MODULE SessionLoggerProofs -------------------------
(* Proofs about SessionLogger, for any amount of output and input, any room    *)
(* of the terminals and any size of a read.                                    *)
EXTENDS SessionLogger, SequenceTheorems, TLAPS

\* What the logger has taken is a part of what the child has written, and the
\* terminal holds the rest; only a batch at hand is not shown yet.
CountsOK ==
    /\ batch <= taken /\ taken <= written /\ written <= MaxOut
    /\ Unread <= OutRoom
    /\ pc \notin {"show", "record", "killed"} => batch = 0
    /\ shown <= taken
    /\ pane # "gone" /\ pc \notin {"show", "killed"} => shown = taken

\* Where the logger is tells what it may know of its child and its input.
PhasesOK ==
    /\ pc = "start" => child = "none" /\ written = 0
    /\ pc \notin {"start", "done", "killed"} => child # "none"
    /\ child = "none" => written = 0
    /\ pc = "done" => child # "alive"
    /\ runner \in {"banner", "closed", "acknowledged"} => pc = "done"
    /\ "hup" \in revents => Hup
    /\ pc \in {"output", "show", "record", "input"} /\ "key" \in revents => keys # <<>>
    /\ pc = "feed" => "key" \in revents
    /\ pc = "wait" => revents \cap {"hup", "key"} # {}

Bound == IF OutRoom <= ReadSize THEN 0 ELSE OutRoom - ReadSize

\* What makes LossBounded inductive: after the last poll that reported a hang-up,
\* the one read leaves at most Bound, and the child adds nothing any more.
LossSoFar ==
    /\ pc = "output" /\ "hup" \in revents /\ "out" \notin revents => Unread <= 0
    /\ pc \in {"show", "record", "input", "check", "wait"} /\ "hup" \in revents /\ "key" \notin revents
          => Unread <= Bound
    /\ LossBounded

\* What makes ResizeNotForgotten inductive: a copy of an old size has the flag set.
SizesFollow ==
    /\ ResizeNotForgotten
    /\ pc = "setsize" /\ current # outer => resized

\* The two parts of TranscriptIsWhatWasShown.
Recorded ==
    /\ Len(log) >= taken - batch
    /\ \A k \in 1..Len(log) : log[k] = IF k <= taken - batch THEN k ELSE Footer
    /\ Len(log) = taken - batch + (IF pc = "done" /\ child # "none" THEN 1 ELSE 0)
Relayed == (pane # "gone" => taken - batch <= shown) /\ shown <= taken

LoggerInv ==
    /\ TypeOK
    /\ CountsOK
    /\ PhasesOK
    /\ TranscriptIsWhatWasShown
    /\ LossSoFar
    /\ SizesFollow

------------------------------------------------------------------------------
\* What poll may report.
LEMMA ReadyMeans ==
    /\ Ready \subseteq {"out", "hup", "key"}
    /\ "hup" \in Ready => Hup
    /\ "key" \in Ready => keys # <<>>
    /\ "out" \notin Ready => ~(Unread > 0)
BY DEF Ready

\* One read takes at most what there is and at most ReadSize.
LEMMA ReadTakes ==
    ASSUME TypeOK, CountsOK
    PROVE  /\ AtMost(Unread, ReadSize) \in Nat
           /\ AtMost(Unread, ReadSize) <= Unread
           /\ Unread - AtMost(Unread, ReadSize) <= Bound
BY LoggerAssumption DEF TypeOK, CountsOK, Unread, AtMost, Bound

LEMMA InitInv == Init => LoggerInv
<1> SUFFICES ASSUME Init PROVE LoggerInv
  OBVIOUS
<1>1. TypeOK
  <2>1. log \in Seq(1 .. MaxOut \cup {Footer}) /\ keys \in Seq({"key", "eof"})
    BY DEF Init
  <2>2. {written, taken, shown, batch, typed, fed} \subseteq Nat
    BY DEF Init
  <2>3. QED
    BY <2>1, <2>2 DEF Init, TypeOK
<1>2. CountsOK
  BY LoggerAssumption DEF Init, CountsOK, Unread
<1>3. PhasesOK
  BY DEF Init, PhasesOK
<1>4. TranscriptIsWhatWasShown
  BY DEF Init, TranscriptIsWhatWasShown
<1>5. LossSoFar /\ SizesFollow
  BY DEF Init, LossSoFar, LossBounded, SizesFollow, ResizeNotForgotten
<1>6. QED
  BY <1>1, <1>2, <1>3, <1>4, <1>5 DEF LoggerInv

\* Lines that come out of a read are lines of the child.
LEMMA BatchLines ==
    ASSUME TypeOK, CountsOK
    PROVE  /\ [k \in 1 .. batch |-> taken - batch + k] \in Seq(1 .. MaxOut \cup {Footer})
           /\ Len([k \in 1 .. batch |-> taken - batch + k]) = batch
<1>1. batch \in Nat /\ taken \in Nat /\ written \in Nat /\ MaxOut \in Nat
  BY LoggerAssumption DEF TypeOK
<1>2. \A k \in 1 .. batch : taken - batch + k \in 1 .. MaxOut
  BY <1>1 DEF CountsOK
<1>3. QED
  BY <1>1, <1>2

LEMMA FooterLine == <<Footer>> \in Seq(1 .. MaxOut \cup {Footer}) /\ Len(<<Footer>>) = 1
OBVIOUS

LEMMA TypeStep == LoggerInv /\ [Next]_vars => TypeOK'
<1> SUFFICES ASSUME LoggerInv, [Next]_vars PROVE TypeOK'
  OBVIOUS
<1>0. TypeOK /\ CountsOK /\ PhasesOK
  BY DEF LoggerInv
<1>1. CASE Start \/ StartFails
  BY <1>0, <1>1 DEF TypeOK, Start, StartFails, outVars, keyVars, sizeVars
<1>2. CASE Test \/ GetSize \/ SetSize
  BY <1>0, <1>2 DEF TypeOK, Test, GetSize, SetSize, ApplySize, outVars, keyVars, sizeVars
<1>3. CASE Block \/ CheckHup
  BY <1>0, <1>3 DEF TypeOK, Block, CheckHup, outVars, keyVars, sizeVars
<1>4. CASE PollReturns
  BY <1>0, <1>4, ReadyMeans DEF TypeOK, PollReturns, outVars, keyVars, sizeVars
<1>5. CASE ReadMaster
  <2>1. PICK count \in Nat : TakeOutput(count)
    BY <1>0, <1>5, ReadTakes DEF ReadMaster
  <2>2. QED
    BY <1>0, <2>1 DEF TypeOK, TakeOutput, keyVars, sizeVars
<1>18. CASE ShowBatch \/ ShowFails
  BY <1>0, <1>18 DEF TypeOK, ShowBatch, ShowFails, outVars, keyVars, sizeVars
<1>6. CASE RecordBatch
  <2>1. log' \in Seq(1 .. MaxOut \cup {Footer})
    <3> DEFINE lines == [k \in 1 .. batch |-> taken - batch + k]
    <3>1. lines \in Seq(1 .. MaxOut \cup {Footer}) /\ log \in Seq(1 .. MaxOut \cup {Footer})
      BY <1>0, BatchLines DEF TypeOK
    <3>2. log' = log \o lines \/ log' = log
      BY <1>6 DEF RecordBatch, RecordLines, Record
    <3> HIDE DEF lines
    <3>3. QED
      BY <3>1, <3>2, ConcatProperties
  <2>2. gaps' \in BOOLEAN
    BY <1>0, <1>6 DEF TypeOK, RecordBatch, RecordLines, Record
  <2>3. QED
    BY <1>0, <1>6, <2>1, <2>2 DEF TypeOK, RecordBatch, RecordLines, keyVars, sizeVars
<1>7. CASE ReadInput
  <2>1. "key" \in revents => Tail(keys) \in Seq({"key", "eof"})
    BY <1>0, <1>7, HeadTailProperties DEF ReadInput, TakeInput, PhasesOK, TypeOK
  <2>2. QED
    BY <1>0, <1>7, <2>1 DEF TypeOK, ReadInput, TakeInput, outVars, sizeVars
<1>8. CASE Feed
  BY <1>0, <1>8 DEF TypeOK, Feed, WriteMaster, outVars, sizeVars
<1>9. CASE Finish
  <2>1. log' \in Seq(1 .. MaxOut \cup {Footer})
    BY <1>0, <1>9, FooterLine, ConcatProperties DEF Finish, Record, TypeOK
  <2>2. gaps' \in BOOLEAN
    BY <1>0, <1>9 DEF TypeOK, Finish, Record
  <2>3. QED
    BY <1>0, <1>9, <2>1, <2>2 DEF TypeOK, Finish, keyVars, sizeVars
<1>10. CASE Reap
  BY <1>0, <1>10 DEF TypeOK, Reap, outVars, keyVars, sizeVars
<1>11. CASE Acknowledge
  <2>1. Tail(keys) \in Seq({"key", "eof"})
    BY <1>0, <1>11, HeadTailProperties DEF Acknowledge, TypeOK
  <2>2. QED
    BY <1>0, <1>11, <2>1 DEF TypeOK, Acknowledge, outVars, sizeVars
<1>12. CASE ChildWrites \/ ChildReads
  <2>1. written' \in Nat /\ fed' \in Nat
    BY <1>0, <1>12 DEF TypeOK, ChildWrites, ChildReads, outVars, keyVars
  <2>2. QED
    BY <1>0, <1>12, <2>1 DEF TypeOK, ChildWrites, ChildReads, outVars, keyVars, sizeVars
<1>16. CASE ChildEnds
  BY <1>0, <1>16 DEF TypeOK, ChildEnds, sizeVars
<1>13. CASE Type
  <2>1. keys' \in Seq({"key", "eof"})
    BY <1>0, <1>13, AppendProperties DEF Type, TypeOK
  <2>2. QED
    BY <1>0, <1>13, <2>1 DEF TypeOK, Type, outVars, sizeVars
<1>14. CASE Resize \/ StopOrGo
  BY <1>0, <1>14 DEF TypeOK, Resize, StopOrGo, outVars, keyVars, sizeVars
<1>19. CASE Interrupt
  <2>1. keys' \in Seq({"key", "eof"})
    BY <1>19 DEF Interrupt
  <2>2. fed' \in Nat /\ revents' \subseteq {"out", "hup", "key"}
    BY <1>0, <1>19 DEF TypeOK, Interrupt
  <2>3. {inputOpen', resized'} \subseteq BOOLEAN /\ {outer', current', inner'} \subseteq Sizes
    BY <1>0, <1>19 DEF TypeOK, Interrupt, sizeVars
  <2>4. QED
    BY <1>0, <1>19, <2>1, <2>2, <2>3 DEF TypeOK, Interrupt
<1>20. CASE HangUp
  <2>1. keys' \in Seq({"key", "eof"})
    BY <1>20 DEF HangUp
  <2>2. QED
    BY <1>0, <1>20, <2>1 DEF TypeOK, HangUp, outVars, sizeVars
<1>15. CASE UNCHANGED vars
  BY <1>0, <1>15 DEF TypeOK, vars, outVars, keyVars, sizeVars
<1>17. QED
  BY <1>1, <1>2, <1>3, <1>4, <1>5, <1>6, <1>7, <1>8, <1>9, <1>10, <1>11, <1>12, <1>13, <1>14,
     <1>15, <1>16, <1>18, <1>19, <1>20 DEF Next, Logger

\* Counters and phases follow the relay loop and its child.
LEMMA CountsStep == LoggerInv /\ [Next]_vars => CountsOK'
<1> SUFFICES ASSUME LoggerInv, [Next]_vars PROVE CountsOK'
  OBVIOUS
<1>0. CountsOK /\ TypeOK
  BY DEF LoggerInv
<1>1. /\ written \in Nat /\ taken \in Nat /\ shown \in Nat /\ batch \in Nat
      /\ MaxOut \in Nat /\ OutRoom \in Nat
  BY <1>0, LoggerAssumption DEF TypeOK
<1>2. CASE ReadMaster
  <2>1. PICK count \in Nat : TakeOutput(count) /\ count <= Unread
    BY <1>0, <1>1, <1>2, ReadTakes DEF ReadMaster, Unread
  <2>2. QED
    BY <1>0, <1>1, <2>1 DEF CountsOK, TakeOutput, Unread
<1>3. CASE ShowBatch \/ ShowFails \/ RecordBatch
  BY <1>0, <1>1, <1>3 DEF CountsOK, ShowBatch, ShowFails, RecordBatch, RecordLines, Unread, outVars
<1>4. CASE ChildWrites
  BY <1>0, <1>1, <1>4 DEF CountsOK, ChildWrites, Unread
<1>5. CASE Start \/ Test \/ GetSize \/ SetSize \/ StartFails
  BY <1>0, <1>5 DEF CountsOK, Start, Test, GetSize, SetSize, ApplySize, StartFails, Unread,
     outVars
<1>6. CASE Block \/ PollReturns \/ ReadInput \/ Feed \/ CheckHup \/ Finish
  BY <1>0, <1>6 DEF CountsOK, Block, PollReturns, ReadInput, TakeInput, Feed, WriteMaster,
     CheckHup, Finish, Unread, outVars
<1>7. CASE Reap \/ Acknowledge \/ ChildReads \/ ChildEnds \/ Type \/ Resize
  BY <1>0, <1>7 DEF CountsOK, Reap, Acknowledge, ChildReads, ChildEnds, Type, Resize,
     Unread, outVars
<1>10. CASE StopOrGo \/ HangUp \/ Interrupt
  BY <1>0, <1>10 DEF CountsOK, StopOrGo, HangUp, Interrupt, Unread, outVars
<1>8. CASE UNCHANGED vars
  BY <1>0, <1>8 DEF CountsOK, Unread, vars, outVars
<1>9. QED
  BY <1>2, <1>3, <1>4, <1>5, <1>6, <1>7, <1>8, <1>10 DEF Next, Logger

LEMMA PhasesStep == LoggerInv /\ [Next]_vars => PhasesOK'
<1> SUFFICES ASSUME LoggerInv, [Next]_vars PROVE PhasesOK'
  OBVIOUS
<1>0. PhasesOK /\ TypeOK /\ CountsOK
  BY DEF LoggerInv
<1>1. CASE Start \/ StartFails \/ Test \/ GetSize \/ SetSize \/ Block
  BY <1>0, <1>1 DEF PhasesOK, Start, StartFails, Test, GetSize, SetSize, ApplySize, Block,
     outVars, keyVars, Hup
<1>2. CASE PollReturns
  BY <1>0, <1>2, ReadyMeans DEF PhasesOK, PollReturns, outVars, keyVars, Hup
<1>3. CASE ReadMaster \/ ShowBatch \/ ShowFails \/ RecordBatch
  BY <1>0, <1>3 DEF PhasesOK, ReadMaster, TakeOutput, ShowBatch, ShowFails, RecordBatch,
     RecordLines, outVars, keyVars, Hup
<1>4. CASE ReadInput
  BY <1>0, <1>4 DEF PhasesOK, ReadInput, TakeInput, outVars, Hup
<1>5. CASE Feed \/ CheckHup
  BY <1>0, <1>5 DEF PhasesOK, Feed, WriteMaster, CheckHup, outVars, keyVars, Hup
<1>6. CASE Finish
  BY <1>0, <1>6 DEF PhasesOK, Finish, keyVars, Hup
<1>7. CASE Reap \/ Acknowledge
  BY <1>0, <1>7 DEF PhasesOK, Reap, Acknowledge, outVars, keyVars, Hup
<1>8. CASE ChildWrites \/ ChildReads \/ ChildEnds
  BY <1>0, <1>8 DEF PhasesOK, ChildWrites, ChildReads, ChildEnds, outVars, keyVars, Hup
<1>9. CASE Type
  <2>1. keys' # <<>>
    BY <1>0, <1>9, AppendProperties DEF Type, TypeOK
  <2>2. QED
    BY <1>0, <1>9, <2>1 DEF PhasesOK, Type, outVars, Hup
<1>10. CASE Resize
  BY <1>0, <1>10 DEF PhasesOK, Resize, outVars, keyVars, Hup
<1>11. CASE Interrupt
  BY <1>0, <1>11 DEF PhasesOK, Interrupt, Hup
<1>14. CASE StopOrGo \/ HangUp
  BY <1>0, <1>14 DEF PhasesOK, StopOrGo, HangUp, outVars, keyVars, Hup
<1>12. CASE UNCHANGED vars
  BY <1>0, <1>12 DEF PhasesOK, vars, outVars, keyVars, Hup
<1>13. QED
  BY <1>1, <1>2, <1>3, <1>4, <1>5, <1>6, <1>7, <1>8, <1>9, <1>10, <1>11, <1>12, <1>14 DEF Next, Logger

\* A batch is recorded once, the footer after everything.
LEMMA TranscriptStep == LoggerInv /\ [Next]_vars /\ ~gaps' => Recorded'
<1> SUFFICES ASSUME LoggerInv, [Next]_vars, ~gaps' PROVE Recorded'
  OBVIOUS
<1>0. PhasesOK /\ TypeOK /\ CountsOK /\ (~gaps => Recorded)
  BY DEF LoggerInv, TranscriptIsWhatWasShown, Recorded
<1>1. /\ written \in Nat /\ taken \in Nat /\ batch \in Nat /\ batch <= taken
      /\ log \in Seq(1 .. MaxOut \cup {Footer}) /\ Len(log) \in Nat
  BY <1>0 DEF TypeOK, CountsOK
<1>2. CASE ReadMaster
  <2>1. PICK count \in Nat : TakeOutput(count)
    BY <1>0, <1>2, ReadTakes DEF ReadMaster
  <2>2. batch = 0 /\ taken' - batch' = taken - batch /\ gaps' = gaps /\ log' = log
    BY <1>0, <1>1, <2>1 DEF TakeOutput, CountsOK
  <2>3. QED
    BY <1>0, <2>1, <2>2 DEF Recorded, TakeOutput
<1>3. CASE RecordBatch
  <2> DEFINE lines == [k \in 1 .. batch |-> taken - batch + k]
  <2>1. /\ lines \in Seq(1 .. MaxOut \cup {Footer}) /\ Len(lines) = batch
        /\ \A k \in 1 .. batch : lines[k] = taken - batch + k
    BY <1>0, BatchLines
  <2>2. log' = log \o lines /\ ~gaps
    <3>1. Record(lines)
      BY <1>3 DEF RecordBatch, RecordLines
    <3> HIDE DEF lines
    <3>2. QED
      BY <3>1 DEF Record
  <2> HIDE DEF lines
  <2>3. /\ Len(log) = taken - batch
        /\ \A k \in 1 .. Len(log) : log[k] = k
    BY <1>0, <1>1, <1>3, <2>2 DEF Recorded, RecordBatch, RecordLines
  <2>4. /\ Len(log') = Len(log) + batch
        /\ \A k \in 1 .. Len(log) + batch : log'[k] = IF k <= Len(log) THEN log[k] ELSE lines[k - Len(log)]
    <3>1. log \o lines \in Seq(1 .. MaxOut \cup {Footer}) /\ Len(log \o lines) = Len(log) + Len(lines)
      BY <1>1, <2>1, ConcatProperties
    <3>2. \A k \in 1 .. Len(log) + Len(lines) :
             (log \o lines)[k] = IF k <= Len(log) THEN log[k] ELSE lines[k - Len(log)]
      BY <1>1, <2>1, ConcatProperties
    <3>3. QED
      BY <2>1, <2>2, <3>1, <3>2
  <2>5. Len(log') = taken /\ \A k \in 1 .. taken : log'[k] = k
    BY <1>1, <2>1, <2>3, <2>4
  <2>6. taken' = taken /\ batch' = 0 /\ pc' # "done"
    BY <1>3 DEF RecordBatch, RecordLines
  <2>7. QED
    BY <1>1, <2>5, <2>6 DEF Recorded
<1>4. CASE Finish
  <2>1. log' = log \o <<Footer>> /\ ~gaps
    BY <1>0, <1>4 DEF Finish, Record
  <2>2. /\ Len(log) = taken - batch
        /\ \A k \in 1 .. Len(log) : log[k] = k
    BY <1>0, <1>1, <1>4, <2>1 DEF Recorded, Finish
  <2>3. /\ Len(log') = Len(log) + 1
        /\ \A k \in 1 .. Len(log) + 1 : log'[k] = IF k <= Len(log) THEN log[k] ELSE <<Footer>>[k - Len(log)]
    BY <1>1, <2>1, FooterLine, ConcatProperties
  <2>4. \A k \in 1 .. Len(log') : log'[k] = IF k <= taken - batch THEN k ELSE Footer
    BY <1>1, <2>2, <2>3
  <2>5. taken' = taken /\ batch' = batch /\ pc' = "done" /\ child' = child /\ child # "none"
    BY <1>4 DEF Finish, Hup
  <2>6. QED
    BY <1>1, <2>2, <2>3, <2>4, <2>5 DEF Recorded
<1>5. CASE Start \/ StartFails
  BY <1>0, <1>5 DEF Recorded, Start, StartFails, PhasesOK, outVars
<1>6. CASE Test \/ GetSize \/ SetSize \/ Block \/ PollReturns
  BY <1>0, <1>6 DEF Recorded, Test, GetSize, SetSize, ApplySize, Block,
     PollReturns, outVars
<1>7. CASE ReadInput \/ Feed \/ CheckHup
  BY <1>0, <1>7 DEF Recorded, ReadInput, TakeInput, Feed, WriteMaster, CheckHup,
     outVars
<1>8. CASE Reap \/ Acknowledge \/ ChildWrites \/ ChildReads \/ Type
  BY <1>0, <1>8 DEF Recorded, Reap, Acknowledge, ChildWrites, ChildReads, Type,
     outVars
<1>14. CASE ShowBatch \/ ShowFails
  BY <1>0, <1>14 DEF Recorded, ShowBatch, ShowFails, outVars
<1>15. CASE StopOrGo \/ HangUp
  BY <1>0, <1>15 DEF Recorded, StopOrGo, HangUp, outVars
<1>9. CASE ChildEnds
  BY <1>0, <1>9 DEF Recorded, ChildEnds, PhasesOK
<1>10. CASE Resize
  BY <1>0, <1>10 DEF Recorded, Resize, outVars
<1>11. CASE Interrupt
  BY <1>0, <1>11 DEF Recorded, Interrupt, PhasesOK
<1>12. CASE UNCHANGED vars
  BY <1>0, <1>12 DEF Recorded, vars, outVars
<1>13. QED
  BY <1>2, <1>3, <1>4, <1>5, <1>6, <1>7, <1>8, <1>9, <1>10, <1>11, <1>12,
     <1>14, <1>15 DEF Next, Logger

\* Nothing but a batch at hand separates what is read from what is shown.
LEMMA ShownStep == LoggerInv /\ [Next]_vars => Relayed'
<1> SUFFICES ASSUME LoggerInv, [Next]_vars PROVE Relayed'
  OBVIOUS
<1>0. CountsOK /\ TypeOK /\ Relayed
  BY DEF LoggerInv, TranscriptIsWhatWasShown, Relayed
<1>1. /\ written \in Nat /\ taken \in Nat /\ shown \in Nat /\ batch \in Nat /\ batch <= taken
  BY <1>0 DEF TypeOK, CountsOK
<1>2. CASE ReadMaster
  <2>1. PICK count \in Nat : TakeOutput(count)
    BY <1>0, <1>2, ReadTakes DEF ReadMaster
  <2>2. QED
    BY <1>0, <1>1, <2>1 DEF Relayed, CountsOK, TakeOutput
<1>3. CASE ShowBatch \/ ShowFails \/ RecordBatch
  BY <1>0, <1>1, <1>3 DEF Relayed, CountsOK, ShowBatch, ShowFails, RecordBatch, RecordLines, outVars
<1>4. CASE Start \/ StartFails \/ Test \/ GetSize \/ SetSize \/ Block \/ PollReturns
  BY <1>0, <1>4 DEF Relayed, Start, StartFails, Test, GetSize, SetSize, ApplySize, Block,
     PollReturns, outVars
<1>5. CASE ReadInput \/ Feed \/ CheckHup \/ Finish \/ Reap \/ Acknowledge
  BY <1>0, <1>5 DEF Relayed, ReadInput, TakeInput, Feed, WriteMaster, CheckHup, Finish, Reap,
     Acknowledge, outVars
<1>6. CASE ChildWrites \/ ChildReads \/ ChildEnds \/ Type \/ Resize
  BY <1>0, <1>6 DEF Relayed, ChildWrites, ChildReads, ChildEnds, Type, Resize, outVars
<1>7. CASE StopOrGo \/ HangUp \/ Interrupt
  BY <1>0, <1>7 DEF Relayed, StopOrGo, HangUp, Interrupt, outVars
<1>8. CASE UNCHANGED vars
  BY <1>0, <1>8 DEF Relayed, vars, outVars
<1>9. QED
  BY <1>2, <1>3, <1>4, <1>5, <1>6, <1>7, <1>8 DEF Next, Logger

\* What is left behind at a hang-up was fixed by the last poll.
LEMMA LossStep == LoggerInv /\ [Next]_vars => LossSoFar'
<1> SUFFICES ASSUME LoggerInv, [Next]_vars PROVE LossSoFar'
  OBVIOUS
<1>0. PhasesOK /\ TypeOK /\ CountsOK /\ LossSoFar
  BY DEF LoggerInv
<1>1. /\ written \in Nat /\ taken \in Nat /\ written - taken \in Nat /\ Bound \in Nat
      /\ LossBounded <=> (pc = "done" /\ "key" \notin revents => Unread <= Bound)
      /\ LossBounded' <=> (pc' = "done" /\ "key" \notin revents' => Unread' <= Bound)
  BY <1>0, LoggerAssumption DEF TypeOK, CountsOK, Unread, LossBounded, Bound
<1>2. CASE ReadMaster
  <2>1. CASE "out" \in revents
    <3>1. PICK count \in Nat : TakeOutput(count) /\ Unread - count <= Bound
      BY <1>0, <1>2, <2>1, ReadTakes DEF ReadMaster
    <3>2. Unread' <= Bound /\ pc' \in {"show", "input"}
      BY <1>1, <3>1 DEF TakeOutput, Unread
    <3>3. QED
      BY <1>1, <3>2 DEF LossSoFar
  <2>2. CASE "out" \notin revents
    <3>1. TakeOutput(0)
      BY <1>2, <2>2 DEF ReadMaster
    <3>2. Unread' = Unread /\ pc = "output" /\ pc' = "input" /\ revents' = revents
      BY <1>1, <3>1 DEF TakeOutput, Unread
    <3>3. QED
      BY <1>0, <1>1, <2>2, <3>2 DEF LossSoFar, Unread
  <2>3. QED
    BY <2>1, <2>2
<1>3. CASE ChildWrites
  BY <1>0, <1>1, <1>3 DEF LossSoFar, ChildWrites, PhasesOK, Hup
<1>4. CASE PollReturns
  BY <1>0, <1>1, <1>4, ReadyMeans DEF LossSoFar, PollReturns, Unread, outVars
<1>5. CASE Start \/ StartFails \/ Test \/ GetSize \/ SetSize \/ Block
  BY <1>0, <1>1, <1>5 DEF LossSoFar, Start, StartFails, Test, GetSize, SetSize, ApplySize,
     Block, Unread, PhasesOK, outVars
<1>12. CASE ShowBatch \/ ShowFails
  BY <1>0, <1>1, <1>12 DEF LossSoFar, ShowBatch, ShowFails, Unread, outVars
<1>13. CASE StopOrGo \/ HangUp
  BY <1>0, <1>1, <1>13 DEF LossSoFar, StopOrGo, HangUp, Unread, outVars
<1>6. CASE RecordBatch \/ ReadInput
  BY <1>0, <1>1, <1>6 DEF LossSoFar, RecordBatch, RecordLines, ReadInput, TakeInput, Unread, outVars
<1>7. CASE Feed \/ CheckHup \/ Finish
  BY <1>0, <1>1, <1>7 DEF LossSoFar, Feed, WriteMaster, CheckHup, Finish, Unread, PhasesOK, outVars
<1>8. CASE Reap \/ Acknowledge \/ ChildReads \/ ChildEnds \/ Type \/ Resize
  BY <1>0, <1>1, <1>8 DEF LossSoFar, Reap, Acknowledge, ChildReads, ChildEnds, Type, Resize,
     Unread, outVars
<1>9. CASE Interrupt
  BY <1>0, <1>1, <1>9 DEF LossSoFar, Interrupt, Unread
<1>10. CASE UNCHANGED vars
  BY <1>0, <1>1, <1>10 DEF LossSoFar, vars, Unread, outVars
<1>11. QED
  BY <1>2, <1>3, <1>4, <1>5, <1>6, <1>7, <1>8, <1>9, <1>10, <1>12,
     <1>13 DEF Next, Logger

\* The flag is cleared before the size is read, and set after the size changes.
LEMMA SizesStep == LoggerInv /\ [Next]_vars => SizesFollow'
<1> SUFFICES ASSUME LoggerInv, [Next]_vars PROVE SizesFollow'
  OBVIOUS
<1>0. SizesFollow
  BY DEF LoggerInv
<1>1. CASE Start \/ StartFails
  BY <1>0, <1>1 DEF SizesFollow, ResizeNotForgotten, Start, StartFails
<1>2. CASE Test \/ GetSize \/ SetSize
  BY <1>0, <1>2 DEF SizesFollow, ResizeNotForgotten, Test, GetSize, SetSize, ApplySize
<1>3. CASE Block \/ PollReturns \/ ReadMaster \/ ShowBatch \/ ShowFails \/ RecordBatch
  BY <1>0, <1>3 DEF SizesFollow, ResizeNotForgotten, Block, PollReturns, ReadMaster, TakeOutput,
     ShowBatch, ShowFails, RecordBatch, RecordLines, sizeVars
<1>4. CASE ReadInput \/ Feed \/ CheckHup \/ Finish
  BY <1>0, <1>4 DEF SizesFollow, ResizeNotForgotten, ReadInput, TakeInput, Feed, WriteMaster,
     CheckHup, Finish, sizeVars
<1>5. CASE Reap \/ Acknowledge \/ ChildWrites \/ ChildReads \/ ChildEnds \/ Type
  BY <1>0, <1>5 DEF SizesFollow, ResizeNotForgotten, Reap, Acknowledge, ChildWrites, ChildReads,
     ChildEnds, Type, sizeVars
<1>6. CASE Resize \/ StopOrGo \/ HangUp \/ Interrupt
  BY <1>0, <1>6 DEF SizesFollow, ResizeNotForgotten, Resize, StopOrGo, HangUp, Interrupt, sizeVars
<1>7. CASE UNCHANGED vars
  BY <1>0, <1>7 DEF SizesFollow, ResizeNotForgotten, vars, sizeVars
<1>8. QED
  BY <1>1, <1>2, <1>3, <1>4, <1>5, <1>6, <1>7 DEF Next, Logger

------------------------------------------------------------------------------
(* The theorems. *)

\* All of the invariant, on every state of every session.
THEOREM LoggerInvariant == Spec => []LoggerInv
<1>1. LoggerInv /\ [Next]_vars => LoggerInv'
  <2> SUFFICES ASSUME LoggerInv, [Next]_vars PROVE LoggerInv'
    OBVIOUS
  <2>1. TranscriptIsWhatWasShown'
    BY TranscriptStep, ShownStep DEF TranscriptIsWhatWasShown, Recorded, Relayed
  <2>2. QED
    BY <2>1, TypeStep, CountsStep, PhasesStep, LossStep, SizesStep DEF LoggerInv
<1>2. QED
  BY InitInv, <1>1, PTL DEF Spec

\* The relay, its buffers and its transcript stay well-formed: no more is read
\* than the child has written.
THEOREM LoggerTypeCorrect == Spec => []TypeOK
<1>1. LoggerInv => TypeOK
  BY DEF LoggerInv
<1>2. QED
  BY LoggerInvariant, <1>1, PTL

\* sessionlogger.cpp records what it relays, once and in order, then the footer.
THEOREM TranscriptIsFaithful == Spec => []TranscriptIsWhatWasShown
<1>1. LoggerInv => TranscriptIsWhatWasShown
  BY DEF LoggerInv
<1>2. QED
  BY LoggerInvariant, <1>1, PTL

\* What sessionlogger.cpp leaves unread when it sees the hang-up is bounded by the
\* room of the terminal less one read.
THEOREM LossIsBounded == Spec => []LossBounded
<1>1. LoggerInv => LossBounded
  BY DEF LoggerInv, LossSoFar
<1>2. QED
  BY LoggerInvariant, <1>1, PTL

\* No SIGWINCH is lost, wherever in the loop it arrives.
THEOREM ResizesAreKept == Spec => []ResizeNotForgotten
<1>1. LoggerInv => ResizeNotForgotten
  BY DEF LoggerInv, SizesFollow
<1>2. QED
  BY LoggerInvariant, <1>1, PTL
==============================================================================
