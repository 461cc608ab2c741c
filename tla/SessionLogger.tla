---------------------------- MODULE SessionLogger ----------------------------
(* One audited SSH pane: waypane-ssh-runner waits for waypane-session-logger,  *)
(* which relays a nested pseudo-terminal between the pane and its child (ssh)  *)
(* and writes a transcript.  The child's output is counted in chunks: chunk n  *)
(* is the n-th it wrote.  The logger has one thread; its poll loop is split    *)
(* where signals, the child or the user can come in between.                   *)
EXTENDS Integers, Sequences, FiniteSets

CONSTANTS
    MaxOut,    \* bound: chunks the child writes
    MaxKeys,   \* bound: inputs of the user
    OutRoom,   \* chunks the pseudo-terminal holds towards the logger
    InRoom,    \* inputs it holds towards the child
    ReadSize,  \* chunks one read of the logger takes at most
    Sizes,     \* window sizes
    Footer     \* the "# Ended UTC" line

ASSUME LoggerAssumption ==
    /\ {MaxOut, MaxKeys} \subseteq Nat
    /\ {OutRoom, InRoom, ReadSize} \subseteq Nat \ {0}
    /\ Footer \notin Nat

VARIABLES
    child,     \* "none", "alive", or how it ended: "quiet" (no error, or by a signal
               \* that closes terminals) or "failed"
    written,   \* chunks the child has written to its terminal
    taken,     \* chunks the logger has read
    shown,     \* the last chunk the pane was given
    batch,     \* chunks of the last read that are not recorded yet
    log,       \* the transcript: chunks, then the footer
    gaps,      \* history: a write to the transcript has failed
    pane,      \* "open"; "stopped" by Ctrl+S, which its cooked mode obeys; or
               \* "gone"
    pc,        \* where the logger is
    revents,   \* what the last poll reported
    keys,      \* the pane's unread input: "key" or "eof"
    typed,     \* inputs the user has made
    inputOpen, \* the logger still polls its input
    fed,       \* unread input in the child's terminal
    resized,   \* the flag SIGWINCH sets
    outer,     \* size of the pane
    current,   \* size the logger has read
    inner,     \* size of the child's terminal
    runner     \* "waiting", "banner", "closed", "acknowledged" or "killed"

outVars == <<child, written, taken, shown, batch, log, gaps>>
keyVars == <<keys, typed, inputOpen, fed>>
sizeVars == <<resized, outer, current, inner>>
vars == <<outVars, keyVars, sizeVars, pane, pc, revents, runner>>

Init ==
    /\ child = "none" /\ written = 0 /\ taken = 0 /\ shown = 0 /\ batch = 0
    /\ log = <<>> /\ gaps = FALSE /\ pane = "open"
    /\ pc = "start" /\ revents = {}
    /\ keys = <<>> /\ typed = 0 /\ inputOpen = TRUE /\ fed = 0
    /\ resized = TRUE /\ outer \in Sizes /\ current = outer /\ inner = outer
    /\ runner = "waiting"

Ended == pc \in {"done", "killed"}
Hup == child \in {"quiet", "failed"}
Unread == written - taken
AtMost(m, n) == IF m <= n THEN m ELSE n

\* writeAll on the transcript: its result is ignored.
Record(lines) == \/ log' = log \o lines /\ UNCHANGED gaps
                 \/ log' = log /\ gaps' = TRUE

------------------------------------------------------------------------------
(* The logger. *)

\* open(O_EXCL) or forkpty fails: the session does not start.  The pane is told.
StartFails ==
    /\ pc = "start" /\ pane # "stopped"
    /\ pc' = "done"
    /\ UNCHANGED <<outVars, keyVars, sizeVars, pane, revents, runner>>

\* The child's terminal gets the pane's size at the fork.
Start ==
    /\ pc = "start"
    /\ child' = "alive" /\ inner' = outer
    /\ pc' = "test"
    /\ UNCHANGED <<written, taken, shown, batch, log, gaps, keyVars, resized, outer, current, pane, revents, runner>>

\* The flag is cleared before the size is read.
Test ==
    /\ pc = "test"
    /\ resized' = FALSE
    /\ pc' = IF resized THEN "getsize" ELSE "poll"
    /\ UNCHANGED <<outVars, keyVars, outer, current, inner, pane, revents, runner>>

GetSize ==
    /\ pc = "getsize"
    /\ current' = outer
    /\ pc' = "setsize"
    /\ UNCHANGED <<outVars, keyVars, resized, outer, inner, pane, revents, runner>>

ApplySize(flag) ==
    /\ pc = "setsize"
    /\ inner' = current /\ resized' = flag
    /\ pc' = "poll"
    /\ UNCHANGED <<outVars, keyVars, outer, current, pane, revents, runner>>

BugSetSizeThenClear == ApplySize(FALSE)
SetSize == ApplySize(resized)

Ready == {e \in {"out", "hup", "key"} :
            CASE e = "out" -> Unread > 0
              [] e = "hup" -> Hup
              [] e = "key" -> inputOpen /\ keys # <<>>}

\* poll enters its wait; a signal before this step does not interrupt it.
Block ==
    /\ pc = "poll"
    /\ pc' = "blocked"
    /\ UNCHANGED <<outVars, keyVars, sizeVars, pane, revents, runner>>

PollReturns ==
    /\ pc = "blocked"
    /\ Ready # {}
    /\ revents' = Ready
    /\ pc' = "output"
    /\ UNCHANGED <<outVars, keyVars, sizeVars, pane, runner>>

TakeOutput(count) ==
    /\ pc = "output"
    /\ batch' = count
    /\ taken' = taken + count
    /\ pc' = IF count > 0 THEN "show" ELSE "input"
    /\ UNCHANGED <<child, written, shown, log, gaps, keyVars, sizeVars, pane, revents, runner>>

BugReadAfterHup ==
    TakeOutput(IF revents \cap {"out", "hup"} = {"out"} THEN AtMost(Unread, ReadSize) ELSE 0)
BugReadIgnoresCount == TakeOutput(IF "out" \in revents THEN ReadSize ELSE 0)
\* One read of the master.
ReadMaster == TakeOutput(IF "out" \in revents THEN AtMost(Unread, ReadSize) ELSE 0)

\* writeAll(STDOUT) waits until the pane takes the batch.
ShowBatch ==
    /\ pc = "show" /\ pane = "open"
    /\ shown' = taken
    /\ pc' = "record"
    /\ UNCHANGED <<child, written, taken, batch, log, gaps, keyVars, sizeVars, pane, revents, runner>>

\* It fails when the pane is gone, which is ignored.
ShowFails ==
    /\ pc = "show" /\ pane = "gone"
    /\ pc' = "record"
    /\ UNCHANGED <<outVars, keyVars, sizeVars, pane, revents, runner>>

RecordLines(lines) ==
    /\ pc = "record"
    /\ Record(lines)
    /\ batch' = 0
    /\ pc' = "input"
    /\ UNCHANGED <<child, written, taken, shown, keyVars, sizeVars, pane, revents, runner>>

BugRecordOnce == RecordLines(<<taken - batch + 1>>)
RecordBatch == RecordLines([k \in 1..batch |-> taken - batch + k])

TakeInput(afterEof) ==
    /\ pc = "input"
    /\ IF "key" \in revents
       THEN /\ keys' = Tail(keys)
            /\ inputOpen' = (Head(keys) # "eof")
            /\ pc' = IF Head(keys) = "eof" THEN afterEof ELSE "feed"
       ELSE pc' = "check" /\ UNCHANGED <<keys, inputOpen>>
    /\ UNCHANGED <<outVars, typed, fed, sizeVars, pane, revents, runner>>

BugEofEndsRelay == TakeInput("wait")
\* An end of file stops the input for good and is not passed on.
ReadInput == TakeInput("check")

\* writeAll(master) waits for room.
WriteMaster(failed) ==
    /\ pc = "feed"
    /\ \/ failed /\ pc' = "wait" /\ UNCHANGED fed
       \/ ~Hup /\ fed < InRoom /\ fed' = fed + 1 /\ pc' = "check"
    /\ UNCHANGED <<outVars, keys, typed, inputOpen, sizeVars, pane, revents, runner>>

BugFeedRetries == WriteMaster(FALSE)
\* The write fails once the child's end is closed.
Feed == WriteMaster(Hup)

\* The hang-up is looked at last, after what came with it.
CheckHup ==
    /\ pc = "check"
    /\ pc' = IF "hup" \in revents THEN "wait" ELSE "test"
    /\ UNCHANGED <<outVars, keyVars, sizeVars, pane, revents, runner>>

\* waitpid, then the footer, fsync and close; the exit status is the child's.
Finish ==
    /\ pc = "wait"
    /\ Hup
    /\ Record(<<Footer>>)
    /\ pc' = "done"
    /\ UNCHANGED <<child, written, taken, shown, batch, keyVars, sizeVars, pane, revents, runner>>

------------------------------------------------------------------------------
(* The runner: it waits for the logger and keeps a failed session visible. *)

Reap ==
    /\ runner = "waiting" /\ pc = "done"
    /\ \/ child = "quiet" /\ runner' = "closed"
       \/ child # "quiet" /\ pane # "stopped" /\ runner' = "banner"
    /\ UNCHANGED <<outVars, keyVars, sizeVars, pane, pc, revents>>

\* The banner reads the pane's input, typed before it or after.
Acknowledge ==
    /\ runner = "banner" /\ keys # <<>>
    /\ keys' = Tail(keys)
    /\ runner' = "acknowledged"
    /\ UNCHANGED <<outVars, typed, inputOpen, fed, sizeVars, pane, pc, revents>>

------------------------------------------------------------------------------
(* The child, the user and the pane (external).  ssh reads its input whether   *)
(* or not its output has room.                                                 *)

ChildWrites ==
    /\ child = "alive" /\ written < MaxOut /\ Unread < OutRoom
    /\ written' = written + 1
    /\ UNCHANGED <<child, taken, shown, batch, log, gaps, keyVars, sizeVars, pane, pc, revents, runner>>

ChildReads ==
    /\ child = "alive" /\ fed > 0
    /\ fed' = fed - 1
    /\ UNCHANGED <<outVars, keys, typed, inputOpen, sizeVars, pane, pc, revents, runner>>

ChildEnds ==
    /\ child = "alive"
    /\ child' \in {"quiet", "failed"}
    /\ fed' = 0
    /\ UNCHANGED <<written, taken, shown, batch, log, gaps, keys, typed, inputOpen, sizeVars, pane, pc, revents, runner>>

Type ==
    /\ typed < MaxKeys /\ pane # "gone"
    /\ runner \in {"waiting", "banner"}
    /\ \E k \in {"key", "eof"} : keys' = Append(keys, k)
    /\ typed' = typed + 1
    /\ UNCHANGED <<outVars, inputOpen, fed, sizeVars, pane, pc, revents, runner>>

\* Ctrl+S and Ctrl+Q.
StopOrGo ==
    /\ runner \in {"waiting", "banner"}
    /\ \/ pane = "open" /\ pane' = "stopped"
       \/ pane = "stopped" /\ pane' = "open"
    /\ UNCHANGED <<outVars, keyVars, sizeVars, pc, revents, runner>>

\* The pane is closed under programs that ignore SIGHUP, as those of a window
\* started with nohup do: its input ends, and the session goes on unseen.
HangUp ==
    /\ runner \in {"waiting", "banner"} /\ pane # "gone"
    /\ pane' = "gone" /\ keys' = <<"eof">>
    /\ UNCHANGED <<outVars, typed, inputOpen, fed, sizeVars, pc, revents, runner>>

\* SIGWINCH interrupts a poll that has nothing to report, and only sets the flag
\* elsewhere.
Resize ==
    /\ ~Ended /\ pane # "gone"
    /\ outer' \in Sizes \ {outer}
    /\ resized' = TRUE
    /\ pc' = IF pc = "blocked" /\ Ready = {} THEN "test" ELSE pc
    /\ UNCHANGED <<outVars, keyVars, current, inner, pane, revents, runner>>

\* Closing the pane (SIGHUP), or Ctrl+C, which the pane's terminal turns into a
\* signal since the logger leaves it in cooked mode: logger and runner die, and
\* the child with its terminal.  Their input and memory are gone.
Interrupt ==
    /\ runner \in {"waiting", "banner"}
    /\ runner' = "killed"
    /\ pc' = IF pc = "done" THEN pc ELSE "killed"
    /\ child' = IF child = "alive" THEN "quiet" ELSE child
    /\ keys' = <<>> /\ fed' = 0
    /\ IF pc = "done" THEN UNCHANGED <<revents, inputOpen, sizeVars>>
       ELSE /\ revents' = {} /\ inputOpen' = FALSE
            /\ resized' = FALSE /\ current' = outer /\ inner' = outer /\ UNCHANGED outer
    /\ UNCHANGED <<written, taken, shown, batch, log, gaps, typed, pane>>

------------------------------------------------------------------------------
Logger ==
    \/ Start \/ StartFails \/ Test \/ GetSize \/ SetSize \/ Block \/ PollReturns
    \/ ReadMaster \/ ShowBatch \/ ShowFails \/ RecordBatch \/ ReadInput \/ Feed \/ CheckHup \/ Finish

Next ==
    \/ Logger \/ Reap \/ Acknowledge
    \/ ChildWrites \/ ChildReads \/ ChildEnds \/ Type \/ StopOrGo \/ HangUp
    \/ Resize \/ Interrupt

\* The operating system runs both programs, and ssh reads its terminal.  The
\* child need not end, the user need not type, nor let a stopped pane go on.
Fairness == WF_vars(Logger) /\ WF_vars(Reap) /\ WF_vars(ChildReads)

Spec == Init /\ [][Next]_vars /\ Fairness

------------------------------------------------------------------------------
TypeOK ==
    /\ child \in {"none", "alive", "quiet", "failed"}
    /\ {written, taken, shown, batch, typed, fed} \subseteq Nat
    /\ log \in Seq(1..MaxOut \cup {Footer})
    /\ {gaps, inputOpen, resized} \subseteq BOOLEAN /\ pane \in {"open", "stopped", "gone"}
    /\ pc \in {"start", "test", "getsize", "setsize", "poll", "blocked", "output", "show",
               "record", "input", "feed", "check", "wait", "done", "killed"}
    /\ revents \subseteq {"out", "hup", "key"}
    /\ keys \in Seq({"key", "eof"})
    /\ {outer, current, inner} \subseteq Sizes
    /\ runner \in {"waiting", "banner", "closed", "acknowledged", "killed"}

\* The transcript holds the child's output and nothing the user typed: unless a
\* write to it failed, exactly what was read, less the batch that is being
\* relayed or that a kill interrupted; then the footer, once.  And while the pane
\* is there it was given all that is recorded, and at most that batch more.
TranscriptIsWhatWasShown ==
    /\ ~gaps => /\ Len(log) >= taken - batch
                /\ \A k \in 1..Len(log) : log[k] = IF k <= taken - batch THEN k ELSE Footer
                /\ Len(log) = taken - batch + (IF pc = "done" /\ child # "none" THEN 1 ELSE 0)
    /\ (pane # "gone" => taken - batch <= shown) /\ shown <= taken

\* What the relay leaves behind is bounded: at a hang-up one more read is made, so
\* of the child's last output at most the terminal's room less one read is neither
\* shown nor recorded, and nothing when a read takes all the room.  The loop can
\* lose more only by an input of its last round, whose write fails (EIO) when
\* the child has gone and breaks off before the output that came meanwhile.
LossBounded ==
    pc = "done" /\ "key" \notin revents =>
        Unread <= (IF OutRoom <= ReadSize THEN 0 ELSE OutRoom - ReadSize)

\* docs/architecture.md: the logger "relays a nested PTY byte-for-byte and writes
\* output to an owner-only transcript".  When it ends, it has read all that the
\* child wrote.
RelaysEverything == pc = "done" => Unread = 0

\* A resize is never forgotten, also one that comes between two steps of the
\* loop: while the sizes differ, the flag is set or the copy is under way.  (It
\* may still be noticed late: a signal between the test of the flag and poll
\* waits for the next event.)
ResizeNotForgotten ==
    pc \notin {"start", "wait", "done", "killed"} /\ inner # outer =>
        \/ resized \/ pc = "getsize"
        \/ pc = "setsize" /\ current = outer

\* The transcript of a session that ran to its end is closed: the logger ends
\* once its child has, whatever was unread or being written (and the runner
\* with it, or with its banner up).  Only a pane that is stopped again and again
\* or for good can hold it up, for it is written to without a time limit.
SessionEnds == <>[](pane # "stopped") => (Hup ~> Ended /\ runner # "waiting")

\* Output reaches the pane while the session lives: a full input side, a resize,
\* a pause of the pane or an end of file never stops the relay for good.
OutputIsShown ==
    <>[](pane = "open") => \A n \in 1..MaxOut : written >= n ~> shown >= n \/ Ended
=============================================================================
