----------------------------- MODULE LiveControl -----------------------------
(* The live-control socket: the windows that may serve it (livecontrolserver,  *)
(* main.cpp) and the calls waypane-mcp makes through it.  A call is one        *)
(* connection that carries one request line.  Handlers run in the window's     *)
(* event loop; one that shows a message box runs a nested loop, in which other *)
(* connections are served, so the unfinished handlers form a stack.            *)
EXTENDS Naturals, Sequences, FiniteSets, SequencesExt

CONSTANTS
    Guis,    \* processes of the desktop application
    Calls,   \* calls of live_request
    Nobody,  \* the socket path does not exist
    Dead     \* the socket path names the socket of a process that has gone

ASSUME GuisAssumption == Nobody \notin Guis /\ Dead \notin Guis /\ Nobody # Dead

VARIABLES
    gui,      \* "off", "probed", "cleared" (inside start), "serving" or "deaf"
    file,     \* whose socket the path names
    overlap,  \* history: two starts have overlapped
    phase,    \* the call as its caller sees it
    at,       \* the window at the other end of the call's connection
    unread,   \* calls whose request line the window has not read yet
    stack,    \* per window, calls whose handlers wait in nested event loops
    answer,   \* the reply written to the connection, "none" before
    freed,    \* calls whose QLocalSocket the window has deleted
    taken     \* how often a handler took the call's request up

guiVars == <<gui, file, overlap>>
callVars == <<phase, at, unread, stack, answer, freed, taken>>
vars == <<guiVars, callVars>>

Phases == {"idle", "waiting", "ok", "refused", "error"}

Init ==
    /\ gui = [g \in Guis |-> "off"]
    /\ file = Nobody
    /\ overlap = FALSE
    /\ phase = [c \in Calls |-> "idle"]
    /\ at = [c \in Calls |-> Nobody]
    /\ unread = {}
    /\ stack = [g \in Guis |-> <<>>]
    /\ answer = [c \in Calls |-> "none"]
    /\ freed = {}
    /\ taken = [c \in Calls |-> 0]

------------------------------------------------------------------------------
(* Starting and stopping a window. *)

Starting == {g \in Guis : gui[g] \in {"probed", "cleared"}}
Serving == {g \in Guis : gui[g] = "serving"}

\* A listening socket accepts in the kernel, even while its window is busy.
Reachable == file \in Serving

StartAs(g, state) ==
    /\ gui[g] = "off"
    /\ gui' = [gui EXCEPT ![g] = state]
    /\ overlap' = (overlap \/ Starting # {})
    /\ UNCHANGED <<file, callVars>>

BugStartUnprobed(g) == StartAs(g, "probed")
\* start() as far as waitForConnected.
Probe(g) == StartAs(g, IF Reachable THEN "deaf" ELSE "probed")

\* QLocalServer::removeServer: the path goes, whoever it names by now.
RemoveServer(g) ==
    /\ gui[g] = "probed"
    /\ gui' = [gui EXCEPT ![g] = "cleared"]
    /\ file' = Nobody
    /\ UNCHANGED <<overlap, callVars>>

\* QLocalServer::listen fails when the path exists; the window goes on without.
Listen(g) ==
    /\ gui[g] = "cleared"
    /\ gui' = [gui EXCEPT ![g] = IF file = Nobody THEN "serving" ELSE "deaf"]
    /\ file' = IF file = Nobody THEN g ELSE file
    /\ UNCHANGED <<overlap, callVars>>

\* The connections of a window that ends are closed and its handlers vanish;
\* what it has already answered can still be read.
Disconnect(g) ==
    /\ at' = [c \in Calls |-> IF at[c] = g THEN Nobody ELSE at[c]]
    /\ unread' = {c \in unread : at[c] # g}
    /\ stack' = [stack EXCEPT ![g] = <<>>]
    /\ UNCHANGED <<phase, answer, freed, taken>>

\* Leaving main: closing the server removes the path, whoever it names.
Quit(g) ==
    /\ gui[g] \in {"serving", "deaf"}
    /\ stack[g] = <<>>
    /\ gui' = [gui EXCEPT ![g] = "off"]
    /\ file' = IF gui[g] = "serving" THEN Nobody ELSE file
    /\ UNCHANGED overlap
    /\ Disconnect(g)

Crash(g) ==
    /\ gui[g] # "off"
    /\ gui' = [gui EXCEPT ![g] = "off"]
    /\ file' = IF file = g THEN Dead ELSE file
    /\ UNCHANGED overlap
    /\ Disconnect(g)

------------------------------------------------------------------------------
(* The caller: live_request. *)

\* connect and sendall, or a refused connection.
Connect(c, reached) ==
    /\ phase[c] = "idle"
    /\ phase' = [phase EXCEPT ![c] = IF reached THEN "waiting" ELSE "error"]
    /\ at' = [at EXCEPT ![c] = IF reached THEN file ELSE Nobody]
    /\ unread' = IF reached THEN unread \cup {c} ELSE unread
    /\ UNCHANGED <<guiVars, stack, answer, freed, taken>>

BugAskDeadSocket(c) == Connect(c, TRUE)
Ask(c) == Connect(c, Reachable)

\* recv returns the reply, or the end of a connection that carried none.
Receive(c) ==
    /\ phase[c] = "waiting"
    /\ answer[c] # "none" \/ at[c] = Nobody
    /\ phase' = [phase EXCEPT ![c] = IF answer[c] = "none" THEN "error" ELSE answer[c]]
    /\ UNCHANGED <<guiVars, at, unread, stack, answer, freed, taken>>

\* settimeout(3): the caller gives up and closes the connection.
TimeOut(c) ==
    /\ phase[c] = "waiting"
    /\ phase' = [phase EXCEPT ![c] = "error"]
    /\ UNCHANGED <<guiVars, at, unread, stack, answer, freed, taken>>

------------------------------------------------------------------------------
(* The window's event loop, at its top level or inside a message box. *)

\* socket->write and flush: lost when the peer or the socket has gone.
Reply(c, a) ==
    answer' = IF phase[c] = "waiting" /\ c \notin freed
              THEN [answer EXCEPT ![c] = a] ELSE answer

\* readyRead: the event loop hands over a line, also from inside a message box.
Readable(c) == c \in unread

\* Invalid JSON, an unknown method, an empty or unknown profile id.
Refuse(c) ==
    /\ Readable(c)
    /\ unread' = unread \ {c}
    /\ Reply(c, "refused")
    /\ UNCHANGED <<guiVars, phase, at, stack, freed, taken>>

\* The window carries the request out without entering a nested loop.
CarryOut(c, left) ==
    /\ Readable(c)
    /\ unread' = left
    /\ taken' = [taken EXCEPT ![c] = @ + 1]
    /\ Reply(c, "ok")
    /\ UNCHANGED <<guiVars, phase, at, stack, freed>>

BugPerformAgain(c) == CarryOut(c, unread)
Perform(c) == CarryOut(c, unread \ {c})

\* The window takes the request up and shows a message box.
Begin(c) ==
    /\ Readable(c)
    /\ unread' = unread \ {c}
    /\ taken' = [taken EXCEPT ![c] = @ + 1]
    /\ stack' = [stack EXCEPT ![at[c]] = Append(@, c)]
    /\ UNCHANGED <<guiVars, phase, at, answer, freed>>

\* The user dismisses the innermost box; its handler answers "ok", whether the
\* window opened something or the box told the user why it did not.
Finish(g, c) ==
    /\ stack[g] # <<>>
    /\ stack' = [stack EXCEPT ![g] = Front(@)]
    /\ Reply(c, "ok")
    /\ UNCHANGED <<guiVars, phase, at, unread, freed, taken>>

BugAnswerOutermost(g) == Finish(g, Head(stack[g]))
Dismiss(g) == Finish(g, Last(stack[g]))

\* disconnected: the socket is deleted as soon as the loop, nested or not, runs.
\* A request line that arrived with the hang-up is read first.
Hangup(c) ==
    /\ at[c] \in Guis
    /\ phase[c] \notin {"idle", "waiting"}
    /\ c \notin unread \cup freed
    /\ freed' = freed \cup {c}
    /\ UNCHANGED <<guiVars, phase, at, unread, stack, answer, taken>>

------------------------------------------------------------------------------
Next ==
    \/ \E g \in Guis : \/ Probe(g) \/ RemoveServer(g) \/ Listen(g)
                       \/ Quit(g) \/ Crash(g) \/ Dismiss(g)
    \/ \E c \in Calls : \/ Ask(c) \/ Receive(c) \/ TimeOut(c)
                        \/ Refuse(c) \/ Perform(c) \/ Begin(c) \/ Hangup(c)

\* settimeout bounds every wait of the caller.  The window owes nothing: its event
\* loop may be held up for as long as a keyring or a user takes.
Fairness == \A c \in Calls : WF_vars(TimeOut(c))

Spec == Init /\ [][Next]_vars /\ Fairness

------------------------------------------------------------------------------
TypeOK ==
    /\ gui \in [Guis -> {"off", "probed", "cleared", "serving", "deaf"}]
    /\ file \in Guis \cup {Nobody, Dead}
    /\ overlap \in BOOLEAN
    /\ phase \in [Calls -> Phases]
    /\ at \in [Calls -> Guis \cup {Nobody}]
    /\ unread \subseteq Calls
    /\ stack \in [Guis -> Seq(Calls)]
    /\ answer \in [Calls -> {"none", "ok", "refused"}]
    /\ freed \subseteq Calls
    /\ taken \in [Calls -> Nat]

\* As long as no two starts have overlapped, a window that listens
\* is the one that the path leads to, so there is never a second one and the
\* calls reach it (start, which probes before it removes the path).
ListenerReachable == ~overlap => \A g \in Serving : file = g

\* A caller that still waits at a living window has its request unread, in a
\* handler behind a message box, or answered: however the handlers nest, no
\* reply goes to another caller or to a deleted socket unless its own caller
\* has given up (the lambda of acceptConnection keeps its socket while it waits).
CallerIsServed ==
    \A c \in Calls : phase[c] = "waiting" /\ at[c] # Nobody =>
        c \in unread \/ c \in Range(stack[at[c]]) \/ answer[c] # "none"

\* Every call keeps the promise of LiveCalls, its return included.
Promise == INSTANCE LiveCalls
KeepsPromise == Promise!Spec
=============================================================================
