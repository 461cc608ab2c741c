------------------------------ MODULE Terminals ------------------------------
(* The terminal tabs of the window (waypanewindow.cpp): a tab owns a splitter  *)
(* of panes, m_terminalSessions remembers what each pane runs, a pane that     *)
(* exits leaves its tab to a queued timer, and the layout is saved at exit and *)
(* restored at the next start.  Whether a session can be opened at all is      *)
(* decided by SshSessions; here it opens or shows a message box.               *)
EXTENDS Naturals, Sequences, FiniteSets, SequencesExt, Filters

CONSTANTS
    Profiles,   \* saved connections
    Local,      \* the empty profile id of a local shell
    Transient,  \* the profile id of a tunnels pane
    None,       \* no tab, no profile
    Splitters,  \* bound: splitters that exist at a time
    Panes       \* bound: panes that exist at a time

Kinds == Profiles \cup {Local, Transient}

ASSUME TerminalsAssumption ==
    /\ Local \notin Profiles /\ Transient \notin Profiles /\ Local # Transient
    /\ None \notin Splitters \cup Kinds

VARIABLES
    phase,     \* "off", "restoring", "running", or "wild" after a dangling use
    tabs,      \* the splitters of the tab widget, in order
    panes,     \* the panes of each splitter, in order
    session,   \* m_terminalSessions: what the panes run
    timers,    \* splitters whose close-if-idle timer is queued
    active,    \* m_activeProfileId
    saved,     \* settings: workspace/tabs
    restore,   \* settings: workspace/restore
    reconnect, \* settings: workspace/reconnectSsh
    known,     \* profiles that still exist
    todo,      \* the part of the layout that is not restored yet
    workspace, \* the local variable of restoreWorkspace
    box,       \* restoreWorkspace waits in a message box
    clean      \* history: restoring has shown no message box

tabVars == <<tabs, panes, session, timers, active>>
settingVars == <<saved, restore, reconnect, known>>
restoreVars == <<todo, workspace, box, clean>>
vars == <<phase, tabVars, settingVars, restoreVars>>

Init ==
    /\ phase = "off"
    /\ tabs = <<>> /\ panes = [w \in Splitters |-> <<>>]
    /\ session = <<>> /\ timers = {} /\ active = None
    /\ saved = <<>> /\ restore = TRUE /\ reconnect \in BOOLEAN /\ known = Profiles
    /\ todo = <<>> /\ workspace = None /\ box = FALSE /\ clean = TRUE

\* The event loop runs: the window's own or a message box's.
Loop == phase = "running" \/ box

\* What saveWorkspace keeps of a pane: a widget without a session is "local".
Kind(t) == IF t \in DOMAIN session THEN session[t] ELSE Local
IsLive(w) == \E t \in DOMAIN session : t \in Range(panes[w])

Shown == [i \in 1..Len(tabs) |-> [j \in 1..Len(panes[tabs[i]]) |-> Kind(panes[tabs[i]][j])]]

\* The panes of some kinds, tab by tab, and the tabs that have any.
Select(layout, kinds) ==
    Only([i \in 1..Len(layout) |-> Only(layout[i], kinds)], Seq(Kinds) \ {<<>>})
Layout == Select(Shown, Kinds \ {Transient})

------------------------------------------------------------------------------
(* createTerminal: a pane in a given splitter, or in a new one in a new tab. *)

\* New widgets: which unused identity one gets does not matter.
NewIn(S) == {x \in S : x = CHOOSE y \in S : TRUE}
FreshPanes == NewIn(Panes \ DOMAIN session)
FreshSplitters == NewIn(Splitters \ (Range(tabs) \cup timers \cup {workspace}))

AddPane(w, t, kind) ==
    /\ panes' = [panes EXCEPT ![w] = Append(@, t)]
    /\ session' = [x \in DOMAIN session \cup {t} |-> IF x = t THEN kind ELSE session[x]]

AddTab(w, t, kind) ==
    /\ AddPane(w, t, kind)
    /\ tabs' = Append(tabs, w)

\* closeTerminal: the last tab takes the active profile with it.
CloseTerminal(w) ==
    /\ tabs' = RemoveFirst(tabs, w)
    /\ session' = [t \in DOMAIN session \ Range(panes[w]) |-> session[t]]
    /\ panes' = [panes EXCEPT ![w] = <<>>]
    /\ active' = IF tabs = <<w>> THEN None ELSE active

------------------------------------------------------------------------------
(* The running window. *)

NewLocal ==
    /\ phase = "running"
    /\ \E w \in FreshSplitters, t \in FreshPanes : AddTab(w, t, Local)
    /\ active' = None
    /\ UNCHANGED <<phase, timers, settingVars, restoreVars>>

\* splitLocalTerminal without a tab opens one and splits it.
Split ==
    /\ phase = "running"
    /\ IF tabs # <<>>
       THEN /\ \E w \in Range(tabs), t \in FreshPanes : AddPane(w, t, Local)
            /\ UNCHANGED <<tabs, active>>
       ELSE \E w \in FreshSplitters, t \in FreshPanes, u \in NewIn(Panes \ FreshPanes) :
              /\ tabs' = <<w>>
              /\ panes' = [panes EXCEPT ![w] = <<t, u>>]
              /\ session' = [x \in {t, u} |-> Local]
              /\ active' = None
    /\ UNCHANGED <<phase, timers, settingVars, restoreVars>>

Open(p, kind) ==
    /\ phase = "running" /\ p \in known
    /\ \E w \in FreshSplitters, t \in FreshPanes : AddTab(w, t, kind)
    /\ active' = p
    /\ UNCHANGED <<phase, timers, settingVars, restoreVars>>

ConnectSelected(p) == Open(p, p)
ConnectSelectedTunnels(p) == Open(p, Transient)

CloseTab(w) ==
    /\ phase = "running" /\ w \in Range(tabs)
    /\ CloseTerminal(w)
    /\ UNCHANGED <<phase, timers, settingVars, restoreVars>>

\* A pane's process ends: KonsolePart deletes its widget, which leaves the
\* splitter and m_terminalSessions, and itself, which queues the timer.
PaneExits(t, left, queued) ==
    /\ Loop /\ t \in DOMAIN session
    /\ session' = [x \in left |-> session[x]]
    /\ panes' = [w \in Splitters |-> RemoveFirst(panes[w], t)]
    /\ timers' = timers \cup queued
    /\ UNCHANGED <<phase, tabs, active, settingVars, restoreVars>>

OwnerOf(t) == {w \in Range(tabs) : t \in Range(panes[w])}
BugExitKeepsSession(t) == PaneExits(t, DOMAIN session, OwnerOf(t))
BugExitWithoutTimer(t) == PaneExits(t, DOMAIN session \ {t}, {w \in OwnerOf(t) : Len(panes[w]) > 1})
Exit(t) == PaneExits(t, DOMAIN session \ {t}, OwnerOf(t))

Idle(w, live) ==
    /\ Loop /\ w \in timers
    /\ timers' = timers \ {w}
    /\ IF w \in Range(tabs) /\ ~live
       THEN CloseTerminal(w)
       ELSE UNCHANGED <<tabs, panes, session, active>>
    /\ UNCHANGED <<phase, settingVars, restoreVars>>

BugTimerUnchecked(w) == Idle(w, FALSE)
\* The timer looks again: the tab may have been split, or closed, meanwhile.
TimerFires(w) == Idle(w, IsLive(w))

ChangeSettings ==
    /\ phase = "running"
    /\ restore' \in BOOLEAN /\ reconnect' \in BOOLEAN
    /\ UNCHANGED <<phase, tabVars, saved, known, restoreVars>>

DeleteProfile(p) ==
    /\ phase = "running"
    /\ known' = known \ {p}
    /\ UNCHANGED <<phase, tabVars, saved, restore, reconnect, restoreVars>>

------------------------------------------------------------------------------
(* Leaving and starting. *)

Gone == /\ phase' = "off"
        /\ tabs' = <<>> /\ panes' = [w \in Splitters |-> <<>>]
        /\ session' = <<>> /\ timers' = {} /\ active' = None
        /\ todo' = <<>> /\ workspace' = None /\ box' = FALSE
        /\ UNCHANGED <<restore, reconnect, known, clean>>

\* closeEvent and the destructor both save; the last one counts.
Quit == phase = "running" /\ saved' = Layout /\ Gone

Crash == phase # "off" /\ UNCHANGED saved /\ Gone

Start ==
    /\ phase = "off"
    /\ phase' = "restoring"
    /\ todo' = IF restore THEN saved ELSE <<>>
    /\ clean' = TRUE
    /\ UNCHANGED <<tabVars, settingVars, workspace, box>>

\* The pane that restoreWorkspace has come to, and whether it opens it.
Current == Head(Head(todo))
AtPane == phase = "restoring" /\ ~box /\ todo # <<>> /\ Head(todo) # <<>>
Wanted(k) == k = Local \/ (k \in known /\ reconnect)

PaneDone == todo' = [todo EXCEPT ![1] = Tail(@)]

SkipPane ==
    /\ AtPane /\ ~Wanted(Current)
    /\ PaneDone
    /\ UNCHANGED <<phase, tabVars, settingVars, workspace, box, clean>>

RestorePane ==
    /\ AtPane /\ Wanted(Current)
    /\ PaneDone
    /\ IF workspace = None
       THEN \E w \in FreshSplitters, t \in FreshPanes :
              AddTab(w, t, Current) /\ workspace' = w /\ UNCHANGED phase
       ELSE IF workspace \in Range(tabs)
       THEN /\ \E t \in FreshPanes : AddPane(workspace, t, Current)
            /\ UNCHANGED <<phase, tabs, workspace>>
       ELSE phase' = "wild" /\ UNCHANGED <<tabs, panes, session, workspace>>
    /\ UNCHANGED <<timers, active, settingVars, box, clean>>

\* The session cannot be opened: a message box runs a nested event loop.
PaneFails ==
    /\ AtPane /\ Wanted(Current)
    /\ PaneDone
    /\ box' = TRUE /\ clean' = FALSE
    /\ UNCHANGED <<phase, tabVars, settingVars, workspace>>

DismissBox ==
    /\ box
    /\ box' = FALSE
    /\ UNCHANGED <<phase, tabVars, settingVars, todo, workspace, clean>>

\* The tab is oriented as it was, by the pointer to its splitter.
Dangling == workspace # None /\ workspace \notin Range(tabs)

TabDone(next) ==
    /\ phase = "restoring" /\ ~box /\ todo # <<>> /\ Head(todo) = <<>>
    /\ todo' = Tail(todo)
    /\ workspace' = next
    /\ phase' = IF Dangling THEN "wild" ELSE phase
    /\ UNCHANGED <<tabVars, settingVars, box, clean>>

BugTabDone == TabDone(workspace)
NextTab == TabDone(None)

Restored ==
    /\ phase = "restoring" /\ ~box /\ todo = <<>>
    /\ phase' = "running" /\ workspace' = None
    /\ UNCHANGED <<tabVars, settingVars, todo, box, clean>>

------------------------------------------------------------------------------
Next ==
    \/ NewLocal \/ Split \/ ChangeSettings \/ Quit \/ Crash \/ Start
    \/ SkipPane \/ RestorePane \/ PaneFails \/ DismissBox \/ NextTab \/ Restored
    \/ \E p \in Profiles : ConnectSelected(p) \/ ConnectSelectedTunnels(p) \/ DeleteProfile(p)
    \/ \E w \in Splitters : CloseTab(w) \/ TimerFires(w)
    \/ \E t \in Panes : Exit(t)

\* The event loop delivers a timer that has expired, and restoring goes on
\* except while a message box waits for the user.
Fairness ==
    /\ \A w \in Splitters : WF_vars(TimerFires(w))
    /\ WF_vars(SkipPane \/ RestorePane \/ PaneFails \/ NextTab \/ Restored)

Spec == Init /\ [][Next]_vars /\ Fairness

------------------------------------------------------------------------------
\* m_terminalSessions and the splitters agree: the sessions are exactly the
\* panes of the tabs, each pane in one place, whatever exits, splits and closes.
SessionsMatchPanes ==
    /\ DOMAIN session = UNION {Range(panes[w]) : w \in Range(tabs)}
    /\ \A v, w \in Range(tabs) : v # w => Range(panes[v]) \cap Range(panes[w]) = {}
    /\ \A w \in Splitters \ Range(tabs) : panes[w] = <<>>

\* The queued close of an idle tab never takes a live terminal with it, whatever
\* happened between the exit that queued it and the timer (waypanewindow.cpp
\* looks for live descendants again).
TimerSparesLiveTabs ==
    [][timers' # timers /\ timers' \subseteq timers /\ phase' = phase => session' = session]_vars

\* A start brings back the layout of the last orderly exit, tab by tab and pane
\* by pane, less the panes that are not to be restored, unless a session failed
\* to open.
Restorable == Select(saved, {k \in Kinds : Wanted(k)})
RestoresLayout ==
    [][phase = "restoring" /\ phase' = "running" /\ clean /\ restore => Layout = Restorable]_vars

\* A tab whose last pane has exited goes, or gets a new pane first.
EmptyTabsClose ==
    \A w \in Splitters :
        w \in Range(tabs) /\ panes[w] = <<>> ~> w \notin Range(tabs) \/ panes[w] # <<>> \/ phase = "wild"
=============================================================================
