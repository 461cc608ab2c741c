----------------------------- MODULE SshSessions -----------------------------
(* Opening SSH sessions: the profiles of the window, the managed configuration *)
(* it renders from them, the Include in ~/.ssh/config that only the user may   *)
(* allow, and the program that openSshSession starts, which reads the files    *)
(* later than it was started.                                                  *)
(* Sources: src/src/app/waypanewindow.cpp, src/src/core/sshcommandbuilder.cpp, *)
(* sshruntime.cpp and src/src/app/sshhelper.cpp.                               *)
EXTENDS SshConfig

CONSTANTS
    Secret,      \* ids of profiles with a secret in the keyring
    Editions,    \* bound: what the user may enter for each id
    UserConfigs  \* bound: what the user may write to ~/.ssh/config

ASSUME SessionsAssumption ==
    /\ Secret \subseteq Ids
    /\ \A p \in Ids : Editions[p] \subseteq Profile
    /\ UserConfigs \subseteq Seq(Lines)

VARIABLES
    profiles,   \* m_connections
    managed,    \* the managed configuration: the port and jump host of each alias
    userConfig, \* ~/.ssh/config
    prompt,     \* ensureManagedSshConfig asks whether to enable the integration
    session,    \* the session being opened, or NoSession
    lost,       \* history: since this window last wrote the managed file, a write of
                \* its own failed or another window wrote
    wanted      \* history: what the user last said of an Include in ~/.ssh/config

fileVars == <<managed, userConfig, lost, wanted>>
vars == <<profiles, fileVars, prompt, session>>

NoSession == [phase |-> "none"]

\* The lists of profiles that a window may have.
Lists == {d \in Documents : \A p \in DOMAIN d : d[p] \in Editions[p]}

Init ==
    /\ profiles \in Lists
    /\ managed = Render(profiles)
    /\ userConfig \in UserConfigs
    /\ prompt = FALSE /\ session = NoSession /\ lost = FALSE
    /\ wanted = HasInclude(userConfig)

------------------------------------------------------------------------------
\* ManagedSshConfig::write replaces the file whole, or fails and leaves it.
Write(list) == managed' = Render(list) /\ lost' = FALSE
WriteFails == lost' = TRUE /\ UNCHANGED managed

\* installInclude may fail too, and leaves the file then.
TryInstall == userConfig' \in {userConfig, Install(userConfig)}

\* An Include that stands too late is moved, none is added.
Repair == IF HasInclude(userConfig) /\ ~IsIncluded(userConfig) THEN TryInstall ELSE UNCHANGED userConfig

\* WaypaneWindow::syncManagedSshConfig.
Sync(list) == (Write(list) /\ Repair) \/ (WriteFails /\ UNCHANGED userConfig)

\* Fault: the managed file is left for the next session to write.
ChangeUnsynced(list) ==
    /\ ~prompt
    /\ profiles' = list
    /\ UNCHANGED <<fileVars, prompt, session>>

Change(list) ==
    /\ ~prompt
    /\ profiles' = list
    /\ Sync(list)
    /\ UNCHANGED <<prompt, session, wanted>>

\* New profiles take the places of those with their ids, or join the list.
With(list, new) ==
    [p \in DOMAIN list \cup DOMAIN new |-> IF p \in DOMAIN new THEN new[p] ELSE list[p]]

\* A profile is added, edited, given forwards or deleted, once it is stored; an
\* import goes on when it cannot be.
Upsert(p) == \E body \in Editions[p] : Change(With(profiles, [q \in {p} |-> body]))
Delete(p) == p \in DOMAIN profiles /\ Change([q \in DOMAIN profiles \ {p} |-> profiles[q]])
ImportConnections == \E list \in {With(profiles, ImportFile(userConfig)), profiles} : Change(list)

\* The window ends, with its terminals; the next one loads what the store holds
\* by then (waypane-mcp may have changed it).
Restart ==
    /\ profiles' \in Lists
    /\ Sync(profiles')
    /\ prompt' = FALSE /\ session' = NoSession
    /\ UNCHANGED wanted

\* ensureManagedSshConfig, when the files of a profile are browsed.
Browse(p) ==
    /\ ~prompt   \* bound: one question at a time
    /\ p \in DOMAIN profiles /\ p \notin Imported
    /\ \/ WriteFails /\ UNCHANGED <<userConfig, prompt>>
       \/ /\ Write(profiles)
          /\ IF HasInclude(userConfig)
             THEN Repair /\ UNCHANGED prompt
             ELSE UNCHANGED userConfig /\ prompt' = TRUE
    /\ UNCHANGED <<profiles, session, wanted>>

\* The user says "Not now" (or closes the question), or "Enable integration".
Answered(says) ==
    /\ prompt
    /\ prompt' = FALSE
    /\ wanted' = says
    /\ UNCHANGED <<profiles, managed, lost, session>>

\* Fault: the Include is added whatever the answer is.
DeclinedInVain == Answered(HasInclude(userConfig)) /\ TryInstall
Decline == Answered(HasInclude(userConfig)) /\ UNCHANGED userConfig
Enable == Answered(TRUE) /\ TryInstall

\* Another window runs, with a list that it may have loaded long ago: it writes
\* the managed file and repairs the Include as this one does, and its user answers
\* the same question there.
OtherWindowWrites(list) ==
    /\ managed' = Render(list) /\ lost' = TRUE
    /\ Repair
    /\ UNCHANGED <<profiles, prompt, session, wanted>>
OtherWindowAnswered ==
    /\ \/ TryInstall /\ wanted' = TRUE
       \/ UNCHANGED userConfig /\ wanted' = HasInclude(userConfig)
    /\ UNCHANGED <<profiles, managed, lost, prompt, session>>

\* The user edits ~/.ssh/config, at any time.
EditByHand ==
    /\ userConfig' \in UserConfigs
    /\ wanted' = HasInclude(userConfig')
    /\ UNCHANGED <<profiles, managed, lost, prompt, session>>

------------------------------------------------------------------------------
\* WaypaneWindow::usesSavedJumpHost; the fault forgets imported aliases.
JumpSavedUnlessImported(profile) == \E p \in DOMAIN profiles \ Imported : AliasOf[p] = profile.jump
UsesSavedJumpHost(profile) == Named(profiles, profile.jump) # {}

\* What is installed: the private runtime, the helper, the logger (with a place
\* for its transcript) and the runner.
Programs == SUBSET {"runtime", "helper", "logger", "runner"}

\* Fault: a logger that is missing is left out.
RefusedUnlessLogger(p, tunnels, logging, have) ==
    \/ profiles[p].legacy /\ "runtime" \notin have
    \/ p \in Secret /\ "helper" \notin have
    \/ "runner" \notin have

\* The guards of openSshSession after the managed file is written, in one.  A
\* terminal part that is missing refuses like a runner that is.
Refused(p, tunnels, logging, have) ==
    \/ profiles[p].legacy /\ "runtime" \notin have
    \/ p \in Secret /\ "helper" \notin have
    \/ "runner" \notin have
    \/ logging /\ ~tunnels /\ "logger" \notin have

\* SshRuntime::executable.
Executable(have) == IF "runtime" \in have THEN "private" ELSE "system"

\* SshCommandBuilder::arguments: an imported profile is reached by its alias
\* alone, except for tunnels; else port 22 is not passed.
Arguments(p, tunnels) ==
    LET profile == profiles[p]
        byAlias == p \in Imported /\ ~tunnels
    IN  [byAlias |-> byAlias,
         withPort |-> ~byAlias /\ profile.port # DefaultPort,
         jump |-> IF byAlias THEN None ELSE profile.jump]

\* The programs that start each other and in the end ssh.
Wrappers(p, audited) ==
    {"runner"} \cup (IF audited THEN {"logger"} ELSE {}) \cup (IF p \in Secret THEN {"helper"} ELSE {})

\* What is started, with the profile and its saved jump hosts as they are now.
Command(p, tunnels, logging, have) ==
    [phase |-> "started", id |-> p, profile |-> profiles[p],
     jumpPorts |-> {profiles[q].port : q \in Named(profiles, profiles[p].jump)},
     audited |-> logging /\ ~tunnels,
     config |-> IF UsesSavedJumpHost(profiles[p]) THEN "managed" ELSE "user",
     ssh |-> Executable(have), wrappers |-> Wrappers(p, logging /\ ~tunnels),
     installed |-> Wrappers(p, logging /\ ~tunnels) \cap have,
     arguments |-> Arguments(p, tunnels)]

\* WaypaneWindow::openSshSession, from the window or a live request (also under
\* the question).
OpenSshSession(p, tunnels) ==
    /\ session = NoSession   \* bound: one session at a time
    /\ p \in DOMAIN profiles
    /\ IF UsesSavedJumpHost(profiles[p])
       THEN \/ /\ Write(profiles)
               /\ \E logging \in BOOLEAN, have \in Programs :
                     session' = IF Refused(p, tunnels, logging, have) THEN NoSession
                                ELSE Command(p, tunnels, logging, have)
            \/ WriteFails /\ UNCHANGED session
       ELSE /\ UNCHANGED <<managed, lost>>
            /\ \E logging \in BOOLEAN, have \in Programs :
                  ~Refused(p, tunnels, logging, have) /\ session' = Command(p, tunnels, logging, have)
    /\ UNCHANGED <<profiles, userConfig, prompt, wanted>>

\* ssh has read its configuration and connects.  Without a name that resolves
\* (None) it fails.
Reached(config, alias) ==
    IF Meets(config, managed, alias) \/ (session.config = "user" /\ \E p \in Imported : AliasOf[p] = alias)
    THEN FirstPort(config, managed, alias) ELSE None
Connect ==
    /\ session.phase = "started"
    /\ LET config == IF session.config = "managed" THEN <<"include">> ELSE userConfig
           alias == AliasOf[session.id]
           given == session.arguments
           jump == IF given.byAlias /\ Meets(config, managed, alias)
                   THEN managed[alias].jump ELSE given.jump
       IN  session' =
             [phase |-> "connected",
              to |-> IF given.byAlias THEN Reached(config, alias)
                     ELSE IF given.withPort THEN session.profile.port
                     ELSE FirstPort(config, managed, Address),
              via |-> IF jump = None THEN "direct" ELSE Reached(config, jump)]
    /\ UNCHANGED <<profiles, fileVars, prompt>>

SessionEnds ==
    /\ session # NoSession
    /\ session' = NoSession
    /\ UNCHANGED <<profiles, fileVars, prompt>>

------------------------------------------------------------------------------
Next ==
    \/ ImportConnections \/ Restart \/ Decline \/ Enable \/ EditByHand \/ Connect \/ SessionEnds
    \/ \E list \in Lists : OtherWindowWrites(list)
    \/ OtherWindowAnswered
    \/ \E p \in Ids : Upsert(p) \/ Delete(p) \/ Browse(p)
    \/ \E p \in Ids, tunnels \in BOOLEAN : OpenSshSession(p, tunnels)

Spec == Init /\ [][Next]_vars

------------------------------------------------------------------------------
\* A session is what the documents promise of it: a legacy profile never runs on
\* the system's ssh, an audited shell never unrecorded, a saved secret is never
\* left for the user to type, and no program that is to see to it is missing.
LaunchKeepsPromises ==
    session.phase = "started" =>
        /\ session.profile.legacy => session.ssh = "private"
        /\ session.audited => "logger" \in session.wrappers
        /\ session.id \in Secret => "helper" \in session.wrappers
        /\ session.wrappers = session.installed

\* ssh has just read its configuration, and knows where to go and by which way.
Connects ==
    /\ session.phase = "started" /\ session'.phase = "connected"
    /\ session'.to # None /\ session'.via # None

\* What the profiles of an alias say now; and what the user's own configuration
\* says of a host: the first of its lines, or nothing and no profile either.
PortsNow(alias) == {profiles[p].port : p \in Named(profiles, alias)}
OwnSetters(host) == {i \in DOMAIN userConfig : userConfig[i] \in Ports /\ Applies(userConfig, i, host)}
OwnPorts(host) ==
    IF OwnSetters(host) # {} THEN {userConfig[Min(OwnSetters(host))]}
    ELSE IF Meets(userConfig, managed, host) THEN {} ELSE {DefaultPort}

\* The jump host that a session was started with, or that its profile has by now.
ByAlias == session.arguments.byAlias
JumpHosts ==
    IF ByAlias THEN {profiles[p].jump : p \in Named(profiles, AliasOf[session.id])}
    ELSE {session.profile.jump}

\* As long as this window was the last to write the managed file: ssh reaches the
\* profile as it was at the start of the session, or by its alias as it is now,
\* and none that was edited or deleted before; only what the user's own
\* configuration says of this very host may differ, and where a profile leaves
\* the port at 22, or no Include is met, it does.  The same holds of the jump
\* host.
SessionReachesProfile ==
    [][Connects /\ ~lost /\ session.jumpPorts = {} =>
          /\ session'.to \in
                IF ByAlias THEN PortsNow(AliasOf[session.id]) \cup OwnPorts(AliasOf[session.id])
                ELSE IF session.profile.port = DefaultPort THEN OwnPorts(Address)
                ELSE {session.profile.port}
          /\ \/ \E jump \in JumpHosts :
                   session'.via \in IF jump = None THEN {"direct"} ELSE PortsNow(jump) \cup OwnPorts(jump)
             \/ /\ ByAlias /\ ~Meets(userConfig, managed, AliasOf[session.id])
                /\ session'.via = "direct"]_vars

\* When the jump host is itself a profile, the session starts with a good write of
\* the managed file, and ssh is given that file alone.  Unless another window
\* writes, or a write fails, before ssh reads it, nothing that the user's own
\* configuration says leads the session elsewhere, or round its jump host.
SavedJumpIsReached ==
    [][Connects /\ ~lost /\ session.jumpPorts # {} =>
          /\ session'.to \in IF ByAlias THEN PortsNow(AliasOf[session.id]) ELSE {session.profile.port}
          /\ \E jump \in JumpHosts :
                session'.via \in IF jump = None THEN {"direct"} ELSE PortsNow(jump)]_vars

\* An Include of the managed file is in ~/.ssh/config only when that is what the
\* user said last, in answer to a question or by hand: a refusal is respected
\* until the user changes it, and so is a line that the user took out.
ConsentBeforeInclude == HasInclude(userConfig) => wanted

\* "Your existing SSH settings will remain unchanged": whatever Waypane writes,
\* hosts that are no profiles keep their settings, the user's lines stay, and
\* an Include that is written stands once and takes effect.
OwnLines(config) == Only(config, Heads \cup Ports)
InstallKeepsSettings ==
    [][EditByHand \/
          /\ \A host \in {OtherHost, Address} :
                FirstPort(userConfig', managed', host) = FirstPort(userConfig, managed, host)
          /\ OwnLines(userConfig') = OwnLines(userConfig)
          /\ userConfig' # userConfig =>
                IsIncluded(userConfig') /\ Cardinality(Includes(userConfig')) = 1]_vars
==============================================================================
