------------------------------ MODULE SshConfig ------------------------------
(* The two configuration files of OpenSSH that Waypane writes, as values: its  *)
(* own, rendered from the profiles, and ~/.ssh/config, to whose top it adds an *)
(* Include of the first.  One option, the port, stands for all of them.        *)
(* Sources: src/src/core/managedsshconfig.cpp, opensshconfigimporter.cpp; what *)
(* ssh makes of the files is external.                                         *)
EXTENDS Naturals, Sequences, FiniteSets, FiniteSetsExt, SequencesExt, Filters

CONSTANTS
    Ids,         \* profile ids
    Imported,    \* ids the importer derives from an alias of ~/.ssh/config
    AliasOf,     \* aliasFor: the alias of each id
    OtherHost,   \* a host that only ~/.ssh/config knows
    Address,     \* a destination that no Host line of ~/.ssh/config names
    AnyHost,     \* the pattern "*"
    MatchAll,    \* the line "Match all"
    Ports,
    DefaultPort, \* 22
    None         \* no jump host, no such host

Aliases == {AliasOf[p] : p \in Ids}
Heads == Aliases \cup {OtherHost, AnyHost, MatchAll}

\* UUIDs keep all their characters in an alias; the importer's are derived from
\* the alias, one for each.
ASSUME ConfigAssumption ==
    /\ Imported \subseteq Ids /\ DefaultPort \in Ports
    /\ \A p, q \in Ids : AliasOf[p] = AliasOf[q] => p = q
    /\ OtherHost \notin Aliases /\ Address \notin Heads
    /\ (Ports \cup {"blank", "marker", "include"}) \cap Heads = {}
    /\ Ports \cap {"blank", "marker", "include"} = {}
    /\ None \notin Ports \cup Heads \cup Ids \cup {Address}

Profile == [port : Ports, jump : Aliases \cup {None}, legacy : BOOLEAN]
Documents == UNION {[S -> Profile] : S \in SUBSET Ids}

\* The lines of ~/.ssh/config.
Lines == {"blank", "marker", "include"} \cup Heads \cup Ports

\* The ids an alias stands for in a list of profiles.
Named(list, alias) == {p \in DOMAIN list : AliasOf[p] = alias}

\* ManagedSshConfig::render: a Host block for each alias, with its port.
Render(list) ==
    [alias \in {AliasOf[p] : p \in DOMAIN list} |->
        LET profile == list[CHOOSE p \in Named(list, alias) : TRUE]
        IN  [port |-> profile.port, jump |-> profile.jump]]

------------------------------------------------------------------------------
\* ManagedSshConfig::isIncluded: the first Include of the managed file decides,
\* and it must stand before every Host and Match line.
Includes(config) == {i \in DOMAIN config : config[i] = "include"}
HasInclude(config) == Includes(config) # {}
IsIncluded(config) ==
    HasInclude(config) /\ \A i \in 1..Min(Includes(config)) : config[i] \notin Heads

DropBlanks(config) ==
    LET own == {i \in DOMAIN config : config[i] # "blank"}
    IN  IF own = {} THEN <<>> ELSE SubSeq(config, Min(own), Len(config))

\* Fault: what precedes an old Include is dropped.
IncludeDropsTop(config) ==
    IF HasInclude(config)
    THEN <<"marker", "include", "blank">> \o SubSeq(config, Max(Includes(config)) + 1, Len(config))
    ELSE <<"marker", "include", "blank">> \o config

\* ManagedSshConfig::installInclude.
Install(config) ==
    IF IsIncluded(config) THEN config
    ELSE <<"marker", "include", "blank">>
         \o DropBlanks(Only(config, Lines \ {"marker", "include"}))

\* OpenSshConfigImporter::importFile: for each alias without a wildcard the last
\* port of its block; lines before the first block and those of other patterns
\* are ignored, a Match line is skipped and ends no block, and of two blocks of
\* one alias the later replaces the earlier.
Block(config, head) ==
    LET next == {i \in DOMAIN config : i > head /\ config[i] \in Heads \ {MatchAll}}
    IN  SubSeq(config, head + 1, IF next = {} THEN Len(config) ELSE Min(next) - 1)
LastPort(block) ==
    LET ports == Only(block, Ports)
    IN  IF ports = <<>> THEN DefaultPort ELSE Last(ports)
ImportedIds(config) == {p \in Imported : \E i \in DOMAIN config : config[i] = AliasOf[p]}
ImportFile(config) ==
    [p \in ImportedIds(config) |->
        [port |-> LastPort(Block(config, Max({i \in DOMAIN config : config[i] = AliasOf[p]}))),
         jump |-> None, legacy |-> FALSE]]

------------------------------------------------------------------------------
\* How ssh reads ~/.ssh/config for a host: the first value in a block that
\* applies wins, and an Include stands for the managed file's block of the host.
Applies(config, i, host) ==
    LET heads == {j \in 1..i - 1 : config[j] \in Heads}
    IN  heads = {} \/ config[Max(heads)] \in {host, AnyHost, MatchAll}
Setters(config, managed, host) ==
    {i \in DOMAIN config :
        /\ Applies(config, i, host)
        /\ config[i] \in Ports \/ (config[i] = "include" /\ host \in DOMAIN managed)}
FirstPort(config, managed, host) ==
    LET setters == Setters(config, managed, host)
    IN  IF setters = {} THEN DefaultPort
        ELSE LET line == config[Min(setters)]
             IN  IF line = "include" THEN managed[host].port ELSE line

\* ssh meets the managed block of an alias.
Meets(config, managed, alias) ==
    alias \in DOMAIN managed /\ \E i \in Includes(config) : Applies(config, i, alias)
==============================================================================
