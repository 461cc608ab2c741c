---------------------------- MODULE MCSshSessions ----------------------------
(* A profile with a secret and an imported one, each of which may be the jump  *)
(* host of the other, and the ways ~/.ssh/config may stand around an Include.  *)
EXTENDS SshSessions
CONSTANTS db, edge, dbAlias, edgeAlias, alt, userPort
MCAliasOf == (db :> dbAlias) @@ (edge :> edgeAlias)
MCEditions ==
    (db :> {[port |-> DefaultPort, jump |-> None, legacy |-> FALSE],
            [port |-> alt, jump |-> edgeAlias, legacy |-> FALSE]})
    @@ (edge :> {[port |-> DefaultPort, jump |-> dbAlias, legacy |-> FALSE],
                 [port |-> alt, jump |-> None, legacy |-> TRUE]})
MCUserConfigs ==
    {<<>>, <<"blank", edgeAlias, userPort>>, <<AnyHost, userPort, "marker", "include", OtherHost, DefaultPort>>,
     <<"include", "blank", edgeAlias, userPort, MatchAll, DefaultPort, "include">>,
     <<userPort, OtherHost, "include", DefaultPort, edgeAlias>>}
==============================================================================
