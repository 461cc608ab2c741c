SPECIFICATION Spec
CONSTANTS
    db = db
    edge = edge
    dbAlias = dbAlias
    edgeAlias = edgeAlias
    alt = alt
    userPort = userPort
    DefaultPort = std
    OtherHost = OtherHost
    Address = Address
    AnyHost = AnyHost
    MatchAll = MatchAll
    None = None
    Ids = {db, edge}
    Imported = {edge}
    Secret = {db}
    Ports = {std, alt, userPort}
    AliasOf <- MCAliasOf
    Editions <- MCEditions
    UserConfigs <- MCUserConfigs
INVARIANTS LaunchKeepsPromises ConsentBeforeInclude
PROPERTIES SessionReachesProfile SavedJumpIsReached InstallKeepsSettings
