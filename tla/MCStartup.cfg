SPECIFICATION MCSpec
CONSTANTS
    Args <- MCArgs
    Envs <- MCEnvs
    Disks <- MCDisks
    Paths <- MCPaths
    Numbers <- MCNumbers
    ChannelIDs = {"id1", "id2"}
    Prefixed <- MCPrefixed
    Sensitive = {"EXP_KEY", "TOKEN"}
    Rank <- MCRank
    MaxMetadata = 2
    Statuses = {0, 3, 255}
    PipeSize = 2
    MaxPieces = 3
    Environments <- MCEnvironments
    Lists <- MCLists
    Booleans <- MCBooleans
    Lower <- MCLower
INVARIANTS Safety Precedence CommandUntouched StartIsValid ExitIsHonest UsableConfig AllowlistBinds
PROPERTY Returns
CHECK_DEADLOCK FALSE
