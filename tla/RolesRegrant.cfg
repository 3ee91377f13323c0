SPECIFICATION RolesSpec
CONSTANTS
    Accounts <- MCTwoAccounts
    Shards = {0, 1}
    ShardOf <- MCTwoShardOf
    Roles <- MCRoles
    InitRoles <- MCTwoCreators
    InitCreator = "alice"
    RoleSets <- MCCreatorRoles
    MultiShard = TRUE
    LastByte <- MCDistinctBytes
    RangeSize = 4
    SerialHandover = TRUE
    MaxNonce = 7
    MaxCopies = 1
    Nobody = Nobody
    MaxHandovers = 0
INVARIANTS
    NonceNeverReused
CHECK_DEADLOCK FALSE
