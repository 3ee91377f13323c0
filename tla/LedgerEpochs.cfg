SPECIFICATION FairSpec
CONSTANTS
    Accounts <- MCAccounts
    Shards = {0, 1}
    ShardOf <- MCShardOf
    Roles <- MCRoles
    InitRoles <- MCInitRoles
    InitCreator = "alice"
    RoleSets <- MCNone
    MultiShard = FALSE
    LastByte <- MCLastByte
    RangeSize = 0
    SerialHandover = TRUE
    MaxNonce = 1
    MaxCopies = 1
    MaxHandovers = 2
    MaxTransferAddresses = 1
    ConfigShard = 0
    InitFlags <- MCSavedFlags
    LaterFlags <- MCLaterFlags
    Contracts = {"bob", "carol"}
    Quantities = {1, 2}
    MaxSupply = 3
    Slots = 2
    Base = 256
    Separator = 45
    Operations = {"create", "transfer", "burn", "update"}
INVARIANTS
    MetaDataReachesHolders
    LiquidityMatchesHoldings
PROPERTIES
    CreatedInEmptyPlace
CHECK_DEADLOCK FALSE
