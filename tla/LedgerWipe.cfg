SPECIFICATION FairSpec
CONSTANTS
    Accounts <- MCAccounts
    Shards = {0, 1}
    ShardOf <- MCShardOf
    Roles <- MCRoles
    InitRoles <- MCInitRoles
    InitCreator = "alice"
    RoleSets <- MCNone
    MultiShard = FALSE
    LastByte <- MCLastByte
    RangeSize = 0
    SerialHandover = TRUE
    MaxNonce = 2
    MaxCopies = 1
    MaxHandovers = 0
    MaxTransferAddresses = 1
    ConfigShard = 0
    InitFlags <- MCCurrentFlags
    LaterFlags <- MCNone
    Contracts = {"carol"}
    Quantities = {1, 2}
    MaxSupply = 3
    Slots = 2
    Base = 4
    Separator = 2
    Operations = {"create", "freeze", "wipe"}
INVARIANTS
    LiquidityMatchesHoldings
CHECK_DEADLOCK FALSE
