SPECIFICATION FairSpec
CONSTANTS
    Accounts <- MCAccounts
    Shards = {0, 1}
    ShardOf <- MCShardOf
    Roles <- MCRoles
    InitRoles <- MCInitRoles
    InitCreator = "alice"
    RoleSets <- MCNone
    MultiShard = FALSE
    LastByte <- MCLastByte
    RangeSize = 0
    SerialHandover = TRUE
    MaxNonce = 1
    MaxCopies = 1
    MaxHandovers = 0
    MaxTransferAddresses = 1
    ConfigShard = 0
    InitFlags <- MCCurrentFlags
    LaterFlags <- MCNone
    Contracts = {"carol"}
    Quantities = {1, 2}
    MaxSupply = 2
    Slots = 1
    Base = 256
    Separator = 45
    Operations = {"create", "transfer", "update", "metadata", "paused", "limitedTransfer", "addresses", "burnRoleForAll", "burn"}
INVARIANTS
    ReturnsAreAccepted
PROPERTIES
    HeldStillStands
CHECK_DEADLOCK FALSE
