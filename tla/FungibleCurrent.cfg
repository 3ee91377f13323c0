SPECIFICATION FairSpec
CONSTANTS
    Accounts <- MCAccounts
    Shards = {0, 1}
    ShardOf <- MCShardOf
    Roles <- MCRoles
    InitRoles <- MCInitRoles
    InitCreator = "alice"
    RoleSets <- MCRoleSets
    MultiShard = TRUE
    LastByte <- MCLastByte
    RangeSize = 0
    SerialHandover = TRUE
    MaxNonce = 0
    MaxCopies = 1
    MaxHandovers = 0
    MaxTransferAddresses = 1
    InitFlags <- MCCurrentFlags
    LaterFlags <- MCNone
    Contracts = {"carol"}
    Quantities = {1, 2}
    MaxSupply = 2
    Slots = 2
    Operations = {"mint", "localBurn", "burn", "transfer", "freeze", "wipe", "paused", "limitedTransfer"}
INVARIANTS
    TypeOK
    SupplyConserved
    ReturnsAreAccepted
PROPERTIES
    HeldStillStands
    TransfersSettle
CHECK_DEADLOCK FALSE
