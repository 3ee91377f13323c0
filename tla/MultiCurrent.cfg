SPECIFICATION FairMultiSpec
CONSTANTS
    Accounts <- MCAccounts
    Shards = {0, 1}
    ShardOf <- MCShardOf
    Roles <- MCRoles
    InitRoles <- MCInitRoles
    InitCreator = "alice"
    RoleSets <- MCNone
    MultiShard = FALSE
    LastByte <- MCLastByte
    RangeSize = 0
    SerialHandover = TRUE
    MaxNonce = 2
    MaxCopies = 1
    MaxHandovers = 0
    MaxTransferAddresses = 1
    ConfigShard = 0
    InitFlags <- MCCurrentFlags
    LaterFlags <- MCNone
    Contracts = {"carol"}
    Quantities = {2}
    MaxSupply = 2
    Slots = 1
    MultiSlots = 1
    MaxItems = 2
    Excess = 1
    Lists <- MCLists
    Base = 256
    Separator = 45
    Operations = {"create", "transfer", "multi", "freeze", "wipe"}
INVARIANTS
    MultiTypeOK
    MultiSupplyConserved
    LiquidityMatchesHoldings
    MultiMetaDataReachesHolders
    MultiReturnsAreAccepted
PROPERTIES
    MultiTransfersSettle
CONSTRAINT
    FewFrozen
CHECK_DEADLOCK FALSE
