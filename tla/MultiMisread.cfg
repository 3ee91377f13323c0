SPECIFICATION MultiSpec
CONSTANTS
    Accounts <- MCTwoAccounts
    Shards = {0, 1}
    ShardOf <- MCTwoShardOf
    Roles <- MCRoles
    InitRoles <- MCTwoInitRoles
    InitCreator = "alice"
    RoleSets <- MCNone
    MultiShard = FALSE
    LastByte <- MCTwoLastByte
    RangeSize = 0
    SerialHandover = TRUE
    MaxNonce = 1
    MaxCopies = 1
    MaxHandovers = 0
    MaxTransferAddresses = 1
    ConfigShard = 0
    InitFlags <- MCOldFlags
    LaterFlags <- MCMoveFlags
    Contracts = {}
    Quantities = {2, 4}
    MaxSupply = 4
    Slots = 1
    MultiSlots = 1
    MaxItems = 1
    Excess = 1
    Lists <- MCSingles
    Base = 256
    Separator = 45
    Operations = {"create", "transfer", "multi"}
INVARIANTS
    MultiSupplyConserved
CHECK_DEADLOCK FALSE
