SPECIFICATION FairRolesSpec
CONSTANTS
    Accounts <- MCAccounts
    Shards = {0, 1}
    ShardOf <- MCShardOf
    Roles <- MCRoles
    InitRoles <- MCOneCreator
    InitCreator = "alice"
    RoleSets <- MCOtherRoles
    MultiShard = FALSE
    LastByte <- MCSameByte
    RangeSize = 4
    SerialHandover = TRUE
    MaxNonce = 3
    MaxCopies = 2
    Nobody = Nobody
    MaxHandovers = 3
INVARIANTS
    RolesTypeOK
    NonceNeverReused
    UniqueCreator
    CreatorKnowsEveryNonce
    RecordedOwnerCreates
PROPERTIES
    HandoverCompletes
    ImplementsNonceSequence
CHECK_DEADLOCK FALSE
