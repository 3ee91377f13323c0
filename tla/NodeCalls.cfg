SPECIFICATION FairNodeSpec
CONSTANTS
    Accounts <- MCAccounts
    Shards = {0, 1}
    ShardOf <- MCShardOf
    MaxNonce = 0
    Contracts <- MCContracts
    DNSAddresses = {"dns"}
    InitOwner <- MCInitOwner
    Names = {"first", "second"}
    EnableChange = FALSE
    GasCost = 2
    GasProvided = {1, 5}
    CallSlots = 2
    MaxRewards = 2
    Word = 16
    ByteStrings <- MCByteStrings
    TokenIDs <- MCTokenIDs
    ProtectedKeys <- MCProtectedKeys
    Size <- MCSize
    InitMetadata <- MCInitMetadata
    DeleteLists <- MCDeleteLists
    AddLists <- MCAddLists
    PairLists <- MCPairLists
    FuncCost = 1
    PersistPerByte = 1
    StorePerByte = 1
    GasLimits = {3, 4, 8, 15}
    MaxNumber = 164
    ByteCount <- MCByteCount
    Requests <- MCRequests
    OtherCalls <- MCOtherCalls
    MaxLength = 2
    MarshalledLength = 4
    MaxCalls = 3
    LoopWeight = 2
    TransferWeight = 3
INVARIANTS
    RewardsConserved
    GasReturnedOnce
    ListsDoneExactly
    WritesArePaid
    SaidAsExecuted
    ReadAsMeant
PROPERTIES
    PaidToOwner
    LoopsEnd
    CallsSettle
CHECK_DEADLOCK FALSE
