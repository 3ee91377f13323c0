SPECIFICATION FairGasSpec
CONSTANTS
    BuiltInFunctions = {"DCTNFTCreate", "DCTNFTTransfer"}
    Executions = {1, 2, 3}
    MaxSchedule = 2
INVARIANTS
    OneScheduleEach
    NoOldSchedule
PROPERTIES
    ChangeReturns
