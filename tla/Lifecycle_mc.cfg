SPECIFICATION FairSpec
CONSTANTS
    InitializeMayFail = TRUE
    CallsAreCommands = TRUE
INVARIANTS
    TypeOK
    ServerOutlivesRunLoopUnlessWoken
    NoLostNotification
PROPERTIES
    ContractSpec
    ShutdownEndsThread
    AwaitReturns
CHECK_DEADLOCK FALSE
