SPECIFICATION Spec
CONSTANTS
    InitializeMayFail = TRUE
    CallsAreCommands = FALSE
INVARIANT
    ServerOutlivesRunLoop
CHECK_DEADLOCK FALSE
