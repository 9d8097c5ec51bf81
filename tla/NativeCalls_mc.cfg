CONSTANTS
    Users = {u1}
    RunLoop = RunLoop
SPECIFICATION Spec
INVARIANTS
    JniCallsUnpended
    FailuresArrive
    EscapesAreKnown
CHECK_DEADLOCK FALSE
