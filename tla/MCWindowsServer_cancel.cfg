CONSTANTS
    a = a
    b = b
    Paths = {a}
    NoPath = NoPath
    Command = Command
    Requests <- JustOne
    Changes = 2
    Calls = 2
SPECIFICATION Spec
INVARIANTS
    CancelledExpectsAbort
CHECK_DEADLOCK FALSE
