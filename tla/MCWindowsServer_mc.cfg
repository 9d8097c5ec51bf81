CONSTANTS
    a = a
    b = b
    Paths = {a, b}
    NoPath = NoPath
    Command = Command
    Requests <- OneOrBoth
    Changes = 3
    Calls = 3
SPECIFICATION FairSpec
INVARIANTS
    TypeOK
    ChangesAreCarried
    MemoryOutlivesUse
    ReadsEndBeforeRunLoop
PROPERTIES
    CommandsAnswered
    ChangesAreTold
    TerminationCompletes
CHECK_DEADLOCK FALSE
