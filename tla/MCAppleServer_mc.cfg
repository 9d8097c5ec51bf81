CONSTANTS
    a = a
    b = b
    Paths = {a, b}
    ErrorEvent = ErrorEvent
    PoisonPill = PoisonPill
    NoItem = NoItem
    Raised <- CreatedMetadataOrDropped
    Requests <- OneOrBoth
    Changes = 2
    Calls = 3
SPECIFICATION FairSpec
INVARIANTS
    TypeOK
    PillIsLast
    CallbacksFindServer
    RunLoopIsReached
PROPERTIES
    EventsInOrder
    ChangesStayDue
    ChangesAreTold
    ShutdownCompletes
CHECK_DEADLOCK FALSE
