CONSTANTS
    Capacity = 3
    Paths = {p1, p2}
    NoPath = NoPath
    MaxReports = 6
SPECIFICATION FairSpec
INVARIANTS TypeOK ForcedOffersSucceed TerminationIsFinal
PROPERTIES TerminationArrives ChannelSpec
CHECK_DEADLOCK FALSE
