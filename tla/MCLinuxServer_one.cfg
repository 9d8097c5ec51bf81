CONSTANTS
    a = a
    b = b
    l = l
    Dirs = {a, b}
    Links = {}
    LinkTo <- NoLink
    Inodes = {i1, i2}
    NoInode = NoInode
    NoPath = NoPath
    Users = {u1}
    RunLoop = RunLoop
    Free = Free
    Requests <- TwoPaths
    MaxWd = 2
    QueueLimit = 3
    BufferSize = 2
    Modulus = 8
    Contents = {"change", "bad_name"}
    Changes = 4
    Calls = 3
SPECIFICATION Spec
INVARIANTS
    TypeOK
    NoLeakedWatch
    RetirementPending
    NoUnknownDescriptor
    NoStaleReport
PROPERTIES
    DescriptorsSpec
    DroppedAreNotWatched
    MovedAreDroppedUnlessReplaced
CHECK_DEADLOCK FALSE
