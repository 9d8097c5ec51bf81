CONSTANTS
    a = a
    b = b
    l = l
    Dirs = {a}
    Links = {}
    LinkTo <- NoLink
    Inodes = {i1}
    NoInode = NoInode
    NoPath = NoPath
    Users = {u1}
    RunLoop = RunLoop
    Free = Free
    Requests <- OnePath
    MaxWd = 1
    QueueLimit = 1
    BufferSize = 2
    Modulus = 8
    Contents = {"change"}
    Changes = 3
    Calls = 2
SPECIFICATION Spec
INVARIANT CancelledExpectsIgnored
CHECK_DEADLOCK FALSE
