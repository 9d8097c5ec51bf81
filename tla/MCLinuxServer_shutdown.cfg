CONSTANTS
    a = a
    b = b
    l = l
    Dirs = {a}
    Links = {}
    LinkTo <- NoLink
    Inodes = {i1}
    NoInode = NoInode
    NoPath = NoPath
    Users = {u1}
    RunLoop = RunLoop
    Free = Free
    Requests <- OnePath
    MaxWd = 1
    QueueLimit = 2
    BufferSize = 2
    Modulus = 8
    Contents = {"change"}
    Changes = 2
    Calls = 1
SPECIFICATION Spec
INVARIANT NoEventsAfterShutdown
CHECK_DEADLOCK FALSE
