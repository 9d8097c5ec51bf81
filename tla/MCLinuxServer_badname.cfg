CONSTANTS
    a = a
    b = b
    l = l
    Dirs = {a}
    Links = {}
    LinkTo <- NoLink
    Inodes = {i1}
    NoInode = NoInode
    NoPath = NoPath
    Users = {u1}
    RunLoop = RunLoop
    Free = Free
    Requests <- OnePath
    MaxWd = 1
    QueueLimit = 4
    BufferSize = 4
    Modulus = 8
    Contents = {"bad_name"}
    Changes = 4
    Calls = 2
SPECIFICATION Spec
INVARIANT DeletedUnregisters
CHECK_DEADLOCK FALSE
