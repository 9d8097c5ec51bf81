CONSTANTS
    a = a
    b = b
    l = l
    Dirs = {a}
    Links = {l}
    LinkTo <- ToA
    Inodes = {i1}
    NoInode = NoInode
    NoPath = NoPath
    Users = {u1, u2}
    RunLoop = RunLoop
    Free = Free
    Requests <- LinkAndDir
    MaxWd = 2
    QueueLimit = 2
    BufferSize = 2
    Modulus = 8
    Contents = {"change"}
    Changes = 2
    Calls = 4
SPECIFICATION FairSpec
INVARIANTS
    Inductive
PROPERTIES
    CancelledRetires
    ShutdownCompletes
CHECK_DEADLOCK FALSE
