CONSTANTS
    Task = {t1, t2}
    NR_INODE = 4
    NR_SUPER = 2
    Dev = {1, 2}
    ROOT_DEV = 1
    Num = {1, 2, 3}
    InitLinks <- MCLinks
    BlkFile <- MCBlk
    None = None
    Go = FALSE
    MaxHeld = 1
    MaxLinks = 2
    MaxCalls = 5
SPECIFICATION InoSpec
SYMMETRY Sym
INVARIANTS
    UniqueInode
    CountIsUsers
    LinksKnown
    NeverPanics
CHECK_DEADLOCK FALSE
