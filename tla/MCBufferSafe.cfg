\* All operations, I/O errors, two devices: what holds in every case.
CONSTANTS
    NULL = NULL
    Task = {t1, t2}
    Queue <- MCQueue
    NR_BUFFERS = 2
    NR_REQUEST = 2
    Block <- TwoDisks
    Driver = {2, 3}
    Ops <- AllOps
    MaxOps = 3
    MaxErrors = 1
SPECIFICATION Spec
SYMMETRY Symmetry
INVARIANTS
    UniqueBlock
    CountIsUsers
    LockHasOneOwner
    NoSleeperLost
PROPERTIES
    HeldBlockStays
