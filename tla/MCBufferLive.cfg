\* Data and liveness: readers, writers of parts of blocks, sync and demand paging.
\* A task may hold one buffer while it waits for a second; buffers must be
\* written back (sync_dev) to get one.
CONSTANTS
    NULL = NULL
    Task = {t1, t2}
    Queue <- MCQueue
    NR_BUFFERS = 2
    NR_REQUEST = 2
    Block <- Apart
    Driver = {2, 3}
    Ops = {"file_read", "block_write", "sys_sync", "bread_page"}
    MaxOps = 3
    MaxErrors = 0
SPECIFICATION FairSpec
INVARIANTS
    ReadSeesLastWrite
    CleanIsOnDisk
PROPERTY
    EveryCallReturns
