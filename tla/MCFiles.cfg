CONSTANTS
    Task = {t1, t2}
    None = None
    NR_OPEN = 3
    NR_FILE = 3
    PAGE_SIZE = 3
    BLOCK_SIZE = 2
    MaxSize = 3
    Count = {1, 3}
    Go = FALSE
    MaxCalls = 4
SPECIFICATION Spec
INVARIANTS
    FileCounts
    RightBytes
PROPERTIES
    PipeSleeperWoken
CHECK_DEADLOCK FALSE
