\* Liveness: a SIGKILL, processes that try to block it, and waits for any child.
CONSTANTS
    NULL = NULL
    NR_TASKS = 4
    MaxPid = 4
    Sig = {1, 9, 17}
    Ops = {"kill", "ssetmask"}
    Masks = {{9, 17}}
    Fns = {"FUN"}
    KillSigs = {9}
    KillArgs = {2}
    WaitArgs <- AnyChild
    GroupArgs = {0, 2}
    SpareInit = TRUE
    SuperUser = FALSE
    MaxCalls = 2
SPECIFICATION FairSpec
PROPERTIES
    KillIsFinal
    TableDrains
CHECK_DEADLOCK FALSE
