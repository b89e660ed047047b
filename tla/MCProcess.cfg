\* All calls once, with pids that start again at 1: what holds in every case.
CONSTANTS
    NULL = NULL
    NR_TASKS = 4
    MaxPid = 4
    Sig = {1, 9, 17}
    Ops <- AllOps
    Masks = {{}, {17}}
    Fns = {"FUN"}
    KillSigs = {9, 17}
    KillArgs <- MCKillArgs
    WaitArgs <- MCWaitArgs
    GroupArgs = {0, 2}
    SpareInit = TRUE
    SuperUser = FALSE
    MaxCalls = 1
SPECIFICATION Spec
INVARIANTS
    FatherThere
    WaiterKnows
CHECK_DEADLOCK FALSE
