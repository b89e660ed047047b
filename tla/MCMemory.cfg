SPECIFICATION Spec
CONSTANTS
    NR_TASKS = 3
    NR_PAGES = 9
    NR_ADDR = 2
    PerTable = 1
    EndData = 1
    Exec = {e1}
    MaxFork = 2
    MaxExec = 2
    MaxOdd = 2
    NULL = NULL
VIEW Looked
INVARIANTS RefCounts WritableUnshared PrivateView
CHECK_DEADLOCK FALSE
