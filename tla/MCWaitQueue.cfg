\* Both kinds of sleep, with and without interrupts; all tasks share all
\* queues and receive signals.
CONSTANTS
    NULL = NULL
    t1 = t1  t2 = t2  t3 = t3
    u = u  v = v  i = i  j = j
    Task = {t1, t2, t3}
    Queue = {u, v, i, j}
    IQueue = {i, j}
    Open = {v, j}
SPECIFICATION WqFairSpec
CONSTRAINT UntilTrouble
INVARIANTS
    TmpIsSleeping
    NoLostSleeper
PROPERTIES
    ExitIsFinal
    WokenChainRuns
CHECK_DEADLOCK FALSE
