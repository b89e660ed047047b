CONSTANTS
    Task = {t1, t2}
    Name = {a, b}
    NInode = 3
    NBlock = 3
    PerBlock = 1
    None = None
    Go = FALSE
    Ops = {"open", "creat", "trunc", "mknod", "mkdir", "rmdir", "unlink", "link"}
    MaxCalls = 4
SPECIFICATION Spec
SYMMETRY Sym
INVARIANTS
    LinkCounts
    
CHECK_DEADLOCK FALSE
