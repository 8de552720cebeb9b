CONSTANTS
    t1 = t1
    t2 = t2
    P1 = P1
    a = a
    b = b
    None = None
    Threads = {t1, t2}
    Procs = {P1}
    ProcOf <- OneProc
    Paths = {a, b}
    Refs <- NoRefs
    Targets <- All
    InitialStore <- Full
SPECIFICATION Spec
INVARIANT LockedRootsKnown
