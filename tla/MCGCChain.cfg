CONSTANTS
    t1 = t1
    t2 = t2
    P1 = P1
    a = a
    b = b
    None = None
    Threads = {t1}
    Procs = {P1}
    ProcOf <- OneThread
    Paths = {a, b}
    Refs <- Chain
    Targets <- AnySet
    InitialStore <- Closures
SPECIFICATION Spec
INVARIANTS
    TypeOK
    Closed
    Protected
    ValidOnDisk
