CONSTANTS
    Procs = {p1, p2}
    Paths = {1, 2}
    Inodes = {i1, i2, i3}
    None = None
SPECIFICATION FairSpec
PROPERTIES
    SomebodyProceeds
    ImplementsLock
INVARIANTS
    TypeOK
    MutualExclusion
    WaiterSeesDeletion
