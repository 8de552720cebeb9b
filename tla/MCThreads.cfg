CONSTANTS
    MainThread = m
    Workers = {w1, w2}
    Items = {1, 2, 3}
    None = None
    Graphs <- SomeGraphs
    Clients = {c1, c2, c3}
    Nesting = {c1, c2}
    MaxConnections = 1
    Elements = {1, 2, 3}
    EdgeSets <- NoLoops
    Starts = {{1}, {1, 2}}
    StorePaths = {s1, s2}
    Queriers = {q1, q2}
    Capacity = 1
    Values = {1, 2, 3}
    Programs <- SomePrograms
    AppSets = {{}, {1}}
    MaxCallDepth = 1
    MaxForces = 2
    Thunk = Thunk
    BlackHole = BlackHole
    Thrown = Thrown
    Recursion = Recursion
SPECIFICATION ThreadsSpec
CHECK_DEADLOCK FALSE
INVARIANTS
    DependenciesFirst
    CompleteOrCyclic
    ConnectionsExclusive
    CacheCoherent
    ForcedAgrees
PROPERTIES
    GraphReturns
    ClientsDone
    ClosureReturns
