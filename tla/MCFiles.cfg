CONSTANTS
    Optimisers = {f1, f2, f3}
    OtherFiles = {g1}
    Repairing = {f1}
    NoInode = NoInode
    Installers = {n1, n2}
    Updaters = {u1}
    Managers = {m1}
    MaxGeneration = 4
    Owners = {o1}
    Scanners = {c1, c2}
    NoOne = NoOne
    Builders = {"b1", "b2"}
    Builds <- SomeBuilds
    Sources <- OneSource
    NoPath = NoPath
    Repos = {"b", "c", "d"}
    TopFlakes <- FlakesOfTop
    RepoFlakes <- FlakesOfRepos
    Commands <- SomeCommands
    MaxCommands = 3
    NoLock = NoLock
    Failed = Failed
SPECIFICATION FilesSpec
CHECK_DEADLOCK FALSE
INVARIANTS
    ContentsKept
    CurrentExists
    NoLostUpdate
    LiveRootsFound
    RegisteredExactly
    LockIsStable
    LockIsFaithful
PROPERTIES
    GenerationsKept
    PinsKept
