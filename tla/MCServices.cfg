CONSTANTS
    Downloads = {d1}
    Size = 3
    BufferSize = 1
    Tries = 2
    MaxQueueSize = 1
    Hooks = {h1, h2, h3}
    NrMachines = 2
    MaxJobs <- OneAndTwo
    SpeedFactor <- OneAndTwo
    Suits <- AllButOne
    NoHook = NoHook
    Kinds = {"plain", "silent", "nar", "framed", "checked"}
    MaxOps = 2
    MaxFrames = 2
    MaxLogs = 2
    UpSize = 1
    DownSize = 4
    Characters = {0, 1, 2}
    MaxLength = 5
    RefLength = 2
    Hashes <- TwoHashes
    Rewrites <- TwoRewrites
    Threads = {t1}
    Procs = {P1}
    ProcOf <- OwnProcess
    Paths = {a}
    Refs <- NoRefs
    Targets <- AllPaths
    InitialStore <- AllPaths
    None = None
SPECIFICATION ServicesSpec
CHECK_DEADLOCK FALSE
INVARIANTS
    CallbackOnce
    SinkExact
    BestMachineChosen
    InStep
    ScanExact
    RewriteExact
PROPERTIES
    DownloadReturns
    HookAnswers
    OperationEnds
    AddTempRootReturns
