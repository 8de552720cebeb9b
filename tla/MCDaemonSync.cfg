CONSTANTS
    Kinds = {"plain", "silent", "nar", "framed", "checked"}
    MaxOps = 2
    MaxFrames = 2
    MaxLogs = 1
    UpSize = 1
    DownSize = 3
SPECIFICATION DaemonSpec
CHECK_DEADLOCK FALSE
INVARIANT AlwaysInStep
