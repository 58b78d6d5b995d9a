SPECIFICATION FairSpec
CONSTANTS
    Runs <- TwoRuns
    Total = 2
    MaxTries = 2
    Segmented = TRUE
    Ranged = TRUE
    Prealloc = FALSE
    Checksum = TRUE
    SpeedLimit = TRUE
    Modes = {"continue", "overwrite", "reject"}
    Leftover = 1
    Calls = {"pause", "remove", "restart", "rename"}
    None = None
CHECK_DEADLOCK FALSE
INVARIANTS
    CompleteIsEarned
PROPERTIES
    KeepsContract
    RunsSettle
