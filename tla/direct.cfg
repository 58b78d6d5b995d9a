SPECIFICATION Spec
CONSTANTS
    Kinds = {"ftp", "sftp", "file"}
    Runs <- TwoRuns
    Total = 2
    Leftovers <- NoLeftoverOrOne
    MaxMirrors = 2
    Modes = {"continue", "overwrite", "reject"}
    Allocs = {TRUE, FALSE}
    Calls = {"pause", "remove", "option", "uri", "restart"}
    None = None
CHECK_DEADLOCK FALSE
INVARIANTS
    SoleRunIsWhole
PROPERTIES
    KeepsContract
