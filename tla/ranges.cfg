SPECIFICATION FairDownload
CONSTANTS
    Totals <- SomeTotals
    Splits <- SomeSplits
    Connections <- SomeConnections
    Sizes <- SomeSizes
    Fetched <- SomeFetched
    MirrorLists <- SomeLists
    Good = {"good"}
    MaxMirrors = 2
    MaxEdits = 1
    None = None
CHECK_DEADLOCK FALSE
INVARIANTS
    Partition
    OptionsRespected
    OutcomeIsTrue
PROPERTIES
    AlwaysReturns
