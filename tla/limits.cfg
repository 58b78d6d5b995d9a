SPECIFICATION FairSpec
CONSTANTS
    Second = 1
    Kinds = {"http", "ftp"}
    Tasks = {"t", "u"}
    Limiters = {"l", "m"}
    Rates <- Speeds
    Fastest = 2
    Blocks <- SomeBlocks
    None = "nil"
CHECK_DEADLOCK FALSE
INVARIANTS
    OverallRespected
PROPERTIES
    SomebodyPasses
