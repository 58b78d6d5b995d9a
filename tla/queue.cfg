SPECIFICATION ShapedSpec
CONSTANTS
    Downloads <- ThreeTasks
    Clients = {"p", "q"}
    Limit = 1
    Modes <- AllModes
    Positions <- Places
    Restarts = TRUE
    Tick = 10
    Second = 14
    LastReading = 40
    Nobody = Nobody
CHECK_DEADLOCK FALSE
INVARIANTS
    PagesCover
PROPERTIES
    MoveIsExact
