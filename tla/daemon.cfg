SPECIFICATION TwoSpec
CONSTANTS
    Savers = {"http", "socket", "main", "persist", "sync"}
    HttpClients = {"http"}
    SocketClients = {"socket"}
    Bodies <- SomeBodies
    Configs <- SomeConfigs
    Versions = 2
    TaskCount <- Counts
    Inodes <- SomeInodes
    CrashBound = 1
    None = None
CHECK_DEADLOCK FALSE
INVARIANTS
    NeverTorn
    SavedIsKept
    CallsAnswered
    OrderlyExit
PROPERTIES
    ShutdownEnds
    SlotsRefilled
