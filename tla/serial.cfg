SPECIFICATION Spec
CONSTANTS
    c1 = c1
    c2 = c2
    c3 = c3
    m1 = m1
    m2 = m2
    m3 = m3
    None = None
    Tasks <- ThreeTasks
    Procs <- SerialProcs
    May <- SerialMay
    InitialTasks <- OneTask
    MaxConcurrent = 1
    FinishStatus = {"complete", "error"}
    RemoveMayFail = TRUE
    Losable <- SecondTask
    StopBound = 1
    Mutexes <- ThreeMutexes
INVARIANTS
    TypeOK
    CountedOnce
    RemovedStaysRemoved
    SessionMatches
PROPERTIES
    StartsInTurn
