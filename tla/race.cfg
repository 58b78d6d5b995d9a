SPECIFICATION Spec
CONSTANTS
    c1 = c1
    c2 = c2
    c3 = c3
    m1 = m1
    m2 = m2
    m3 = m3
    None = None
    Tasks <- OneTask
    Procs <- RaceProcs
    May <- RaceMay
    InitialTasks <- OneTask
    MaxConcurrent = 1
    FinishStatus = {"complete"}
    RemoveMayFail = FALSE
    Losable = {}
    StopBound = 0
    Mutexes <- ThreeMutexes
INVARIANTS
    NoOrphanDownload
    RemoversTakeTurns
SYMMETRY MutexSymmetry
