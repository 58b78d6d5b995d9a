SPECIFICATION SmallPeersSpec
CONSTANTS
    t1 = t1
    t2 = t2
    h1 = h1
    r1 = r1
    r2 = r2
    Tasks = {t1, t2}
    Hashes = {h1}
    Rechecks = {r1, r2}
    HashOf <- OneHash
    Outsiders <- AllOutsiders
    None = None
    Second = 2
    Kinds = {"torrent", "magnet"}
    Rates = {1}
    MaxMoved = 3
    BtOptions <- SomeOptions
CHECK_DEADLOCK FALSE
INVARIANTS
    FlagsMatch
PROPERTIES
    ContractsKept
    PausedStayStill
    StallsEnd
