SPECIFICATION BothSpec
CONSTANTS
    Uris = {"h", "m", "f", "x"}
    Kind <- KindOf
    Offered = {"h", "m"}
    Ids = {"i1", "i2", "i3"}
    Gids = {"g1", "g2", "g3"}
    HashGid <- HashOf
    Foreign <- Files
    Setups = {"text"}
    Slots = 1
    Turns = 4
    Procs = {"p", "q"}
    May <- Plan
    Values = {1}
    Given <- Some
    Budget = 3
    Nil = Nil
    Unset = Unset
CHECK_DEADLOCK FALSE
INVARIANT StartsAgain
