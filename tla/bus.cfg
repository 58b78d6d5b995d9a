SPECIFICATION BusSpec
CONSTANTS
    e1 = e1
    e2 = e2
    w1 = w1
    Emitters = {e1, e2}
    Callers = {e1, e2}
    Plans <- TwoPlans
    Conns = {w1}
    Cap = 1
    EmitBound = 2
    MayBreak = {w1}
    None = None
CHECK_DEADLOCK FALSE
INVARIANTS
    InOrder
    NoSendOnClosed
    ToldInTurn
PROPERTIES
    EmitReturnsUnlessClogged
    EndIsTold
