CONSTANTS
    p1 = p1
    p2 = p2
    d1 = d1
    d2 = d2
    Host = p1
    Peers = {p1, p2}
    Digests = {d1, d2}
    MaxIntents = 1
    MaxLate = 1
    MaxCrash = 1
SPECIFICATION LiveSpec
CHECK_DEADLOCK FALSE
INVARIANT JournalVerifies
PROPERTY EveryBarrierEnds
