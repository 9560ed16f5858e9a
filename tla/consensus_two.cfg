CONSTANTS
    p1 = p1
    p2 = p2
    d1 = d1
    d2 = d2
    Host = p1
    Peers = {p1, p2}
    Digests = {d1}
    MaxIntents = 2
    MaxLate = 0
    MaxCrash = 1
SPECIFICATION Spec
CHECK_DEADLOCK FALSE
INVARIANT SingleFlight
INVARIANT RestartRestores
INVARIANT AgreedBefore
