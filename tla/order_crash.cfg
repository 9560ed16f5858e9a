CONSTANTS
    h = h
    c1 = c1
    Host = h
    Clients = {c1}
    MaxLocal <- L11
    MaxConn = 2
    MaxCrash = 1
    MaxAuditFail = 1
SPECIFICATION Spec
CHECK_DEADLOCK FALSE
INVARIANT ExactlyOnce
INVARIANT WriteAhead
INVARIANT AcknowledgedIsDecided
INVARIANT NothingMissed
