CONSTANTS
    h = h
    c1 = c1
    Host = h
    Clients = {c1}
    MaxLocal <- L02
    MaxConn = 2
    MaxCrash = 1
    MaxAuditFail = 0
SPECIFICATION LiveSpec
CHECK_DEADLOCK FALSE
INVARIANT OriginOrder
INVARIANT AcknowledgementsHaveNoGap
PROPERTY ImplementsOrderedLog
PROPERTY EveryMessageAnswered
PROPERTY EveryEntryDelivered
