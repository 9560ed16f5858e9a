SPECIFICATION FairSpec
CONSTANTS
    Host = h
    Client = c
    MaxBoundary = 2
    MaxWork = 1
    MaxRewrite = 1
    MaxTrouble = 1
CHECK_DEADLOCK FALSE
INVARIANT PairIsOneWorld
PROPERTY PlanArrives
