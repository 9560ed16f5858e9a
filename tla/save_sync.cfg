SPECIFICATION FairSpec
CONSTANTS
    Attempt = {a, b}
    Preview = {FALSE}
    Limits <- MCLimits
    MaxEdit = 1
    MaxTrouble = 1
CHECK_DEADLOCK FALSE
INVARIANT VisibleSaveIsWhole
INVARIANT CountedIsInstalled
PROPERTY AttemptsEnd
