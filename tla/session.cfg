CONSTANTS
    p1 = p1
    p2 = p2
    planned = planned
    other = other
    none = none
    Host = p1
    Client = p2
    Planned = planned
    Other = other
    None = none
    Scenes <- MCScenes
    MaxPlay = 1
    MaxTrouble = 1
SPECIFICATION Spec
CHECK_DEADLOCK FALSE
INVARIANT PlayAfterAgreement
INVARIANT StartedTogether
INVARIANT SessionStarts
