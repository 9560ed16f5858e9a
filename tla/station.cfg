CONSTANTS
  Peer = {h, p}
  Vehicle = {v}
  Line = {a, b}
  MaxRound = 2
  Budget = 2
SPECIFICATION FairSpec
CHECK_DEADLOCK FALSE
INVARIANT DepartsTogether
INVARIANT OneRelease
PROPERTY RoundsEnd
