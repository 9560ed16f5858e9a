CONSTANTS
  Peer = {h, p}
  MaxAuto = 1
  MaxRequest = 1
  Budgets <- MCBudgets
SPECIFICATION FairPoints
CHECK_DEADLOCK FALSE
INVARIANT PlanFollows
INVARIANT RestorePointsAgree
PROPERTY FenceLifts
