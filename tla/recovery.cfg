CONSTANTS
  Peer = {h, p}
  Kind = {"proposal", "operation"}
  Budget = 1
SPECIFICATION Spec
SYMMETRY Symmetry
CHECK_DEADLOCK FALSE
 
INVARIANT AuditAccepts
INVARIANT RestartRestores
INVARIANT FaultIsShared
