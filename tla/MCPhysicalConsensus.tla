------------------------ MODULE MCPhysicalConsensus ------------------------
EXTENDS PhysicalConsensus, TLC
CONSTANTS p1, p2, d1, d2
Symmetry == Permutations({d1, d2})
=============================================================================
