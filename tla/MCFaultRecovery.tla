-------------------------- MODULE MCFaultRecovery --------------------------
(***************************************************************************)
(* Instances of FaultRecovery for TLC.                                     *)
(***************************************************************************)
EXTENDS FaultRecovery, TLC

Symmetry == Permutations(Peer)
=============================================================================
