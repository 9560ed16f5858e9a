-------------------------- MODULE MCStationBarrier --------------------------
(***************************************************************************)
(* Instances of StationBarrier for TLC.                                    *)
(***************************************************************************)
EXTENDS StationBarrier
=============================================================================
