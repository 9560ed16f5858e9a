--------------------------- MODULE MCRestoreHandoff ---------------------------
(* RestoreHandoff on a small instance.                                       *)
EXTENDS RestoreHandoff
=============================================================================
