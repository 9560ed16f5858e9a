--------------------------- MODULE MCRestorePoints ---------------------------
(* The instance of RestorePoints that TLC checks. *)
EXTENDS RestorePoints, TLC

\* The players at work, or time and trouble.
MCBudgets == {
  [time |-> 0, round |-> 1, trouble |-> 0, requests |-> {"work", "clock", "prepare"}],
  [time |-> 1, round |-> 0, trouble |-> 1, requests |-> {"clock"}]}
=============================================================================
