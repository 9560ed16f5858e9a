--------------------------- MODULE MCCommitOrder ---------------------------
EXTENDS CommitOrder, TLC
CONSTANTS h, c1
L02 == h :> 0 @@ c1 :> 2
L11 == h :> 1 @@ c1 :> 1
=============================================================================
