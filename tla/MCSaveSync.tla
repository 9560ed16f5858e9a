------------------------------ MODULE MCSaveSync ------------------------------
(* SaveSync on a small instance.  A server of two slots serves both attempts *)
(* at once; one of one slot turns the other away, while it serves the first  *)
(* (busy) and after (the download limit).                                    *)
EXTENDS SaveSync

MCLimits == {[slots |-> n, downloads |-> n] : n \in {1, 2}}
=============================================================================
