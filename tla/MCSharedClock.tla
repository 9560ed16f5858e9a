--------------------------- MODULE MCSharedClock ---------------------------
(***************************************************************************)
(* Instances of SharedClock for TLC.                                       *)
(***************************************************************************)
EXTENDS SharedClock

\* An order that every game has read matters only by what a restart makes of
\* it: its status, and whether it stopped the clock.
Reported(g) == {host.log[g].reports[i].peer : i \in DOMAIN host.log[g].reports}
Essence(g) ==
  IF g = Gen(host) \/ \E p \in Peer : game[p].read < g THEN host.log[g]
  ELSE LET status == IF host.log[g].type = "clock.rendezvous" /\ Reported(g) = Peer
                          /\ RestoredStatus(host.log[g]) = "pending"
                       THEN "complete" ELSE RestoredStatus(host.log[g])
       IN [status |-> status, stopped |-> host.log[g].effective = 0,
           type |-> IF status = "pending" THEN host.log[g].type ELSE "any",
           acks |-> IF status = "pending" THEN Acked(host.log[g]) ELSE {}]
View == <<[host EXCEPT !.log = [g \in 1..Gen(host) |-> Essence(g)]],
          game, out, spent, crashes>>
=============================================================================
