----------------------------- MODULE MCSettlement -----------------------------
(***************************************************************************)
(* A small match: the rival of the host's company has a passenger and a     *)
(* freight line and one vehicle, bought or of the starting save; both may   *)
(* build.  There are two markets.                                           *)
(***************************************************************************)
EXTENDS Settlement, TLC

CONSTANTS host, rival, bus, pax, ore, north, south, cheap, dear, none

MCOrder == (host :> 1) @@ (rival :> 2)
MCLineOrder == [l \in Lines |-> IF l \in Cargo THEN 1 ELSE 2]
MCOwner == [l \in Lines |-> rival]
MCKeeper == [v \in Vehicles |-> rival]
MCPrice == [v \in Vehicles |-> 60]
MCUpkeep == [v \in Vehicles |-> 903]
MCOverhauls == {[price |-> 60, rate |-> 451]}
MCWorks == {[price |-> 1200, upkeep |-> 700]}

Alike == Permutations(Markets) \cup Permutations(Fares)
===============================================================================
