----------------------------- MODULE OrderedLog -----------------------------
(***************************************************************************)
(* What the companion promises the games: one log of decisions that all    *)
(* of them read.  A decision takes the next sequence number; an intent is  *)
(* committed at most once; a game only ever learns what is in the log.     *)
(* The order in which a game applies what it knows is its own affair: it   *)
(* applies the exact successor of what it applied last.                    *)
(***************************************************************************)
EXTENDS Integers, FiniteSets

CONSTANTS Peers

VARIABLES log,   \* the decisions, each with its sequence number
          known  \* the decisions each peer's game has been given

Init == log = {} /\ known = [p \in Peers |-> {}]

\* The next decision.
Decide(kind, p, l) ==
    /\ kind = "commit" =>
         ~ \E d \in log : d.kind = "commit" /\ d.peer = p /\ d.local = l
    /\ log' = log \union
                {[kind |-> kind, seq |-> Cardinality(log) + 1, peer |-> p, local |-> l]}
    /\ UNCHANGED known

\* Peer p is given a decision.
Learn(p) ==
    /\ \E d \in log : known' = [known EXCEPT ![p] = @ \union {d}]
    /\ UNCHANGED log

Next == \/ \E d \in log' : Decide(d.kind, d.peer, d.local)
        \/ \E p \in Peers : Learn(p)

Spec == Init /\ [][Next]_<<log, known>>
=============================================================================
