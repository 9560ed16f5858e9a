----------------------- MODULE StationBarrier_proofs -----------------------
(***************************************************************************)
(* Machine-checked proofs about StationBarrier, for any peers, vehicles    *)
(* and lines, any number of rounds and of interferences: its type          *)
(* invariant, that the rounds of a vehicle are released in order, each     *)
(* once (OneRelease), and that a game lets a replica go on only for a      *)
(* round that every peer had held the vehicle for (DepartsTogether).       *)
(*                                                                         *)
(* The argument.  The memory of the host, and the memory a replay of the   *)
(* journal leads to, know the same of the journal: the rounds up to the    *)
(* last are those released, the next is the only one open, and who is      *)
(* counted in it has a report in the journal (Knows).  The two memories    *)
(* need not be equal, and are not: a replay does not know which departures *)
(* waited.  A handler works on its memory and journals what it does; Begun *)
(* and Finishes take it apart into the entry it handles and what it orders *)
(* of its own, so that the journal is sound after each of its appends, and *)
(* a crash between two of them finds a memory that a restart can go on     *)
(* from (Chained).  Extended folds a replay over the entries of a handler; *)
(* that it does so one entry after the other is proved from the least      *)
(* number for which it would not (ExtendedSteps).                          *)
(***************************************************************************)
EXTENDS StationBarrier, WellFoundedInduction, TLAPS

\* The report of a peer whose game holds a vehicle where a round says.
Holding(q, v, r, t) ==
    [type |-> "report", peer |-> q, vehicle |-> v, line |-> t.line, stop |-> t.stop,
     round |-> r, state |-> "held"]

\* Round r of vehicle v as a memory has it, with its last round and its fault:
\* unless the session has faulted, only the next round is open.
Sound(t, v, r, last, fault, held) ==
    /\ t.status = "none" => t = NoRound
    /\ t.status = "ordered" => r <= last
    /\ t.status \in Waiting => t.held = Peer
    /\ \A q \in t.held : Holding(q, v, r, t) \in held
    /\ fault = "none" =>
         /\ t.status # "faulted"
         /\ t.status \in Waiting \union {"arrivals"} => r = last + 1

Released(entries, v, r) == \E i \in DOMAIN entries : Releases(entries, i, v, r)

\* The memory h knows of the orders and of the arrivals of the journal: the rounds
\* up to the last are those released.
Knows(h, entries, held) ==
    /\ h.up
    /\ \A v \in Vehicle : \A r \in Rounds :
         /\ r <= h.last[v] <=> Released(entries, v, r)
         /\ Sound(h.rounds[v][r], v, r, h.last[v], h.fault, held)

\* Releases are in order, and of rounds that every peer has reached.
Orderly(entries, held) ==
    \A v \in Vehicle, r \in Rounds : \A i \in DOMAIN entries : Releases(entries, i, v, r) =>
        /\ r = 1 \/ \E k \in 1 .. (i - 1) : Releases(entries, k, v, r - 1)
        /\ \A k \in 1 .. (i - 1), n \in r .. MaxRound : ~ Releases(entries, k, v, n)
        /\ \A q \in Peer : Holding(q, v, r, entries[i]) \in held

\* A game that has read n orders goes on with rounds it has read the release of.
Follows(g, v, n) ==
    /\ g.reported <= g.auth.round
    /\ \A r \in 1 .. g.auth.round : \E i \in 1 .. n : Releases(orders, i, v, r)
    /\ g.phase \in {"terminal", "armed"} => g.round = g.auth.round
    /\ g.phase = "armed" => g.round > 0
    /\ g.phase = "held" => g.round = g.auth.round + 1

InStep == \A p \in Peer, v \in Vehicle : Follows(game[p][v], v, read[p])

IInv ==
    /\ host.up => Knows(host, orders, arrived)
    /\ Knows(disk, orders, arrived)
    /\ Orderly(orders, arrived)
    /\ InStep
----------------------------------------------------------------------------
EntryType == OrderType \union MessageType

\* A memory in the middle of a handler, which has written some entries.
HandlerType ==
    [up : BOOLEAN, wrote : Seq(EntryType), fault : Faults, emitted : BOOLEAN,
     change : ChangeType, rounds : [Vehicle -> [Rounds -> RoundType]],
     last : [Vehicle -> 0 .. MaxRound]]

\* The memory h after the handler has written w and set its fault, its rounds and so on.
Same(h, k) == k.up = h.up /\ k.last = h.last /\ k.rounds = h.rounds

\* What a memory knows of the journal does not depend on its fault becoming graver.
LEMMA KnowsSame ==
    ASSUME NEW h, NEW k, NEW o, NEW a, Knows(h, o, a), Same(h, k),
           k.fault = h.fault \/ k.fault # "none"
    PROVE  Knows(k, o, a)
BY DEF Knows, Same, Sound

\* Nor on more arrivals.
LEMMA KnowsMore ==
    ASSUME NEW h, NEW o, NEW a, NEW b, Knows(h, o, a), a \subseteq b
    PROVE  Knows(h, o, b)
<1>1. ASSUME NEW v \in Vehicle, NEW r \in Rounds
      PROVE  Sound(h.rounds[v][r], v, r, h.last[v], h.fault, b)
    <2>1. Sound(h.rounds[v][r], v, r, h.last[v], h.fault, a)
        BY DEF Knows
    <2> QED BY <2>1 DEF Sound
<1> QED BY <1>1 DEF Knows

\* The values a memory begins with.
LEMMA Typed ==
    /\ MemoryType \subseteq HandlerType
    /\ NoChange \in ChangeType /\ SomeLine \in Line /\ NoRound \in RoundType
    /\ Fresh \in MemoryType /\ Down \in MemoryType
<1>1. SomeLine \in Line
    BY BarrierAssumption DEF SomeLine
<1>2. NoRound \in RoundType
    BY <1>1 DEF NoRound, RoundType, Statuses, Stops
<1>3. <<>> \in Seq(EntryType)
    OBVIOUS
<1>4. NoChange \in ChangeType
    BY DEF ChangeType
<1>5. Fresh \in MemoryType
    <2>1. [v \in Vehicle |-> [r \in Rounds |-> NoRound]] \in [Vehicle -> [Rounds -> RoundType]]
        BY <1>2
    <2>2. [v \in Vehicle |-> 0] \in [Vehicle -> 0 .. MaxRound]
        BY BarrierAssumption
    <2> QED BY <1>4, <2>1, <2>2 DEF Fresh, MemoryType, Faults
<1>6. Down \in MemoryType
    BY <1>5 DEF Down, MemoryType
<1>7. MemoryType \subseteq HandlerType
    BY <1>3 DEF MemoryType, HandlerType
<1> QED BY <1>1, <1>2, <1>4, <1>5, <1>6, <1>7

\* Writing an entry, and remembering a fault, leave the rounds alone.
LEMMA WriteKept ==
    ASSUME NEW h \in HandlerType, NEW e \in EntryType
    PROVE  /\ Write(h, e) \in HandlerType /\ Same(h, Write(h, e))
           /\ Write(h, e).fault = h.fault /\ Write(h, e).emitted = h.emitted
           /\ Write(h, e).change = h.change
           /\ Write(h, e).wrote = Append(h.wrote, e)
<1>1. Append(h.wrote, e) \in Seq(EntryType)
    BY DEF HandlerType
<1>2. Write(h, e) = [h EXCEPT !.wrote = Append(h.wrote, e)]
    BY DEF Write
<1> QED BY <1>1, <1>2 DEF HandlerType, Same

LEMMA RememberKept ==
    ASSUME NEW h \in HandlerType, NEW reason \in Faults \ {"none"}
    PROVE  /\ Remember(h, reason) \in HandlerType /\ Same(h, Remember(h, reason))
           /\ Remember(h, reason).fault # "none"
           /\ Remember(h, reason).wrote = h.wrote
           /\ Remember(h, reason).emitted = h.emitted
           /\ Remember(Remember(h, reason), reason) = Remember(h, reason)
BY DEF Remember, HandlerType, Same

\* One round of one vehicle is set, and everything else is left.
LEMMA PutKept ==
    ASSUME NEW h \in HandlerType, NEW v \in Vehicle, NEW r \in Rounds, NEW t \in RoundType
    PROVE  /\ Put(h, v, r, t) \in HandlerType
           /\ Put(h, v, r, t).up = h.up /\ Put(h, v, r, t).last = h.last
           /\ Put(h, v, r, t).fault = h.fault /\ Put(h, v, r, t).emitted = h.emitted
           /\ Put(h, v, r, t).change = h.change /\ Put(h, v, r, t).wrote = h.wrote
           /\ \A w \in Vehicle, s \in Rounds :
                Put(h, v, r, t).rounds[w][s] = IF w = v /\ s = r THEN t ELSE h.rounds[w][s]
<1>1. [h.rounds EXCEPT ![v] = [h.rounds[v] EXCEPT ![r] = t]] \in [Vehicle -> [Rounds -> RoundType]]
    BY DEF HandlerType
<1>2. \A w \in Vehicle, s \in Rounds :
        [h.rounds EXCEPT ![v] = [h.rounds[v] EXCEPT ![r] = t]][w][s]
          = IF w = v /\ s = r THEN t ELSE h.rounds[w][s]
    BY DEF HandlerType
<1>3. Put(h, v, r, t) = [h EXCEPT !.rounds = [h.rounds EXCEPT ![v] = [h.rounds[v] EXCEPT ![r] = t]]]
    BY DEF Put
<1> DEFINE rounds == [h.rounds EXCEPT ![v] = [h.rounds[v] EXCEPT ![r] = t]]
<1> HIDE DEF rounds
<1>4. Put(h, v, r, t) = [h EXCEPT !.rounds = rounds]
    BY <1>3 DEF rounds
<1>5. Put(h, v, r, t) \in HandlerType
    BY <1>1, <1>4 DEF HandlerType, rounds
<1>6. Put(h, v, r, t).rounds = rounds
    BY <1>4 DEF HandlerType
<1>7. /\ Put(h, v, r, t).up = h.up /\ Put(h, v, r, t).last = h.last
      /\ Put(h, v, r, t).fault = h.fault /\ Put(h, v, r, t).emitted = h.emitted
      /\ Put(h, v, r, t).change = h.change /\ Put(h, v, r, t).wrote = h.wrote
    BY <1>4 DEF HandlerType
<1> QED BY <1>2, <1>5, <1>6, <1>7 DEF rounds

LEMMA PutKnows ==
    ASSUME NEW h \in HandlerType, NEW v \in Vehicle, NEW r \in Rounds, NEW t \in RoundType,
           NEW o, NEW a, Knows(h, o, a), Sound(t, v, r, h.last[v], h.fault, a)
    PROVE  Knows(Put(h, v, r, t), o, a)
<1> DEFINE k == Put(h, v, r, t)
<1>1. ASSUME NEW w \in Vehicle, NEW s \in Rounds
      PROVE  /\ s <= k.last[w] <=> Released(o, w, s)
             /\ Sound(k.rounds[w][s], w, s, k.last[w], k.fault, a)
    <2>1. /\ s <= h.last[w] <=> Released(o, w, s)
          /\ Sound(h.rounds[w][s], w, s, h.last[w], h.fault, a)
        BY DEF Knows
    <2>2. /\ k.last = h.last /\ k.fault = h.fault
          /\ k.rounds[w][s] = IF w = v /\ s = r THEN t ELSE h.rounds[w][s]
        BY PutKept
    <2> HIDE DEF k
    <2>3. CASE w = v /\ s = r
        BY <2>1, <2>2, <2>3
    <2>4. CASE ~(w = v /\ s = r)
        BY <2>1, <2>2, <2>4
    <2> QED BY <2>3, <2>4
<1>2. k.up
    BY PutKept DEF Knows
<1> QED BY <1>1, <1>2 DEF Knows
----------------------------------------------------------------------------
\* What is left to do of a handler when its memory has become x: nothing, to order
\* a fault that it has remembered, or to try a departure.
Finishes(x, y) ==
    \/ y = x
    \/ \E reason \in Faults \ {"none"} : x.fault # "none" /\ y = FaultSession(x, reason)
    \/ \E v \in Vehicle, r \in Rounds :
         x.rounds[v][r].status \in Waiting /\ y = MaybeEmitRelease(x, v, r)

\* A handler that faults the session.
LEMMA FaultKnows ==
    ASSUME NEW h \in HandlerType, NEW reason \in Faults \ {"none"}, NEW o, NEW a, Knows(h, o, a)
    PROVE  /\ Remember(h, reason) \in HandlerType /\ Remember(h, reason).wrote = h.wrote
           /\ Remember(h, reason).fault # "none" /\ Knows(Remember(h, reason), o, a)
           /\ Finishes(Remember(h, reason), FaultSession(h, reason))
<1> DEFINE k == Remember(h, reason)
<1>1. k \in HandlerType /\ k.wrote = h.wrote /\ k.fault # "none" /\ Same(h, k)
    BY RememberKept
<1>2. Knows(k, o, a)
    BY <1>1, KnowsSame
<1>3. FaultSession(h, reason) = FaultSession(k, reason)
    <2>1. Remember(k, reason) = k
        BY RememberKept
    <2> QED BY <2>1 DEF FaultSession
<1> QED BY <1>1, <1>2, <1>3 DEF Finishes

\* The rounds a fault closes.
LEMMA ClosedKnows ==
    ASSUME NEW h \in HandlerType, NEW v \in Vehicle, NEW r \in Rounds, NEW t \in RoundType,
           NEW o, NEW a, Knows(h, o, a), Sound(t, v, r, h.last[v], "local", a),
           NEW reason \in Faults \ {"none"}, NEW n, n = Put(h, v, r, t)
    PROVE  /\ Remember(n, reason) \in HandlerType /\ Remember(n, reason).wrote = h.wrote
           /\ Knows(Remember(n, reason), o, a)
           /\ Finishes(Remember(n, reason), FaultSession(n, reason))
<1> DEFINE m == Remember(h, reason)
           k == Remember(n, reason)
<1>1. m \in HandlerType /\ m.wrote = h.wrote /\ m.fault # "none" /\ Same(h, m)
    BY RememberKept
<1>2. Knows(m, o, a)
    BY <1>1, KnowsSame
<1>3. Sound(t, v, r, m.last[v], m.fault, a)
    BY <1>1 DEF Sound, Same
<1> HIDE DEF m
<1>4. Knows(Put(m, v, r, t), o, a)
    BY <1>1, <1>2, <1>3, PutKnows
<1>5. n \in HandlerType /\ n.wrote = h.wrote /\ n.last = h.last /\ n.up = h.up
    BY PutKept
<1>6. k \in HandlerType /\ k.wrote = h.wrote /\ k.fault # "none" /\ Same(n, k)
    BY <1>5, RememberKept
<1>7. Put(m, v, r, t).rounds = n.rounds
    BY <1>1 DEF Put, Same, HandlerType
<1>8. Put(m, v, r, t).last = n.last /\ Put(m, v, r, t).up = n.up
    BY <1>1, <1>5, PutKept DEF Same
<1>9. Knows(k, o, a)
    BY <1>4, <1>6, <1>7, <1>8, KnowsSame DEF Same
<1>10. FaultSession(n, reason) = FaultSession(k, reason)
    BY <1>5, RememberKept DEF FaultSession
<1> QED BY <1>6, <1>9, <1>10 DEF Finishes

\* The round that a report is about, when it is the next or an open one.
LEMMA TrackerKnows ==
    ASSUME NEW h \in HandlerType, NEW e \in ReportType, NEW o, NEW a, Knows(h, o, a),
           h.rounds[e.vehicle][e.round] = NoRound => e.round = h.last[e.vehicle] + 1,
           NEW t, t = Tracker(h, e)
    PROVE  /\ t \in RoundType /\ t.status # "none"
           /\ Sound(t, e.vehicle, e.round, h.last[e.vehicle], h.fault, a)
<1> DEFINE u == h.rounds[e.vehicle][e.round]
<1>1. e.vehicle \in Vehicle /\ e.round \in Rounds /\ e.line \in Line /\ e.stop \in Stops
    BY DEF ReportType
<1>2. u \in RoundType
    <2>1. h.rounds \in [Vehicle -> [Rounds -> RoundType]]
        BY DEF HandlerType
    <2> QED BY <1>1, <2>1
<1>3. Sound(u, e.vehicle, e.round, h.last[e.vehicle], h.fault, a)
    BY <1>1 DEF Knows
<1>4. CASE u # NoRound
    <2>1. t = u
        BY <1>4 DEF Tracker
    <2> QED BY <1>2, <1>3, <1>4, <2>1 DEF Sound
<1>5. CASE u = NoRound
    <2>1. t = [NoRound EXCEPT !.status = "arrivals", !.line = e.line, !.stop = e.stop]
        BY <1>5 DEF Tracker
    <2>2. t \in RoundType /\ t.status = "arrivals" /\ t.held = {}
        BY <1>1, <2>1 DEF NoRound, RoundType, Statuses
    <2> QED BY <1>5, <2>2 DEF Sound, Waiting
<1> QED BY <1>4, <1>5

\* The peer of the report is counted, and the report is in the journal.
LEMMA NotedKnows ==
    ASSUME NEW e \in ReportType, e.state \in {"held", "released"}, NEW a,
           NEW b, b = (IF Arrival(e) THEN a \union {e} ELSE a), NEW last, NEW fault,
           NEW t \in RoundType, Sound(t, e.vehicle, e.round, last, fault, a), t.status # "none",
           e.line = t.line, e.stop = t.stop,
           NEW n, n = Noted(t, e)
    PROVE  /\ n \in RoundType /\ n.status = t.status
           /\ Sound(n, e.vehicle, e.round, last, fault, b)
<1>1. /\ e.peer \in Peer
      /\ e = [type |-> "report", peer |-> e.peer, vehicle |-> e.vehicle, line |-> e.line,
              stop |-> e.stop, round |-> e.round, state |-> e.state]
    BY DEF ReportType
<1>2. /\ n \in RoundType /\ n.status = t.status /\ n.line = t.line /\ n.stop = t.stop
      /\ n.held = t.held \/ (n.held = t.held \union {e.peer} /\ e.state = "held")
    <2>1. CASE e.state = "held"
        <3>1. n = [t EXCEPT !.held = t.held \union {e.peer}]
            BY <2>1 DEF Noted
        <3>2. t.held \union {e.peer} \in SUBSET Peer
            BY <1>1 DEF RoundType
        <3> QED BY <2>1, <3>1, <3>2 DEF RoundType
    <2>2. CASE e.state # "held"
        <3>1. n = [t EXCEPT !.released = t.released \union {e.peer}]
            BY <2>2 DEF Noted
        <3>2. t.released \union {e.peer} \in SUBSET Peer
            BY <1>1 DEF RoundType
        <3> QED BY <3>1, <3>2 DEF RoundType
    <2> QED BY <2>1, <2>2
<1>3. \A q : Holding(q, e.vehicle, e.round, n) = Holding(q, e.vehicle, e.round, t)
    BY <1>2 DEF Holding
<1>4. \A q \in n.held : Holding(q, e.vehicle, e.round, n) \in b
    <2>1. ASSUME NEW q \in t.held PROVE Holding(q, e.vehicle, e.round, n) \in b
        BY <1>3 DEF Sound
    <2>2. CASE e.state = "held"
        <3>1. Holding(e.peer, e.vehicle, e.round, n) = e
            BY <1>1, <1>2, <2>2 DEF Holding
        <3>2. e \in b
            BY <1>1, <2>2 DEF Arrival
        <3> QED BY <1>2, <2>1, <3>1, <3>2
    <2> QED BY <1>2, <2>1, <2>2
<1>5. n.status \in Waiting => n.held = Peer
    <2>1. t.held \subseteq Peer /\ (n.status \in Waiting => t.held = Peer)
        BY <1>2 DEF Sound, RoundType
    <2> QED BY <1>1, <1>2, <2>1
<1> QED BY <1>2, <1>4, <1>5 DEF Sound

\* Every peer has reached the round.
LEMMA ReadyKnows ==
    ASSUME NEW t \in RoundType, NEW v, NEW r, NEW last, NEW fault, NEW a,
           Sound(t, v, r, last, fault, a), t.status \notin {"none", "ordered"}, t.held = Peer,
           NEW n, n = Ready(t)
    PROVE  n \in RoundType /\ n.status \in Waiting /\ Sound(n, v, r, last, fault, a)
<1>1. /\ n \in RoundType /\ n.status = "ready" /\ n.held = t.held
      /\ n.line = t.line /\ n.stop = t.stop
    BY DEF RoundType, Statuses, Waiting, Ready
<1>2. fault = "none" => r = last + 1
    BY DEF Sound, Statuses, RoundType
<1>3. \A q : Holding(q, v, r, n) = Holding(q, v, r, t)
    BY <1>1 DEF Holding
<1> QED BY <1>1, <1>2, <1>3 DEF Sound, Waiting

\* A report: reading it again, and handling it live, lead to the same memory but for
\* what the live handler still has to order.
LEMMA RecordKnows ==
    ASSUME NEW h \in HandlerType, NEW e \in ReportType, NEW o, NEW a, Knows(h, o, a),
           NEW b, b = (IF Arrival(e) THEN a \union {e} ELSE a),
           NEW x, x = Record(h, e, "replay")
    PROVE  /\ x \in HandlerType /\ x.wrote = h.wrote /\ Knows(x, o, b)
           /\ Finishes(x, Record(h, e, "live"))
<1> DEFINE v == e.vehicle
           r == e.round
           fresh == h.rounds[v][r] = NoRound
           tracker == Tracker(h, e)
           noted == Noted(tracker, e)
<1>1. v \in Vehicle /\ r \in Rounds /\ e.state \in {"held", "released", "fault"}
    BY DEF ReportType
<1>2. Knows(h, o, b)
    BY KnowsMore
<1>3. h.last[v] \in Nat /\ r \in Nat
    <2>1. h.last \in [Vehicle -> 0 .. MaxRound]
        BY DEF HandlerType
    <2>2. r \in Nat
        BY <1>1 DEF Rounds
    <2> QED BY <1>1, <2>1, <2>2
<1>4. CASE e.state = "fault"
    <2>1. x = Remember(h, "local") /\ Record(h, e, "live") = FaultSession(h, "local")
        BY <1>4 DEF Record, Fault
    <2>2. "local" \in Faults \ {"none"}
        BY DEF Faults
    <2> QED BY <1>2, <2>1, <2>2, FaultKnows
<1>5. CASE e.state # "fault" /\ fresh /\ r <= h.last[v]
    <2>1. x = h /\ Record(h, e, "live") = h
        BY <1>3, <1>5 DEF Record
    <2> QED BY <1>2, <2>1 DEF Finishes
<1>6. CASE e.state # "fault" /\ fresh /\ r > h.last[v] + 1
    <2>1. x = Remember(h, "gap") /\ Record(h, e, "live") = FaultSession(h, "gap")
        BY <1>3, <1>6 DEF Record, Fault
    <2>2. "gap" \in Faults \ {"none"}
        BY DEF Faults
    <2> QED BY <1>2, <2>1, <2>2, FaultKnows
<1>7. CASE e.state # "fault" /\ (fresh => r = h.last[v] + 1)
    <2>1. /\ tracker \in RoundType /\ tracker.status # "none"
          /\ Sound(tracker, v, r, h.last[v], h.fault, a)
          /\ Sound(tracker, v, r, h.last[v], h.fault, b)
        BY <1>2, <1>7, TrackerKnows
    <2> HIDE DEF tracker
    <2>2. CASE e.line # tracker.line \/ e.stop # tracker.stop
        <3>1. /\ x = Remember(Put(h, v, r, tracker), "mismatch")
              /\ Record(h, e, "live") = FaultSession(Put(h, v, r, tracker), "mismatch")
            BY <1>3, <1>7, <2>2 DEF Record, Fault, tracker
        <3>2. Sound(tracker, v, r, h.last[v], "local", b)
            BY <2>1 DEF Sound
        <3>3. "mismatch" \in Faults \ {"none"}
            BY DEF Faults
        <3> QED BY <1>1, <1>2, <2>1, <3>1, <3>2, <3>3, ClosedKnows
    <2>3. CASE e.line = tracker.line /\ e.stop = tracker.stop
        <3>1. /\ noted \in RoundType /\ noted.status # "none"
              /\ Sound(noted, v, r, h.last[v], h.fault, b)
            BY <1>1, <1>7, <2>1, <2>3, NotedKnows
        <3> HIDE DEF noted
        <3>2. CASE e.state = "held" /\ noted.status # "ordered" /\ AllPeers(noted.held)
            <4> DEFINE ready == Ready(noted)
            <4>1. x = Put(h, v, r, ready) /\ Record(h, e, "live") = MaybeEmitRelease(x, v, r)
                BY <1>3, <1>7, <2>3, <3>2 DEF Record, tracker, noted
            <4>2. /\ ready \in RoundType /\ ready.status \in Waiting
                  /\ Sound(ready, v, r, h.last[v], h.fault, b)
                BY <3>1, <3>2, ReadyKnows DEF AllPeers
            <4> HIDE DEF ready
            <4>3. x.rounds[v][r].status \in Waiting
                BY <1>1, <4>1, <4>2, PutKept
            <4>4. x \in HandlerType /\ x.wrote = h.wrote /\ Knows(x, o, b)
                BY <1>1, <1>2, <4>1, <4>2, PutKept, PutKnows
            <4> QED BY <1>1, <4>1, <4>3, <4>4 DEF Finishes
        <3>3. CASE e.state = "released" /\ noted.status # "ordered"
            <4>1. /\ x = Remember(Put(h, v, r, noted), "early")
                  /\ Record(h, e, "live") = FaultSession(Put(h, v, r, noted), "early")
                BY <1>3, <1>7, <2>3, <3>3 DEF Record, Fault, tracker, noted
            <4>2. Sound(noted, v, r, h.last[v], "local", b)
                BY <3>1 DEF Sound
            <4>3. "early" \in Faults \ {"none"}
                BY DEF Faults
            <4> QED BY <1>1, <1>2, <3>1, <4>1, <4>2, <4>3, ClosedKnows
        <3>4. CASE /\ ~(e.state = "held" /\ noted.status # "ordered" /\ AllPeers(noted.held))
                   /\ ~(e.state = "released" /\ noted.status # "ordered")
            <4> DEFINE n == IF e.state = "released" /\ noted.status = "ordered"
                                /\ noted.released = Peer THEN NoRound ELSE noted
            <4>1. x = Put(h, v, r, n) /\ Record(h, e, "live") = x
                BY <1>3, <1>7, <2>3, <3>4 DEF Record, tracker, noted
            <4>2. Sound(NoRound, v, r, h.last[v], h.fault, b)
                BY DEF Sound, NoRound, Waiting
            <4>3. n \in RoundType /\ Sound(n, v, r, h.last[v], h.fault, b)
                BY <3>1, <4>2, Typed
            <4> HIDE DEF n
            <4>4. x \in HandlerType /\ x.wrote = h.wrote /\ Knows(x, o, b)
                BY <1>1, <1>2, <4>1, <4>3, PutKept, PutKnows
            <4> QED BY <4>1, <4>4 DEF Finishes
        <3> QED BY <3>2, <3>3, <3>4
    <2> QED BY <2>2, <2>3
<1> QED BY <1>3, <1>4, <1>5, <1>6, <1>7

\* An acknowledgement, a carried out operation, and an order of another actor.
LEMMA AckKnows ==
    ASSUME NEW h \in HandlerType, NEW e \in MessageType, e.type = "ack", NEW o, NEW a,
           Knows(h, o, a), NEW x, x = ResolveAck(h, e, "replay")
    PROVE  /\ x \in HandlerType /\ x.wrote = h.wrote /\ Knows(x, o, a)
           /\ Finishes(x, ResolveAck(h, e, "live"))
<1>1. e.vehicle \in Vehicle /\ e.round \in Rounds
    BY DEF MessageType, ReportType
<1>2. CASE e.ok \/ h.rounds[e.vehicle][e.round] = NoRound
    <2>1. x = h /\ ResolveAck(h, e, "live") = h
        BY <1>2 DEF ResolveAck
    <2> QED BY <2>1 DEF Finishes
<1>3. CASE ~(e.ok \/ h.rounds[e.vehicle][e.round] = NoRound)
    <2> DEFINE u == h.rounds[e.vehicle][e.round]
               t == [u EXCEPT !.status = "faulted"]
    <2>1. u \in RoundType
        <3>1. h.rounds \in [Vehicle -> [Rounds -> RoundType]]
            BY DEF HandlerType
        <3> QED BY <1>1, <3>1
    <2>2. Sound(u, e.vehicle, e.round, h.last[e.vehicle], h.fault, a)
        BY <1>1 DEF Knows
    <2>3. Put(h, e.vehicle, e.round, t) = [h EXCEPT !.rounds[e.vehicle][e.round].status = "faulted"]
        BY DEF Put
    <2> HIDE DEF u
    <2>4. /\ t \in RoundType /\ t.status = "faulted" /\ t.held = u.held
          /\ t.line = u.line /\ t.stop = u.stop
        BY <2>1 DEF RoundType, Statuses
    <2>5. Sound(t, e.vehicle, e.round, h.last[e.vehicle], "local", a)
        BY <2>2, <2>4 DEF Sound, Waiting, Holding
    <2>6. /\ x = Remember(Put(h, e.vehicle, e.round, t), "rejected")
          /\ ResolveAck(h, e, "live") = FaultSession(Put(h, e.vehicle, e.round, t), "rejected")
        BY <1>3, <2>3 DEF ResolveAck, Fault
    <2>7. "rejected" \in Faults \ {"none"}
        BY DEF Faults
    <2> HIDE DEF t
    <2> QED BY <1>1, <2>4, <2>5, <2>6, <2>7, ClosedKnows
<1> QED BY <1>2, <1>3

LEMMA ExecutedKnows ==
    ASSUME NEW h \in HandlerType, NEW e \in MessageType, NEW o, NEW a,
           Knows(h, o, a), NEW x, x = Executed(h, e), e.peer \in Peer
    PROVE  x \in HandlerType /\ x.wrote = h.wrote /\ Knows(x, o, a)
<1>1. CASE h.change = NoChange
    BY <1>1 DEF Executed
<1>2. CASE h.change # NoChange
    <2> DEFINE c == [h.change EXCEPT !.by = h.change.by \union {e.peer}]
    <2>1. h.change \in [kind : {"assign", "sell"}, vehicle : Vehicle, line : Line, by : SUBSET Peer]
        BY <1>2 DEF HandlerType, ChangeType
    <2>2. c \in ChangeType
        BY <2>1 DEF ChangeType
    <2>3. x = [h EXCEPT !.change = c]
        BY <1>2 DEF Executed
    <2> HIDE DEF c
    <2>4. x \in HandlerType /\ x.wrote = h.wrote /\ Same(h, x) /\ x.fault = h.fault
        BY <2>2, <2>3 DEF HandlerType, Same
    <2> QED BY <2>4, KnowsSame
<1> QED BY <1>1, <1>2

LEMMA ChangeKnows ==
    ASSUME NEW h \in HandlerType, NEW e \in OrderType, NEW o, NEW a,
           Knows(h, o, a), NEW x, x = TrackChange(h, e)
    PROVE  x \in HandlerType /\ x.wrote = h.wrote /\ Knows(x, o, a)
<1> DEFINE c == IF e.type = "outcome" THEN NoChange
                ELSE [kind |-> e.type, vehicle |-> e.vehicle, line |-> e.line, by |-> {}]
<1>1. CASE e.type \in {"assign", "sell", "outcome"}
    <2>1. c \in ChangeType
        BY <1>1 DEF ChangeType, OrderType
    <2>2. x = [h EXCEPT !.change = c]
        BY <1>1 DEF TrackChange
    <2> HIDE DEF c
    <2>3. x \in HandlerType /\ x.wrote = h.wrote /\ Same(h, x) /\ x.fault = h.fault
        BY <2>1, <2>2 DEF HandlerType, Same
    <2> QED BY <2>3, KnowsSame
<1>2. CASE e.type \notin {"assign", "sell", "outcome"}
    BY <1>2 DEF TrackChange
<1> QED BY <1>1, <1>2
----------------------------------------------------------------------------
\* An order more releases what it releases.
LEMMA ReleasedMore ==
    ASSUME NEW o \in Seq(OrderType), NEW e \in OrderType, NEW v, NEW r
    PROVE  Released(Append(o, e), v, r)
             <=> Released(o, v, r) \/ (e.type = "release" /\ e.vehicle = v /\ e.round = r)
<1> DEFINE p == Append(o, e)
<1>1. DOMAIN p = 1 .. (Len(o) + 1) /\ DOMAIN o = 1 .. Len(o) /\ Len(o) \in Nat
    OBVIOUS
<1>2. p[Len(o) + 1] = e /\ \A i \in 1 .. Len(o) : p[i] = o[i]
    OBVIOUS
<1> HIDE DEF p
<1>3. \A i \in 1 .. Len(o) : Releases(p, i, v, r) <=> Releases(o, i, v, r)
    BY <1>2 DEF Releases
<1>4. Releases(p, Len(o) + 1, v, r) <=> e.type = "release" /\ e.vehicle = v /\ e.round = r
    BY <1>2 DEF Releases
<1>5. \A i \in DOMAIN p : i \in 1 .. Len(o) \/ i = Len(o) + 1
    BY <1>1
<1>6. Len(o) + 1 \in DOMAIN p /\ \A i \in 1 .. Len(o) : i \in DOMAIN p
    BY <1>1
<1>7. Released(p, v, r) <=> (\E i \in 1 .. Len(o) : Releases(p, i, v, r)) \/ Releases(p, Len(o) + 1, v, r)
    BY <1>5, <1>6 DEF Released
<1>8. Released(o, v, r) <=> \E i \in 1 .. Len(o) : Releases(o, i, v, r)
    BY <1>1 DEF Released
<1> QED BY <1>3, <1>4, <1>7, <1>8 DEF p

\* An order that is not a release.
LEMMA KnowsOther ==
    ASSUME NEW h, NEW o \in Seq(OrderType), NEW e \in OrderType, NEW a,
           Knows(h, o, a), e.type # "release"
    PROVE  Knows(h, Append(o, e), a)
BY ReleasedMore DEF Knows

\* The release of the next round makes it the last one.
LEMMA ReleaseKnows ==
    ASSUME NEW h \in HandlerType, NEW o \in Seq(OrderType), NEW e \in OrderType, NEW a,
           Knows(h, o, a), e.type = "release", e.round = h.last[e.vehicle] + 1,
           NEW x, x = TrackRelease(h, e)
    PROVE  x \in HandlerType /\ x.wrote = h.wrote /\ Knows(x, Append(o, e), a)
<1> DEFINE v == e.vehicle
           r == e.round
           u == h.rounds[v][r]
           t == IF u = NoRound THEN [NoRound EXCEPT !.status = "ordered", !.line = e.line,
                                                    !.stop = e.stop]
                ELSE [u EXCEPT !.status = "ordered"]
           p == Append(o, e)
           last == [h.last EXCEPT ![v] = r]
<1>1. v \in Vehicle /\ r \in Rounds /\ e.line \in Line /\ e.stop \in Stops
    BY DEF OrderType
<1>2. /\ h.rounds \in [Vehicle -> [Rounds -> RoundType]] /\ h.last \in [Vehicle -> 0 .. MaxRound]
      /\ r \in 0 .. MaxRound
    BY <1>1 DEF HandlerType, Rounds
<1>3. u \in RoundType
    BY <1>1, <1>2
<1>4. Sound(u, v, r, h.last[v], h.fault, a)
    BY <1>1 DEF Knows
<1>5. t \in RoundType /\ t.status = "ordered" /\ \A q \in t.held : Holding(q, v, r, t) \in a
    <2>1. CASE u = NoRound
        BY <1>1, <2>1 DEF NoRound, RoundType, Statuses
    <2>2. CASE u # NoRound
        <3>1. /\ t \in RoundType /\ t.status = "ordered" /\ t.held = u.held
              /\ t.line = u.line /\ t.stop = u.stop
            BY <1>3, <2>2 DEF RoundType, Statuses
        <3>2. \A q : Holding(q, v, r, t) = Holding(q, v, r, u)
            BY <3>1 DEF Holding
        <3> QED BY <1>4, <3>1, <3>2 DEF Sound
    <2> QED BY <2>1, <2>2
<1>6. x = [Put(h, v, r, t) EXCEPT !.last = last]
    <2>1. h.last[v] < r
        BY <1>1, <1>2 DEF Rounds
    <2>2. [h.last EXCEPT ![v] = IF h.last[v] < r THEN r ELSE h.last[v]] = last
        BY <2>1
    <2>3. x = [Put(h, v, r, t) EXCEPT !.last = [h.last EXCEPT ![v] = IF h.last[v] < r THEN r ELSE h.last[v]]]
        BY <1>1 DEF TrackRelease, Put, HandlerType
    <2> QED BY <2>2, <2>3
<1> HIDE DEF t, u, last
<1>7. /\ Put(h, v, r, t) \in HandlerType /\ Put(h, v, r, t).wrote = h.wrote
      /\ Put(h, v, r, t).fault = h.fault /\ Put(h, v, r, t).up = h.up
      /\ \A w \in Vehicle, s \in Rounds :
           Put(h, v, r, t).rounds[w][s] = IF w = v /\ s = r THEN t ELSE h.rounds[w][s]
    BY <1>1, <1>5, PutKept
<1>8. last \in [Vehicle -> 0 .. MaxRound] /\ \A w \in Vehicle : last[w] = IF w = v THEN r ELSE h.last[w]
    BY <1>1, <1>2 DEF last
<1>9. /\ x \in HandlerType /\ x.wrote = h.wrote /\ x.last = last /\ x.fault = h.fault /\ x.up = h.up
      /\ x.rounds = Put(h, v, r, t).rounds
    BY <1>6, <1>7, <1>8 DEF HandlerType
<1>10. ASSUME NEW w \in Vehicle, NEW s \in Rounds
       PROVE  /\ s <= x.last[w] <=> Released(p, w, s)
              /\ Sound(x.rounds[w][s], w, s, x.last[w], x.fault, a)
    <2>1. /\ s <= h.last[w] <=> Released(o, w, s)
          /\ Sound(h.rounds[w][s], w, s, h.last[w], h.fault, a)
        BY DEF Knows
    <2>2. s \in Nat /\ h.last[w] \in Nat /\ r \in Nat
        BY <1>2 DEF Rounds
    <2>3. Released(p, w, s) <=> Released(o, w, s) \/ (w = v /\ s = r)
        BY ReleasedMore
    <2>4. CASE w # v
        BY <1>7, <1>8, <1>9, <2>1, <2>3, <2>4
    <2>5. CASE w = v /\ s = r
        <3>1. x.rounds[w][s] = t /\ x.last[w] = r
            BY <1>7, <1>8, <1>9, <2>5
        <3> QED BY <1>5, <2>2, <2>3, <2>5, <3>1 DEF Sound, Waiting
    <2>6. CASE w = v /\ s # r
        <3>1. x.rounds[w][s] = h.rounds[w][s] /\ x.last[w] = r /\ r = h.last[w] + 1
            BY <1>7, <1>8, <1>9, <2>6
        <3>2. s <= x.last[w] <=> s <= h.last[w]
            BY <2>2, <2>6, <3>1
        <3> HIDE DEF r, v
        <3> QED BY <1>9, <2>1, <2>2, <2>3, <2>6, <3>1, <3>2 DEF Sound
    <2> QED BY <2>4, <2>5, <2>6
<1> HIDE DEF p
<1>11. Knows(x, p, a)
    BY <1>9, <1>10 DEF Knows
<1> QED BY <1>9, <1>11 DEF p

\* The next order leaves the releases in order.
LEMMA OrderlyMore ==
    ASSUME NEW o, NEW a, NEW b, Orderly(o, a), a \subseteq b
    PROVE  Orderly(o, b)
BY DEF Orderly

LEMMA OrderlyNext ==
    ASSUME NEW o \in Seq(OrderType), NEW e \in OrderType, NEW a, Orderly(o, a), NEW h,
           h \in HandlerType, Knows(h, o, a),
           e.type = "release" =>
             /\ e.round = h.last[e.vehicle] + 1
             /\ \A q \in Peer : Holding(q, e.vehicle, e.round, e) \in a
    PROVE  Orderly(Append(o, e), a)
<1> DEFINE p == Append(o, e)
<1>1. DOMAIN p = 1 .. (Len(o) + 1) /\ DOMAIN o = 1 .. Len(o) /\ Len(o) \in Nat
    OBVIOUS
<1>2. p[Len(o) + 1] = e /\ \A i \in 1 .. Len(o) : p[i] = o[i]
    OBVIOUS
<1> HIDE DEF p
<1>3. ASSUME NEW v \in Vehicle, NEW r \in Rounds, NEW i \in DOMAIN p, Releases(p, i, v, r)
      PROVE  /\ r = 1 \/ \E k \in 1 .. (i - 1) : Releases(p, k, v, r - 1)
             /\ \A k \in 1 .. (i - 1), n \in r .. MaxRound : ~ Releases(p, k, v, n)
             /\ \A q \in Peer : Holding(q, v, r, p[i]) \in a
    <2>1. \A n : \A k \in 1 .. (i - 1) : Releases(p, k, v, n) <=> Releases(o, k, v, n)
        BY <1>1, <1>2 DEF Releases
    <2>2. CASE i \in 1 .. Len(o)
        <3>1. Releases(o, i, v, r) /\ p[i] = o[i] /\ i \in DOMAIN o
            BY <1>1, <1>2, <1>3, <2>2 DEF Releases
        <3>2. /\ r = 1 \/ \E k \in 1 .. (i - 1) : Releases(o, k, v, r - 1)
              /\ \A k \in 1 .. (i - 1), n \in r .. MaxRound : ~ Releases(o, k, v, n)
              /\ \A q \in Peer : Holding(q, v, r, o[i]) \in a
            BY <3>1 DEF Orderly
        <3> QED BY <2>1, <3>1, <3>2
    <2>3. CASE i = Len(o) + 1
        <3>1. p[i] = e /\ e.type = "release" /\ e.vehicle = v /\ e.round = r
            BY <1>2, <1>3, <2>3 DEF Releases
        <3>2. r = h.last[v] + 1 /\ r \in Nat /\ r >= 1 /\ h.last[v] \in Nat /\ r <= MaxRound
            BY <3>1, BarrierAssumption DEF HandlerType, Rounds
        <3>3. i - 1 = Len(o)
            BY <1>1, <2>3
        <3>4. \A s \in Rounds : s <= h.last[v] <=> \E k \in 1 .. (i - 1) : Releases(o, k, v, s)
            BY <1>1, <3>3 DEF Knows, Released
        <3>5. r = 1 \/ \E k \in 1 .. (i - 1) : Releases(o, k, v, r - 1)
            <4>1. r # 1 => r - 1 \in Rounds /\ r - 1 <= h.last[v]
                BY <3>2, BarrierAssumption DEF Rounds
            <4> QED BY <3>4, <4>1
        <3>6. ASSUME NEW k \in 1 .. (i - 1), NEW n \in r .. MaxRound, Releases(o, k, v, n)
              PROVE  FALSE
            <4>1. n \in Rounds /\ ~(n <= h.last[v])
                BY <3>2, BarrierAssumption DEF Rounds
            <4> QED BY <3>4, <3>6, <4>1
        <3>7. \A q \in Peer : Holding(q, v, r, p[i]) \in a
            BY <3>1
        <3>8. r = 1 \/ \E k \in 1 .. (i - 1) : Releases(p, k, v, r - 1)
            BY <2>1, <3>5
        <3> QED BY <2>1, <3>6, <3>7, <3>8
    <2>4. i \in 1 .. Len(o) \/ i = Len(o) + 1
        BY <1>1
    <2> QED BY <2>2, <2>3, <2>4
<1>4. Orderly(p, a)
    BY <1>3 DEF Orderly
<1> QED BY <1>4 DEF p
----------------------------------------------------------------------------
\* A journal with the memory it leads to, and as much of its orders.
Book(d, o, a) == [memory |-> d, orders |-> o, arrived |-> a]
Good(j) ==
    /\ j.memory \in MemoryType /\ j.orders \in Seq(OrderType) /\ j.arrived \subseteq ReportType
    /\ Knows(j.memory, j.orders, j.arrived) /\ Orderly(j.orders, j.arrived)

\* The entries by their types.
LEMMA EntryKinds ==
    /\ \A e \in OrderType : Ordered(e) /\ ~ Arrival(e)
    /\ \A e \in MessageType : ~ Ordered(e) /\ e.peer \in Peer
    /\ \A e \in MessageType : e.type = "report" => e \in ReportType
    /\ \A e \in MessageType : e.type \in {"report", "ack", "executed"}
    /\ \A e \in MessageType : Arrival(e) => e \in ReportType
BY DEF OrderType, MessageType, ReportType, Ordered, Arrival

\* A memory reads one more entry, an order which is not a release or a message.
LEMMA ReplayKnows ==
    ASSUME NEW h \in HandlerType, NEW e \in EntryType, NEW o \in Seq(OrderType), NEW a,
           a \subseteq ReportType, Knows(h, o, a), Orderly(o, a), e.type # "release",
           NEW j, j = Extend(Book(h, o, a), e)
    PROVE  /\ j.memory \in HandlerType /\ j.memory.wrote = h.wrote
           /\ j.memory = Replay(h, e)
           /\ j.orders \in Seq(OrderType) /\ j.arrived \subseteq ReportType
           /\ Knows(j.memory, j.orders, j.arrived) /\ Orderly(j.orders, j.arrived)
<1>1. /\ j.memory = Replay(h, e)
      /\ j.orders = (IF Ordered(e) THEN Append(o, e) ELSE o)
      /\ j.arrived = (IF Arrival(e) THEN a \union {e} ELSE a)
    BY DEF Extend, Book
<1>2. CASE e \in OrderType
    <2>1. j.orders = Append(o, e) /\ j.orders \in Seq(OrderType) /\ j.arrived = a
        BY <1>1, <1>2, EntryKinds
    <2>2. Orderly(j.orders, j.arrived) /\ Knows(h, j.orders, a)
        BY <1>2, <2>1, OrderlyNext, KnowsOther
    <2>3. e.type \in {"assign", "sell", "outcome", "sync_fault"}
        BY <1>2 DEF OrderType
    <2>4. CASE e.type = "sync_fault"
        <3> DEFINE m == Remember(h, "restored")
        <3>1. "restored" \in Faults \ {"none"}
            BY DEF Faults
        <3>2. m \in HandlerType /\ m.wrote = h.wrote /\ m.fault # "none" /\ Same(h, m)
            BY <3>1, RememberKept
        <3>3. Replay(h, e) = [m EXCEPT !.emitted = TRUE]
            BY <2>4 DEF Replay
        <3> HIDE DEF m
        <3>4. /\ Replay(h, e) \in HandlerType /\ Replay(h, e).wrote = h.wrote
              /\ Same(h, Replay(h, e)) /\ Replay(h, e).fault # "none"
            BY <3>2, <3>3 DEF HandlerType, Same
        <3> QED BY <1>1, <2>1, <2>2, <3>4, KnowsSame
    <2>5. CASE e.type \in {"assign", "sell", "outcome"}
        <3>1. Replay(h, e) = TrackChange(h, e)
            BY <2>5 DEF Replay
        <3> QED BY <1>1, <1>2, <2>1, <2>2, <3>1, ChangeKnows
    <2> QED BY <1>1, <2>1, <2>2, <2>3, <2>4, <2>5
<1>3. CASE e \in MessageType
    <2>1. j.orders = o /\ e.peer \in Peer /\ a \subseteq j.arrived /\ j.arrived \subseteq ReportType
        BY <1>1, <1>3, EntryKinds
    <2>2. Orderly(o, j.arrived)
        BY <2>1, OrderlyMore
    <2>3. CASE e.type = "report"
        <3>1. Replay(h, e) = Record(h, e, "replay") /\ e \in ReportType
            BY <1>3, <2>3, EntryKinds DEF Replay
        <3>2. /\ j.memory \in HandlerType /\ j.memory.wrote = h.wrote
              /\ Knows(j.memory, o, j.arrived)
            BY <1>1, <3>1, RecordKnows
        <3> QED BY <1>1, <2>1, <2>2, <3>2
    <2>4. CASE e.type = "ack"
        <3>1. Replay(h, e) = ResolveAck(h, e, "replay") /\ j.arrived = a
            BY <1>1, <2>4 DEF Replay, Arrival
        <3>2. /\ j.memory \in HandlerType /\ j.memory.wrote = h.wrote
              /\ Knows(j.memory, o, a)
            BY <1>1, <1>3, <2>4, <3>1, AckKnows
        <3> QED BY <1>1, <2>1, <2>2, <3>1, <3>2
    <2>5. CASE e.type = "executed"
        <3>1. Replay(h, e) = Executed(h, e) /\ j.arrived = a
            BY <1>1, <2>5 DEF Replay, Arrival
        <3>2. /\ j.memory \in HandlerType /\ j.memory.wrote = h.wrote
              /\ Knows(j.memory, o, a)
            BY <1>1, <1>3, <2>1, <3>1, ExecutedKnows
        <3> QED BY <1>1, <2>1, <2>2, <3>1, <3>2
    <2> QED BY <1>3, <2>3, <2>4, <2>5, EntryKinds
<1> QED BY <1>2, <1>3 DEF EntryType

\* So the journal stays sound.
LEMMA ReplayGood ==
    ASSUME NEW j, Good(j), j = Book(j.memory, j.orders, j.arrived),
           NEW e \in EntryType, e.type # "release", NEW k, k = Extend(j, e)
    PROVE  Good(k) /\ k = Book(k.memory, k.orders, k.arrived)
<1>1. j.memory \in HandlerType /\ j.memory.wrote = <<>>
    BY Typed DEF Good, MemoryType
<1>2. /\ k.memory \in HandlerType /\ k.memory.wrote = <<>>
      /\ k.orders \in Seq(OrderType) /\ k.arrived \subseteq ReportType
      /\ Knows(k.memory, k.orders, k.arrived) /\ Orderly(k.orders, k.arrived)
    <2>1. ASSUME NEW h \in HandlerType, NEW o \in Seq(OrderType), NEW a,
                 a \subseteq ReportType, Knows(h, o, a), Orderly(o, a), k = Extend(Book(h, o, a), e)
          PROVE  /\ k.memory \in HandlerType /\ k.memory.wrote = h.wrote
                 /\ k.orders \in Seq(OrderType) /\ k.arrived \subseteq ReportType
                 /\ Knows(k.memory, k.orders, k.arrived) /\ Orderly(k.orders, k.arrived)
        BY <2>1, ReplayKnows
    <2> QED BY <1>1, <2>1 DEF Good
<1>3. k.memory \in MemoryType
    BY <1>2 DEF HandlerType, MemoryType
<1>4. k = Book(k.memory, k.orders, k.arrived)
    BY DEF Extend, Book
<1> QED BY <1>2, <1>3, <1>4 DEF Good

\* A departure that waits: the round is open, and every peer has reached it.
LEMMA DelayKnows ==
    ASSUME NEW x \in HandlerType, NEW o, NEW a, Knows(x, o, a), NEW v \in Vehicle, NEW r \in Rounds,
           x.rounds[v][r].status \in Waiting, NEW s \in Waiting,
           NEW y, y = [x EXCEPT !.rounds[v][r].status = s]
    PROVE  y \in HandlerType /\ y.wrote = x.wrote /\ Knows(y, o, a)
<1> DEFINE u == x.rounds[v][r]
           t == [u EXCEPT !.status = s]
<1>1. y = Put(x, v, r, t)
    BY DEF Put
<1>2. u \in RoundType
    <2>1. x.rounds \in [Vehicle -> [Rounds -> RoundType]]
        BY DEF HandlerType
    <2> QED BY <2>1
<1>3. Sound(u, v, r, x.last[v], x.fault, a)
    BY DEF Knows
<1> HIDE DEF u
<1>4. /\ t \in RoundType /\ t.status = s /\ t.held = u.held
      /\ t.line = u.line /\ t.stop = u.stop
    BY <1>2 DEF RoundType, Statuses
<1>5. \A q : Holding(q, v, r, t) = Holding(q, v, r, u)
    BY <1>4 DEF Holding
<1>6. u.status \in Waiting
    BY DEF u
<1> HIDE DEF t
<1>7. Sound(t, v, r, x.last[v], x.fault, a)
    BY <1>3, <1>4, <1>5, <1>6 DEF Sound, Waiting
<1> QED BY <1>1, <1>4, <1>7, PutKept, PutKnows

\* Two memories that know of the same journal have the same last rounds.
LEMMA SameLast ==
    ASSUME NEW h \in HandlerType, NEW d \in HandlerType, NEW o, NEW a,
           Knows(h, o, a), Knows(d, o, a), NEW v \in Vehicle
    PROVE  h.last[v] = d.last[v]
<1>1. h.last[v] \in 0 .. MaxRound /\ d.last[v] \in 0 .. MaxRound
    BY DEF HandlerType
<1>2. \A r \in Rounds : r <= h.last[v] <=> r <= d.last[v]
    BY DEF Knows
<1>3. h.last[v] # 0 => h.last[v] \in Rounds /\ h.last[v] <= h.last[v]
    BY <1>1, BarrierAssumption DEF Rounds
<1>4. d.last[v] # 0 => d.last[v] \in Rounds /\ d.last[v] <= d.last[v]
    BY <1>1, BarrierAssumption DEF Rounds
<1>5. h.last[v] <= d.last[v]
    BY <1>1, <1>2, <1>3, BarrierAssumption
<1>6. d.last[v] <= h.last[v]
    BY <1>1, <1>2, <1>4, BarrierAssumption
<1> QED BY <1>1, <1>5, <1>6, BarrierAssumption

\* What a handler orders of its own leaves its memory and the journal agreeing: the
\* journal has the same last round, so the release is the next one there too.
LEMMA FinishKnows ==
    ASSUME NEW j, Good(j), j = Book(j.memory, j.orders, j.arrived),
           NEW x \in HandlerType, Knows(x, j.orders, j.arrived), NEW y, Finishes(x, y)
    PROVE  /\ y \in HandlerType
           /\ \/ y.wrote = x.wrote /\ Knows(y, j.orders, j.arrived)
              \/ \E f \in OrderType :
                   /\ y.wrote = Append(x.wrote, f)
                   /\ LET k == Extend(j, f)
                      IN Good(k) /\ Knows(y, k.orders, k.arrived)
<1> DEFINE o == j.orders
           a == j.arrived
<1>1. j.memory \in HandlerType /\ j.memory.wrote = <<>> /\ o \in Seq(OrderType)
    BY Typed DEF Good, MemoryType
<1>2. CASE y = x
    BY <1>2
<1>3. ASSUME NEW reason \in Faults \ {"none"}, x.fault # "none", y = FaultSession(x, reason)
      PROVE  /\ y \in HandlerType
             /\ \/ y.wrote = x.wrote /\ Knows(y, o, a)
                \/ \E f \in OrderType :
                     /\ y.wrote = Append(x.wrote, f)
                     /\ LET k == Extend(j, f)
                        IN Good(k) /\ Knows(y, k.orders, k.arrived)
    <2> DEFINE f == [type |-> "sync_fault"]
    <2>1. Remember(x, reason) = x
        BY <1>3 DEF Remember
    <2>2. CASE x.emitted
        BY <1>3, <2>1, <2>2 DEF FaultSession
    <2>3. CASE ~ x.emitted
        <3> DEFINE m == [x EXCEPT !.emitted = TRUE]
        <3>1. y = Write(m, f)
            BY <1>3, <2>1, <2>3 DEF FaultSession
        <3>2. m \in HandlerType /\ m.wrote = x.wrote /\ Same(x, m) /\ m.fault = x.fault
            BY DEF HandlerType, Same
        <3>3. f \in OrderType /\ f \in EntryType /\ f.type = "sync_fault"
            BY DEF OrderType, EntryType
        <3> HIDE DEF m, f
        <3>4. y \in HandlerType /\ y.wrote = Append(x.wrote, f) /\ Same(x, y) /\ y.fault = x.fault
            BY <3>1, <3>2, <3>3, WriteKept DEF Same
        <3>5. Knows(y, o, a)
            BY <3>4, KnowsSame
        <3>6. Good(Extend(j, f))
            BY <3>3, ReplayGood
        <3>7. Extend(j, f).orders = Append(o, f) /\ Extend(j, f).arrived = a
            BY <3>3 DEF Extend, Ordered, Arrival
        <3>8. Knows(y, Append(o, f), a)
            BY <1>1, <3>3, <3>5, KnowsOther
        <3> QED BY <3>3, <3>4, <3>6, <3>7, <3>8
    <2> QED BY <2>2, <2>3
<1>4. ASSUME NEW v \in Vehicle, NEW r \in Rounds, x.rounds[v][r].status \in Waiting,
             y = MaybeEmitRelease(x, v, r)
      PROVE  /\ y \in HandlerType
             /\ \/ y.wrote = x.wrote /\ Knows(y, o, a)
                \/ \E f \in OrderType :
                     /\ y.wrote = Append(x.wrote, f)
                     /\ LET k == Extend(j, f)
                        IN Good(k) /\ Knows(y, k.orders, k.arrived)
    <2>1. CASE x.fault # "none" \/ x.change # NoChange
        <3>1. y = [x EXCEPT !.rounds[v][r].status = "waiting-authority"]
            BY <1>4, <2>1 DEF MaybeEmitRelease
        <3> QED BY <1>4, <3>1, DelayKnows DEF Waiting
    <2>2. CASE x.fault = "none" /\ x.change = NoChange /\ clock = "meets"
        <3>1. y = [x EXCEPT !.rounds[v][r].status = "waiting-clock"]
            BY <1>4, <2>2 DEF MaybeEmitRelease
        <3> QED BY <1>4, <3>1, DelayKnows DEF Waiting
    <2>3. CASE x.fault = "none" /\ x.change = NoChange /\ clock # "meets"
        <3> DEFINE t == x.rounds[v][r]
                   f == Release(v, r, t, clock = "stands")
                   m == Write(x, f)
        <3>1. y = TrackRelease(m, f)
            BY <1>4, <2>3 DEF MaybeEmitRelease, Emit
        <3>2. t \in RoundType
            <4>1. x.rounds \in [Vehicle -> [Rounds -> RoundType]]
                BY DEF HandlerType
            <4> QED BY <4>1
        <3>3. /\ f \in OrderType /\ f.type = "release" /\ f.vehicle = v /\ f.round = r
              /\ f.line = t.line /\ f.stop = t.stop
            BY <3>2 DEF Release, OrderType, RoundType
        <3>4. Sound(t, v, r, x.last[v], x.fault, a)
            BY DEF Knows
        <3>5. t.status \in Waiting
            BY <1>4
        <3> HIDE DEF t, f
        <3>6. r = x.last[v] + 1 /\ \A q \in Peer : Holding(q, v, r, f) \in a
            <4>1. t.held = Peer /\ r = x.last[v] + 1
                BY <2>3, <3>4, <3>5 DEF Sound
            <4>2. \A q : Holding(q, v, r, f) = Holding(q, v, r, t)
                BY <3>3 DEF Holding
            <4> QED BY <3>4, <4>1, <4>2 DEF Sound
        <3>7. m \in HandlerType /\ m.wrote = Append(x.wrote, f) /\ Same(x, m) /\ m.fault = x.fault
            BY <3>3, WriteKept DEF EntryType
        <3>8. Knows(m, o, a) /\ m.last = x.last
            BY <3>7, KnowsSame DEF Same
        <3> HIDE DEF m
        <3>9. y \in HandlerType /\ y.wrote = Append(x.wrote, f) /\ Knows(y, Append(o, f), a)
            BY <1>1, <3>1, <3>3, <3>6, <3>7, <3>8, ReleaseKnows
        <3>10. r = j.memory.last[v] + 1
            BY <1>1, <3>6, SameLast DEF Good
        <3> DEFINE k == Extend(j, f)
        <3>11. /\ k.memory = TrackRelease(j.memory, f) /\ k.orders = Append(o, f) /\ k.arrived = a
            BY <3>3 DEF Extend, Replay, Ordered, Arrival
        <3> HIDE DEF k
        <3>12. /\ k.memory \in HandlerType /\ k.memory.wrote = <<>>
               /\ Knows(k.memory, k.orders, k.arrived)
            BY <1>1, <3>3, <3>10, <3>11, ReleaseKnows DEF Good
        <3>13. Orderly(k.orders, k.arrived)
            BY <1>1, <3>3, <3>6, <3>11, OrderlyNext DEF Good
        <3>14. k.memory \in MemoryType
            BY <3>12 DEF HandlerType, MemoryType
        <3>15. Good(k)
            <4>1. k.orders \in Seq(OrderType) /\ k.arrived \subseteq ReportType
                BY <1>1, <3>3, <3>11 DEF Good
            <4> QED BY <3>12, <3>13, <3>14, <4>1 DEF Good
        <3> QED BY <3>3, <3>9, <3>11, <3>15 DEF k
    <2> QED BY <2>1, <2>2, <2>3
<1> QED BY <1>2, <1>3, <1>4 DEF Finishes
----------------------------------------------------------------------------
(* The journal after some entries of a handler: Extended is what its          *)
(* definition says, by a least counterexample.                                *)
LEMMA Least ==
    ASSUME NEW T, T \subseteq Nat, T # {}
    PROVE  \E x \in T : \A y \in T : x <= y
<1>1. \E x \in T : \A y \in T : ~(<<y, x>> \in OpToRel(<, Nat))
    BY NatLessThanWellFounded, WFMin
<1>2. PICK x \in T : \A y \in T : ~(<<y, x>> \in OpToRel(<, Nat))
    BY <1>1
<1>3. ASSUME NEW y \in T PROVE x <= y
    <2>1. <<y, x>> \notin {ss \in Nat \X Nat : ss[1] < ss[2]}
        BY <1>2 DEF OpToRel
    <2> QED BY <2>1
<1> QED BY <1>3

Now == Book(disk, orders, arrived)

Unfolds(f, w, n) ==
    f = [i \in 0 .. n |-> IF i = 0 THEN Now ELSE Extend(f[i - 1], w[i])]

LEMMA UnfoldsExists ==
    ASSUME NEW w
    PROVE  \A n \in Nat : \E f : Unfolds(f, w, n)
<1> DEFINE T == {n \in Nat : ~ \E f : Unfolds(f, w, n)}
<1> SUFFICES ASSUME T # {} PROVE FALSE
    OBVIOUS
<1>1. PICK n \in T : \A m \in T : n <= m
    BY Least
<1>2. n # 0
    <2>1. Unfolds([i \in 0 .. 0 |-> Now], w, 0)
        BY DEF Unfolds
    <2> QED BY <2>1
<1>3. n - 1 \in Nat /\ n - 1 \notin T /\ n \in Nat
    BY <1>1, <1>2
<1>4. PICK f : Unfolds(f, w, n - 1)
    BY <1>3
<1> DEFINE g == [i \in 0 .. n |-> IF i = n THEN Extend(f[n - 1], w[n]) ELSE f[i]]
<1>5. Unfolds(g, w, n)
    <2>1. ASSUME NEW i \in 0 .. n
          PROVE  g[i] = IF i = 0 THEN Now ELSE Extend(g[i - 1], w[i])
        <3>1. CASE i = n
            BY <1>2, <1>3, <3>1
        <3>2. CASE i # n
            BY <1>2, <1>3, <1>4, <3>2 DEF Unfolds
        <3> QED BY <3>1, <3>2
    <2> QED BY <2>1 DEF Unfolds
<1> QED BY <1>5

LEMMA ExtendedSteps ==
    ASSUME NEW w, NEW len \in Nat, Len(w) = len
    PROVE  /\ Extended(w)[0] = Now
           /\ \A n \in 1 .. len : Extended(w)[n] = Extend(Extended(w)[n - 1], w[n])
<1>1. Extended(w) = CHOOSE f : Unfolds(f, w, len)
    BY DEF Extended, Unfolds, Now, Book
<1>2. Unfolds(Extended(w), w, len)
    BY <1>1, UnfoldsExists
<1> HIDE DEF Extended
<1>3. \A n \in 0 .. len :
        Extended(w)[n] = IF n = 0 THEN Now ELSE Extend(Extended(w)[n - 1], w[n])
    BY <1>2 DEF Unfolds
<1> QED BY <1>3

LEMMA ExtendedFew ==
    ASSUME NEW w
    PROVE  /\ Len(w) = 1 => /\ Extended(w)[0] = Now
                            /\ Extended(w)[1] = Extend(Now, w[1])
           /\ Len(w) = 2 => /\ Extended(w)[0] = Now
                            /\ Extended(w)[1] = Extend(Now, w[1])
                            /\ Extended(w)[2] = Extend(Extend(Now, w[1]), w[2])
<1> DEFINE E == Extended(w)
<1>1. ASSUME NEW len \in Nat, Len(w) = len
      PROVE  /\ E[0] = Now
             /\ \A n \in 1 .. len : E[n] = Extend(E[n - 1], w[n])
    BY <1>1, ExtendedSteps
<1> HIDE DEF E
<1>2. CASE Len(w) = 1
    <2>1. E[0] = Now /\ E[1] = Extend(E[1 - 1], w[1])
        BY <1>1, <1>2
    <2> QED BY <1>2, <2>1 DEF E
<1>3. CASE Len(w) = 2
    <2>1. E[0] = Now /\ E[1] = Extend(E[1 - 1], w[1]) /\ E[2] = Extend(E[2 - 1], w[2])
        BY <1>1, <1>3
    <2> QED BY <1>3, <2>1 DEF E
<1> QED BY <1>2, <1>3

Grown(j) ==
    /\ Len(orders) <= Len(j.orders)
    /\ \A i \in 1 .. Len(orders) : j.orders[i] = orders[i]

LEMMA ExtendGrows ==
    ASSUME NEW j, Good(j), Grown(j), NEW e \in EntryType, orders \in Seq(OrderType)
    PROVE  Grown(Extend(j, e))
<1>1. Extend(j, e).orders = IF Ordered(e) THEN Append(j.orders, e) ELSE j.orders
    BY DEF Extend
<1>2. CASE ~ Ordered(e)
    BY <1>1, <1>2 DEF Grown
<1>3. CASE Ordered(e)
    <2>1. j.orders \in Seq(OrderType) /\ Len(orders) \in Nat /\ Len(j.orders) \in Nat
        BY DEF Good
    <2>2. /\ Len(Append(j.orders, e)) = Len(j.orders) + 1
          /\ \A i \in 1 .. Len(j.orders) : Append(j.orders, e)[i] = j.orders[i]
        BY <2>1
    <2> QED BY <1>1, <1>3, <2>1, <2>2 DEF Grown
<1> QED BY <1>2, <1>3

\* However many of the entries of a handler are on the disk, the journal is sound,
\* and with all of them the memory of the host agrees with it.
Chained(y) ==
    LET E == Extended(y.wrote)
        len == Len(y.wrote)
    IN /\ \A n \in 0 .. len : Good(E[n]) /\ Grown(E[n])
       /\ Knows(y, E[len].orders, E[len].arrived)

\* A handler has written nothing yet, or the entry that it handles.
Begun(x) ==
    \/ x.wrote = <<>> /\ Knows(x, orders, arrived)
    \/ \E e \in EntryType :
         /\ e.type # "release" /\ x.wrote = <<e>>
         /\ LET k == Extend(Now, e) IN Knows(x, k.orders, k.arrived)

\* Every handler is one of the two.
LEMMA ChainedHandler ==
    ASSUME Good(Now), orders \in Seq(OrderType), NEW x \in HandlerType, Begun(x),
           NEW y, Finishes(x, y)
    PROVE  y \in HandlerType /\ Chained(y)
<1>1. Now = Book(Now.memory, Now.orders, Now.arrived) /\ Now.orders = orders /\ Now.arrived = arrived
    BY DEF Now, Book
<1>2. Grown(Now)
    BY <1>1 DEF Grown
<1> HIDE DEF Now
<1>3. CASE x.wrote = <<>> /\ Knows(x, orders, arrived)
    <2>1. y \in HandlerType
        BY <1>1, <1>3, FinishKnows
    <2>2. CASE y.wrote = <<>> /\ Knows(y, orders, arrived)
        <3>1. Len(y.wrote) = 0 /\ Extended(y.wrote)[0] = Now
            BY <2>2, ExtendedSteps
        <3> QED BY <1>1, <1>2, <2>1, <2>2, <3>1 DEF Chained
    <2>3. ASSUME NEW f \in OrderType, y.wrote = Append(x.wrote, f), Good(Extend(Now, f)),
                 Knows(y, Extend(Now, f).orders, Extend(Now, f).arrived)
          PROVE  Chained(y)
        <3>1. Len(y.wrote) = 1 /\ y.wrote[1] = f
            BY <1>3, <2>3
        <3>2. Extended(y.wrote)[0] = Now /\ Extended(y.wrote)[1] = Extend(Now, f)
            BY <3>1, ExtendedFew
        <3>3. Grown(Extend(Now, f))
            BY <1>2, ExtendGrows DEF EntryType
        <3>4. \A n \in 0 .. 1 : n = 0 \/ n = 1
            OBVIOUS
        <3> QED BY <1>2, <2>3, <3>1, <3>2, <3>3, <3>4 DEF Chained
    <2> QED BY <1>1, <1>3, <2>1, <2>2, <2>3, FinishKnows
<1>4. ASSUME NEW e \in EntryType, e.type # "release", x.wrote = <<e>>,
             Knows(x, Extend(Now, e).orders, Extend(Now, e).arrived)
      PROVE  y \in HandlerType /\ Chained(y)
    <2> DEFINE k == Extend(Now, e)
    <2>1. Good(k) /\ k = Book(k.memory, k.orders, k.arrived)
        BY <1>1, <1>4, ReplayGood
    <2>2. Grown(k)
        BY <1>2, ExtendGrows
    <2>3. Knows(x, k.orders, k.arrived)
        BY <1>4
    <2>4. k = Extend(Now, e)
        OBVIOUS
    <2> HIDE DEF k
    <2>5. y \in HandlerType
        BY <2>1, <2>3, FinishKnows
    <2>6. CASE y.wrote = x.wrote /\ Knows(y, k.orders, k.arrived)
        <3>1. Len(y.wrote) = 1 /\ y.wrote[1] = e
            BY <1>4, <2>6
        <3>2. Extended(y.wrote)[0] = Now /\ Extended(y.wrote)[1] = k
            BY <2>4, <3>1, ExtendedFew
        <3>3. \A n \in 0 .. 1 : n = 0 \/ n = 1
            OBVIOUS
        <3> QED BY <1>2, <2>1, <2>2, <2>5, <2>6, <3>1, <3>2, <3>3 DEF Chained
    <2>7. ASSUME NEW f \in OrderType, y.wrote = Append(x.wrote, f), Good(Extend(k, f)),
                 Knows(y, Extend(k, f).orders, Extend(k, f).arrived)
          PROVE  Chained(y)
        <3>1. Len(y.wrote) = 2 /\ y.wrote[1] = e /\ y.wrote[2] = f
            BY <1>4, <2>7
        <3>2. /\ Extended(y.wrote)[0] = Now /\ Extended(y.wrote)[1] = k
              /\ Extended(y.wrote)[2] = Extend(k, f)
            BY <2>4, <3>1, ExtendedFew
        <3>3. Grown(Extend(k, f))
            BY <2>1, <2>2, ExtendGrows DEF EntryType
        <3>4. \A n \in 0 .. 2 : n = 0 \/ n = 1 \/ n = 2
            OBVIOUS
        <3> QED BY <1>2, <2>1, <2>2, <2>7, <3>1, <3>2, <3>3, <3>4 DEF Chained
    <2> QED BY <2>1, <2>3, <2>5, <2>6, <2>7, FinishKnows
<1> QED BY <1>3, <1>4 DEF Begun
----------------------------------------------------------------------------
(* The steps of the host *)
HostOK ==
    /\ host \in MemoryType /\ orders \in Seq(OrderType) /\ spent \in 0 .. Budget
    /\ Good(Now) /\ (host.up => Knows(host, orders, arrived))

OrdersGrow ==
    /\ Len(orders) <= Len(orders') /\ \A i \in 1 .. Len(orders) : orders'[i] = orders[i]

LEMMA NowFields == /\ Now = Book(Now.memory, Now.orders, Now.arrived)
                   /\ Now.memory = disk /\ Now.orders = orders /\ Now.arrived = arrived
BY DEF Now, Book

\* A handler ends, or is cut short by a crash.
LEMMA JournalKept ==
    ASSUME NEW y \in HandlerType, Chained(y), NEW n \in 0 .. Len(y.wrote), Journal(y, n)
    PROVE  /\ Good(Now)' /\ OrdersGrow /\ orders' \in Seq(OrderType)
           /\ n = Len(y.wrote) => Knows(y, orders', arrived')
<1> DEFINE E == Extended(y.wrote)
           j == E[n]
<1>1. Good(j) /\ Grown(j) /\ (n = Len(y.wrote) => Knows(y, j.orders, j.arrived))
    BY DEF Chained
<1>2. disk' = j.memory /\ orders' = j.orders /\ arrived' = j.arrived
    BY DEF Journal
<1> HIDE DEF j
<1>3. Now' = Book(j.memory, j.orders, j.arrived)
    BY <1>2 DEF Now
<1>4. Good(Now')
    BY <1>1, <1>3 DEF Good, Book
<1>5. Good(Now)' <=> Good(Now')
    BY DEF Good
<1> QED BY <1>1, <1>2, <1>4, <1>5 DEF Grown, OrdersGrow, Good

LEMMA HandleKept ==
    ASSUME HostOK, NEW y \in HandlerType, Chained(y), NEW cost \in Nat, Handle(y, cost)
    PROVE  HostOK' /\ OrdersGrow
<1>1. Len(y.wrote) \in Nat
    BY DEF HandlerType
<1>2. CASE /\ MaySpend(cost) /\ spent' = spent + cost
           /\ host' = [y EXCEPT !.wrote = <<>>] /\ Journal(y, Len(y.wrote))
    <2>1. /\ Good(Now)' /\ OrdersGrow /\ orders' \in Seq(OrderType)
          /\ Knows(y, orders', arrived')
        BY <1>1, <1>2, JournalKept
    <2>2. host' \in MemoryType /\ Same(y, host') /\ host'.fault = y.fault
        BY <1>2 DEF HandlerType, MemoryType, Same
    <2>3. Knows(host', orders', arrived')
        BY <2>1, <2>2, KnowsSame
    <2>4. spent' \in 0 .. Budget
        BY <1>2, BarrierAssumption DEF MaySpend, HostOK
    <2> QED BY <2>1, <2>2, <2>3, <2>4 DEF HostOK, Knows
<1>3. CASE /\ MaySpend(cost + 1) /\ spent' = spent + cost + 1
           /\ \E n \in 1 .. (Len(y.wrote) - 1) : host' = Down /\ Journal(y, n)
    <2>1. PICK n \in 1 .. (Len(y.wrote) - 1) : host' = Down /\ Journal(y, n)
        BY <1>3
    <2>2. n \in 0 .. Len(y.wrote)
        BY <1>1, <2>1
    <2>3. Good(Now)' /\ OrdersGrow /\ orders' \in Seq(OrderType)
        BY <2>1, <2>2, JournalKept
    <2>4. host' \in MemoryType /\ ~ host'.up
        <3>1. Down.up = FALSE
            BY DEF Down, Fresh
        <3> QED BY <2>1, <3>1, Typed
    <2>5. spent' \in 0 .. Budget
        BY <1>3, BarrierAssumption DEF MaySpend, HostOK
    <2> QED BY <2>3, <2>4, <2>5 DEF HostOK
<1> QED BY <1>2, <1>3 DEF Handle

LEMMA Handled ==
    ASSUME HostOK, NEW x \in HandlerType, Begun(x), NEW y, Finishes(x, y),
           NEW cost \in Nat, Handle(y, cost)
    PROVE  HostOK' /\ OrdersGrow
<1>1. y \in HandlerType /\ Chained(y)
    BY ChainedHandler DEF HostOK
<1> QED BY <1>1, HandleKept

LEMMA HostFields ==
    ASSUME HostOK, host.up
    PROVE  host \in HandlerType /\ host.wrote = <<>> /\ Knows(host, orders, arrived)
BY Typed DEF HostOK, MemoryType

\* The host with the entry that it handles.
LEMMA NotedHost ==
    ASSUME HostOK, host.up, NEW e \in EntryType, NEW n, n = Write(host, e)
    PROVE  n \in HandlerType /\ n.wrote = <<e>> /\ Knows(n, orders, arrived)
<1>1. n \in HandlerType /\ n.wrote = Append(host.wrote, e) /\ Same(host, n) /\ n.fault = host.fault
    BY HostFields, WriteKept
<1>2. Knows(n, orders, arrived)
    BY <1>1, HostFields, KnowsSame
<1>3. Append(<<>>, e) = <<e>>
    OBVIOUS
<1> QED BY <1>1, <1>2, <1>3, HostFields

LEMMA NowExtended ==
    ASSUME NEW e
    PROVE  /\ Extend(Now, e).orders = (IF Ordered(e) THEN Append(orders, e) ELSE orders)
           /\ Extend(Now, e).arrived = (IF Arrival(e) THEN arrived \union {e} ELSE arrived)
BY NowFields DEF Extend

\* The steps of the host, one by one.
LEMMA ReadMessageKept ==
    ASSUME TypeOK, HostOK, NEW p \in Peer, ReadMessage(p)
    PROVE  /\ HostOK' /\ OrdersGrow /\ UNCHANGED <<game, read, clock>>
           /\ out' \in [Peer -> Seq(MessageType)] /\ \A q \in Peer : Len(out'[q]) <= 2
<1> DEFINE e == Head(out[p])
           n == Write(host, e)
<1>1. host.up /\ UNCHANGED <<game, read, clock>>
    BY DEF ReadMessage
<1>2. /\ out \in [Peer -> Seq(MessageType)] /\ out[p] \in Seq(MessageType) /\ out[p] # <<>>
      /\ Len(out[p]) <= 2 /\ \A q \in Peer : Len(out[q]) <= 2
    BY DEF ReadMessage, TypeOK
<1>3. e \in MessageType /\ Tail(out[p]) \in Seq(MessageType) /\ Len(Tail(out[p])) = Len(out[p]) - 1
    BY <1>2
<1>4. out' \in [Peer -> Seq(MessageType)] /\ \A q \in Peer : Len(out'[q]) <= 2
    <2>1. out' = [out EXCEPT ![p] = Tail(out[p])]
        BY DEF ReadMessage
    <2>2. Len(Tail(out[p])) <= 2
        BY <1>2, <1>3
    <2> QED BY <1>2, <1>3, <2>1, <2>2
<1>5. e \in EntryType /\ e.type # "release" /\ ~ Ordered(e) /\ e.peer \in Peer
    BY <1>3, EntryKinds DEF EntryType
<1>6. e.type \in {"report", "ack", "executed"} /\ (e.type = "report" => e \in ReportType)
    BY <1>3, EntryKinds
<1>7. /\ e.type = "report" => Handle(Record(n, e, "live"), 0)
      /\ e.type = "ack" => Handle(ResolveAck(n, e, "live"), 0)
      /\ e.type = "executed" => Handle(Executed(n, e), 0)
    BY DEF ReadMessage
<1> HIDE DEF e
<1>8. n \in HandlerType /\ n.wrote = <<e>> /\ Knows(n, orders, arrived)
    BY <1>1, <1>5, NotedHost
<1> DEFINE b == IF Arrival(e) THEN arrived \union {e} ELSE arrived
<1>9. Extend(Now, e).orders = orders /\ Extend(Now, e).arrived = b
    BY <1>5, NowExtended
<1> HIDE DEF n
<1>10. CASE e.type = "report"
    <2> DEFINE x == Record(n, e, "replay")
               y == Record(n, e, "live")
    <2>1. x \in HandlerType /\ x.wrote = n.wrote /\ Knows(x, orders, b) /\ Finishes(x, y)
        BY <1>6, <1>8, <1>10, RecordKnows
    <2>2. Handle(y, 0)
        BY <1>7, <1>10
    <2> HIDE DEF x, y, b
    <2>3. Begun(x)
        BY <1>5, <1>8, <1>9, <2>1 DEF Begun
    <2> QED BY <1>1, <1>4, <2>1, <2>2, <2>3, Handled
<1>11. CASE e.type = "ack"
    <2> DEFINE x == ResolveAck(n, e, "replay")
               y == ResolveAck(n, e, "live")
    <2>1. x \in HandlerType /\ x.wrote = n.wrote /\ Knows(x, orders, arrived) /\ Finishes(x, y)
        BY <1>3, <1>8, <1>11, AckKnows
    <2>2. Handle(y, 0)
        BY <1>7, <1>11
    <2>3. b = arrived
        BY <1>11 DEF Arrival
    <2> HIDE DEF x, y, b
    <2>4. Begun(x)
        BY <1>5, <1>8, <1>9, <2>1, <2>3 DEF Begun
    <2> QED BY <1>1, <1>4, <2>1, <2>2, <2>4, Handled
<1>12. CASE e.type = "executed"
    <2> DEFINE y == Executed(n, e)
    <2>1. y \in HandlerType /\ y.wrote = n.wrote /\ Knows(y, orders, arrived)
        BY <1>3, <1>5, <1>8, ExecutedKnows
    <2>2. Handle(y, 0)
        BY <1>7, <1>12
    <2>3. b = arrived
        BY <1>12 DEF Arrival
    <2> HIDE DEF y, b
    <2>4. Begun(y) /\ Finishes(y, y)
        BY <1>5, <1>8, <1>9, <2>1, <2>3 DEF Begun, Finishes
    <2> QED BY <1>1, <1>4, <2>1, <2>2, <2>4, Handled
<1> QED BY <1>6, <1>10, <1>11, <1>12

LEMMA HostBegun ==
    ASSUME HostOK, host.up
    PROVE  host \in HandlerType /\ Begun(host)
BY HostFields DEF Begun

LEMMA OrderBegun ==
    ASSUME HostOK, host.up, NEW e \in OrderType, e.type # "release",
           NEW y, y = TrackChange(Write(host, e), e)
    PROVE  y \in HandlerType /\ Begun(y)
<1> DEFINE n == Write(host, e)
<1>1. e \in EntryType /\ Ordered(e) /\ ~ Arrival(e)
    BY EntryKinds DEF EntryType
<1>2. n \in HandlerType /\ n.wrote = <<e>> /\ Knows(n, orders, arrived)
    BY <1>1, NotedHost
<1>3. y = TrackChange(n, e)
    OBVIOUS
<1> HIDE DEF n
<1>4. y \in HandlerType /\ y.wrote = n.wrote /\ Knows(y, orders, arrived)
    BY <1>2, <1>3, ChangeKnows
<1>5. Knows(y, Append(orders, e), arrived)
    BY <1>4, KnowsOther DEF HostOK
<1>6. Extend(Now, e).orders = Append(orders, e) /\ Extend(Now, e).arrived = arrived
    BY <1>1, NowExtended
<1> QED BY <1>1, <1>2, <1>4, <1>5, <1>6 DEF Begun

LEMMA FlushKept ==
    ASSUME HostOK, Flush
    PROVE  HostOK' /\ OrdersGrow /\ UNCHANGED <<game, read, out, clock>>
<1>1. host.up /\ UNCHANGED <<game, read, out, clock>>
    BY DEF Flush
<1>2. PICK v \in Vehicle, r \in Rounds :
        host.rounds[v][r].status \in Waiting /\ Handle(MaybeEmitRelease(host, v, r), 0)
    BY DEF Flush
<1>3. host \in HandlerType /\ Begun(host)
    BY <1>1, HostBegun
<1>4. Finishes(host, MaybeEmitRelease(host, v, r))
    BY <1>2 DEF Finishes
<1> QED BY <1>1, <1>2, <1>3, <1>4, Handled

LEMMA TimeoutKept ==
    ASSUME HostOK, Timeout
    PROVE  HostOK' /\ OrdersGrow /\ UNCHANGED <<game, read, out, clock>>
<1>1. host.up /\ UNCHANGED <<game, read, out, clock>>
    BY DEF Timeout
<1>2. PICK v \in Vehicle, r \in Rounds :
        Handle(FaultSession([host EXCEPT !.rounds[v][r].status = "faulted"], "timeout"), 1)
    BY DEF Timeout
<1>3. host \in HandlerType /\ host.wrote = <<>> /\ Knows(host, orders, arrived)
    BY <1>1, HostFields
<1> DEFINE u == host.rounds[v][r]
           t == [u EXCEPT !.status = "faulted"]
           n == Put(host, v, r, t)
           x == Remember(n, "timeout")
<1>4. u \in RoundType
    <2>1. host.rounds \in [Vehicle -> [Rounds -> RoundType]]
        BY <1>3 DEF HandlerType
    <2> QED BY <2>1
<1>5. Sound(u, v, r, host.last[v], host.fault, arrived)
    BY <1>3 DEF Knows
<1>6. n = [host EXCEPT !.rounds[v][r].status = "faulted"]
    BY DEF Put
<1> HIDE DEF u
<1>7. /\ t \in RoundType /\ t.status = "faulted" /\ t.held = u.held
      /\ t.line = u.line /\ t.stop = u.stop
    BY <1>4 DEF RoundType, Statuses
<1>8. Sound(t, v, r, host.last[v], "local", arrived)
    BY <1>5, <1>7 DEF Sound, Waiting, Holding
<1>9. "timeout" \in Faults \ {"none"}
    BY DEF Faults
<1> HIDE DEF t
<1>10. /\ x \in HandlerType /\ x.wrote = <<>> /\ Knows(x, orders, arrived)
       /\ Finishes(x, FaultSession(n, "timeout"))
    BY <1>3, <1>7, <1>8, <1>9, ClosedKnows
<1>11. Handle(FaultSession(n, "timeout"), 1)
    BY <1>2, <1>6
<1> HIDE DEF x, n
<1>12. Begun(x)
    BY <1>10 DEF Begun
<1> QED BY <1>1, <1>10, <1>11, <1>12, Handled

LEMMA ChangeKept ==
    ASSUME HostOK, NEW v \in Vehicle, Change(v)
    PROVE  HostOK' /\ OrdersGrow /\ UNCHANGED <<game, read, out, clock>>
<1>1. host.up /\ UNCHANGED <<game, read, out, clock>>
    BY DEF Change
<1>2. PICK e \in {[type |-> "assign", vehicle |-> v, line |-> l] :
                    l \in {k \in Line : \E p \in Peer : game[p][v].decl # k}} \union
                  {[type |-> "sell", vehicle |-> v, line |-> SomeLine]} :
        Handle(TrackChange(Write(host, e), e), 1)
    BY DEF Change
<1>3. e \in OrderType /\ e.type # "release"
    BY <1>2, Typed DEF OrderType
<1> DEFINE y == TrackChange(Write(host, e), e)
<1>4. y \in HandlerType /\ Begun(y)
    BY <1>1, <1>3, OrderBegun
<1>5. Handle(y, 1) /\ Finishes(y, y)
    BY <1>2 DEF Finishes
<1> HIDE DEF y
<1> QED BY <1>1, <1>4, <1>5, Handled

LEMMA OutcomeKept ==
    ASSUME HostOK, Outcome
    PROVE  HostOK' /\ OrdersGrow /\ UNCHANGED <<game, read, out, clock>>
<1> DEFINE c == host.change
           e == [type |-> "outcome", kind |-> c.kind, vehicle |-> c.vehicle, line |-> c.line]
           y == TrackChange(Write(host, e), e)
<1>1. host.up /\ c # NoChange /\ UNCHANGED <<game, read, out, clock>>
    BY DEF Outcome
<1>2. Handle(y, 0)
    BY DEF Outcome
<1>3. c \in [kind : {"assign", "sell"}, vehicle : Vehicle, line : Line, by : SUBSET Peer]
    BY <1>1 DEF HostOK, MemoryType, ChangeType
<1>4. e \in OrderType /\ e.type # "release"
    BY <1>3 DEF OrderType
<1> HIDE DEF e
<1>5. y \in HandlerType /\ Begun(y)
    BY <1>1, <1>4, OrderBegun
<1>6. Finishes(y, y)
    BY DEF Finishes
<1> HIDE DEF y
<1> QED BY <1>1, <1>2, <1>5, <1>6, Handled

LEMMA HostCrashKept ==
    ASSUME HostOK, HostCrash
    PROVE  HostOK' /\ OrdersGrow /\ UNCHANGED <<game, read, out, clock>>
<1>1. UNCHANGED <<disk, orders, arrived, game, read, out, clock>> /\ host' = Down
    BY DEF HostCrash, durable
<1>2. Down \in MemoryType /\ Down.up = FALSE
    BY Typed DEF Down, Fresh
<1>3. Now' = Now
    BY <1>1 DEF Now
<1>4. spent' \in 0 .. Budget
    BY BarrierAssumption DEF HostCrash, Spend, MaySpend, HostOK
<1>5. Good(Now)'
    BY <1>3 DEF Good, HostOK
<1>6. OrdersGrow
    BY <1>1 DEF OrdersGrow, HostOK
<1> QED BY <1>1, <1>2, <1>4, <1>5, <1>6 DEF HostOK

LEMMA HostRestartKept ==
    ASSUME HostOK, HostRestart
    PROVE  HostOK' /\ OrdersGrow /\ UNCHANGED <<game, read, out, clock>>
<1>1. Handle(LoadAudit(disk), 0) /\ UNCHANGED <<game, read, out, clock>>
    BY DEF HostRestart
<1>2. disk \in MemoryType /\ Knows(disk, orders, arrived)
    BY NowFields DEF HostOK, Good
<1>3. disk \in HandlerType /\ disk.wrote = <<>> /\ disk.fault \in Faults
    BY <1>2, Typed DEF MemoryType
<1>4. Begun(disk)
    BY <1>2, <1>3 DEF Begun
<1>5. Finishes(disk, LoadAudit(disk))
    <2>1. CASE disk.fault \notin {"none", "restored"}
        <3>1. LoadAudit(disk) = FaultSession(disk, disk.fault) /\ disk.fault \in Faults \ {"none"}
            BY <1>3, <2>1 DEF LoadAudit
        <3> QED BY <3>1 DEF Finishes
    <2>2. CASE disk.fault \in {"none", "restored"}
        BY <2>2 DEF LoadAudit, Finishes
    <2> QED BY <2>1, <2>2
<1> QED BY <1>1, <1>3, <1>4, <1>5, Handled
----------------------------------------------------------------------------
(* The steps of the games *)
GameOK ==
    /\ game \in [Peer -> [Vehicle -> ReplicaType]]
    /\ read \in [Peer -> Nat] /\ \A p \in Peer : read[p] <= Len(orders)
    /\ out \in [Peer -> Seq(MessageType)] /\ \A p \in Peer : Len(out[p]) <= 2
    /\ InStep

\* Orders are only appended, so a step of the host takes nothing from the games.
LEMMA GamesUntouched ==
    ASSUME HostOK, HostOK', GameOK, OrdersGrow, UNCHANGED <<game, read>>,
           out' \in [Peer -> Seq(MessageType)], \A q \in Peer : Len(out'[q]) <= 2
    PROVE  GameOK'
<1>1. ASSUME NEW p \in Peer
      PROVE  read[p] \in Nat /\ read[p] <= Len(orders) /\ read[p] <= Len(orders')
    <2>1. Len(orders) \in Nat /\ Len(orders') \in Nat
        BY DEF HostOK
    <2> QED BY <2>1 DEF GameOK, OrdersGrow
<1>2. ASSUME NEW p \in Peer, NEW v \in Vehicle
      PROVE  Follows(game[p][v], v, read[p])'
    <2>1. Follows(game[p][v], v, read[p])
        BY DEF GameOK, InStep
    <2>2. ASSUME NEW i \in 1 .. read[p], NEW r, Releases(orders, i, v, r)
          PROVE  Releases(orders', i, v, r)
        <3>1. i \in 1 .. Len(orders)
            BY <1>1 DEF HostOK
        <3> QED BY <2>2, <3>1 DEF OrdersGrow, Releases
    <2>3. game[p][v]' = game[p][v] /\ read[p]' = read[p]
        OBVIOUS
    <2> QED BY <2>1, <2>2, <2>3 DEF Follows
<1> QED BY <1>1, <1>2 DEF GameOK, InStep

\* One replica is set.
LEMMA GameSet ==
    ASSUME GameOK, UNCHANGED <<orders, read>>, NEW p \in Peer, NEW v \in Vehicle,
           NEW g \in ReplicaType, Follows(g, v, read[p]), game' = [game EXCEPT ![p][v] = g]
    PROVE  game' \in [Peer -> [Vehicle -> ReplicaType]] /\ InStep'
<1>1. /\ game' \in [Peer -> [Vehicle -> ReplicaType]]
      /\ \A q \in Peer, w \in Vehicle : game'[q][w] = IF q = p /\ w = v THEN g ELSE game[q][w]
    BY DEF GameOK
<1>2. ASSUME NEW q \in Peer, NEW w \in Vehicle
      PROVE  Follows(game[q][w], w, read[q])'
    <2>1. Follows(game'[q][w], w, read[q])
        BY <1>1 DEF GameOK, InStep
    <2> QED BY <2>1 DEF Follows
<1> QED BY <1>1, <1>2 DEF InStep

LEMMA ReplicaFields ==
    ASSUME GameOK, NEW p \in Peer, NEW v \in Vehicle
    PROVE  game[p][v] \in ReplicaType /\ Follows(game[p][v], v, read[p])
BY DEF GameOK, InStep

LEMMA ArriveKept ==
    ASSUME GameOK, NEW p \in Peer, NEW v \in Vehicle, Arrive(p, v)
    PROVE  GameOK' /\ UNCHANGED <<host, disk, orders, arrived, clock, spent>>
<1> DEFINE g == game[p][v]
           k == [g EXCEPT !.at = "stop"]
<1>1. UNCHANGED <<host, disk, orders, arrived, read, out, clock, spent>>
    BY DEF Arrive, durable
<1>2. game' = [game EXCEPT ![p][v] = k]
    BY DEF Arrive
<1>3. g \in ReplicaType /\ Follows(g, v, read[p])
    BY ReplicaFields
<1> HIDE DEF g
<1>4. /\ k \in ReplicaType /\ k.reported = g.reported /\ k.auth = g.auth
      /\ k.phase = g.phase /\ k.round = g.round
    BY <1>3 DEF ReplicaType
<1> HIDE DEF k
<1>5. Follows(k, v, read[p])
    BY <1>3, <1>4 DEF Follows
<1>6. game' \in [Peer -> [Vehicle -> ReplicaType]] /\ InStep'
    BY <1>1, <1>2, <1>4, <1>5, GameSet
<1> QED BY <1>1, <1>6 DEF GameOK

LEMMA DepartKept ==
    ASSUME GameOK, HostOK, NEW p \in Peer, NEW v \in Vehicle, Depart(p, v)
    PROVE  GameOK' /\ UNCHANGED <<host, disk, orders, arrived, clock>> /\ spent' \in 0 .. Budget
<1> DEFINE g == game[p][v]
           k == [g EXCEPT !.at = "way", !.stop = 1 - g.stop, !.stopped = FALSE]
<1>1. UNCHANGED <<host, disk, orders, arrived, read, out, clock>>
    BY DEF Depart, durable
<1>2. game' = [game EXCEPT ![p][v] = k]
    BY DEF Depart
<1>3. g \in ReplicaType /\ Follows(g, v, read[p])
    BY ReplicaFields
<1>4. spent' \in 0 .. Budget
    BY BarrierAssumption DEF Depart, Spend, MaySpend, HostOK
<1> HIDE DEF g
<1>5. 1 - g.stop \in Stops
    BY <1>3 DEF ReplicaType, Stops
<1>6. /\ k \in ReplicaType /\ k.reported = g.reported /\ k.auth = g.auth
      /\ k.phase = g.phase /\ k.round = g.round
    BY <1>3, <1>5 DEF ReplicaType
<1> HIDE DEF k
<1>7. Follows(k, v, read[p])
    BY <1>3, <1>6 DEF Follows
<1>8. game' \in [Peer -> [Vehicle -> ReplicaType]] /\ InStep'
    BY <1>1, <1>2, <1>6, <1>7, GameSet
<1> QED BY <1>1, <1>4, <1>8 DEF GameOK

LEMMA ReplicaTyped ==
    ASSUME NEW g \in ReplicaType
    PROVE  /\ g.phase \in Phases /\ g.round \in 0 .. MaxRound /\ g.line \in Line /\ g.decl \in Line
           /\ g.at \in {"way", "stop"} /\ g.stop \in Stops /\ g.stopped \in BOOLEAN
           /\ g.reported \in 0 .. MaxRound /\ g.auth.round \in 0 .. MaxRound
           /\ g.auth.line \in Line /\ g.auth.stop \in Stops
BY DEF ReplicaType

LEMMA ReportTyped ==
    ASSUME NEW p \in Peer, NEW v \in Vehicle, NEW g \in ReplicaType, g.round > 0,
           NEW state \in {"held", "released", "fault"}
    PROVE  Report(p, v, g, state) \in ReportType
<1>1. g.round \in Rounds /\ g.round # 0
    BY BarrierAssumption, ReplicaTyped DEF Rounds
<1> QED BY <1>1, ReplicaTyped DEF Report, ReportType

\* A replica seen for the first time.
LEMMA SeenKept ==
    ASSUME NEW g \in ReplicaType, NEW v, NEW n, Follows(g, v, n), NEW k, k = Seen(g)
    PROVE  /\ k \in ReplicaType /\ Follows(k, v, n) /\ k.auth = g.auth
           /\ g.phase = "new" => k.round = g.auth.round /\ k.phase \in {"enroute", "terminal"}
<1>1. CASE g.phase # "new"
    BY <1>1 DEF Seen
<1>2. CASE g.phase = "new"
    <2> DEFINE phase == IF g.at = "stop" THEN "terminal" ELSE "enroute"
    <2>1. k = [g EXCEPT !.phase = phase, !.round = g.auth.round]
        BY <1>2 DEF Seen
    <2>2. phase \in Phases /\ phase \in {"enroute", "terminal"}
        BY DEF Phases
    <2> HIDE DEF phase
    <2>3. /\ k \in ReplicaType /\ k.phase = phase /\ k.round = g.auth.round /\ k.auth = g.auth
          /\ k.reported = g.reported
        BY <2>1, <2>2 DEF ReplicaType
    <2> QED BY <2>2, <2>3 DEF Follows
<1> QED BY <1>1, <1>2

\* What a look at a replica may do to it, and what it may report.
Fit(o, v, n) ==
    /\ o.next \in ReplicaType /\ Follows(o.next, v, n) /\ o.cost \in {0, 1}
    /\ o.report = <<>> \/ \E e \in ReportType : o.report = <<e>>

LEMMA OnlyFit ==
    ASSUME NEW k \in ReplicaType, NEW v, NEW n, Follows(k, v, n),
           NEW o, o = [next |-> k, report |-> <<>>, cost |-> 0]
    PROVE  Fit(o, v, n)
BY DEF Fit

LEMMA DoesFit ==
    ASSUME NEW p \in Peer, NEW v \in Vehicle, NEW n, NEW k \in ReplicaType, Follows(k, v, n),
           k.round > 0, NEW state \in {"held", "released", "fault"}, NEW cost \in {0, 1},
           NEW o, o = [next |-> k, report |-> <<Report(p, v, k, state)>>, cost |-> cost]
    PROVE  Fit(o, v, n)
<1>1. Report(p, v, k, state) \in ReportType
    BY ReportTyped
<1> QED BY <1>1 DEF Fit

LEMMA FailsKept ==
    ASSUME NEW g \in ReplicaType, NEW v, NEW n, Follows(g, v, n)
    PROVE  Fails(g) \in ReplicaType /\ Follows(Fails(g), v, n) /\ Fails(g).round = g.round
<1>1. /\ Fails(g) \in ReplicaType /\ Fails(g).phase = "faulted" /\ Fails(g).round = g.round
      /\ Fails(g).auth = g.auth /\ Fails(g).reported = g.reported
    BY DEF Fails, ReplicaType, Phases
<1> QED BY <1>1 DEF Follows

\* Case by case: what processVehicle makes of a replica.
LEMMA ObservedFit ==
    ASSUME GameOK, NEW p \in Peer, NEW v \in Vehicle, NEW o \in Observed(p, v)
    PROVE  Fit(o, v, read[p])
<1> DEFINE g == Seen(game[p][v])
           n == read[p]
           hold == [g EXCEPT !.phase = "held", !.round = g.auth.round + 1, !.stopped = TRUE]
           go == [g EXCEPT !.phase = "await", !.stopped = FALSE, !.reported = g.round]
           known == g.auth.round > 0 /\ g.auth.line = g.line /\ g.auth.stop = g.stop
           rolled == [g EXCEPT !.phase = "enroute", !.round = g.auth.round,
                              !.reported = IF @ < g.auth.round THEN g.auth.round ELSE @]
           stood == [g EXCEPT !.phase = IF g.stopped THEN "armed" ELSE "await"]
           Only(next) == [next |-> next, report |-> <<>>, cost |-> 0]
           Does(next, state, cost) ==
             [next |-> next, report |-> <<Report(p, v, next, state)>>, cost |-> cost]
<1>1. g \in ReplicaType /\ Follows(g, v, n)
    BY ReplicaFields, SeenKept
<1>2. CASE g.at = "way" /\ g.phase \in {"held", "armed"}
    <2>1. o = Does(Fails(g), "fault", 0)
        BY <1>2 DEF Observed
    <2>2. Fails(g) \in ReplicaType /\ Follows(Fails(g), v, n) /\ Fails(g).round = g.round
        BY <1>1, FailsKept
    <2>3. g.round > 0
        BY <1>1, <1>2, ReplicaTyped, BarrierAssumption DEF Follows
    <2> HIDE DEF g
    <2> QED BY <2>1, <2>2, <2>3, DoesFit
<1>3. CASE g.at = "way" /\ g.phase \notin {"held", "armed", "faulted"}
    <2>1. o = Only(rolled)
        BY <1>3 DEF Observed
    <2> HIDE DEF g
    <2> DEFINE reported == IF g.reported < g.auth.round THEN g.auth.round ELSE g.reported
    <2>2. rolled = [g EXCEPT !.phase = "enroute", !.round = g.auth.round, !.reported = reported]
        OBVIOUS
    <2>3. reported \in 0 .. MaxRound /\ reported <= g.auth.round
        BY <1>1, ReplicaTyped, BarrierAssumption DEF Follows
    <2> HIDE DEF reported
    <2>4. /\ rolled \in ReplicaType /\ rolled.phase = "enroute" /\ rolled.auth = g.auth
          /\ rolled.reported = reported
        BY <1>1, <2>2, <2>3 DEF ReplicaType, Phases
    <2> HIDE DEF rolled
    <2>5. Follows(rolled, v, n)
        BY <1>1, <2>3, <2>4 DEF Follows
    <2> QED BY <2>1, <2>4, <2>5, OnlyFit
<1>4. CASE g.at = "stop" /\ g.phase = "terminal" /\ known
    <2>1. o = Only(stood)
        BY <1>4 DEF Observed
    <2> HIDE DEF g
    <2> DEFINE phase == IF g.stopped THEN "armed" ELSE "await"
    <2>2. stood = [g EXCEPT !.phase = phase] /\ phase \in Phases /\ phase \in {"armed", "await"}
        BY DEF Phases
    <2> HIDE DEF phase
    <2>3. /\ stood \in ReplicaType /\ stood.phase = phase /\ stood.auth = g.auth
          /\ stood.reported = g.reported /\ stood.round = g.round
        BY <1>1, <2>2 DEF ReplicaType
    <2> HIDE DEF stood
    <2>4. Follows(stood, v, n)
        BY <1>1, <1>4, <2>2, <2>3 DEF Follows
    <2> QED BY <2>1, <2>3, <2>4, OnlyFit
<1>5. CASE g.at = "stop" /\ g.phase = "armed"
    <2>1. o = Does(go, "released", 0) \/ o = Does(Fails(g), "fault", 1)
        BY <1>5 DEF Observed
    <2> HIDE DEF g
    <2>2. g.round > 0 /\ g.round = g.auth.round /\ g.round \in 0 .. MaxRound
        BY <1>1, <1>5, ReplicaTyped DEF Follows
    <2>3. /\ go \in ReplicaType /\ go.phase = "await" /\ go.auth = g.auth
          /\ go.reported = g.round /\ go.round = g.round
        BY <1>1, <2>2 DEF ReplicaType, Phases
    <2> HIDE DEF go
    <2>4. Follows(go, v, n)
        BY <1>1, <2>2, <2>3 DEF Follows
    <2>5. Fails(g) \in ReplicaType /\ Follows(Fails(g), v, n) /\ Fails(g).round = g.round
        BY <1>1, FailsKept
    <2> QED BY <2>1, <2>2, <2>3, <2>4, <2>5, DoesFit
<1>6. CASE g.at = "stop" /\ g.phase = "held"
    <2>1. o = Does(g, "held", 1)
        BY <1>6 DEF Observed
    <2> HIDE DEF g
    <2>2. g.round > 0
        BY <1>1, <1>6, ReplicaTyped, BarrierAssumption DEF Follows
    <2> QED BY <1>1, <2>1, <2>2, DoesFit
<1>7. CASE /\ g.at = "stop" /\ g.phase \notin {"faulted", "armed", "held", "await"}
           /\ ~(g.phase = "terminal" /\ known)
    <2>1. /\ g.auth.round # MaxRound
          /\ o = Does(hold, "held", 0) \/ o = Does(Fails(hold), "fault", 1)
        BY <1>7 DEF Observed
    <2> HIDE DEF g
    <2>2. g.auth.round + 1 \in 0 .. MaxRound /\ g.auth.round + 1 > 0
        BY <1>1, <2>1, ReplicaTyped, BarrierAssumption
    <2>3. /\ hold \in ReplicaType /\ hold.phase = "held" /\ hold.auth = g.auth
          /\ hold.reported = g.reported /\ hold.round = g.auth.round + 1
        BY <1>1, <2>2 DEF ReplicaType, Phases
    <2> HIDE DEF hold
    <2>4. Follows(hold, v, n)
        BY <1>1, <2>2, <2>3 DEF Follows
    <2>5. /\ Fails(hold) \in ReplicaType /\ Follows(Fails(hold), v, n)
          /\ Fails(hold).round = hold.round
        BY <2>3, <2>4, FailsKept
    <2> QED BY <2>1, <2>2, <2>3, <2>4, <2>5, DoesFit
<1>8. g.at \in {"way", "stop"} /\ g.phase # "faulted" /\ ~(g.at = "stop" /\ g.phase = "await")
    <2>1. g.at \in {"way", "stop"}
        BY <1>1, ReplicaTyped
    <2> QED BY <2>1 DEF Observed
<1> QED BY <1>2, <1>3, <1>4, <1>5, <1>6, <1>7, <1>8

LEMMA ObserveKept ==
    ASSUME GameOK, HostOK, NEW p \in Peer, NEW v \in Vehicle, Observe(p, v)
    PROVE  GameOK' /\ UNCHANGED <<host, disk, orders, arrived, clock>> /\ spent' \in 0 .. Budget
<1> DEFINE g == game[p][v]
<1>1. UNCHANGED <<host, disk, orders, arrived, read, clock>> /\ out[p] = <<>>
    BY DEF Observe, durable
<1>2. PICK o \in Observed(p, v) :
        /\ game' = [game EXCEPT ![p][v] = o.next]
        /\ out' = [out EXCEPT ![p] = @ \o Recovered(p, v, g) \o o.report]
        /\ MaySpend(o.cost) /\ spent' = spent + o.cost
    BY DEF Observe
<1>3. Fit(o, v, read[p])
    BY ObservedFit
<1>4. game' \in [Peer -> [Vehicle -> ReplicaType]] /\ InStep'
    BY <1>1, <1>2, <1>3, GameSet DEF Fit
<1>5. spent' \in 0 .. Budget
    BY <1>2, <1>3, BarrierAssumption DEF Fit, MaySpend, HostOK
<1>6. Recovered(p, v, g) = <<>> \/ \E e \in ReportType : Recovered(p, v, g) = <<e>>
    <2>1. CASE g.phase = "new" /\ g.at = "way" /\ g.auth.round > g.reported
        <3> DEFINE k == [Seen(g) EXCEPT !.stop = g.auth.stop]
        <3>1. g \in ReplicaType /\ Follows(g, v, read[p])
            BY ReplicaFields
        <3>2. Seen(g) \in ReplicaType /\ Seen(g).round = g.auth.round
            BY <2>1, <3>1, SeenKept
        <3>3. k \in ReplicaType /\ k.round > 0
            <4>1. k \in ReplicaType /\ k.round = g.auth.round
                BY <3>1, <3>2, ReplicaTyped DEF ReplicaType
            <4> QED BY <2>1, <3>1, <4>1, ReplicaTyped, BarrierAssumption
        <3>4. Recovered(p, v, g) = <<Report(p, v, k, "released")>>
            BY <2>1 DEF Recovered
        <3> QED BY <3>3, <3>4, ReportTyped
    <2>2. CASE ~(g.phase = "new" /\ g.at = "way" /\ g.auth.round > g.reported)
        BY <2>2 DEF Recovered
    <2> QED BY <2>1, <2>2
<1>7. out' \in [Peer -> Seq(MessageType)] /\ \A q \in Peer : Len(out'[q]) <= 2
    <2> DEFINE s == <<>> \o Recovered(p, v, g) \o o.report
    <2>1. s \in Seq(MessageType) /\ Len(s) <= 2
        <3>1. o.report = <<>> \/ \E e \in ReportType : o.report = <<e>>
            BY <1>3 DEF Fit
        <3>2. ReportType \subseteq MessageType
            BY DEF MessageType
        <3>3. CASE Recovered(p, v, g) = <<>> /\ o.report = <<>>
            BY <3>3
        <3>4. ASSUME NEW e \in ReportType, Recovered(p, v, g) = <<e>>, o.report = <<>>
              PROVE  s \in Seq(MessageType) /\ Len(s) <= 2
            BY <3>2, <3>4
        <3>5. ASSUME NEW e \in ReportType, Recovered(p, v, g) = <<>>, o.report = <<e>>
              PROVE  s \in Seq(MessageType) /\ Len(s) <= 2
            BY <3>2, <3>5
        <3>6. ASSUME NEW d \in ReportType, NEW e \in ReportType, Recovered(p, v, g) = <<d>>,
                     o.report = <<e>>
              PROVE  s \in Seq(MessageType) /\ Len(s) <= 2
            BY <3>2, <3>6
        <3> QED BY <1>6, <3>1, <3>3, <3>4, <3>5, <3>6
    <2>2. out' = [out EXCEPT ![p] = s]
        BY <1>1, <1>2
    <2> HIDE DEF s
    <2> QED BY <2>1, <2>2 DEF GameOK
<1> QED BY <1>1, <1>4, <1>5, <1>7 DEF GameOK

\* A game reads one more order.
LEMMA ReadMore ==
    ASSUME GameOK, orders \in Seq(OrderType), NEW p \in Peer, read[p] < Len(orders),
           read' = [read EXCEPT ![p] = @ + 1], orders' = orders
    PROVE  /\ read' \in [Peer -> Nat] /\ \A q \in Peer : read'[q] <= Len(orders')
           /\ \A q \in Peer : read[q] \in Nat /\ read[q] <= read'[q]
           /\ read'[p] = read[p] + 1
<1>1. Len(orders) \in Nat /\ read \in [Peer -> Nat] /\ \A q \in Peer : read[q] <= Len(orders)
    BY DEF GameOK
<1>2. \A q \in Peer : read'[q] = IF q = p THEN read[p] + 1 ELSE read[q]
    BY <1>1
<1> QED BY <1>1, <1>2

LEMMA FollowsOn ==
    ASSUME NEW g, NEW v, NEW m \in Nat, NEW n \in Nat, m <= n, Follows(g, v, m)
    PROVE  Follows(g, v, n)
<1>1. \A i \in 1 .. m : i \in 1 .. n
    OBVIOUS
<1> QED BY <1>1 DEF Follows

LEMMA ApplyKept ==
    ASSUME GameOK, HostOK, NEW p \in Peer, Apply(p)
    PROVE  GameOK' /\ UNCHANGED <<host, disk, orders, arrived, clock, spent>>
<1> DEFINE e == orders[read[p] + 1]
           n == read[p] + 1
<1>1. /\ UNCHANGED <<host, disk, orders, arrived, clock, spent>>
      /\ read[p] < Len(orders) /\ out[p] = <<>>
      /\ read' = [read EXCEPT ![p] = @ + 1]
    BY DEF Apply, durable
<1>2. /\ e.type = "release" => ApplyRelease(p, e)
      /\ e.type \in {"assign", "sell"} => ApplyChange(p, e)
      /\ e.type = "outcome" => ApplyOutcome(p, e)
      /\ e.type = "sync_fault" => UNCHANGED <<game, out>>
    BY DEF Apply
<1>3. /\ read' \in [Peer -> Nat] /\ \A q \in Peer : read'[q] <= Len(orders')
      /\ \A q \in Peer : read[q] \in Nat /\ read'[q] \in Nat /\ read[q] <= read'[q]
      /\ read'[p] = n
    BY <1>1, ReadMore DEF HostOK
<1>4. e \in OrderType /\ n \in 1 .. n /\ n \in Nat
    BY <1>1, <1>3 DEF HostOK
<1>5. /\ game \in [Peer -> [Vehicle -> ReplicaType]]
      /\ \A q \in Peer, w \in Vehicle : Follows(game[q][w], w, read'[q])
    BY <1>3, FollowsOn DEF GameOK, InStep
\* The games agree with the orders they have read when one replica is set.
<1>6. ASSUME NEW v \in Vehicle, NEW k \in ReplicaType, Follows(k, v, n),
             game' = [game EXCEPT ![p][v] = k] \/ game' = game
      PROVE  game' \in [Peer -> [Vehicle -> ReplicaType]] /\ InStep'
    <2>1. /\ game' \in [Peer -> [Vehicle -> ReplicaType]]
          /\ \A q \in Peer, w \in Vehicle :
               game'[q][w] = game[q][w] \/ (q = p /\ w = v /\ game'[q][w] = k)
        BY <1>5, <1>6
    <2>2. ASSUME NEW q \in Peer, NEW w \in Vehicle
          PROVE  Follows(game[q][w], w, read[q])'
        <3>1. Follows(game'[q][w], w, read'[q])
            BY <1>3, <1>5, <1>6, <2>1
        <3> QED BY <1>1, <3>1 DEF Follows
    <2> QED BY <2>1, <2>2 DEF InStep
<1>7. ASSUME NEW m \in MessageType, out' = [out EXCEPT ![p] = Append(@, m)]
      PROVE  out' \in [Peer -> Seq(MessageType)] /\ \A q \in Peer : Len(out'[q]) <= 2
    <2>1. out' = [out EXCEPT ![p] = <<m>>] /\ <<m>> \in Seq(MessageType) /\ Len(<<m>>) <= 2
        BY <1>1, <1>7
    <2> QED BY <2>1 DEF GameOK
<1>8. ASSUME game' \in [Peer -> [Vehicle -> ReplicaType]], InStep',
             out' \in [Peer -> Seq(MessageType)], \A q \in Peer : Len(out'[q]) <= 2
      PROVE  GameOK'
    BY <1>3, <1>8 DEF GameOK
<1> HIDE DEF e
<1>9. CASE e.type = "release"
    <2> DEFINE v == e.vehicle
               g == game[p][v]
               ok == g.phase # "sold" /\ e.round = g.auth.round + 1
               auth == [round |-> e.round, line |-> e.line, stop |-> e.stop, paused |-> e.paused]
               known == [g EXCEPT !.auth = auth]
               next == IF g.phase = "new" THEN known
                       ELSE [known EXCEPT !.phase = "armed", !.round = e.round]
               m == [type |-> "ack", peer |-> p, vehicle |-> v, round |-> e.round, ok |-> ok]
    <2>1. /\ game' = IF ok THEN [game EXCEPT ![p][v] = next] ELSE game
          /\ out' = [out EXCEPT ![p] = Append(@, m)]
        BY <1>2, <1>9 DEF ApplyRelease
    <2>2. /\ v \in Vehicle /\ e.round \in Rounds /\ e.line \in Line /\ e.stop \in Stops
          /\ e.paused \in BOOLEAN
        BY <1>4, <1>9 DEF OrderType
    <2>3. m \in MessageType
        <3>1. ok \in BOOLEAN
            OBVIOUS
        <3> HIDE DEF ok
        <3> QED BY <2>2, <3>1 DEF MessageType
    <2>4. g \in ReplicaType /\ Follows(g, v, read[p])
        BY <2>2, ReplicaFields
    <2>5. auth \in [round : 0 .. MaxRound, line : Line, stop : Stops, paused : BOOLEAN]
          /\ auth.round = e.round /\ e.round \in 0 .. MaxRound /\ e.round \in Nat /\ e.round > 0
        BY <2>2, BarrierAssumption DEF Rounds
    <2> HIDE DEF auth
    <2>6. Releases(orders, n, v, e.round)
        BY <1>9 DEF Releases, e
    <2>7. ASSUME ok
          PROVE  next \in ReplicaType /\ Follows(next, v, n)
        <3>1. /\ next \in ReplicaType /\ next.auth = auth /\ next.reported = g.reported
              /\ \/ next.phase = "new"
                 \/ next.phase = "armed" /\ next.round = e.round
            <4> HIDE DEF g
            <4>1. CASE g.phase = "new"
                BY <2>4, <2>5, <4>1 DEF ReplicaType
            <4>2. CASE g.phase # "new"
                BY <2>4, <2>5, <4>2 DEF ReplicaType, Phases
            <4> QED BY <4>1, <4>2
        <3>2. g.auth.round \in Nat /\ g.reported \in Nat /\ e.round = g.auth.round + 1
            BY <2>4, <2>7, ReplicaTyped, BarrierAssumption
        <3> HIDE DEF g, next, v
        <3>3. ASSUME NEW r \in 1 .. e.round
              PROVE  \E i \in 1 .. n : Releases(orders, i, v, r)
            <4>1. CASE r = e.round
                BY <1>4, <2>6, <4>1
            <4>2. CASE r # e.round
                <5>1. r \in 1 .. g.auth.round
                    BY <2>5, <3>2, <4>2
                <5>2. PICK i \in 1 .. read[p] : Releases(orders, i, v, r)
                    BY <2>4, <5>1 DEF Follows
                <5>3. i \in 1 .. n
                    BY <1>3
                <5> QED BY <5>2, <5>3
            <4> QED BY <4>1, <4>2
        <3>4. g.reported <= g.auth.round
            BY <2>4 DEF Follows
        <3> QED BY <2>5, <3>1, <3>2, <3>3, <3>4 DEF Follows
    <2>8. CASE ok
        <3>1. game' = [game EXCEPT ![p][v] = next]
            BY <2>1, <2>8
        <3>2. next \in ReplicaType /\ Follows(next, v, n)
            BY <2>7, <2>8
        <3> HIDE DEF next, g, v, m, ok
        <3> QED BY <1>1, <1>6, <1>7, <1>8, <2>1, <2>2, <2>3, <3>1, <3>2
    <2>9. CASE ~ ok
        <3>1. Follows(g, v, n) /\ game' = game
            BY <1>3, <1>5, <2>1, <2>2, <2>9
        <3> HIDE DEF next, g, v, m, ok
        <3> QED BY <1>1, <1>6, <1>7, <1>8, <2>1, <2>2, <2>3, <2>4, <3>1
    <2> QED BY <2>8, <2>9
<1>10. CASE e.type \in {"assign", "sell"}
    <2> DEFINE v == e.vehicle
               g == game[p][v]
               phase == IF e.type = "sell" THEN "sold" ELSE g.phase
               at == IF e.type = "assign" /\ e.line # g.line THEN "way" ELSE g.at
               k == [g EXCEPT !.line = e.line, !.phase = phase, !.at = at]
               m == [type |-> "executed", peer |-> p]
    <2>1. out' = [out EXCEPT ![p] = Append(@, m)]
        BY <1>2, <1>10 DEF ApplyChange
    <2>2. v \in Vehicle /\ e.line \in Line
        BY <1>4, <1>10 DEF OrderType
    <2>3. g \in ReplicaType /\ Follows(g, v, n)
        BY <1>3, <1>5, <2>2
    <2>4. game' = [game EXCEPT ![p][v] = k]
        <3>1. game' = [game EXCEPT ![p][v].line = e.line,
                         ![p][v].phase = IF e.type = "sell" THEN "sold" ELSE @,
                         ![p][v].at = IF e.type = "assign" /\ e.line # game[p][v].line
                                        THEN "way" ELSE @]
            BY <1>2, <1>10 DEF ApplyChange
        <3> QED BY <1>5, <2>2, <2>3, <3>1 DEF ReplicaType
    <2> HIDE DEF g
    <2>5. phase \in Phases /\ at \in {"way", "stop"} /\ phase \in {g.phase, "sold"}
        BY <2>3, ReplicaTyped DEF Phases
    <2> HIDE DEF phase, at
    <2>6. /\ k \in ReplicaType /\ k.auth = g.auth /\ k.reported = g.reported /\ k.round = g.round
          /\ k.phase = phase
        BY <2>2, <2>3, <2>5 DEF ReplicaType
    <2> HIDE DEF k
    <2>7. Follows(k, v, n)
        BY <2>3, <2>5, <2>6 DEF Follows
    <2>8. m \in MessageType
        BY DEF MessageType
    <2> HIDE DEF v, m
    <2> QED BY <1>1, <1>6, <1>7, <1>8, <2>1, <2>2, <2>4, <2>6, <2>7, <2>8
<1>11. CASE e.type = "outcome"
    <2> DEFINE v == e.vehicle
               g == game[p][v]
               auth == [g.auth EXCEPT !.line = e.line]
               k == [g EXCEPT !.decl = e.line, !.auth = auth, !.phase = "new"]
    <2>1. out' = out
        BY <1>2, <1>11 DEF ApplyOutcome
    <2>2. v \in Vehicle /\ e.line \in Line
        BY <1>4, <1>11 DEF OrderType
    <2>3. g \in ReplicaType /\ Follows(g, v, n)
        BY <1>3, <1>5, <2>2
    <2>4. game' = [game EXCEPT ![p][v] = k] \/ game' = game
        <3>1. \/ game' = game
              \/ game' = [game EXCEPT ![p][v].decl = e.line, ![p][v].auth.line = e.line,
                                      ![p][v].phase = "new"]
            BY <1>2, <1>11 DEF ApplyOutcome
        <3>2. CASE game' = game
            BY <3>2
        <3>3. CASE game' = [game EXCEPT ![p][v].decl = e.line, ![p][v].auth.line = e.line,
                                       ![p][v].phase = "new"]
            <4> DEFINE g1 == [g EXCEPT !.decl = e.line]
                       g2 == [g1 EXCEPT !.auth = auth]
                       f1 == [game EXCEPT ![p][v].decl = e.line]
                       f2 == [f1 EXCEPT ![p][v].auth.line = e.line]
            <4>1. game' = [f2 EXCEPT ![p][v].phase = "new"]
                BY <3>3
            <4>2. f1 = [game EXCEPT ![p][v] = g1] /\ g1 \in ReplicaType /\ g1.auth = g.auth
                BY <1>5, <2>2, <2>3 DEF ReplicaType
            <4>3. f1 \in [Peer -> [Vehicle -> ReplicaType]] /\ f1[p][v] = g1
                BY <1>5, <2>2, <4>2
            <4> HIDE DEF f1, g1
            <4>4. f2 = [f1 EXCEPT ![p][v] = g2]
                BY <2>2, <4>2, <4>3 DEF ReplicaType
            <4> HIDE DEF g2
            <4>5. f2 = [game EXCEPT ![p][v] = g2]
                <5>1. f1[p] = [game[p] EXCEPT ![v] = g1]
                    BY <1>5, <2>2, <4>2
                <5>2. [f1[p] EXCEPT ![v] = g2] = [game[p] EXCEPT ![v] = g2]
                    BY <1>5, <2>2, <5>1
                <5>3. f2 = [f1 EXCEPT ![p] = [game[p] EXCEPT ![v] = g2]]
                    BY <4>4, <5>2
                <5>4. f1 = [game EXCEPT ![p] = [game[p] EXCEPT ![v] = g1]]
                    BY <4>2
                <5> QED BY <1>5, <5>3, <5>4
            <4>6. f2[p][v] = g2
                BY <1>5, <2>2, <4>5
            <4> HIDE DEF f2
            <4>7. game' = [game EXCEPT ![p][v] = [g2 EXCEPT !.phase = "new"]]
                BY <1>5, <2>2, <4>1, <4>5, <4>6
            <4>8. [g2 EXCEPT !.phase = "new"] = k
                BY DEF g1, g2
            <4> QED BY <4>7, <4>8
        <3> QED BY <3>1, <3>2, <3>3
    <2> HIDE DEF g
    <2>5. /\ auth \in [round : 0 .. MaxRound, line : Line, stop : Stops, paused : BOOLEAN]
          /\ auth.round = g.auth.round
        BY <2>2, <2>3 DEF ReplicaType
    <2> HIDE DEF auth
    <2>6. /\ k \in ReplicaType /\ k.auth = auth /\ k.reported = g.reported /\ k.phase = "new"
        BY <2>2, <2>3, <2>5 DEF ReplicaType, Phases
    <2> HIDE DEF k
    <2>7. Follows(k, v, n)
        BY <2>3, <2>5, <2>6 DEF Follows
    <2>8. /\ out' \in [Peer -> Seq(MessageType)] /\ \A q \in Peer : Len(out'[q]) <= 2
        BY <2>1 DEF GameOK
    <2> HIDE DEF v
    <2> QED BY <1>1, <1>6, <1>8, <2>2, <2>4, <2>6, <2>7, <2>8
<1>12. CASE e.type = "sync_fault"
    <2>1. game' = game /\ out' = out
        BY <1>2, <1>12
    <2>2. InStep'
        BY <1>1, <1>5, <2>1 DEF InStep, Follows
    <2>3. /\ game' \in [Peer -> [Vehicle -> ReplicaType]] /\ out' \in [Peer -> Seq(MessageType)]
          /\ \A q \in Peer : Len(out'[q]) <= 2
        BY <2>1 DEF GameOK
    <2> QED BY <1>1, <1>8, <2>2, <2>3
<1>13. e.type \in {"release", "assign", "sell", "outcome", "sync_fault"}
    BY <1>4 DEF OrderType
<1> QED BY <1>1, <1>9, <1>10, <1>11, <1>12, <1>13
----------------------------------------------------------------------------
All == HostOK /\ GameOK /\ clock \in {"runs", "stands", "meets"}

LEMMA AllMeans == All <=> TypeOK /\ IInv
<1>1. HostOK /\ GameOK /\ clock \in {"runs", "stands", "meets"} => TypeOK /\ IInv
    BY NowFields DEF HostOK, GameOK, TypeOK, IInv, Good
<1>2. TypeOK /\ IInv => HostOK
    BY NowFields DEF HostOK, TypeOK, IInv, Good
<1>3. TypeOK /\ IInv => GameOK /\ clock \in {"runs", "stands", "meets"}
    BY DEF GameOK, TypeOK, IInv
<1> QED BY <1>1, <1>2, <1>3 DEF All

LEMMA InitAll == Init => All
<1> SUFFICES ASSUME Init PROVE All
    OBVIOUS
<1>1. /\ host = Fresh /\ disk = Fresh /\ orders = <<>> /\ arrived = {} /\ clock = "runs" /\ spent = 0
      /\ read = [p \in Peer |-> 0] /\ out = [p \in Peer |-> <<>>]
    BY DEF Init
<1>2. Fresh \in MemoryType /\ SomeLine \in Line
    BY Typed
<1>3. /\ Fresh.up = TRUE /\ Fresh.fault = "none" /\ \A v \in Vehicle : Fresh.last[v] = 0
      /\ \A v \in Vehicle, r \in Rounds : Fresh.rounds[v][r] = NoRound
    BY DEF Fresh
<1>4. Knows(Fresh, <<>>, {})
    <2>1. ASSUME NEW v \in Vehicle, NEW r \in Rounds
          PROVE  ~(r <= 0) /\ ~ Released(<<>>, v, r) /\ Sound(NoRound, v, r, 0, "none", {})
        <3>1. ~(r <= 0)
            BY DEF Rounds
        <3>2. ~ Released(<<>>, v, r)
            BY DEF Released
        <3> QED BY <3>1, <3>2 DEF Sound, NoRound, Waiting
    <2> QED BY <1>3, <2>1 DEF Knows
<1>5. Orderly(<<>>, {})
    BY DEF Orderly
<1>6. <<>> \in Seq(OrderType) /\ <<>> \in Seq(MessageType) /\ Len(<<>>) = 0
    OBVIOUS
<1>7. Good(Now)
    BY <1>1, <1>2, <1>4, <1>5, <1>6, NowFields DEF Good
<1>8. HostOK
    BY <1>1, <1>2, <1>4, <1>6, <1>7, BarrierAssumption DEF HostOK
<1> DEFINE g == [phase |-> "new", round |-> 0, line |-> SomeLine, decl |-> SomeLine, at |-> "way",
                 stop |-> 0, stopped |-> FALSE, reported |-> 0,
                 auth |-> [round |-> 0, line |-> SomeLine, stop |-> 0, paused |-> FALSE]]
<1>9. g \in ReplicaType
    BY <1>2, BarrierAssumption DEF ReplicaType, Phases, Stops
<1>10. game = [p \in Peer |-> [v \in Vehicle |-> g]]
    BY DEF Init
<1>11. g.reported = 0 /\ g.auth.round = 0 /\ g.phase = "new"
    OBVIOUS
<1> HIDE DEF g
<1>12. \A v : Follows(g, v, 0)
    BY <1>11 DEF Follows
<1>13. GameOK
    BY <1>1, <1>6, <1>9, <1>10, <1>12 DEF GameOK, InStep
<1> QED BY <1>1, <1>8, <1>13 DEF All

LEMMA HostUntouched ==
    ASSUME HostOK, UNCHANGED <<host, disk, orders, arrived>>, spent' \in 0 .. Budget
    PROVE  HostOK'
<1>1. Good(Now)'
    <2>1. Now' = Now
        BY DEF Now
    <2> QED BY <2>1 DEF Good, HostOK
<1> QED BY <1>1 DEF HostOK

LEMMA NextAll == All /\ [Next]_vars => All'
<1> SUFFICES ASSUME All, [Next]_vars PROVE All'
    OBVIOUS
<1>1. HostOK /\ GameOK /\ clock \in {"runs", "stands", "meets"} /\ TypeOK
    BY AllMeans DEF All
<1>2. ASSUME HostOK', OrdersGrow, UNCHANGED <<game, read, out, clock>>
      PROVE  All'
    <2>1. out' \in [Peer -> Seq(MessageType)] /\ \A q \in Peer : Len(out'[q]) <= 2
        BY <1>1, <1>2 DEF GameOK
    <2>2. GameOK'
        BY <1>1, <1>2, <2>1, GamesUntouched
    <2> QED BY <1>1, <1>2, <2>2 DEF All
<1>3. ASSUME GameOK', UNCHANGED <<host, disk, orders, arrived, clock>>, spent' \in 0 .. Budget
      PROVE  All'
    BY <1>1, <1>3, HostUntouched DEF All
<1>4. CASE Flush
    BY <1>1, <1>2, <1>4, FlushKept
<1>5. CASE Timeout
    BY <1>1, <1>2, <1>5, TimeoutKept
<1>6. CASE Outcome
    BY <1>1, <1>2, <1>6, OutcomeKept
<1>7. CASE HostCrash
    BY <1>1, <1>2, <1>7, HostCrashKept
<1>8. CASE HostRestart
    BY <1>1, <1>2, <1>8, HostRestartKept
<1>9. ASSUME NEW v \in Vehicle, Change(v) PROVE All'
    BY <1>1, <1>2, <1>9, ChangeKept
<1>10. ASSUME NEW p \in Peer, ReadMessage(p) PROVE All'
    <2>1. /\ HostOK' /\ OrdersGrow /\ UNCHANGED <<game, read, clock>>
          /\ out' \in [Peer -> Seq(MessageType)] /\ \A q \in Peer : Len(out'[q]) <= 2
        BY <1>1, <1>10, ReadMessageKept
    <2>2. GameOK'
        BY <1>1, <2>1, GamesUntouched
    <2> QED BY <1>1, <2>1, <2>2 DEF All
<1>11. ASSUME NEW p \in Peer, Apply(p) PROVE All'
    <2>1. spent' \in 0 .. Budget
        BY <1>1, <1>11, ApplyKept DEF HostOK
    <2> QED BY <1>1, <1>3, <1>11, <2>1, ApplyKept
<1>12. ASSUME NEW p \in Peer, NEW v \in Vehicle, Observe(p, v) PROVE All'
    BY <1>1, <1>3, <1>12, ObserveKept
<1>13. ASSUME NEW p \in Peer, NEW v \in Vehicle, Arrive(p, v) PROVE All'
    <2>1. spent' \in 0 .. Budget
        BY <1>1, <1>13, ArriveKept DEF HostOK
    <2> QED BY <1>1, <1>3, <1>13, <2>1, ArriveKept
<1>14. ASSUME NEW p \in Peer, NEW v \in Vehicle, Depart(p, v) PROVE All'
    BY <1>1, <1>3, <1>14, DepartKept
<1>15. ASSUME UNCHANGED <<host, disk, orders, arrived, game, read, out>>, spent' \in 0 .. Budget,
              clock' \in {"runs", "stands", "meets"}
       PROVE  All'
    <2>1. HostOK'
        BY <1>1, <1>15, HostUntouched
    <2>2. GameOK'
        BY <1>1, <1>15 DEF GameOK, InStep, Follows
    <2> QED BY <1>15, <2>1, <2>2 DEF All
<1>16. CASE ClockStops
    <2>1. spent' \in 0 .. Budget
        BY <1>1, <1>16, BarrierAssumption DEF ClockStops, Spend, MaySpend, HostOK
    <2> QED BY <1>15, <1>16, <2>1 DEF ClockStops, durable
<1>17. CASE ClockRuns
    <2>1. spent' \in 0 .. Budget
        BY <1>1, <1>17 DEF ClockRuns, HostOK
    <2> QED BY <1>15, <1>17, <2>1 DEF ClockRuns, durable
<1>18. CASE UNCHANGED vars
    <2>1. spent' \in 0 .. Budget /\ clock' \in {"runs", "stands", "meets"}
        BY <1>1, <1>18 DEF vars, HostOK
    <2> QED BY <1>15, <1>18, <2>1 DEF vars, durable
<1> QED BY <1>4, <1>5, <1>6, <1>7, <1>8, <1>9, <1>10, <1>11, <1>12, <1>13, <1>14, <1>16, <1>17, <1>18
           DEF Next, HostStep, PeerStep

\* In every reachable state each variable has its type, and the memory of the host, the one
\* a replay would lead to and the replicas agree with the journal.
THEOREM Inductive == Spec => [](TypeOK /\ IInv)
<1>1. Spec => []All
    BY InitAll, NextAll, PTL DEF Spec
<1>2. All => TypeOK /\ IInv
    BY AllMeans
<1> QED BY <1>1, <1>2, PTL

\* Every variable has its type: no round beyond the last, no entry of a handler left
\* behind, never more than two messages of a game unread.
THEOREM TypeCorrect == Spec => []TypeOK
BY Inductive, PTL

\* However often the host crashes between two appends and rebuilds its rounds from the
\* journal, the rounds of a vehicle are released in order, each once.
THEOREM OneReleaseEach == Spec => []OneRelease
<1>1. IInv => OneRelease
    BY DEF IInv, Orderly, OneRelease
<1> QED BY <1>1, Inductive, PTL

\* A game that let its replica go on from a stop did so on a release it has read, of a
\* round that every peer had held the vehicle for at that stop of that line.
THEOREM DepartTogether == Spec => []DepartsTogether
<1>1. TypeOK /\ IInv => DepartsTogether
    <2> SUFFICES ASSUME TypeOK, IInv, NEW p \in Peer, NEW v \in Vehicle, game[p][v].reported > 0
                 PROVE  LET r == game[p][v].reported
                        IN \E i \in DOMAIN orders :
                             /\ i <= read[p] /\ Releases(orders, i, v, r)
                             /\ \A q \in Peer : \E e \in arrived :
                                  /\ e.peer = q /\ e.vehicle = v /\ e.round = r
                                  /\ e.line = orders[i].line /\ e.stop = orders[i].stop
        BY DEF DepartsTogether
    <2> DEFINE g == game[p][v]
               r == g.reported
    <2>1. g \in ReplicaType /\ Follows(g, v, read[p]) /\ read[p] \in Nat /\ read[p] <= Len(orders)
        BY DEF TypeOK, IInv, InStep
    <2>2. r \in 1 .. g.auth.round /\ r \in Rounds
        BY <2>1, ReplicaTyped, BarrierAssumption DEF Follows, Rounds
    <2> HIDE DEF g, r
    <2>3. PICK i \in 1 .. read[p] : Releases(orders, i, v, r)
        BY <2>1, <2>2 DEF Follows
    <2>4. i \in DOMAIN orders /\ i <= read[p]
        BY <2>1 DEF TypeOK
    <2>5. \A q \in Peer : Holding(q, v, r, orders[i]) \in arrived
        BY <2>2, <2>3, <2>4 DEF IInv, Orderly
    <2>6. ASSUME NEW q \in Peer
          PROVE  \E e \in arrived :
                    /\ e.peer = q /\ e.vehicle = v /\ e.round = r
                    /\ e.line = orders[i].line /\ e.stop = orders[i].stop
        BY <2>5 DEF Holding
    <2> QED BY <2>3, <2>4, <2>6 DEF g, r
<1> QED BY <1>1, Inductive, PTL
=============================================================================
