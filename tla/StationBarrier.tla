--------------------------- MODULE StationBarrier ---------------------------
(***************************************************************************)
(* The station barrier.  Every game simulates its vehicles on its own, so  *)
(* replicas of a vehicle drift apart between stations.  At a stop a game   *)
(* holds its replica and reports the round; when every peer has reported   *)
(* it the host orders one release, which every game carries out and        *)
(* reports.  A round is one stop of one vehicle.                           *)
(*                                                                         *)
(* Rounds cross other work: line changes and sales of the same vehicle,    *)
(* the shared clock, session faults, and a crash of the host, which        *)
(* rebuilds its trackers from the journal.  A replay folds the journal, so *)
(* what is kept of it is the memory it leads to: disk.  How orders reach a *)
(* game is the business of CommitOrder, how an operation is agreed that of *)
(* PhysicalConsensus.                                                      *)
(***************************************************************************)
EXTENDS Naturals, Sequences, FiniteSets

CONSTANTS Peer, Vehicle,
          Line,       \* the lines a vehicle may be assigned to
          MaxRound,   \* rounds the vehicles make
          Budget      \* assignments, sales, crashes of the host, and what else
                      \* players, engines, clocks and deadlines interfere

ASSUME BarrierAssumption ==
  /\ IsFiniteSet(Peer) /\ Peer # {} /\ Vehicle # {} /\ Line # {}
  /\ MaxRound \in Nat /\ Budget \in Nat

VARIABLES host,    \* the memory of the host; host.wrote : journal entries of a handler
          disk,    \* the memory that a replay of the journal leads to
          orders,  \* the ordered entries of the journal
          arrived, \* the reports of held vehicles in the journal
          game,    \* game[p][v] : one replica
          read,    \* read[p]    : ordered entries the game has applied
          out,     \* out[p]     : what the game has sent and the host not read
          clock,   \* the shared clock "runs", "stands" or "meets" (a rendezvous)
          spent

durable == <<disk, orders, arrived>>
vars == <<host, durable, game, read, out, clock, spent>>

Rounds == 1..MaxRound
Stops == {0, 1}
SomeLine == CHOOSE l \in Line : TRUE
-----------------------------------------------------------------------------
(***************************************************************************)
(* The host                                                                *)
(***************************************************************************)
NoRound == [status |-> "none", line |-> SomeLine, stop |-> 0, held |-> {}, released |-> {}]
NoChange == [kind |-> "none"]
\* A round that every peer has reached and whose departure is not ordered yet.
Waiting == {"ready", "waiting-authority", "waiting-clock"}

Ordered(entry) == entry.type \in {"release", "assign", "sell", "outcome", "sync_fault"}
Arrival(entry) == entry.type = "report" /\ entry.state = "held"

Write(h, entry) == [h EXCEPT !.wrote = Append(@, entry)]
Remember(h, reason) == IF h.fault = "none" THEN [h EXCEPT !.fault = reason] ELSE h

\* One durable fault is ordered, whatever the number of reasons.
FaultSession(h, reason) ==
  LET noted == Remember(h, reason)
  IN IF noted.emitted THEN noted
     ELSE Write([noted EXCEPT !.emitted = TRUE], [type |-> "sync_fault"])

\* What the journal says again is not answered again.
Fault(h, reason, mode) ==
  IF mode = "replay" THEN Remember(h, reason) ELSE FaultSession(h, reason)

Release(v, r, tracker, paused) ==
  [type |-> "release", vehicle |-> v, round |-> r, line |-> tracker.line,
   stop |-> tracker.stop, paused |-> paused]

\* Mutant: the round stays ready when its release is ordered.
TrackReleaseMut(h, e) ==
  [h EXCEPT !.last[e.vehicle] = IF @ < e.round THEN e.round ELSE @]

TrackRelease(h, e) ==
  LET tracker == h.rounds[e.vehicle][e.round]
      last == h.last[e.vehicle]
  IN [h EXCEPT !.rounds[e.vehicle][e.round] =
        IF tracker = NoRound THEN [NoRound EXCEPT !.status = "ordered", !.line = e.line,
                                                  !.stop = e.stop]
        ELSE [tracker EXCEPT !.status = "ordered"],
               !.last[e.vehicle] = IF last < e.round THEN e.round ELSE last]

Emit(h, v, r) ==
  LET e == Release(v, r, h.rounds[v][r], clock = "stands")
  IN TrackRelease(Write(h, e), e)

\* A departure waits for the end of a fault, of other consensus, of a rendezvous.
MaybeEmitRelease(h, v, r) ==
  CASE h.fault # "none" \/ h.change # NoChange ->
         [h EXCEPT !.rounds[v][r].status = "waiting-authority"]
    [] h.fault = "none" /\ h.change = NoChange /\ clock = "meets" ->
         [h EXCEPT !.rounds[v][r].status = "waiting-clock"]
    [] OTHER -> Emit(h, v, r)

\* Mutant: the first report makes the round ready.
AllPeersMut(peers) == peers # {}

AllPeers(peers) == peers = Peer

\* The round a report is about, opened by it when it is new, and with it.
Tracker(h, report) ==
  LET tracker == h.rounds[report.vehicle][report.round]
  IN IF tracker # NoRound THEN tracker
     ELSE [NoRound EXCEPT !.status = "arrivals", !.line = report.line, !.stop = report.stop]
Noted(tracker, report) ==
  IF report.state = "held" THEN [tracker EXCEPT !.held = @ \union {report.peer}]
  ELSE [tracker EXCEPT !.released = @ \union {report.peer}]

Put(h, v, r, tracker) == [h EXCEPT !.rounds[v][r] = tracker]
Ready(tracker) == [tracker EXCEPT !.status = "ready"]

\* VehicleStationBarrier.record: a report "held", "released" or "fault".
Record(h, report, mode) ==
  LET v == report.vehicle
      r == report.round
      fresh == h.rounds[v][r] = NoRound
      tracker == Tracker(h, report)
      noted == Noted(tracker, report)
  IN CASE report.state = "fault" -> Fault(h, "local", mode)
       [] report.state # "fault" /\ fresh /\ r <= h.last[v] -> h
       [] report.state # "fault" /\ fresh /\ r > h.last[v] + 1 -> Fault(h, "gap", mode)
       [] OTHER ->
            IF report.line # tracker.line \/ report.stop # tracker.stop
              THEN Fault(Put(h, v, r, tracker), "mismatch", mode)
            ELSE CASE report.state = "held" /\ noted.status # "ordered"
                       /\ AllPeers(noted.held) ->
                        IF mode = "replay" THEN Put(h, v, r, Ready(noted))
                        ELSE MaybeEmitRelease(Put(h, v, r, Ready(noted)), v, r)
                   [] report.state = "released" /\ noted.status # "ordered" ->
                        Fault(Put(h, v, r, noted), "early", mode)
                   [] report.state = "released" /\ noted.status = "ordered"
                       /\ noted.released = Peer -> Put(h, v, r, NoRound)
                   [] OTHER -> Put(h, v, r, noted)

ResolveAck(h, ack, mode) ==
  IF ack.ok \/ h.rounds[ack.vehicle][ack.round] = NoRound THEN h
  ELSE Fault([h EXCEPT !.rounds[ack.vehicle][ack.round].status = "faulted"],
             "rejected", mode)

\* Another actor of the host opens an operation, and closes it when every game
\* has carried it out.
TrackChange(h, e) ==
  CASE e.type \in {"assign", "sell"} ->
         [h EXCEPT !.change = [kind |-> e.type, vehicle |-> e.vehicle, line |-> e.line, by |-> {}]]
    [] e.type = "outcome" -> [h EXCEPT !.change = NoChange]
    [] OTHER -> h

Executed(h, e) ==
  IF h.change = NoChange THEN h ELSE [h EXCEPT !.change.by = @ \union {e.peer}]

\* What any entry of the journal does to the memory when it is read again.
Replay(h, e) ==
  CASE e.type = "report" -> Record(h, e, "replay")
    [] e.type = "ack" -> ResolveAck(h, e, "replay")
    [] e.type = "executed" -> Executed(h, e)
    [] e.type = "release" -> TrackRelease(h, e)
    [] e.type = "sync_fault" -> [Remember(h, "restored") EXCEPT !.emitted = TRUE]
    [] OTHER -> TrackChange(h, e)

Fresh ==
  [up |-> TRUE, wrote |-> <<>>, fault |-> "none", emitted |-> FALSE, change |-> NoChange,
   rounds |-> [v \in Vehicle |-> [r \in Rounds |-> NoRound]], last |-> [v \in Vehicle |-> 0]]

\* restore_fault: a fault that was remembered and not yet ordered is ordered now.
LoadAudit(memory) ==
  IF memory.fault \notin {"none", "restored"} THEN FaultSession(memory, memory.fault) ELSE memory

\* Nothing interferes any more once the session has faulted.
MaySpend(cost) == spent + cost <= Budget /\ (cost > 0 => host.fault = "none")
Spend == MaySpend(1) /\ spent' = spent + 1

\* What one more entry makes of the journal.
Extend(j, e) ==
  [memory |-> Replay(j.memory, e),
   orders |-> IF Ordered(e) THEN Append(j.orders, e) ELSE j.orders,
   arrived |-> IF Arrival(e) THEN j.arrived \union {e} ELSE j.arrived]

\* The journal after n of the entries of a handler.
Extended(entries) ==
  LET after[n \in 0..Len(entries)] ==
        IF n = 0 THEN [memory |-> disk, orders |-> orders, arrived |-> arrived]
        ELSE Extend(after[n - 1], entries[n])
  IN after

Journal(h, n) ==
  LET j == Extended(h.wrote)[n]
  IN disk' = j.memory /\ orders' = j.orders /\ arrived' = j.arrived

\* A handler ends, or a crash ends it between two of its appends.
Down == [Fresh EXCEPT !.up = FALSE]
Handle(next, cost) ==
  \E h \in {next} :
    \/ /\ MaySpend(cost) /\ spent' = spent + cost
       /\ host' = [h EXCEPT !.wrote = <<>>] /\ Journal(h, Len(h.wrote))
    \/ /\ MaySpend(cost + 1) /\ spent' = spent + cost + 1
       /\ \E n \in 1..(Len(h.wrote) - 1) : host' = Down /\ Journal(h, n)
-----------------------------------------------------------------------------
(***************************************************************************)
(* The steps of the host                                                   *)
(***************************************************************************)
\* The next message of a game: journalled, then handled.
ReadMessage(p) ==
  /\ host.up /\ out[p] # <<>>
  /\ LET e == Head(out[p])
         noted == Write(host, e)
     IN CASE e.type = "report" -> Handle(Record(noted, e, "live"), 0)
          [] e.type = "ack" -> Handle(ResolveAck(noted, e, "live"), 0)
          [] OTHER -> Handle(Executed(noted, e), 0)
  /\ out' = [out EXCEPT ![p] = Tail(@)]
  /\ UNCHANGED <<game, read, clock>>

\* Departures that had to wait are tried again.  Mutant: those that waited for
\* a rendezvous are not.
FlushMut ==
  /\ host.up
  /\ \E v \in Vehicle, r \in Rounds :
       /\ host.rounds[v][r].status \in {"ready", "waiting-authority"}
       /\ MaybeEmitRelease(host, v, r) # host
       /\ Handle(MaybeEmitRelease(host, v, r), 0)
  /\ UNCHANGED <<game, read, out, clock>>

Flush ==
  /\ host.up
  /\ \E v \in Vehicle, r \in Rounds :
       /\ host.rounds[v][r].status \in Waiting
       /\ MaybeEmitRelease(host, v, r) # host
       /\ Handle(MaybeEmitRelease(host, v, r), 0)
  /\ UNCHANGED <<game, read, out, clock>>

\* A round is three minutes old.  Deadlines do not pass while the clock stands.
Timeout ==
  /\ host.up /\ clock # "stands"
  /\ \E v \in Vehicle, r \in Rounds :
       /\ host.rounds[v][r].status \notin {"none", "faulted"}
       /\ Handle(FaultSession([host EXCEPT !.rounds[v][r].status = "faulted"], "timeout"), 1)
  /\ UNCHANGED <<game, read, out, clock>>

\* A player assigns a vehicle to a line, or sells it.
Change(v) ==
  /\ host.up /\ host.fault = "none" /\ host.change = NoChange
  /\ \A i \in DOMAIN orders : ~(orders[i].type = "sell" /\ orders[i].vehicle = v)
  /\ \E e \in {[type |-> "assign", vehicle |-> v, line |-> l] :
                l \in {k \in Line : \E p \in Peer : game[p][v].decl # k}} \union
              {[type |-> "sell", vehicle |-> v, line |-> SomeLine]} :
       Handle(TrackChange(Write(host, e), e), 1)
  /\ UNCHANGED <<game, read, out, clock>>

Outcome ==
  /\ host.up /\ host.change # NoChange
  /\ LET c == host.change
         e == [type |-> "outcome", kind |-> c.kind, vehicle |-> c.vehicle, line |-> c.line]
     IN c.by = Peer /\ Handle(TrackChange(Write(host, e), e), 0)
  /\ UNCHANGED <<game, read, out, clock>>

HostCrash ==
  /\ host.up /\ Spend
  /\ host' = Down
  /\ UNCHANGED <<durable, game, read, out, clock>>

HostRestart ==
  /\ ~host.up /\ Handle(LoadAudit(disk), 0)
  /\ UNCHANGED <<game, read, out, clock>>

\* Pauses, rendezvous and reconnects come and go.
ClockStops ==
  /\ Spend /\ clock' \in {"stands", "meets"} \ {clock}
  /\ UNCHANGED <<host, durable, game, read, out>>
ClockRuns ==
  /\ clock # "runs" /\ clock' = "runs"
  /\ UNCHANGED <<host, durable, game, read, out, spent>>
-----------------------------------------------------------------------------
(***************************************************************************)
(* The games.  at : the replica stands at a stop (native state 2) or is on *)
(* its way; stopped : the native userStopped flag; line : its native line; *)
(* decl, auth : what the ordered outcomes and releases say of it.          *)
(***************************************************************************)
Report(p, v, g, state) ==
  [type |-> "report", peer |-> p, vehicle |-> v, line |-> g.line, stop |-> g.stop,
   round |-> IF g.round = 0 THEN 1 ELSE g.round, state |-> state]

Fails(g) == [g EXCEPT !.phase = "faulted"]

\* A record is made when a vehicle is seen first, or first after an assignment.
Seen(g) ==
  IF g.phase # "new" THEN g
  ELSE [g EXCEPT !.phase = IF g.at = "stop" THEN "terminal" ELSE "enroute",
                 !.round = g.auth.round]
Recovered(p, v, g) ==
  IF g.phase = "new" /\ g.at = "way" /\ g.auth.round > g.reported
    THEN <<Report(p, v, [Seen(g) EXCEPT !.stop = g.auth.stop], "released")>> ELSE <<>>

\* What one call of processVehicle makes of the replica, and what it reports.
Observed(p, v) ==
  LET g == Seen(game[p][v])
      hold == [g EXCEPT !.phase = "held", !.round = g.auth.round + 1, !.stopped = TRUE]
      go == [g EXCEPT !.phase = "await", !.stopped = FALSE, !.reported = g.round]
      known == g.auth.round > 0 /\ g.auth.line = g.line /\ g.auth.stop = g.stop
      due == g.auth.paused \/ clock # "stands"
      Only(next) == [next |-> next, report |-> <<>>, cost |-> 0]
      Does(next, state) == [Only(next) EXCEPT !.report = <<Report(p, v, next, state)>>]
      Refused(next) == [Does(Fails(next), "fault") EXCEPT !.cost = 1]
  IN CASE g.phase = "faulted" -> {}
       [] g.phase # "faulted" /\ g.at = "way" ->
            IF g.phase \in {"held", "armed"} THEN {Does(Fails(g), "fault")}
            ELSE {Only([g EXCEPT !.phase = "enroute", !.round = g.auth.round,
                           !.reported = IF @ < g.auth.round THEN g.auth.round ELSE @])}
       [] g.phase = "terminal" /\ g.at = "stop" /\ known ->
            {Only([g EXCEPT !.phase = IF g.stopped THEN "armed" ELSE "await"])}
       [] g.phase = "armed" /\ g.at = "stop" ->
            IF ~due THEN {}
            ELSE {Does(go, "released"), Refused(g)}
       [] g.phase = "held" /\ g.at = "stop" ->
            {[Does(g, "held") EXCEPT !.cost = 1]}
       [] g.phase = "await" /\ g.at = "stop" -> {}
       [] OTHER ->
            IF g.auth.round = MaxRound THEN {} ELSE {Does(hold, "held"), Refused(hold)}

\* Refusals of the engine and repeated reports are interferences.
Observe(p, v) ==
  LET g == game[p][v]
  IN /\ g.phase # "sold" /\ g.line = g.decl /\ out[p] = <<>>
     /\ \E o \in Observed(p, v) :
          /\ o.next # g \/ o.report # <<>>
          /\ game' = [game EXCEPT ![p][v] = o.next]
          /\ out' = [out EXCEPT ![p] = @ \o Recovered(p, v, g) \o o.report]
          /\ MaySpend(o.cost) /\ spent' = spent + o.cost
  /\ UNCHANGED <<host, durable, read, clock>>

Arrive(p, v) ==
  /\ game[p][v].at = "way" /\ game[p][v].phase \in {"enroute", "new"} /\ clock # "stands"
  /\ game' = [game EXCEPT ![p][v].at = "stop"]
  /\ UNCHANGED <<host, durable, read, out, clock, spent>>

\* A vehicle leaves when it may; a player's hand may make it leave before.
Depart(p, v) ==
  LET g == game[p][v]
  IN /\ g.at = "stop" /\ clock # "stands" /\ g.phase # "sold"
     /\ \/ g.phase = "await" /\ UNCHANGED spent
        \/ g.phase \in {"held", "armed"} /\ Spend
     /\ game' = [game EXCEPT ![p][v].at = "way", ![p][v].stop = 1 - @,
                             ![p][v].stopped = FALSE]
  /\ UNCHANGED <<host, durable, read, out, clock>>

\* vehicle_sync_release_runtime.apply: the next round of a vehicle that exists.
ApplyRelease(p, e) ==
  LET g == game[p][e.vehicle]
      ok == g.phase # "sold" /\ e.round = g.auth.round + 1
      auth == [round |-> e.round, line |-> e.line, stop |-> e.stop, paused |-> e.paused]
      known == [g EXCEPT !.auth = auth]
      next == IF g.phase = "new" THEN known
              ELSE [known EXCEPT !.phase = "armed", !.round = e.round]
  IN /\ game' = IF ok THEN [game EXCEPT ![p][e.vehicle] = next] ELSE game
     /\ out' = [out EXCEPT ![p] = Append(@, [type |-> "ack", peer |-> p, vehicle |-> e.vehicle,
                                             round |-> e.round, ok |-> ok])]

\* The engine carries the change out; a replica at a stop may stay there.
ApplyChange(p, e) ==
  /\ game' = [game EXCEPT ![p][e.vehicle].line = e.line,
       ![p][e.vehicle].phase = IF e.type = "sell" THEN "sold" ELSE @,
       ![p][e.vehicle].at = IF e.type = "assign" /\ e.line # game[p][e.vehicle].line
                              THEN "way" ELSE @]
  /\ out' = [out EXCEPT ![p] = Append(@, [type |-> "executed", peer |-> p])]

\* onOperationConsensus: the record of an assigned vehicle is forgotten.
ApplyOutcome(p, e) ==
  /\ game' = IF e.kind = "sell" THEN game
             ELSE [game EXCEPT ![p][e.vehicle].decl = e.line,
                     ![p][e.vehicle].auth.line = e.line,
                     ![p][e.vehicle].phase = "new"]
  /\ UNCHANGED out

Apply(p) ==
  /\ read[p] < Len(orders) /\ out[p] = <<>>
  /\ LET e == orders[read[p] + 1]
     IN CASE e.type = "release" -> ApplyRelease(p, e)
          [] e.type \in {"assign", "sell"} -> ApplyChange(p, e)
          [] e.type = "outcome" -> ApplyOutcome(p, e)
          [] OTHER -> UNCHANGED <<game, out>>
  /\ read' = [read EXCEPT ![p] = @ + 1]
  /\ UNCHANGED <<host, durable, clock, spent>>

\* The match begins: the vehicles are on their way to their first stop.
Init ==
  /\ host = Fresh /\ disk = Fresh /\ orders = <<>> /\ arrived = {}
  /\ game = [p \in Peer |-> [v \in Vehicle |->
       [phase |-> "new", round |-> 0, line |-> SomeLine, decl |-> SomeLine, at |-> "way",
        stop |-> 0, stopped |-> FALSE, reported |-> 0,
        auth |-> [round |-> 0, line |-> SomeLine, stop |-> 0, paused |-> FALSE]]]]
  /\ read = [p \in Peer |-> 0]
  /\ out = [p \in Peer |-> <<>>]
  /\ clock = "runs" /\ spent = 0

HostStep == Flush \/ Timeout \/ Outcome \/ HostCrash \/ HostRestart
            \/ \E v \in Vehicle : Change(v)
PeerStep(p) == ReadMessage(p) \/ Apply(p)
               \/ \E v \in Vehicle : Observe(p, v) \/ Arrive(p, v) \/ Depart(p, v)
Next == HostStep \/ ClockStops \/ ClockRuns \/ \E p \in Peer : PeerStep(p)

Spec == Init /\ [][Next]_vars
-----------------------------------------------------------------------------
Phases == {"new", "enroute", "terminal", "held", "armed", "await", "faulted", "sold"}
Statuses == Waiting \union {"none", "arrivals", "ordered", "faulted"}
Faults == {"none", "local", "gap", "mismatch", "early", "rejected", "timeout", "restored"}

RoundType ==
  [status : Statuses, line : Line, stop : Stops, held : SUBSET Peer, released : SUBSET Peer]
ChangeType ==
  {NoChange} \union
  [kind : {"assign", "sell"}, vehicle : Vehicle, line : Line, by : SUBSET Peer]
MemoryType ==
  [up : BOOLEAN, wrote : {<<>>}, fault : Faults, emitted : BOOLEAN, change : ChangeType,
   rounds : [Vehicle -> [Rounds -> RoundType]], last : [Vehicle -> 0..MaxRound]]
OrderType ==
  [type : {"release"}, vehicle : Vehicle, round : Rounds, line : Line, stop : Stops,
   paused : BOOLEAN] \union
  [type : {"assign", "sell"}, vehicle : Vehicle, line : Line] \union
  [type : {"outcome"}, kind : {"assign", "sell"}, vehicle : Vehicle, line : Line] \union
  [type : {"sync_fault"}]
ReportType ==
  [type : {"report"}, peer : Peer, vehicle : Vehicle, line : Line, stop : Stops,
   round : Rounds, state : {"held", "released", "fault"}]
MessageType ==
  ReportType \union
  [type : {"ack"}, peer : Peer, vehicle : Vehicle, round : Rounds, ok : BOOLEAN] \union
  [type : {"executed"}, peer : Peer]
ReplicaType ==
  [phase : Phases, round : 0..MaxRound, line : Line, decl : Line, at : {"way", "stop"},
   stop : Stops, stopped : BOOLEAN, reported : 0..MaxRound,
   auth : [round : 0..MaxRound, line : Line, stop : Stops, paused : BOOLEAN]]

TypeOK ==
  /\ host \in MemoryType /\ disk \in MemoryType
  /\ orders \in Seq(OrderType) /\ arrived \subseteq ReportType
  /\ game \in [Peer -> [Vehicle -> ReplicaType]]
  /\ read \in [Peer -> Nat] /\ \A p \in Peer : read[p] <= Len(orders)
  /\ out \in [Peer -> Seq(MessageType)] /\ \A p \in Peer : Len(out[p]) <= 2
  /\ clock \in {"runs", "stands", "meets"}
  /\ spent \in 0..Budget

\* Entry i of a sequence of orders releases round r of vehicle v.
Releases(entries, i, v, r) ==
  entries[i].type = "release" /\ entries[i].vehicle = v /\ entries[i].round = r

\* A game that let its replica go on from a stop did so after every peer had
\* held the vehicle for that round, at that stop of that line.
DepartsTogether ==
  \A p \in Peer, v \in Vehicle :
    LET r == game[p][v].reported
    IN r > 0 => \E i \in DOMAIN orders :
         /\ i <= read[p] /\ Releases(orders, i, v, r)
         /\ \A q \in Peer : \E e \in arrived :
              /\ e.peer = q /\ e.vehicle = v /\ e.round = r
              /\ e.line = orders[i].line /\ e.stop = orders[i].stop

\* The rounds of a vehicle are released in order, each once, also by a host that
\* was restarted: no game refuses a release as out of order.
OneRelease ==
  \A v \in Vehicle, r \in Rounds : \A i \in DOMAIN orders : Releases(orders, i, v, r) =>
    /\ r = 1 \/ \E k \in 1..(i - 1) : Releases(orders, k, v, r - 1)
    /\ \A k \in 1..(i - 1), n \in r..MaxRound : ~Releases(orders, k, v, n)

\* The loop of the host and that of every game run; a rendezvous and a pause
\* end.  Interferences need not happen.
Fairness ==
  /\ WF_vars(HostStep /\ UNCHANGED spent)
  /\ WF_vars(ClockRuns)
  /\ \A p \in Peer : WF_vars(PeerStep(p) /\ UNCHANGED spent)

FairSpec == Spec /\ Fairness

\* A vehicle makes all its rounds, unless it is assigned or sold meanwhile, or
\* the session faults.
RoundsEnd ==
  <>[](host.fault = "none" => \A v \in Vehicle :
         \/ \E i \in DOMAIN orders : orders[i].type \in {"assign", "sell"}
                                   /\ orders[i].vehicle = v
         \/ host.last[v] = MaxRound /\ \A r \in Rounds : host.rounds[v][r] = NoRound)
=============================================================================
