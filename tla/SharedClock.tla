---------------------------- MODULE SharedClock ----------------------------
(***************************************************************************)
(* The shared clock.  Every game runs at its own pace; the host orders the *)
(* speed.  It stops the clock with a clock.set, and lets it run only       *)
(* through a clock.rendezvous: every game approaches one game time, pauses *)
(* there and reports, and the host releases them together when the         *)
(* reports agree, or orders another rendezvous to catch up.                *)
(*                                                                         *)
(* The memory of the host is one record, so that a handler is a function   *)
(* on it; a handler may be cut short by a crash after any of its journal   *)
(* appends.  The journal keeps what peers sent under the order it answers: *)
(* nothing depends on how answers to different orders interleave.  The     *)
(* n-th clock order has generation n, and requested and effective speed    *)
(* are those of the last order (track_clock).                              *)
(***************************************************************************)
EXTENDS Naturals, Sequences, FiniteSets, SequencesExt

CONSTANTS Peer, Host,      \* companions; Host is the one that decides
          MaxSpeed,        \* 4 in the code
          CorrectionLimit, \* 3 in the code
          Budget,          \* how often players, network, engine and clocks interfere
          Lag,             \* how many orders a game may be behind at such a moment
          Unread,          \* how many answers of a game wait for the host
          MaxCrash         \* how often the host crashes

ASSUME ClockAssumption ==
  /\ IsFiniteSet(Peer) /\ Host \in Peer
  /\ MaxSpeed \in Nat \ {0} /\ CorrectionLimit \in Nat
  /\ Budget \in Nat /\ Lag \in Nat /\ Unread \in Nat \ {0} /\ MaxCrash \in Nat

VARIABLES host,    \* the memory of the host, and its journal host.log
          game,    \* game[p] : the clock of one game
          out,     \* out[p] : what a game has reported and the host has not read
          spent,   \* interferences so far
          crashes

clockVars == <<host, game, out, spent, crashes>>

Speeds == 0..MaxSpeed

\* Where a report says the game stopped: at the target, past the tolerance
\* of 0.35, or further than a catch-up may span.
AtTarget == 0
Late == 1
TooLate == 2

NoMeeting == [gen |-> 0]
NoFence == [gen |-> 0]
NoReport == [gen |-> 0, at |-> AtTarget]
NoSample == [gen |-> 0, running |-> FALSE, age |-> "none"]
-----------------------------------------------------------------------------
(***************************************************************************)
(* Orders and the speeds they leave                                        *)
(***************************************************************************)
Gen(h) == Len(h.log)
Newest(gens) == CHOOSE g \in gens : \A k \in gens : k <= g
Latest(h) == IF h.log = <<>> THEN [requested |-> 0, effective |-> 0] ELSE Last(h.log)
Requested(h) == Latest(h).requested
Effective(h) == Latest(h).effective

\* An order, with the answers and reports that were journalled for it.
SetOrder(requested, effective) ==
  [type |-> "clock.set", requested |-> requested,
   effective |-> IF effective <= requested THEN effective ELSE requested,
   release |-> 0, acks |-> {}, reports |-> <<>>]
MeetOrder(requested, approach, release) ==
  [type |-> "clock.rendezvous", requested |-> requested, effective |-> approach,
   release |-> release, acks |-> {}, reports |-> <<>>]

Meeting(gen, corrections) ==
  [gen |-> gen, reached |-> [p \in Peer |-> NoReport], failed |-> FALSE,
   corrections |-> corrections]

\* A new order gets a tracker; it ends or replaces the active rendezvous.
TrackClock(h, order, gen, corrections) ==
  [h EXCEPT !.controls = Append(@, "pending"),
            !.rv = IF order.type = "clock.rendezvous" THEN Meeting(gen, corrections)
                   ELSE NoMeeting]

EmitAction(h, order, corrections) ==
  LET logged == [h EXCEPT !.log = Append(@, order)]
  IN TrackClock(logged, order, Gen(logged), corrections)

EmitClockSet(h, requested, effective) ==
  EmitAction(h, SetOrder(requested, effective), 0)

PendingClock(h) == \E g \in 1..Gen(h) : h.controls[g] = "pending"

\* Mutant: a sample that is missing is not taken for an old one.
FreshSamplesMut(h) == \A p \in Peer : h.health[p].age # "old"

\* Every peer has sent a sample with a game time within six seconds.
FreshSamples(h) == \A p \in Peer : h.health[p].age \in {"new", "quiet"}
ObservedRunning(h) == \E p \in Peer : h.health[p].age # "none" /\ h.health[p].running

BeginRendezvous(h, requested, release) ==
  IF h.rv # NoMeeting /\ ~h.rv.failed THEN h
  ELSE IF ~FreshSamples(h) THEN EmitClockSet(h, requested, 0)
  ELSE EmitAction(h, MeetOrder(requested,
                       IF Effective(h) = 0 THEN 1 ELSE Effective(h), release), 0)

EmergencyPause(h) ==
  LET quiet == [h EXCEPT !.fence = NoFence, !.rv = NoMeeting]
  IN IF Effective(h) # 0 \/ Requested(h) # 0
       THEN EmitClockSet(quiet, Requested(h), 0)
       ELSE quiet

\* The journal has a network.sync_fault, before the order with this number.
Faulted(h) == h.faultAt > 0
FaultSession(h) ==
  EmergencyPause(IF Faulted(h) THEN h ELSE [h EXCEPT !.faultAt = Gen(h) + 1])

\* Acknowledged pauses only move forward in generation.
SetPauseAcknowledged(h, paused, gen) ==
  IF gen <= h.pause.gen THEN h
  ELSE [h EXCEPT !.pause = [gen |-> gen, on |-> paused],
                 !.protect = [gen |-> gen, mode |-> IF paused THEN "acknowledged" ELSE "none"]]
-----------------------------------------------------------------------------
(***************************************************************************)
(* The answers of the peers                                                *)
(***************************************************************************)
Complete(h) ==
  LET at == {h.rv.reached[p].at : p \in Peer}
      order == h.log[h.rv.gen]
  IN IF Cardinality(at) = 1
       THEN EmitClockSet([h EXCEPT !.rv = NoMeeting], order.requested, order.release)
     ELSE IF TooLate \in at \/ h.rv.corrections >= CorrectionLimit THEN EmergencyPause(h)
     ELSE EmitAction(h, MeetOrder(order.requested, 1, order.release), h.rv.corrections + 1)

\* Mutant: the first report completes the rendezvous.
AllReachedMut(h) == \E p \in Peer : h.rv.reached[p] # NoReport

AllReached(h) == \A p \in Peer : h.rv.reached[p] # NoReport

\* A report about the active rendezvous; reports about others change nothing.
Reached(h, report, restoring) ==
  IF h.rv = NoMeeting \/ report.gen # h.rv.gen THEN h
  ELSE LET noted == [h EXCEPT !.rv.reached[report.peer] = report, !.rv.failed = ~report.ok]
           settled == IF noted.controls[report.gen] = "pending"
                        THEN [noted EXCEPT !.controls[report.gen] = "complete"] ELSE noted
       IN CASE ~report.ok -> IF restoring THEN noted ELSE EmergencyPause(noted)
            [] report.ok /\ ~AllReached(noted) -> noted
            [] OTHER -> IF restoring THEN settled ELSE Complete(settled)

RecordClockReached(h, report) ==
  Reached([h EXCEPT !.log[report.gen].reports = Append(@, report)], report, FALSE)

\* Mutant: one answer counts for all.
AckedMut(order) == IF order.acks = {} THEN {} ELSE Peer

Acked(order) == {a.peer : a \in order.acks}

ResolveClockAck(h, ack) ==
  LET noted == [h EXCEPT !.log[ack.gen].acks = @ \union {ack}]
  IN CASE h.controls[ack.gen] # "pending" -> noted
       [] h.controls[ack.gen] = "pending" /\ ~ack.ok ->
            EmergencyPause([noted EXCEPT !.controls[ack.gen] = "faulted"])
       [] OTHER ->
            IF Acked(noted.log[ack.gen]) # Peer THEN noted
            ELSE SetPauseAcknowledged([noted EXCEPT !.controls[ack.gen] = "complete"],
                                      noted.log[ack.gen].effective = 0, ack.gen)
-----------------------------------------------------------------------------
(***************************************************************************)
(* The governor.  How far clocks drifted, how a machine performs and how   *)
(* long that lasted are data of the samples: the governor may take each    *)
(* branch that some such data lead to.                                     *)
(***************************************************************************)
UnexpectedlyPaused(h) ==
  {p \in Peer : /\ Effective(h) > 0
                /\ h.health[p].age = "new" /\ h.health[p].gen = Gen(h)
                /\ ~h.health[p].running}

SamplesComparable(h) == FreshSamples(h) /\ \A p \in Peer : h.health[p].gen = Gen(h)

BeginNativePauseFence(h) ==
  LET stopped == EmitClockSet(h, Requested(h), 0)
  IN [stopped EXCEPT !.fence = [gen |-> Gen(stopped), requested |-> Requested(h),
                                release |-> Effective(h)]]

MayResumeFence(h) ==
  /\ h.rv = NoMeeting /\ ~PendingClock(h) /\ FreshSamples(h)
  /\ \A p \in Peer : h.health[p].gen >= h.fence.gen
  /\ ObservedRunning(h)

ResumeFence(h) ==
  EmitAction([h EXCEPT !.fence = NoFence],
             MeetOrder(h.fence.requested, 1, h.fence.release), 0)

SlowDown(h) ==
  LET target == IF Effective(h) <= 1 THEN 1 ELSE Effective(h) - 1
  IN {EmitClockSet(h, Requested(h), 0)} \union
     IF target # Effective(h) THEN {BeginRendezvous(h, Requested(h), target)} ELSE {h}

Adjust(h) ==
  CASE Faulted(h) ->
         LET retired == [h EXCEPT !.fence = NoFence]
         IN {IF \/ Requested(h) # 0 \/ Effective(h) # 0
                \/ ObservedRunning(h) /\ ~PendingClock(h)
               THEN EmitClockSet(retired, 0, 0) ELSE retired}
    [] ~Faulted(h) /\ h.fence # NoFence ->
         {IF MayResumeFence(h) THEN ResumeFence(h) ELSE h}
    [] ~Faulted(h) /\ h.fence = NoFence /\ (h.rv # NoMeeting \/ PendingClock(h)) -> {h}
    [] OTHER ->
         CASE Requested(h) = 0 ->
                {h} \union IF ObservedRunning(h) THEN {EmitClockSet(h, 0, 0)} ELSE {}
           [] Requested(h) # 0 /\ UnexpectedlyPaused(h) # {} -> {BeginNativePauseFence(h)}
           [] OTHER ->
                {h} \union SlowDown(h)
                    \union (IF SamplesComparable(h)
                              THEN {BeginRendezvous(h, Requested(h), Effective(h))} ELSE {})
                    \union (IF Effective(h) < Requested(h)
                              THEN {BeginRendezvous(h, Requested(h), Effective(h) + 1)} ELSE {})
-----------------------------------------------------------------------------
(***************************************************************************)
(* Restart.  The journal is read in order: answers are noted, nothing is   *)
(* decided.  Then finalize_restore draws the conclusions.                  *)
(***************************************************************************)
Fresh(log, faultAt) ==
  [up |-> TRUE, log |-> log, faultAt |-> faultAt, rv |-> NoMeeting, controls |-> <<>>,
   pause |-> [gen |-> 0, on |-> FALSE], protect |-> [gen |-> 0, mode |-> "none"],
   fence |-> NoFence, connected |-> {Host}, waiting |-> {}, late |-> {},
   health |-> [p \in Peer |-> NoSample]]

RestoredStatus(order) ==
  CASE \E a \in order.acks : ~a.ok -> "faulted"
    [] Acked(order) = Peer /\ \A a \in order.acks : a.ok -> "complete"
    [] OTHER -> "pending"

\* The memory after the first n of the reports that were journalled for an order.
Noted(tracked, reports) ==
  LET after[n \in 0..Len(reports)] ==
        IF n = 0 THEN tracked ELSE Reached(after[n - 1], reports[n], TRUE)
  IN after

\* An entry of the journal with all that was journalled for it.
Restore(h, order) ==
  LET gen == Len(h.controls) + 1
      tracked == [TrackClock(h, order, gen, 0) EXCEPT !.controls[gen] = RestoredStatus(order)]
  IN Noted(tracked, order.reports)[Len(order.reports)]

\* The memory after the first n entries of the journal.
Restored(log, faultAt) ==
  LET after[n \in 0..Len(log)] ==
        IF n = 0 THEN Fresh(log, faultAt) ELSE Restore(after[n - 1], log[n])
  IN after

FinalizeRestore(h) ==
  LET done == {g \in 1..Gen(h) : h.controls[g] = "complete"}
      acked == IF done = {} THEN h
               ELSE SetPauseAcknowledged(h, h.log[Newest(done)].effective = 0, Newest(done))
      stopped == IF Gen(h) > 0 /\ h.controls[Gen(h)] = "faulted"
                   THEN EmergencyPause(acked) ELSE acked
  IN IF stopped.rv # NoMeeting /\ AllReached(stopped) THEN Complete(stopped) ELSE stopped

LoadAudit(log, faultAt) ==
  FinalizeRestore(Restored(log, faultAt)[Len(log)])
-----------------------------------------------------------------------------
(***************************************************************************)
(* The steps.  Handle(h) ends a handler, or a crash ends it earlier: then  *)
(* the journal keeps what was appended until that moment.                  *)
(***************************************************************************)
Down(log, faultAt) == [Fresh(log, faultAt) EXCEPT !.up = FALSE, !.connected = {}]

\* What a crash during a handler leaves in the journal: what the peer sent, or
\* the fault too, or some of the orders too.
Journals(h) ==
  {<<SubSeq(h.log, 1, Gen(host)), host.faultAt>>} \union
  {<<SubSeq(h.log, 1, n), h.faultAt>> : n \in Gen(host)..Gen(h)}

\* An interference happens only while no game is more than Lag orders behind.
MaySpend(cost) ==
  /\ spent + cost <= Budget
  /\ cost > 0 => \A p \in Peer : game[p].read + Lag >= Gen(host)
Spend == MaySpend(1) /\ spent' = spent + 1

\* Handlers that answer (cost 0), and those some interference starts (cost 1).
Handle(h, cost) ==
  \/ /\ MaySpend(cost) /\ spent' = spent + cost
     /\ host' = h /\ UNCHANGED crashes
  \/ /\ MaySpend(cost + 1) /\ spent' = spent + cost + 1
     /\ crashes < MaxCrash /\ crashes' = crashes + 1
     /\ \E journal \in Journals(h) : host' = Down(journal[1], journal[2])

\* Messages of a peer reach the host over its own bridge or a connection that
\* is through with its catch-up.  A connection that was replaced delivers one
\* more: its thread had read it, and finds out only when it answers.
Reads(p) == host.up /\ p \in host.connected \union host.late
Heard(p) == IF p \in host.connected THEN host ELSE [host EXCEPT !.late = @ \ {p}]

\* A player asks for a speed: 0 is always heard, another needs every peer.
Request(p, speed) ==
  /\ Reads(p)
  /\ speed # 0 => ~Faulted(host) /\ host.connected = Peer /\ FreshSamples(host)
  /\ LET asked == [Heard(p) EXCEPT !.fence = NoFence]
     IN IF ~FreshSamples(host) THEN Handle(EmitClockSet(asked, 0, 0), 1)
        ELSE \E approach \in IF Effective(host) = 0 THEN {0, 1} ELSE {Effective(host)} :
               Handle(EmitAction(asked, MeetOrder(speed, approach, speed), 0), 1)
  /\ UNCHANGED <<game, out>>

\* A game takes its next order from its inbox.  It may refuse the command,
\* and it may already be at the target.
Apply(p) ==
  /\ game[p].read < Gen(host) /\ Len(out[p]) < Unread
  /\ p \in host.connected \union {Host}
  /\ LET g == game[p].read + 1
         order == host.log[g]
         meets == order.type = "clock.rendezvous"
         ack(ok) == [type |-> "ack", gen |-> g, peer |-> p, ok |-> ok]
     IN \/ /\ game' = [game EXCEPT ![p] =
                [read |-> g, gen |-> g, meets |-> meets,
                 speed |-> IF meets /\ order.effective = 0 THEN @.speed ELSE order.effective]]
           /\ out' = [out EXCEPT ![p] = Append(@, ack(TRUE))]
           /\ UNCHANGED spent
        \/ /\ Spend
           /\ game' = [game EXCEPT ![p].read = g]
           /\ out' = [out EXCEPT ![p] = Append(@, ack(FALSE))]
  /\ UNCHANGED <<host, crashes>>

\* The game stands at the target, or overshot it, or could not pause.  When
\* it is there at once its report precedes the answer to the order.
Reach(p) ==
  /\ game[p].meets /\ Len(out[p]) < Unread
  /\ \E at \in {AtTarget, Late, TooLate}, ok \in BOOLEAN, first \in BOOLEAN :
       /\ ok \/ at = AtTarget
       /\ LET report == [type |-> "clock_reached", gen |-> game[p].gen, peer |-> p, ok |-> ok,
                         at |-> at]
              sent == out[p]
          IN /\ IF at # AtTarget \/ ~ok THEN Spend ELSE UNCHANGED spent
             /\ game' = [game EXCEPT ![p].meets = FALSE,
                                     ![p].speed = IF ok THEN 0 ELSE @]
             /\ IF first /\ sent # <<>>
                  THEN /\ Last(sent).type = "ack" /\ Last(sent).gen = game[p].gen
                       /\ out' = [out EXCEPT ![p] = Front(sent) \o <<report, Last(sent)>>]
                  ELSE ~first /\ out' = [out EXCEPT ![p] = Append(sent, report)]
  /\ UNCHANGED <<host, crashes>>

\* The host reads the next answer or report of a peer and journals it.
ReadAnswer(p) ==
  /\ Reads(p) /\ out[p] # <<>>
  /\ LET record == Head(out[p])
     IN IF record.type = "ack" THEN Handle(ResolveClockAck(Heard(p), record), 0)
        ELSE Handle(RecordClockReached(Heard(p), record), 0)
  /\ out' = [out EXCEPT ![p] = Tail(@)]
  /\ UNCHANGED <<game>>

\* Health: the game names its order, whether it runs, and a local fault.  The
\* host counts it whether or not the peer is connected.
ClockHealth(p) ==
  /\ Reads(p) /\ out[p] = <<>>
  /\ LET sample == [gen |-> game[p].gen, running |-> game[p].speed > 0, age |-> "new"]
         noted == [Heard(p) EXCEPT !.health[p] = sample]
     IN \/ /\ noted # host
           /\ \E h \in Adjust(noted) : Handle(h, IF Gen(h) > Gen(host) THEN 1 ELSE 0)
        \/ /\ ~Faulted(host) /\ game[p].read = Gen(host)
           /\ Handle(FaultSession(noted), 1)
  /\ UNCHANGED <<game, out>>

\* A sample gets older than 2.5 seconds, then older than six.
Age(p) ==
  /\ Spend /\ host.up
  /\ host.health[p].age \in {"new", "quiet"}
  /\ host' = [host EXCEPT !.health[p].age = IF @ = "new" THEN "quiet" ELSE "old"]
  /\ UNCHANGED <<game, out, crashes>>

\* A player pauses or resumes one game behind the mod's back (a menu).
NativeSpeed(p) ==
  /\ Spend
  /\ game' = [game EXCEPT ![p].speed = IF @ = 0 THEN 1 ELSE 0]
  /\ UNCHANGED <<host, out, crashes>>

\* Another part of the host faults the session.
OutsideFault ==
  /\ host.up /\ ~Faulted(host)
  /\ Handle(FaultSession(host), 1)
  /\ UNCHANGED <<game, out>>

\* Vehicles that wait for a release want clocks that agree.
VehicleSkew ==
  /\ host.up /\ ~Faulted(host) /\ host.waiting = {}
  /\ host.rv = NoMeeting /\ Effective(host) > 0 /\ SamplesComparable(host)
  /\ Handle(BeginRendezvous(host, Requested(host), Effective(host)), 1)
  /\ UNCHANGED <<game, out>>

\* A connection is lost, or replaced while its thread is about to handle a
\* message.
Cut(p) ==
  /\ host.up /\ p \in host.connected \ {Host}
  /\ \E late \in {{}, {p}} :
       Handle(EmergencyPause([host EXCEPT !.connected = @ \ {p}, !.waiting = @ \union {p},
                                          !.late = @ \union late, !.health[p] = NoSample]), 1)
  /\ UNCHANGED <<game, out>>

\* The peer is back and through with the backlog.
Ready(p) ==
  /\ host.up /\ p \notin host.connected
  /\ host' = [host EXCEPT !.connected = @ \union {p}, !.waiting = @ \ {p}, !.late = @ \ {p}]
  /\ UNCHANGED <<game, out, spent, crashes>>

GraceExpires(p) ==
  /\ host.up /\ p \in host.waiting
  /\ Handle(FaultSession([host EXCEPT !.waiting = @ \ {p}]), 1)
  /\ UNCHANGED <<game, out>>

\* A pause that some peer answered and every other, connected, only fails to
\* answer because a modal window silenced it.
Quiescent(h) ==
  {g \in 1..Gen(h) :
     LET missing == Peer \ Acked(h.log[g])
     IN /\ h.controls[g] = "pending"
        /\ h.log[g].type = "clock.set" /\ h.log[g].effective = 0
        /\ missing # {} /\ missing # Peer
        /\ missing \subseteq h.connected
        /\ \A p \in missing : h.health[p].age \in {"quiet", "old"}}

\* The generation that is protected now (0: none), and the host's note of it.
ProtectedGen(h) == IF h.pause.on \/ Quiescent(h) = {} THEN 0 ELSE Newest(Quiescent(h))
RefreshQuiescent(h) ==
  CASE ProtectedGen(h) > 0 /\ ProtectedGen(h) >= h.protect.gen ->
         [h EXCEPT !.protect = [gen |-> ProtectedGen(h), mode |-> "quiescent"]]
    [] ProtectedGen(h) = 0 /\ ~h.pause.on /\ h.protect.mode = "quiescent" ->
         [h EXCEPT !.protect.mode = "none"]
    [] OTHER -> h

Expire ==
  /\ host.up
  /\ LET h == RefreshQuiescent(host)
     IN \/ h # host /\ host' = h /\ UNCHANGED <<spent, crashes>>
        \/ /\ h.waiting = {}
           /\ \E g \in 1..Gen(h) \ {ProtectedGen(h)} :
                /\ h.controls[g] = "pending"
                /\ Handle(EmergencyPause([h EXCEPT !.controls[g] = "faulted"]), 1)
        \/ /\ h.waiting = {} /\ h.rv # NoMeeting /\ ~h.rv.failed
           /\ Handle(EmergencyPause(h), 1)
  /\ UNCHANGED <<game, out>>

\* The host dies between two handlers; what peers sent and it has not
\* journalled is sent again.
HostCrash ==
  /\ Spend /\ host.up
  /\ crashes < MaxCrash /\ crashes' = crashes + 1
  /\ host' = Down(host.log, host.faultAt)
  /\ UNCHANGED <<game, out>>

HostRestart ==
  /\ ~host.up
  /\ Handle(LoadAudit(host.log, host.faultAt), 0)
  /\ UNCHANGED <<game, out>>

\* All games are loaded and paused, and a player just asked for the first speed.
ClockInit ==
  /\ LET idle == [LoadAudit(<<>>, 0) EXCEPT !.connected = Peer,
                     !.health = [p \in Peer |-> [NoSample EXCEPT !.age = "new"]]]
     IN host = EmitAction(idle, MeetOrder(MaxSpeed, 0, MaxSpeed), 0)
  /\ game = [p \in Peer |-> [read |-> 0, gen |-> 0, meets |-> FALSE, speed |-> 0]]
  /\ out = [p \in Peer |-> <<>>]
  /\ spent = 0 /\ crashes = 0

PeerStep(p) ==
  \/ \E speed \in {0, MaxSpeed} : Request(p, speed)
  \/ Apply(p) \/ Reach(p) \/ ReadAnswer(p) \/ ClockHealth(p) \/ Age(p)
  \/ NativeSpeed(p) \/ Cut(p) \/ Ready(p) \/ GraceExpires(p)

ClockNext == (\E p \in Peer : PeerStep(p)) \/ OutsideFault \/ VehicleSkew \/ Expire
             \/ HostCrash \/ HostRestart

ClockSpec == ClockInit /\ [][ClockNext]_clockVars
-----------------------------------------------------------------------------
\* Orders fit the speeds players asked for, a host that is up tracks every order, and
\* it awaits only clients of the session.
ClockTypeOK ==
  /\ host.up \in BOOLEAN /\ host.faultAt \in Nat
  /\ \A g \in 1..Gen(host) :
       /\ host.log[g].type \in {"clock.set", "clock.rendezvous"}
       /\ host.log[g].requested \in Speeds /\ host.log[g].effective \in Speeds
       /\ host.log[g].release \in 0..host.log[g].requested
  /\ host.up => Len(host.controls) = Gen(host)
  /\ host.rv.gen \in 0..Gen(host)
  /\ host.waiting \subseteq Peer \ {Host} /\ host.connected \subseteq Peer
  /\ host.late \subseteq Peer
  /\ spent \in 0..Budget /\ crashes \in 0..MaxCrash

\* No order lets the clock run unless the order before it was a rendezvous that
\* every peer has reported, all at one game time -- and all with success, unless
\* the host crashed (_complete_rendezvous).
ReleasedTogether ==
  \A g \in 1..Gen(host) :
    host.log[g].type = "clock.set" /\ host.log[g].effective > 0 =>
      /\ g > 1 /\ host.log[g - 1].type = "clock.rendezvous"
      /\ LET reports == host.log[g - 1].reports
         IN /\ {reports[i].peer : i \in DOMAIN reports} = Peer
            /\ Cardinality({reports[i].at : i \in DOMAIN reports}) = 1
            /\ crashes = 0 => \A i \in DOMAIN reports : reports[i].ok

\* An outage ends the rendezvous, and while a peer is away the host begins no
\* other one: unless it has counted a sample that the thread of a replaced
\* connection still held (reconnect.py:85 means to rule that out).
NoMeetingWhileAway ==
  host.rv # NoMeeting => \A p \in host.waiting : host.health[p] # NoSample

\* When the newest order is a pause that is acknowledged, every game has applied
\* it (shared_pause_acknowledged, which saving and deadlines rely on).
PauseAgreed ==
  host.pause.on /\ host.pause.gen = Gen(host) /\ Gen(host) > 0 =>
    \A p \in Peer : game[p].gen = Gen(host)

=============================================================================
