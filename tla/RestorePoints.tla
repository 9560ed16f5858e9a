--------------------------- MODULE RestorePoints ---------------------------
(***************************************************************************)
(* Restore points.  A preparation, asked for by a player or ordered by the *)
(* host from time to time, drains the ordered work, stops every game at    *)
(* one instant, proves that the vehicles are where they are in every other *)
(* game and orders a checkpoint.  When the checkpoint agrees every game    *)
(* saves its world, and the receipts of the saves are ordered.             *)
(*                                                                         *)
(* Players work, change the clock and ask for preparations at any time; a  *)
(* preparation of a player refuses their work, an automatic one yields to  *)
(* it.  The host crashes between two appends of a handler and is started   *)
(* again from its journal, which is log: what is not in it is forgotten.   *)
(***************************************************************************)
EXTENDS Naturals, Sequences, FiniteSets, SequencesExt, FiniteSetsExt

CONSTANTS Peer,
          MaxAuto,   \* automatic preparations
          MaxRequest,
          Budgets     \* the other bounds: a behaviour has one of these sets of them

ASSUME PointAssumption ==
  /\ IsFiniteSet(Peer) /\ Peer # {}
  /\ {MaxAuto, MaxRequest} \subseteq Nat
  /\ Budgets \subseteq [time : Nat, round : Nat, trouble : Nat,
                       requests : SUBSET {"work", "clock", "prepare"}]

VARIABLES host,    \* the memory of the host; host.wrote : appends of a handler
          log,     \* the ordered entries, which are also the journal
          game,    \* game[p] : the world, the files and the reports of a game
          arrived, \* the games whose vehicle waits for the next station release
          seen,    \* seen[p] : the boundary the game was last told is READY, or 0
          count    \* how often the players and the trouble have struck, and may

pointVars == <<host, log, game, arrived, seen, count>>

MaxTime == count.limit.time        \* the clock of a world
MaxRound == count.limit.round      \* departures of the vehicles
Requests == count.limit.requests   \* what the players ask for
TroubleBudget == count.limit.trouble  \* crashes, faults and refused resumes

NewPrep(i, auto, resume) ==
  [seq |-> i, auto |-> auto, status |-> "draining", boundary |-> 0, resume |-> resume,
   resumed |-> FALSE, probe |-> 0, samples |-> 0, proof |-> 0, target |-> 0]
Nobody == [NewPrep(0, FALSE, 0) EXCEPT !.status = "none"]
Silent == [read |-> 0, at |-> 0, speed |-> 0]
Nothing == [boundary |-> 0]
Pending == {"draining", "pausing", "checkpointing"}
-----------------------------------------------------------------------------
(***************************************************************************)
(* What the ordered entries say                                            *)
(***************************************************************************)
Log(h) == log \o h.wrote
Tip(h) == Len(log) + Len(h.wrote)
Of(h, types) == LET all == Log(h) IN {i \in DOMAIN all : all[i].type \in types}
Latest(S) == IF S = {} THEN 0 ELSE Max(S)

Read(i) == \A p \in Peer : game[p].read >= i

\* The speed that was last ordered, and the last clock that every game applied.
Speed(h) == IF Of(h, {"clock"}) = {} THEN 1 ELSE Log(h)[Latest(Of(h, {"clock"}))].speed
Applied(h) == Latest({i \in Of(h, {"clock"}) : Read(i)})
SharedPause(h) == Applied(h) # 0 /\ Log(h)[Applied(h)].speed = 0

\* A boundary is pending until its outcome, or a cancellation of its preparation.
Settled(h, b) ==
  LET all == Log(h) IN \E i \in b + 1 .. Len(all) :
    \/ all[i].type = "outcome" /\ all[i].boundary = b
    \/ all[i].type = "cancel" /\ all[b].type = "request" /\ all[b].prep = all[i].prep
Boundaries(h) == {b \in Of(h, {"work", "request"}) : ~Settled(h, b)}

\* AnchorCoordinator._pending_work.
Rounds(h) == Cardinality({i \in Of(h, {"release"}) : ~Read(i)}) + (IF arrived = {} THEN 0 ELSE 1)
PendingWork(h) ==
  Rounds(h) + Cardinality(Boundaries(h)) + Cardinality({i \in Of(h, {"clock"}) : ~Read(i)})

\* AnchorHistoryIndex: the commits, which a receipt is not one of that counts.
WorkTypes == {"prepare", "cancel", "clock", "work", "release", "probe", "fault"}
Agreed(h) ==
  LET ok == {i \in Of(h, {"outcome"}) : Log(h)[i].success}
  IN IF ok = {} THEN 0 ELSE Log(h)[Max(ok)].boundary
OutcomeOf(h, b) ==
  Latest({i \in Of(h, {"outcome"}) : Log(h)[i].boundary = b /\ Log(h)[i].success})
WorkSince(h, b) == \E i \in Of(h, WorkTypes) : i > OutcomeOf(h, b)
Receipts(h, b) == {i \in Of(h, {"receipt"}) : Log(h)[i].boundary = b}
Restorable(h) ==
  LET all == Log(h) IN
  {b \in {all[i].boundary : i \in Of(h, {"receipt"})} :
     {all[i].peer : i \in Receipts(h, b)} = Peer}
Newest(h) == Latest(Restorable(h))
-----------------------------------------------------------------------------
(***************************************************************************)
(* Health and readiness                                                    *)
(***************************************************************************)
Heard(h) == \A p \in Peer : h.health[p] # Silent
Skewed(h) == \E p, q \in Peer : h.health[p].at # h.health[q].at

\* Every game was paused, at one instant, once it had read the entry.
Quiet(h, entry) ==
  /\ Heard(h) /\ ~Skewed(h)
  /\ \A p \in Peer : /\ h.health[p].speed = 0
                     /\ h.health[p].read >= entry /\ h.health[p].read >= Applied(h)

\* Mutant: the games need not have read the outcome of the checkpoint.
ReadyMut(h, receipt) ==
  LET b == Agreed(h)
  IN /\ b > 0 /\ ~h.fault /\ PendingWork(h) = 0 /\ ~WorkSince(h, b)
     /\ h.prep.status \notin Pending \union {"failed"}

\* AnchorCoordinator.readiness; a READY preparation is latched for its receipts.
Ready(h, receipt) ==
  LET b == Agreed(h)
      latched == /\ receipt /\ h.prep.status = "ready"
                 /\ h.prep.boundary = b
  IN /\ b > 0 /\ ~h.fault /\ PendingWork(h) = 0 /\ ~WorkSince(h, b)
     /\ latched \/ (SharedPause(h) /\ Quiet(h, OutcomeOf(h, b)))
     /\ h.prep.status \notin Pending \union {"failed"}
-----------------------------------------------------------------------------
(***************************************************************************)
(* The journal and the preparation                                         *)
(***************************************************************************)
Fresh ==
  [up |-> TRUE, wrote |-> <<>>, fault |-> FALSE, prep |-> Nobody,
   sched |-> [seq |-> 0, resume |-> 0, seen |-> FALSE, last |-> 0],
   health |-> [p \in Peer |-> Silent]]

\* AnchorPreparationCoordinator.observe_ordered, for entry i.
Observe(prep, e, i, restoring) ==
  CASE e.type = "prepare" -> NewPrep(i, e.auto, e.resume)
    [] e.type = "cancel" /\ prep.seq = e.prep ->
         [prep EXCEPT !.status =
            IF prep.auto /\ e.why = "gameplay" THEN "superseded" ELSE "failed"]
    [] e.type = "request" ->
         [(IF prep.seq = e.prep THEN prep ELSE NewPrep(e.prep, FALSE, 0))
            EXCEPT !.status = "checkpointing", !.boundary = i]
    [] e.type = "clock" /\ restoring /\ prep.status \notin Pending
       /\ e.by = "recovery" -> Nobody
    [] e.type = "clock" /\ prep.status = "draining" /\ e.by = "recovery"
       /\ e.speed > 0 -> [prep EXCEPT !.resume = e.speed, !.resumed = TRUE]
    [] e.type = "probe" /\ prep.status = "pausing" -> [prep EXCEPT !.probe = i]
    [] e.type = "outcome" /\ prep.status \notin {"none", "failed", "superseded"}
       /\ prep.boundary = e.boundary ->
         [prep EXCEPT !.status = IF e.success THEN "converged" ELSE "failed"]
    [] OTHER -> prep

Faults(e) == e.type = "fault" \/ (e.type = "outcome" /\ ~e.success)

Write(h, e) ==
  [h EXCEPT !.wrote = Append(@, e), !.fault = @ \/ Faults(e),
            !.prep = Observe(@, e, Tip(h) + 1, FALSE)]

Yes(h) == [ok |-> TRUE, host |-> h]
No(h) == [ok |-> FALSE, host |-> h]

\* A clock entry; paused games meet at the latest instant that was heard.
PutClock(h, speed, by, fresh) ==
  IF speed > 0 /\ (h.fault \/ ~fresh) THEN No(h)
  ELSE Yes(Write(h, [type |-> "clock", speed |-> speed, by |-> by,
                   target |-> IF fresh THEN Max({game[p].at : p \in Peer}) ELSE 0]))

\* A gameplay that comes late, or the scheduler, retires the preparation.
Retire(h) == [h EXCEPT !.prep = IF @.status \notin Pending THEN Nobody ELSE @]

PutCancel(h, seq, why) ==
  LET known == h.prep.seq # 0 /\ h.prep.seq = seq
  IN IF ~known /\ h.prep.status \in Pending THEN No(h)
     ELSE Yes(Write(IF known THEN h ELSE Retire(h), [type |-> "cancel", prep |-> seq, why |-> why]))

Idle(h) == [h EXCEPT !.sched.seq = 0, !.sched.resume = 0, !.sched.seen = FALSE]

\* The clock request of the scheduler; one that fails leaves the games as they are.
ResumeAsBefore(h, fresh) ==
  IF h.sched.resume = 0 \/ h.fault THEN h
  ELSE PutClock(h, h.sched.resume, "recovery", fresh).host

\* preempt_for_gameplay: the cancellation, then the speed as it was before.
Preempt(h, fresh) ==
  LET seq == IF h.sched.seq # 0 THEN h.sched.seq ELSE h.prep.seq
      cancelled == PutCancel([h EXCEPT !.prep.status = "superseded"], seq, "gameplay")
  IN Idle(ResumeAsBefore(Retire(cancelled.host), fresh))

\* enforce_before_commit, for all that is no part of the preparation.
Fence(h, fresh) ==
  IF h.prep.seq = 0 THEN Yes(h)
  ELSE IF h.prep.status \in Pending /\ h.prep.auto THEN Yes(Preempt(h, fresh))
  ELSE IF h.prep.status \in Pending THEN No(h)
  ELSE Yes(Retire(h))

\* The scheduler ends with the speed as it was before, past the fence of what is left.
SchedulerResume(h, fresh) ==
  LET drains == /\ h.prep.status = "draining"
                /\ h.prep.resume = h.sched.resume
      fence == IF drains THEN Yes(h) ELSE Fence(h, fresh)
  IN IF h.sched.resume = 0 \/ h.fault \/ ~fence.ok THEN Idle(h)
     ELSE Idle(ResumeAsBefore([fence.host EXCEPT !.sched.resume = h.sched.resume], fresh))

\* _load_audit: the preparation and the fault that the journal leads to.
Replayed ==
  LET Step(acc, e) == [prep |-> Observe(acc.prep, e, acc.i, TRUE), i |-> acc.i + 1]
  IN [prep |-> FoldLeft(Step, [prep |-> Nobody, i |-> 1], log).prep,
      fault |-> \E i \in DOMAIN log : Faults(log[i])]

\* Mutant: the scheduler starts anew, whatever preparation the journal leads to.
AdoptedMut(h) == [h EXCEPT !.sched.last = Newest(h)]

\* adopt_recovered_preparation: the scheduler, started on that journal.
Adopted(h) ==
  IF ~h.prep.auto \/ h.prep.status \in {"failed", "superseded"}
  THEN [h EXCEPT !.sched.last = Newest(h)]
  ELSE [h EXCEPT !.sched = [seq |-> h.prep.seq, resume |-> h.prep.resume,
                            seen |-> h.prep.boundary \in Restorable(h), last |-> Newest(h)]]
-----------------------------------------------------------------------------
(***************************************************************************)
(* The host                                                                *)
(***************************************************************************)
Troubled == count.trouble < TroubleBudget
Asked(what) == host.up /\ what \in Requests /\ count.request < MaxRequest

\* A handler ends, or a crash ends it between two of its appends.
HandlerEnds(next, cost) ==
  \E h \in {next} : \E n \in 0..Len(h.wrote) :
    LET crash == n < Len(h.wrote)
        trouble == count.trouble + cost + (IF crash THEN 1 ELSE 0)
    IN /\ crash => n > 0
       /\ trouble <= TroubleBudget
       /\ count' = [count EXCEPT !.trouble = trouble]
       /\ host' = IF crash THEN [Fresh EXCEPT !.up = FALSE] ELSE [h EXCEPT !.wrote = <<>>]
       /\ log' = log \o SubSeq(h.wrote, 1, n)

Stays == UNCHANGED <<game, arrived, seen>>

\* A commit of a player: the fence first, whatever becomes of the commit.
Commit(Do(_), fresh) ==
  LET fence == Fence(host, fresh)
      done == Do(fence.host)
  IN IF fence.ok THEN done.host ELSE host

\* A request of a player counts whether it is ordered or not.
Struck(next, cost) ==
  /\ next # host
  /\ \E h \in {next} : \E n \in 0..Len(h.wrote) :
       LET crash == n < Len(h.wrote)
           trouble == count.trouble + cost + (IF crash THEN 1 ELSE 0)
       IN /\ crash => n > 0
          /\ trouble <= TroubleBudget
          /\ count' = [count EXCEPT !.trouble = trouble, !.request = @ + 1]
          /\ host' = IF crash THEN [Fresh EXCEPT !.up = FALSE] ELSE [h EXCEPT !.wrote = <<>>]
          /\ log' = log \o SubSeq(h.wrote, 1, n)

\* Gameplay, which opens a checkpoint boundary.
PlayerWork(fresh) ==
  /\ Asked("work")
  /\ LET Do(h) == IF h.fault \/ Boundaries(h) # {} THEN No(h) ELSE Yes(Write(h, [type |-> "work"]))
     IN Struck(Commit(Do, fresh), IF fresh THEN 0 ELSE 1)
  /\ Stays

PlayerClock(speed, fresh) ==
  /\ Asked("clock")
  /\ LET Do(h) == PutClock(h, speed, "player", fresh)
     IN Struck(Commit(Do, fresh), IF fresh THEN 0 ELSE 1)
  /\ Stays

\* The resume speed is the one asked for last, or the slowest for a pending round.
ResumeSpeed(h) == IF Speed(h) = 0 /\ PendingWork(h) > 0 THEN 1 ELSE Speed(h)
PutPrepare(h, auto) ==
  IF h.fault \/ Boundaries(h) # {} THEN No(h)
  ELSE Yes(Write(h, [type |-> "prepare", auto |-> auto, resume |-> ResumeSpeed(h)]))

PlayerPrepare ==
  /\ Asked("prepare")
  /\ LET Do(h) == PutPrepare(h, FALSE) IN Struck(Commit(Do, TRUE), 0)
  /\ Stays
-----------------------------------------------------------------------------
(***************************************************************************)
(* AnchorPreparationCoordinator.maintain                                   *)
(***************************************************************************)
Becomes(status) == host.up /\ HandlerEnds([host EXCEPT !.prep.status = status], 0) /\ Stays

In(status) == host.up /\ host.prep.status = status

\* The session has faulted under a preparation that was pending.
PreparationFaulted ==
  /\ host.prep.status \in Pending /\ host.fault
  /\ Becomes("failed")

\* A station round is open, but the games are paused: they run until it is complete.
RoundsOnly(h) == SharedPause(h) /\ Rounds(h) > 0 /\ PendingWork(h) = Rounds(h)
ResumeRounds(h, fresh) ==
  LET speed == Max({1, h.prep.resume})
  IN PutClock([h EXCEPT !.prep.status = "draining", !.prep.resume = speed],
              speed, "recovery", fresh).host

BeginPause(h, fresh) ==
  LET pausing == [h EXCEPT !.prep.status = "pausing"]
  IN IF SharedPause(h) THEN pausing ELSE PutClock(pausing, 0, "recovery", fresh).host

\* Every game has read the whole history and nothing of it is pending.
Drained(h) ==
  /\ PendingWork(h) = 0
  /\ \/ Heard(h) /\ \A p \in Peer : h.health[p].read >= Tip(h)
     \/ h.prep.resumed /\ Speed(h) > 0

Releases(h) == Cardinality(Of(h, {"release"}))

Drain(fresh) ==
  /\ In("draining") /\ ~host.fault
  /\ LET cost == IF fresh THEN 0 ELSE 1 IN
     \/ /\ host.prep.target > 0 /\ Releases(host) >= host.prep.target
        /\ HandlerEnds([host EXCEPT !.prep.target = 0], 0)
     \/ /\ host.prep.target > Releases(host)
        /\ Speed(host) = 0 /\ PendingWork(host) = 0
        /\ HandlerEnds(ResumeRounds(host, fresh), cost)
     \/ /\ host.prep.target = 0 /\ RoundsOnly(host)
        /\ HandlerEnds(ResumeRounds(host, fresh), cost)
     \/ /\ host.prep.target = 0 /\ ~RoundsOnly(host) /\ Drained(host)
        /\ HandlerEnds(BeginPause(host, fresh), cost)
  /\ Stays

\* No vehicle that was unsafe reaches its station in time.
DrainTimeout == In("draining") /\ ~host.fault /\ host.prep.target > 0 /\ Becomes("failed")

PausedSkew(h) ==
  /\ Heard(h) /\ Skewed(h)
  /\ \A p \in Peer : h.health[p].speed = 0 /\ h.health[p].read >= Applied(h)

\* A second pause, at the instant of the game that is ahead.
Resynchronize(h) ==
  PutClock([h EXCEPT !.prep.status = "pausing", !.prep.boundary = 0], 0, "recovery", TRUE).host

Quiescent(h) == SharedPause(h) /\ PendingWork(h) = 0 /\ Quiet(h, Tip(h))

PutProbe(h) == Write([h EXCEPT !.prep.probe = 0], [type |-> "probe"])
PutRequest(h) == Write(h, [type |-> "request", prep |-> h.prep.seq, proof |-> h.prep.proof])

Unsafe == {p \in Peer : ~game[p].bound}

\* AnchorPreparationPhase.maintain: two samples, then the checkpoint.
Phase ==
  \/ host.prep.samples = 2 /\ HandlerEnds(PutRequest(host), 0)
  \/ host.prep.samples < 2 /\ host.prep.probe = 0 /\ HandlerEnds(PutProbe(host), 0)
  \/ /\ host.prep.samples < 2 /\ host.prep.probe # 0 /\ Unsafe = {}
     /\ LET taken == [host EXCEPT !.prep.samples = @ + 1, !.prep.proof = host.prep.probe]
        IN HandlerEnds(IF taken.prep.samples = 2 THEN PutRequest(taken) ELSE PutProbe(taken), 0)
  \/ /\ host.prep.samples < 2 /\ host.prep.probe # 0 /\ Unsafe # {}
     /\ HandlerEnds([host EXCEPT !.prep.status = "draining", !.prep.target = Releases(host) + 1,
                            !.prep.resume = Max({1, @}), !.prep.resumed = FALSE,
                            !.prep.probe = 0, !.prep.samples = 0, !.prep.proof = 0], 0)

Pausing(fresh) ==
  /\ In("pausing") /\ ~host.fault
  /\ \/ RoundsOnly(host) /\ HandlerEnds(ResumeRounds(host, fresh), IF fresh THEN 0 ELSE 1)
     \/ /\ SharedPause(host) /\ PendingWork(host) = 0 /\ PausedSkew(host)
        /\ HandlerEnds(Resynchronize(host), 0)
     \/ Quiescent(host) /\ Phase
  /\ Stays

\* A sample that is late, or vehicles in places from which there is no way on.
PhaseFailed ==
  /\ In("pausing") /\ ~host.fault /\ host.prep.probe # 0 /\ Quiescent(host)
  /\ Unsafe # {} /\ Becomes("failed")

Converged ==
  /\ In("converged")
  /\ \/ Ready(host, FALSE) /\ Becomes("ready")
     \/ /\ ~Ready(host, FALSE) /\ PendingWork(host) = 0 /\ PausedSkew(host)
        /\ HandlerEnds(Resynchronize(host), 0) /\ Stays
-----------------------------------------------------------------------------
(***************************************************************************)
(* AutomaticRecoveryScheduler.maintain                                     *)
(***************************************************************************)
Autos(h) == Cardinality({i \in Of(h, {"prepare"}) : Log(h)[i].auto})

Schedule ==
  /\ host.up /\ host.sched.seq = 0 /\ Autos(host) < MaxAuto
  /\ ~host.fault /\ Agreed(host) > 0 /\ PendingWork(host) = 0
  /\ host.prep.status \in {"none", "failed", "superseded"}
  /\ LET Do(h) == PutPrepare(h, TRUE)
         ordered == Commit(Do, TRUE)
     IN HandlerEnds([ordered EXCEPT !.sched.seq = Tip(ordered), !.sched.resume = Speed(host)], 0)
  /\ Stays

\* Receipts of every game are there, those of this preparation or newer ones.
Finished(h) ==
  /\ h.sched.seq # 0
  /\ \/ Newest(h) > h.sched.last
     \/ h.prep.boundary \in Restorable(h)

SeeReceipts ==
  /\ host.up /\ Finished(host) /\ ~host.sched.seen
  /\ HandlerEnds([host EXCEPT !.sched.seen = TRUE], 0) /\ Stays

Finish(fresh) ==
  /\ host.up /\ Finished(host) /\ host.sched.seen
  /\ HandlerEnds(SchedulerResume([host EXCEPT !.sched.last = Newest(host), !.sched.seq = 0], fresh),
            IF fresh THEN 0 ELSE 1)
  /\ Stays

\* The cancellation of what has failed, or has taken too long.
Cancel(why, fresh) ==
  /\ host.up /\ host.sched.seq # 0
  /\ LET cancelled == PutCancel(host, host.sched.seq, why)
     IN /\ cancelled.ok
        /\ HandlerEnds(SchedulerResume(cancelled.host, fresh), IF fresh THEN 0 ELSE 1)
  /\ Stays

CancelFailed(fresh) ==
  /\ host.prep.seq = host.sched.seq
  /\ host.prep.status \in {"failed", "superseded"}
  /\ Cancel("failed", fresh)

Timeout(fresh) == Cancel("timeout", fresh)
-----------------------------------------------------------------------------
(***************************************************************************)
(* The rest of the host                                                    *)
(***************************************************************************)
\* The last export of a boundary; worlds that differ fault the session.
Outcome(success) ==
  /\ host.up
  /\ \E b \in Boundaries(host) :
       /\ Read(b)
       /\ HandlerEnds(Write(host, [type |-> "outcome", boundary |-> b, success |-> success]),
                 IF success THEN 0 ELSE 1)
  /\ Stays

\* The station barrier lets the vehicles of every game depart.
Release ==
  /\ host.up /\ ~host.fault /\ arrived = Peer
  /\ HandlerEnds(Write(host, [type |-> "release"]), 0)
  /\ arrived' = {} /\ UNCHANGED <<game, seen>>

SessionFault == host.up /\ ~host.fault /\ HandlerEnds(Write(host, [type |-> "fault"]), 1) /\ Stays

HostRestart ==
  /\ ~host.up
  /\ host' = Adopted([Fresh EXCEPT !.prep = Replayed.prep, !.fault = Replayed.fault])
  /\ Stays /\ UNCHANGED <<log, count>>

Crash ==
  /\ host.up /\ Troubled
  /\ host' = [Fresh EXCEPT !.up = FALSE]
  /\ count' = [count EXCEPT !.trouble = @ + 1]
  /\ Stays /\ UNCHANGED log

\* A heartbeat of a game, which is heard when it says something new and is waited for.
Sample(g) == [read |-> g.read, at |-> g.at, speed |-> g.speed]
Beat(p) ==
  /\ host.up /\ host.prep.status \in {"draining", "pausing", "converged", "ready"}
  /\ host.health[p] # Sample(game[p])
  /\ host' = [host EXCEPT !.health[p] = Sample(game[p])]
  /\ Stays /\ UNCHANGED <<log, count>>

\* The status that the host publishes.
Published == IF host.prep.status = "ready" /\ Ready(host, FALSE)
             THEN Agreed(host) ELSE 0
Publish(p) ==
  /\ host.up /\ seen[p] # Published
  /\ seen' = [seen EXCEPT ![p] = Published]
  /\ UNCHANGED <<host, log, game, arrived, count>>

\* AnchorCoordinator.validate_receipt.  A mutant follows: only the boundary is compared.
AcceptsMut(h, file) == Agreed(h) = file.boundary
Accepts(h, file) == Ready(h, TRUE) /\ Agreed(h) = file.boundary

\* The receipt of a save, which the host orders, or which is refused for good.
Submit(p) ==
  /\ host.up /\ game[p].file # Nothing /\ ~game[p].filed
  /\ game' = [game EXCEPT ![p].filed = TRUE]
  /\ IF Accepts(host, game[p].file) /\ Boundaries(host) = {}
     THEN HandlerEnds(Write(host, [type |-> "receipt", boundary |-> Agreed(host), peer |-> p,
                            save |-> game[p].file]), 0)
     ELSE UNCHANGED <<host, log, count>>
  /\ UNCHANGED <<arrived, seen>>
-----------------------------------------------------------------------------
(***************************************************************************)
(* The games                                                               *)
(***************************************************************************)
\* The preparation as the game sees it.
Local(prep, e, i) ==
  CASE e.type = "prepare" -> [seq |-> i, boundary |-> 0, ready |-> FALSE]
    [] e.type = "request" -> [seq |-> e.prep, boundary |-> i, ready |-> FALSE]
    [] e.type = "outcome" /\ e.boundary = prep.boundary -> [prep EXCEPT !.ready = e.success]
    [] e.type = "cancel" /\ e.prep = prep.seq -> [prep EXCEPT !.ready = FALSE]
    [] OTHER -> prep

\* The game reads an entry; its next heartbeat says so.
Apply(p) ==
  /\ game[p].read < Len(log)
  /\ LET i == game[p].read + 1
         e == log[i]
         moved == [game[p] EXCEPT !.read = i, !.prep = Local(@, e, i)]
         next == CASE e.type = "clock" -> [moved EXCEPT !.speed = e.speed, !.at = Max({@, e.target})]
                   [] e.type = "release" -> [moved EXCEPT !.bound = TRUE]
                   [] OTHER -> moved
     IN /\ game' = [game EXCEPT ![p] = next]
        /\ host' = IF host.up THEN [host EXCEPT !.health[p] = Sample(next)] ELSE host
  /\ UNCHANGED <<log, arrived, seen, count>>

Advance(p) ==
  /\ game[p].speed > 0 /\ game[p].at < MaxTime
  /\ game' = [game EXCEPT ![p].at = @ + 1]
  /\ UNCHANGED <<host, log, arrived, seen, count>>

\* A vehicle waits at its station until the round is released.
Arrive(p) ==
  /\ host.up /\ game[p].speed > 0 /\ p \notin arrived /\ Rounds(host) <= 1
  /\ Releases(host) < MaxRound
  /\ \A i \in Of(host, {"release"}) : game[p].read >= i
  /\ arrived' = arrived \union {p}
  /\ UNCHANGED <<host, log, game, seen, count>>

\* The engine runs a paused game a little further, a resume that it consumes late.
\* late is a history: the READY boundaries that this moved the game away from.
LateResume(p) ==
  /\ game[p].speed = 0 /\ game[p].at < MaxTime /\ Troubled
  /\ game' = [game EXCEPT ![p].at = @ + 1,
                ![p].late = IF game[p].prep.ready THEN @ \union {game[p].prep.boundary} ELSE @]
  /\ count' = [count EXCEPT !.trouble = @ + 1]
  /\ UNCHANGED <<host, log, arrived, seen>>

Gameplay(n) == {i \in 1..n : log[i].type = "work"}

\* The game saves its world once for each boundary that it was told is READY.
Save(p) ==
  /\ seen[p] # 0 /\ game[p].prep.ready /\ game[p].prep.boundary = seen[p]
  /\ game[p].file # Nothing => game[p].file.boundary # seen[p]
  /\ game' = [game EXCEPT ![p].filed = FALSE,
                          ![p].file = [boundary |-> seen[p], works |-> Gameplay(game[p].read),
                                       at |-> game[p].at]]
  /\ UNCHANGED <<host, log, arrived, seen, count>>
-----------------------------------------------------------------------------
(***************************************************************************)
(* The specification                                                       *)
(***************************************************************************)
Started == <<[type |-> "work"], [type |-> "outcome", boundary |-> 1, success |-> TRUE]>>

PointsInit ==
  /\ host = Fresh /\ log = Started /\ arrived = {}
  /\ seen = [p \in Peer |-> 0]
  /\ game \in {[p \in Peer |->
                  [read |-> 2, speed |-> 1, at |-> 0, bound |-> bound[p], filed |-> FALSE,
                   file |-> Nothing, late |-> {},
                   prep |-> [seq |-> 0, boundary |-> 0, ready |-> FALSE]]] :
               bound \in {[p \in Peer |-> b] : b \in BOOLEAN}}
  /\ count \in {[request |-> 0, trouble |-> 0, limit |-> limit] : limit \in Budgets}

Players == \E fresh \in BOOLEAN :
  PlayerPrepare \/ PlayerWork(fresh) \/ \E speed \in 0..1 \ {Speed(host)} : PlayerClock(speed, fresh)
Maintain == \E fresh \in BOOLEAN : Drain(fresh) \/ Pausing(fresh)
Scheduler == \E fresh \in BOOLEAN : Finish(fresh) \/ CancelFailed(fresh) \/ Timeout(fresh)
Games == \E p \in Peer :
  \/ Beat(p) \/ Publish(p) \/ Submit(p) \/ Apply(p) \/ Advance(p) \/ Arrive(p)
  \/ LateResume(p) \/ Save(p)

PointsNext ==
  \/ Players \/ Maintain \/ Scheduler \/ Games
  \/ PreparationFaulted \/ DrainTimeout \/ PhaseFailed \/ Converged
  \/ Schedule \/ SeeReceipts \/ Release \/ SessionFault \/ HostRestart \/ Crash
  \/ \E success \in BOOLEAN : Outcome(success)

PointsSpec == PointsInit /\ [][PointsNext]_pointVars

\* The clock of the host runs on whatever the games do, and the host is started again.
\* So a timeout that is due for good ends the preparation of the scheduler: the weak
\* fairness of Timeout and HostRestart, spelled out for their effects.
TimeoutDue ==
  /\ host.up /\ host.sched.seq # 0
  /\ host.prep.seq = host.sched.seq \/ host.prep.status \notin Pending

FairPoints ==
  /\ PointsSpec /\ []<>host.up
  /\ []<>~TimeoutDue \/ []<><<host'.sched.seq = 0>>_pointVars

-----------------------------------------------------------------------------
(***************************************************************************)
(* Properties                                                              *)
(***************************************************************************)
Entries == 1..Len(log)
Saves(b) == {log[i].save : i \in {j \in Entries : log[j].type = "receipt" /\ log[j].boundary = b}}
Received == {i \in Entries : log[i].type = "receipt"}
Points == {b \in {log[i].boundary : i \in Received} :
             {log[i].peer : i \in {j \in Received : log[j].boundary = b}} = Peer}

PointsTypeOK ==
  /\ DOMAIN host = DOMAIN Fresh /\ host.up \in BOOLEAN /\ host.wrote = <<>>
  /\ host.prep.status \in Pending \union {"none", "converged", "ready", "failed", "superseded"}
  /\ host.prep.boundary <= Len(log) /\ host.prep.seq <= Len(log)
  /\ host.sched.seq \in 0..Len(log)
  /\ \A p \in Peer : game[p].read \in 0..Len(log) /\ game[p].at \in 0..MaxTime
  /\ arrived \subseteq Peer /\ count.trouble \in 0..TroubleBudget
  /\ \A p \in Peer : seen[p] \in 0..Len(log)

\* The saves of a restore point hold one world: the gameplay up to the boundary and no
\* other, and one instant (anchor.py, _health_reasons and paused_game_time_skew).  Past
\* READY nothing proves the instant any more: only a game that ran on after it had read
\* that the boundary was agreed may differ in it.
RestorePointsAgree ==
  \A b \in Points : \A s, t \in Saves(b) :
    /\ s.boundary = b /\ s.works = Gameplay(b)
    /\ s.at = t.at \/ \E p \in Peer : b \in game[p].late

\* What the offline planner asks of a boundary with a receipt of every game: the
\* receipts come after the outcome, with no work in between (restore.py:164-189).
PlanFollows ==
  \A b \in Points : \E o \in Entries :
    /\ log[o].type = "outcome" /\ log[o].boundary = b /\ log[o].success
    /\ \A i \in Entries : log[i].type = "receipt" /\ log[i].boundary = b =>
         i > o /\ \A j \in o..i : log[j].type \notin {"prepare", "cancel", "clock", "work",
                                                     "release", "probe", "fault"}

\* A game that hangs does not keep the players out: the fence of an automatic
\* preparation is lifted, also by a host that was restarted in the middle of it.
FenceLifts ==
  host.prep.status \in Pending /\ host.prep.auto
    ~> ~(host.prep.status \in Pending /\ host.prep.auto)
=============================================================================
