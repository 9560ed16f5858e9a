--------------------------- MODULE FaultRecovery ---------------------------
(***************************************************************************)
(* Recovery of a faulted session in place.  A build whose games were late, *)
(* or an assignment whose rejection had no proof, faults the session.      *)
(* When every game has reported that the native engine refused the work    *)
(* and changed nothing, the host may order a probe: every game checks its  *)
(* own evidence and exports a checkpoint, and checkpoints that agree clear *)
(* the fault, in the host and in every game.                               *)
(*                                                                         *)
(* Further faults, local edits, stale health reports and crashes of the    *)
(* host fall anywhere in between.  A replay folds the journal: disk is the *)
(* memory it leads to.                                                     *)
(***************************************************************************)
EXTENDS Naturals, Sequences, FiniteSets

CONSTANTS Peer,
          Kind,    \* what faults : subset of {"proposal", "operation"}
          Budget   \* further faults, local edits and crashes of the host

ASSUME RecoveryAssumption ==
  /\ IsFiniteSet(Peer) /\ Peer # {}
  /\ Kind \subseteq {"proposal", "operation"}
  /\ Budget \in Nat

VARIABLES host,    \* the memory of the host; host.wrote : journal entries of a handler
          disk,    \* the memory that a replay of the journal leads to
          orders,  \* the ordered entries of the journal; the work is entry 1
          game,    \* game[p]
          out,     \* out[p] : what the game has sent and the host not read
          kind,    \* the work is a construction proposal, or the assignment of a
                   \* vehicle whose rejection carries no proof
          spent

vars == <<host, disk, orders, game, out, kind, spent>>

\* What the native engine can make of the work, what a game says of it, and the
\* world it leaves: "odd" is a world that this work has changed unnoticed.
Results ==
  {[success |-> TRUE,  empty |-> FALSE, core |-> "kept",    world |-> "new"],
   [success |-> FALSE, empty |-> TRUE,  core |-> "kept",    world |-> "old"],
   [success |-> FALSE, empty |-> TRUE,  core |-> "kept",    world |-> "odd"],
   [success |-> FALSE, empty |-> TRUE,  core |-> "changed", world |-> "odd"],
   [success |-> FALSE, empty |-> FALSE, core |-> "kept",    world |-> "odd"]}

None == [type |-> "none"]
-----------------------------------------------------------------------------
(***************************************************************************)
(* The host                                                                *)
(***************************************************************************)
Fresh ==
  [up |-> TRUE, wrote |-> <<>>, fault |-> "none", emitted |-> FALSE,
   status |-> "pending", code |-> "none", outcome |-> 0,  \* the tracker of the work
   done |-> [p \in Peer |-> None],
   boundary |-> 0, probe |-> "none", core |-> "none",     \* the probe, its checkpoint
   points |-> [p \in Peer |-> None],
   stopping |-> FALSE, stopped |-> {},                    \* the shared pause
   health |-> [p \in Peer |-> None]]

Ordered(e) == e.type \in {"outcome", "sync_fault", "pause", "requalify", "checkpoint"}
Write(h, e) == [h EXCEPT !.wrote = Append(@, e)]

\* The work is over: the same assignments live and in a replay.
TrackOutcome(h, e) ==
  [h EXCEPT !.status = e.result, !.code = e.code, !.outcome = e.seq,
            !.fault = IF e.result = "faulted" THEN e.code ELSE @]

\* observe_ordered: the probe and its checkpoint boundary.
TrackProbe(h, e) ==
  [h EXCEPT !.probe = "probing", !.boundary = e.seq, !.core = e.core,
            !.points = [p \in Peer |-> None]]

\* observe_checkpoint_outcome, after session_fault took the code of a failure.
\* A fault other than the probed one makes it raise.
ClearsAnother(h, e) == e.success /\ h.fault # e.clears

TrackCheckpoint(h, e) ==
  IF e.success
    THEN [h EXCEPT !.probe = "recovered", !.status = "rejected",
                   !.fault = "none", !.emitted = FALSE]
    ELSE [h EXCEPT !.probe = "rollback", !.fault = e.code]

\* _load_audit, one entry.  Mutant: the probe is not followed.
ReplayMut(h, e) ==
  CASE e.type = "done" -> [h EXCEPT !.done[e.peer] = e.state]
    [] e.type = "point" -> [h EXCEPT !.points[e.peer] = e.state]
    [] e.type = "ack" -> [h EXCEPT !.stopped = @ \union {e.peer}]
    [] e.type = "outcome" -> TrackOutcome(h, e)
    [] e.type = "sync_fault" -> [h EXCEPT !.fault = e.code, !.emitted = TRUE]
    [] e.type = "pause" -> [h EXCEPT !.stopping = TRUE, !.stopped = {}]
    [] e.type = "checkpoint" /\ ~e.success -> [h EXCEPT !.fault = e.code]
    [] OTHER -> h

Replay(h, e) ==
  CASE e.type = "done" -> [h EXCEPT !.done[e.peer] = e.state]
    [] e.type = "point" -> [h EXCEPT !.points[e.peer] = e.state]
    [] e.type = "ack" -> [h EXCEPT !.stopped = @ \union {e.peer}]
    [] e.type = "outcome" -> TrackOutcome(h, e)
    [] e.type = "sync_fault" -> [h EXCEPT !.fault = e.code, !.emitted = TRUE]
    [] e.type = "pause" -> [h EXCEPT !.stopping = TRUE, !.stopped = {}]
    [] e.type = "requalify" -> TrackProbe(h, e)
    [] e.type = "checkpoint" ->
         IF ClearsAnother(h, e) THEN [h EXCEPT !.up = FALSE] ELSE TrackCheckpoint(h, e)

\* What one more entry makes of the journal.
Extend(j, e) ==
  [memory |-> Replay(j.memory, e),
   orders |-> IF Ordered(e) THEN Append(j.orders, e) ELSE j.orders]

\* The journal after n of the entries of a handler.
Extended(entries) ==
  LET after[n \in 0..Len(entries)] ==
        IF n = 0 THEN [memory |-> disk, orders |-> orders]
        ELSE Extend(after[n - 1], entries[n])
  IN after

NextSeq(h) == Len(Extended(h.wrote)[Len(h.wrote)].orders) + 1

EmitOutcome(h, result, code) ==
  LET e == [type |-> "outcome", seq |-> NextSeq(h), result |-> result, code |-> code]
  IN IF h.status # "pending" THEN h ELSE Write(TrackOutcome(h, e), e)

\* SynchronizationCoordinator.fault_session: the first fault is kept, one is
\* ordered, and the games are stopped.
FaultSession(h, code) ==
  LET noted == [h EXCEPT !.fault = IF @ = "none" THEN code ELSE @]
      told == IF noted.emitted THEN noted
              ELSE Write([noted EXCEPT !.emitted = TRUE],
                         [type |-> "sync_fault", seq |-> NextSeq(h), code |-> code])
  IN IF told.stopping THEN told
     ELSE Write([told EXCEPT !.stopping = TRUE], [type |-> "pause", seq |-> NextSeq(told)])

Done(h) == {h.done[p] : p \in Peer}
AllRefused(h) == \A d \in Done(h) : d # None /\ ~d.success

\* _resolve_proposal_locked, OperationConsensusCoordinator.resolve.
Resolve(h) ==
  CASE None \in Done(h) -> h
    [] \A d \in Done(h) : d # None /\ d.success -> EmitOutcome(h, "complete", "none")
    [] AllRefused(h) /\ \A d \in Done(h) : d.empty /\ d.core = "kept" ->
         IF kind = "operation" THEN EmitOutcome(h, "faulted", "unproven")
         ELSE EmitOutcome(h, "rejected", "none")
    [] OTHER -> EmitOutcome(h, "faulted", "diverged")

\* FaultRecoveryEvidence.candidate.
Candidate(h) ==
  /\ h.status = "faulted" /\ h.code = h.fault
  /\ h.fault = IF kind = "proposal" THEN "late" ELSE "unproven"

LateRejection(h) ==
  AllRefused(h) /\ \A d \in Done(h) : d.empty /\ d.core = "kept"

\* _quiescence_reason, from the last health of every game.
Quiet(h) ==
  /\ h.stopped = Peer
  /\ \A p \in Peer : /\ h.health[p] # None
                     /\ h.health[p].read >= Len(orders)
                     /\ h.health[p].fault = h.fault /\ ~h.health[p].residue

\* _post_fault_work_reason: only clock orders followed the fault.
NoWorkSince(h) == \A i \in DOMAIN orders : i > h.outcome => orders[i].type = "pause"

Eligible(h) ==
  /\ h.probe # "probing" /\ h.fault # "none"
  /\ Candidate(h) /\ NoWorkSince(h) /\ LateRejection(h) /\ Quiet(h)

\* bound_action: the probe names the outcome, the fault and the core it is about.
BoundAction(h) ==
  [type |-> "requalify", seq |-> NextSeq(h), at |-> h.outcome, clears |-> h.fault,
   core |-> "kept"]

EmitCheckpoint(h, success, code) ==
  LET e == [type |-> "checkpoint", seq |-> NextSeq(h), boundary |-> h.boundary,
            success |-> success, code |-> code, clears |-> h.code]
  IN IF h.probe # "probing" THEN h ELSE TrackCheckpoint(Write(h, e), e)

\* Mutant: the structures of the worlds are not compared.
ConvergedMut(h) == \A p \in Peer : h.points[p].core = h.core

\* checkpoint_failure and the convergence key.
Converged(h) ==
  /\ \A p, q \in Peer : h.points[p].world = h.points[q].world
  /\ \A p \in Peer : h.points[p].core = h.core

ResolveCheckpoint(h) ==
  IF \E p \in Peer : h.points[p] = None THEN h
  ELSE IF Converged(h) THEN EmitCheckpoint(h, TRUE, "none")
  ELSE EmitCheckpoint(h, FALSE, "mismatch")

\* Mutant: the fault of a game is its own affair.
PromotesMut(h, e) == FALSE

\* A health report; a fault that only a game knows of is ordered for all.
Promotes(h, e) == e.state.fault # "none" /\ h.fault = "none" /\ e.state.read >= Len(orders)

\* Nothing interferes with work that ended well, or once a probe has failed.
Concluded ==
  \/ host.status = "complete"
  \/ host.status = "rejected" /\ host.probe = "none"
  \/ host.code = "diverged"
  \/ host.probe = "rollback"
MaySpend(cost) == spent + cost <= Budget /\ (cost > 0 => ~Concluded)

Journal(h, n) ==
  LET j == Extended(h.wrote)[n]
  IN disk' = j.memory /\ orders' = j.orders

\* A handler ends, or a crash ends it between two of its appends.
Down == [Fresh EXCEPT !.up = FALSE]
Handle(next, cost) ==
  \E h \in {next} :
    \/ /\ MaySpend(cost) /\ spent' = spent + cost
       /\ host' = [h EXCEPT !.wrote = <<>>] /\ Journal(h, Len(h.wrote))
    \/ /\ MaySpend(cost + 1) /\ spent' = spent + cost + 1
       /\ \E n \in 1..(Len(h.wrote) - 1) : host' = Down /\ Journal(h, n)

\* The next message of a game.  Health is not replayed from the journal.
ReadMessage(p) ==
  /\ host.up /\ out[p] # <<>>
  /\ LET e == Head(out[p])
         noted == Write(host, e)
     IN CASE e.type = "done" ->
               Handle(IF host.done[p] # None THEN host
                      ELSE Resolve([noted EXCEPT !.done[p] = e.state]), 0)
          [] e.type = "point" ->
               Handle(IF host.points[p] # None THEN host
                      ELSE ResolveCheckpoint([noted EXCEPT !.points[p] = e.state]), 0)
          [] e.type = "ack" -> Handle([noted EXCEPT !.stopped = @ \union {p}], 0)
          [] e.type = "health" ->
               LET heard == [host EXCEPT !.health[p] = e.state]
               IN Handle(IF Promotes(host, e) THEN FaultSession(heard, e.state.fault)
                         ELSE heard, 0)
  /\ out' = [out EXCEPT ![p] = Tail(@)]
  /\ UNCHANGED <<game, kind>>

\* The deadline of the work, or of the checkpoint of a probe.
Expire ==
  /\ host.up
  /\ \/ host.status = "pending" /\ Handle(EmitOutcome(host, "faulted", "late"), 0)
     \/ host.probe = "probing" /\ Handle(EmitCheckpoint(host, FALSE, "overdue"), 0)
  /\ UNCHANGED <<game, out, kind>>

\* A missed reconnect grace, a refused clock order, a fault of a vehicle.
SyncFault ==
  /\ host.up /\ Handle(FaultSession(host, "sync"), 1)
  /\ UNCHANGED <<game, out, kind>>

\* A player stops the shared clock, which a faulted session still allows.
Pause ==
  /\ host.up /\ ~host.stopping /\ host.fault # "none"
  /\ Handle(Write([host EXCEPT !.stopping = TRUE, !.stopped = {}],
                  [type |-> "pause", seq |-> NextSeq(host)]), 0)
  /\ UNCHANGED <<game, out, kind>>

\* Recover / Resync Session, accepted.
Requalify ==
  /\ host.up /\ Eligible(host)
  /\ LET e == BoundAction(host) IN Handle(TrackProbe(Write(host, e), e), 0)
  /\ UNCHANGED <<game, out, kind>>

HostCrash ==
  /\ host.up /\ MaySpend(1) /\ spent' = spent + 1
  /\ host' = Down
  /\ UNCHANGED <<disk, orders, game, out, kind>>

HostRestart ==
  /\ ~host.up /\ disk.up
  /\ host' = disk
  /\ UNCHANGED <<disk, orders, game, out, kind, spent>>
-----------------------------------------------------------------------------
(***************************************************************************)
(* The games                                                               *)
(***************************************************************************)
\* Health names the fault of the proposals before that of the operations.
Fault(g) == IF g.proposal # "none" THEN g.proposal ELSE g.operation
Health(g) == [read |-> g.read, fault |-> Fault(g), residue |-> g.residue]

Idle(p) == Len(out[p]) < 2
Send(p, e) == out' = [out EXCEPT ![p] = Append(@, e)]

\* The engine is done with the work.
Finish(p) ==
  /\ game[p].result = None /\ Idle(p)
  /\ \E r \in Results :
       /\ game' = [game EXCEPT ![p].result = r, ![p].core = r.core,
                     ![p].world = IF @ = "old" THEN r.world ELSE @]
       /\ Send(p, [type |-> "done", peer |-> p, state |-> r])
  /\ UNCHANGED <<host, disk, orders, kind, spent>>

\* A command of the stock line manager takes effect in this game alone, at any
\* time, before anything is asked.
Stray(p) ==
  /\ MaySpend(1) /\ spent' = spent + 1
  /\ game' = [game EXCEPT ![p].edit = IF game[p].probe = "none" THEN "before"
                                          ELSE IF @ = "none" THEN "since" ELSE @,
                          ![p].unseen = TRUE]
  /\ UNCHANGED <<host, disk, orders, out, kind>>

\* The mod learns of it, takes it into custody or faults its operations lane,
\* or one after the other.
Capture(p) ==
  /\ game[p].unseen
  /\ \E custody, raised \in BOOLEAN :
       /\ custody \/ raised
       /\ game' = [game EXCEPT ![p].unseen = FALSE, ![p].residue = @ \/ custody,
                     ![p].operation = IF raised /\ @ = "none" THEN "residue" ELSE @]
  /\ UNCHANGED <<host, disk, orders, out, kind, spent>>

\* Mutant: a checkpoint leaves out what the player edits in the native managers.
WorldMut(p) == [work |-> game[p].world, own |-> {}]

\* What a checkpoint shows of the native world: the work, and edits of its own.
World(p) == [work |-> game[p].world, own |-> IF game[p].edit = "none" THEN {} ELSE {p}]

\* Only a report of a game that has read everything can matter to the host.
Beat(p) ==
  /\ out[p] = <<>> /\ game[p].read = Len(orders) /\ Fault(game[p]) # "none"
  /\ host.health[p] # Health(game[p])
  /\ Send(p, [type |-> "health", peer |-> p, state |-> Health(game[p])])
  /\ UNCHANGED <<host, disk, orders, game, kind, spent>>

Lane(g) == IF kind = "proposal" THEN g.proposal ELSE g.operation
OtherLane(g) == IF kind = "proposal" THEN g.operation ELSE g.proposal

\* fault_recovery_runtime.begin: the game checks its own evidence.
CanBegin(g, e) ==
  /\ Lane(g) = e.clears /\ OtherLane(g) = "none" /\ ~g.residue
  /\ g.result # None /\ ~g.result.success /\ g.result.empty
  /\ g.result.core = e.core /\ g.core = e.core
  /\ kind = "operation" => g.world = "old"

Begin(p, e) ==
  LET g == game[p]
  IN IF CanBegin(g, e)
       THEN /\ game' = [game EXCEPT ![p].probe = "probing", ![p].read = @ + 1]
            /\ Send(p, [type |-> "point", peer |-> p,
                        state |-> [world |-> World(p), core |-> g.core]])
       ELSE game' = [game EXCEPT ![p].read = @ + 1] /\ UNCHANGED out

\* checkpointOutcome: a fault of the game's own lane is cleared, or the game faults.
Conclude(p, e) ==
  LET g == game[p]
      clears == e.success /\ g.probe = "probing" /\ Lane(g) = e.clears
      healed == IF kind = "proposal" THEN [g EXCEPT !.proposal = "none"]
                ELSE [g EXCEPT !.operation = "none"]
      next == IF clears THEN [healed EXCEPT !.probe = "recovered"]
              ELSE [g EXCEPT !.proposal = IF e.success THEN "refused" ELSE e.code,
                             !.probe = "rollback"]
  IN game' = [game EXCEPT ![p] = [next EXCEPT !.read = @ + 1]] /\ UNCHANGED out

Apply(p) ==
  /\ game[p].read < Len(orders) /\ Idle(p)
  /\ LET e == orders[game[p].read + 1]
         Step(g) == game' = [game EXCEPT ![p] = [g EXCEPT !.read = @ + 1]]
         g == game[p]
     IN CASE e.type = "requalify" -> Begin(p, e)
          [] e.type = "checkpoint" -> Conclude(p, e)
          [] e.type = "pause" -> Step(g) /\ Send(p, [type |-> "ack", peer |-> p])
          [] e.type = "sync_fault" -> Step([g EXCEPT !.operation = e.code]) /\ UNCHANGED out
          [] e.type = "outcome" ->
               /\ Step(IF e.result # "faulted" THEN g
                       ELSE IF kind = "proposal" THEN [g EXCEPT !.proposal = e.code]
                       ELSE [g EXCEPT !.operation = e.code])
               /\ UNCHANGED out
  /\ UNCHANGED <<host, disk, orders, kind, spent>>
-----------------------------------------------------------------------------
Init ==
  /\ host = Fresh /\ disk = Fresh /\ orders = <<>>
  /\ game = [p \in Peer |-> [read |-> 0, result |-> None, world |-> "old", core |-> "kept",
                             proposal |-> "none", operation |-> "none",
                             residue |-> FALSE, probe |-> "none",
                             edit |-> "none", unseen |-> FALSE]]
  /\ out = [p \in Peer |-> <<>>]
  /\ kind \in Kind
  /\ spent = 0

HostStep == Expire \/ SyncFault \/ Pause \/ Requalify \/ HostCrash \/ HostRestart
GameStep(p) == Finish(p) \/ Stray(p) \/ Capture(p) \/ Beat(p) \/ Apply(p)
Next == HostStep \/ \E p \in Peer : ReadMessage(p) \/ GameStep(p)

Spec == Init /\ [][Next]_vars
-----------------------------------------------------------------------------
(***************************************************************************)
(* The offline audit, of the journal that the disk holds                   *)
(***************************************************************************)
Conclusions == {i \in DOMAIN orders : orders[i].type = "checkpoint"}
Recoveries == {i \in Conclusions : orders[i].success}

\* The outcome of a probe, good or bad, names its probe, and the probe a fault.
Bound(i) ==
  LET probe == orders[orders[i].boundary]
      fault == orders[probe.at]
  IN /\ orders[i].boundary < i /\ probe.type = "requalify"
     /\ probe.at < orders[i].boundary /\ orders[i].clears = probe.clears
     /\ fault.type = "outcome" /\ fault.result = "faulted" /\ fault.code = probe.clears

\* The checkpoint that closed it has an equal record of every peer.
Verified(i) ==
  LET probe == orders[orders[i].boundary]
  IN /\ \A p \in Peer : disk.points[p] # None /\ disk.points[p].core = probe.core
     /\ \A p, q \in Peer : disk.points[p].world = disk.points[q].world

\* The work of a recovered fault is judged as a harmless rejection.
Requalified(i) ==
  \A p \in Peer :
    /\ disk.done[p] # None /\ ~disk.done[p].success /\ disk.done[p].empty
    /\ disk.done[p].core = orders[orders[i].boundary].core

-----------------------------------------------------------------------------
Codes == {"none", "late", "unproven", "diverged", "sync", "residue", "mismatch",
          "overdue", "refused"}

TypeOK ==
  /\ host.fault \in Codes /\ host.code \in Codes /\ host.stopped \subseteq Peer
  /\ host.status \in {"pending", "complete", "rejected", "faulted"}
  /\ host.outcome \in 0..Len(orders) /\ host.boundary \in 0..Len(orders)
  /\ host.probe \in {"none", "probing", "recovered", "rollback"}
  /\ host.probe = "none" <=> host.boundary = 0
  /\ host.emitted => host.fault # "none"
  /\ \A p \in Peer :
       /\ game[p].read \in 0..Len(orders) /\ Fault(game[p]) \in Codes
       /\ game[p].world \in {"old", "new", "odd"} /\ Len(out[p]) <= 2
  /\ spent \in 0..Budget

\* A session is recovered only when every native engine refused the work, and
\* when it left all worlds alike.  A game may go on with a native edit of its own:
\* but only with one it made since its own checkpoint.
RecoveredWorldsAgree ==
  host.probe = "recovered" =>
    /\ \A p \in Peer : game[p].result # None /\ ~game[p].result.success
    /\ \A p, q \in Peer : game[p].world = game[q].world /\ game[p].core = game[q].core
    /\ \A p, q \in Peer : p # q => game[p].edit # "before"

\* The offline audit accepts every probe that the host has concluded and every
\* recovery among them, at most one for a fault, and no other: the journal holds
\* the whole proof.
AuditAccepts ==
  /\ \A i \in Conclusions : Bound(i)
  /\ \A i \in Recoveries : Verified(i) /\ Requalified(i)
  /\ Cardinality(Recoveries) <= 1
  /\ disk.up => (disk.probe = "recovered") = (Recoveries # {})

SyncFaults == {i \in DOMAIN orders : orders[i].type = "sync_fault"}

\* A host that is started again from its journal has the same tracker, the same
\* probe and the same fault, when no synchronization fault was ordered.
RestartRestores ==
  host.up /\ SyncFaults = {} =>
    /\ disk.up
    /\ [disk EXCEPT !.health = host.health] = host

\* Nothing is under way: all is read, no deadline runs, health has been heard.
Settled ==
  /\ host.up /\ host.status # "pending" /\ host.probe # "probing"
  /\ \A p \in Peer : /\ out[p] = <<>> /\ game[p].read = Len(orders)
                     /\ Fault(game[p]) # "none" => host.health[p] = Health(game[p])

\* In the end the host and every game agree on whether the session is faulted:
\* no game is left behind by a recovery, none goes on in a faulted session.
FaultIsShared ==
  Settled => \A p \in Peer : (host.fault = "none") = (Fault(game[p]) = "none")

=============================================================================
