# TLA+ models of the tpf2mp multiplayer companion

`tpf2mp` lets several players share one Transport Fever 2 world. Every player runs
the game with a Lua mod and, beside it, a Python *companion*. The games are never
trusted to agree by themselves: an action a player takes becomes an *intent*, one
companion (the *host*) gives all intents one global order, every game replays the
ordered entries, and whatever changes the physical world, lets the clock run, lets a
vehicle depart or saves the world is held behind a barrier until every peer has
reported the same.

This directory models that machinery, and the money the ordered entries move: ten modules, one for
each barrier, transfer or ledger, checked by TLC on small instances; every safety property the runs
check (but `SessionStarts`) is also proved with TLAPS for all values of the constants. Paths below are
relative to `src/companion/tpf2mp/` unless they begin with another directory.

## Files

| file | what it is |
|---|---|
| `CommitOrder.tla` | host, clients, connections and threads, journal, inboxes and outboxes |
| `OrderedLog.tla` | the abstract promise of `CommitOrder`: one exactly-once log every game reads |
| `PhysicalConsensus.tla` | the answers of peers to physical work: trackers, deadlines, session fault, restart |
| `SharedClock.tla` | clock orders, rendezvous, pauses, outages |
| `StationBarrier.tla` | the rounds in which vehicles depart from stations |
| `FaultRecovery.tla` | the probe that clears a session fault without a reload |
| `RestorePoints.tla` | the preparation of a boundary that every game saves |
| `RestoreHandoff.tla` | from saves to two archives of one restore plan |
| `SaveSync.tla` | the transfer of the host's starting save |
| `SessionStart.tla` | content attestation, the start intent and the first checkpoint |
| `Settlement.tla` | the money of a match: what lines earn, assets cost, settlements pay and credit allows |
| `MC*.tla`, `*.cfg` | instances for TLC |
| `*_proofs.tla` | TLAPS proofs (see "What is proved") |
| `PROJECT.json` | components, runs, mutants, the map from definitions to source lines, hazards, theorems |

Check a run with `tlc -config order_crash.cfg MCCommitOrder.tla`, a proof with
`tlapm CommitOrder_proofs.tla`.

## Inventory of the system

| component | state it keeps | operations | interacts through | model |
|---|---|---|---|---|
| Commit ordering and delivery (`peer_session.py`, `client_session.py`, `client.py`, `host_runtime.py`, `bridge.py`, `audit_log.py`, `commit_index.py`, `transport.py`) | `outbox`, its cursor, `inbox` (files); the journal; `next_seq`, `seen`, `commits`, `peers`, `audit_failure`; a thread and a socket per connection | poll, hello, catch-up, register, read, commit, reject, broadcast, acknowledge, fence, restart | files with the game, sockets between companions, `order_lock` between threads | `CommitOrder` |
| Physical consensus (`consensus.py`, `consensus_registry_index.py`, `checkpoint_supersession.py`, `operation_consensus.py`, `operation_rejection.py`) | a tracker for each ordered entry that needs an answer of every peer | record an ack, a completion, a checkpoint; resolve; expire; supersede; load | called by `CommitHost` under `order_lock`; rebuilt from the journal | `PhysicalConsensus` |
| Host policy (`network.py`, `host_intents.py`) | the object that holds the two above | `_commit`, `_reject_intent`, `_record_*`, `_resolve_*`, `_emit_*`, `_expire_proposals`, `_load_audit` | everything on the host | split over all modules |
| Session fault, reconnect grace (`synchronization.py`, `reconnect.py`) | `session_fault`, `sync_fault_emitted`, grace timers, pause fences | `fault_session`, `emergency_pause`, `expire` | polled by the main loop, called from handlers | in `PhysicalConsensus`, `SharedClock`, `FaultRecovery` |
| Clock governor and rendezvous (`synchronization.py`, `clock_governor.py`) | clock orders, health samples, the active rendezvous, corrections | sample, decide, begin, acknowledge, complete, correct | ordered clock entries and their answers | `SharedClock` |
| Vehicle station barrier (`vehicle_barrier.py`, `paused_deadline.py`, Lua side) | rounds per vehicle, protected deadlines | arrival, release, flush, prune, acknowledge | ordered entries, the clock | `StationBarrier` |
| Fault recovery (`fault_recovery*.py`) | evidence of a refused work, a probe | qualify, probe, requalify | ordered entries; changes `session_fault` | `FaultRecovery` |
| Save anchors and automatic recovery (`anchor*.py`, `automatic_recovery*.py`) | phases of a drain, a pause, a checkpoint and saves; a schedule | prepare, drain, sample, fence, receipt, cancel, schedule | blocks `_commit` while it drains | `RestorePoints` |
| Recovery save watcher (`src/tools/watch_recovery_saves.ps1`), restore (`restore*.py`, `local_restore.py`) | requests and results, plans, archives, pointers (files) | file a receipt, build, publish, send, accept, archive, pair | files, journal, plan messages | `RestoreHandoff` |
| Starting save (`save_sync.py`) | listener, slots, transfers, staged files | hash, serve, receive, install, roll back | a socket of its own | `SaveSync` |
| Session start (`industry_content.py`, `restore_session.py`, Lua bootstrap) | content registries, the one start intent, the awaited checkpoint | attest, submit, await, release | ordered entries, the Lua intent latch | `SessionStart` |
| Offline replay (`audit_replay.py`, `audit_consensus.py`, ...) | none | accepts or refuses a journal | the journal | as properties: `JournalVerifies`, `AuditAccepts`, `PlanFollows` |
| Lua bridge, replay of works | counters, pending replays | emit, poll, apply, report | files; the game engine | their messages only |
| Lua intent latch and pump for ordinary intents | the intent awaited, deferred queue | await, defer, consume | bridge, replay | not modelled |
| Economy (`checkpoint.py`, `calendar_model.py`, the handlers of `tpf2_mp.lua` and `economy*.lua` they replay) | lines with delivery cursors, accounts, ledgers, upkeep, the scheduler, the calendar, the match | register, adjust a fare, release, build, buy, sell, settle, finish | every ordered entry; a settlement is proposed by the host's game | `Settlement`: what moves money |
| Demand, towns, freight industries, GUI, protocol validation, relay, lobby, social channel, native hook, launcher, vendored code | | | | not modelled, see the end |

What makes it hard:

* **Threads.** Each accepted connection has a thread, and one replaced by a newer
  connection keeps running until its socket fails. `order_lock` protects a commit but
  not the broadcast that follows it, nor the receipt.
* **Crashes.** A commit is three writes: the journal, memory, the host game's inbox. An
  answer and the decision it leads to are two journal appends. Memory after a restart is what
  `_load_audit` makes of the journal.
* **Unreliable delivery.** Sockets are cut at any time; receipts and broadcasts are
  lost with them; clients resend everything that was not acknowledged.
* **Append failures.** An append that raises may still have reached the disk; the
  host is to be fenced, which happens one poll later.
* **Deadlines.** Barriers time out while the last answer is on its way.
* **Games are far behind.** Each game applies ordered entries at its own pace, so what the host
  ordered, what a game has applied and what its last report says are three different things.
* **Arithmetic.** Money is kept in whole dollars and carried parts of a cent, by saturating
  integers, in every game and in the audit alike.
* **Files.** The game writes its saves when it likes; companions and watchers read
  them, hash them, copy them and rename them.

What makes it correct: the same order everywhere and nothing twice (ordering); nothing
visible that a restart would forget (journal); nothing lost by reconnecting
(delivery); one barrier at a time, decided once, on evidence of every peer
(consensus); a clock that runs only from one common instant (clock); departures in one
order (stations); a fault cleared only over equal worlds (recovery); saves of one world at
one instant, brought together whole (restore); memory and journal that tell the same
story at every crash point (restart); every cent earned, charged and paid once
(settlement); everything asked is answered in the end (progress). `PROJECT.json` lists the hazards found in reading the code, at their lines,
with the properties that cover them or the reason why none does.

## The modules

In every module a handler of the host that runs under `order_lock` is one action, unless
something else can really happen in its middle: then it is several, or (in the
modules that keep the host's memory as one record `host`) its journal appends are
collected in `host.wrote` and a crash may keep any prefix of them. Counters of
what players, networks and crashes may do (`Budget`, `MaxTrouble`, `Budgets`, ...) are bounds of the models,
not of the code.

### CommitOrder

| in the model | in the code |
|---|---|
| `Emit` | `bridge.lua`: a game files its next numbered message |
| `Connect` | the hello of `client_session.py` and its acceptance in `PeerSession.serve_peer` |
| `ReplayBatch`, `ReplayMissing`, `Register` | ordered catch-up, and registration in `host.peers` with `sync_ready` |
| `Read`, `ReplyToClient`, `Hangup` | the message loop of a connection's thread, and its end |
| `ReceiveOrdered`, `ReceiveSyncReady`, `ReceiveReceipt`, `ClientSend` | the client's receiver thread and session loop |
| `ClientDrop`, `ClientNoticesClose` | a session that ends, at either side |
| `MainRead`, `MainAcknowledge` | the polling of the host's own game in `host_runtime.py` |
| `Deduplicate`, `Refuse`, `JournalCommit`, `ApplyCommit`, `BroadcastCommit` | `_commit`, in the steps between which something else can happen |
| `RejectionExists`, `JournalRejection`, `ApplyRejection` | `_reject_intent` |
| `JournalEvent`, `RefuseEvent` | `_record_non_intent` and its refusal |
| `AppendFails`, `EnterAuditFault`, `Fence` | `AuditUnavailable`, in a connection's thread and in the main loop |
| `HostCrash`, `HostRestart` | the process dies anywhere; `_load_audit` |

A thread is a process with a program counter `pc`. `LockFree` is `order_lock`: it is
held from the journal append to the update of memory, and the broadcast and the
receipt come after it. Files (`outbox`, `cursor`, `inbox`, `audit`) survive a crash,
everything else of the host is lost. The socket towards a client is the queue
`toClient`; the one towards the host is what lies between `got` and `sent`.

Abstracted: messages are intents or events with their local number as only
content. *Which* intents are refused is nondeterministic, so that properties hold
whatever the other modules decide. An append reaches the disk
whole or not at all (`AuditUnavailable` may be either); a torn last line is a
hazard without a property. Entries the host adds by itself take the path of a commit. Hellos
refused for content or roster change nothing and are left out.

`OrderedLog` is the abstract specification: commit appends to one log, delivery extends what one
game has read of it. The mapping takes the ordered entries of the journal as the log and
the inboxes as what the games know: an abstract commit is a journal
append, an abstract delivery a filing in an inbox, all else stutters. The implementation is
stated under `[](uncertain = {})`, that is, of behaviours in which no append raised: an intent
whose append raised may be in the journal twice, as described below.

### PhysicalConsensus

| in the model | in the code |
|---|---|
| `Commit` | `_commit`: the checks of the session fault and of the other trackers, and `can_supersede` |
| `Record`, `Conclude`, `Duplicate` | `_record_non_intent` and the `_record_*` methods, then the `_resolve_*` method they call |
| `Verdict`, `Agreed`, `Untouched` | the conditions of the resolve methods and of `operation_rejection.py` |
| `Decide`, `Control` | the `_emit_*` methods, `_commit_prepared_proposal_locked` |
| `Expire` | `_expire_proposals` |
| `FaultSession`, `OutsideFault` | `fault_session`, called by a handler or from elsewhere |
| `HostCrash`, `HostRestart`, `BootResolve`, `BootDone` | the process dies; `_load_audit`; the end of `CommitHost.__init__` |

Every tracker (prepare, build, operation, direct action, checkpoint boundary) is one
element of `status`, at the number of the entry that opened it, with the messages of
the peers in `held`. A construction goes prepare → build → boundary, an operation
goes operation → boundary, and a direct action of the host is a boundary by itself.
The journal is a set, since ordered entries carry their number and no property depends on the
order of records. The three digests the code compares (core, result,
convergence) are one: they are compared in the same places, for equality. A peer's
message is chosen when the host reads it; one that was read and not acknowledged is sent again
first. A deadline may pass at any time, which covers every real one. Left out: the
guard that all peers are connected, clock entries, requalification (`FaultRecovery`),
anchors and restored matches. The last part of the module is the offline audit: `ReplayOrder`, `ReplayOutcomes`,
`ReplayRecords`, and what it asks of constructions, operations and checkpoints (`ConstructionVerifies` ...). One demand is weaker than
the code: the replay raises when acknowledgements of *any* commit diverge; the host lets a prepare whose readiness
diverges be rejected, so convergence is only asked where a construction was built.

### SharedClock

The memory of the host is one record and its handlers are functions on it. `Order` actions of players,
samples of the governor, answers and reports of games, outages and their end, correction
rounds, faults and restarts are the actions. Game times are differences: a report says the game
stopped at the target, late, or too late to catch up. The governor's thresholds are
predicates on samples (`FreshSamples`, lateness), not numbers of seconds. A connection that was replaced may leave its
thread with one message it had read: `host.late` are the peers of which one is still held, and the host handles it as any other,
for nothing in `record_clock_health` or in the handling of answers asks who is registered (`Reads`, `Heard`). `Cut` drops the
connection with or without such a message. Left out: values of
deadlines, and the wording of reasons except where the code branches on one.

### StationBarrier

The host's rounds (`arrivals → ready → ordered`, with the waits for authority and clock), a
release, its acknowledgement, pruning, line changes and sales that cross them, and the Lua side
of a held vehicle (`new, enroute, held, armed, await`). `disk` is the memory a replay of the journal
leads to; `Extended` is the journal after the first n entries of a handler, and a crash keeps such a
prefix. Release slots and schedules are left out: `corridor_binding.lua:199` disables them.
`RoundsEnd` excludes vehicles that are assigned or sold meanwhile.

### FaultRecovery

One work (a late construction, or an assignment whose rejection has no proof) faults; the
games report, the host qualifies the fault, orders a probe, and agreeing checkpoints clear
it, here and in each game. Local edits, further faults, stale health reports and crashes fall in
between. One probe at a time, as the code has it.

A local edit is two steps: a command of the stock line manager takes effect in the native world of one game (`Stray`), at any
time and also while a probe is pending; later the mod captures it (`Capture`) and takes it into custody, raises an operation fault,
or both, one of which is lost when the lane has a fault already. A game begins a probe only without residue in custody (`CanBegin`), and its checkpoint shows its
native world (`World`): an edit from before the probe is in it, one made since is not, and the outcome does not ask again.

### RestorePoints

Preparation of a boundary by a player or by the schedule: drain, pause, samples of clock and vehicles,
checkpoint request, outcome, save, receipts; cancellation; the fence in `_commit`; the
restart. "Work" stands for operation, completion and checkpoint together, a clock entry for rendezvous and
`clock.set` together; a heartbeat is merged with the reading of an entry. A late resume (`LateResume`) moves a paused game at any
time, also when everything is READY, as the engine knows nothing of the boundary; the history `late` of a game remembers the READY boundaries it
ran on after. `Write` is an append of a handler, `HandlerEnds` its end or a crash between two
appends; `Adopted` is the schedule on a replayed journal. Left out: the manual-save fallback,
retries of a save, the governor's own clock orders.

### RestoreHandoff

The watcher of each machine (`Observe`, `File`, `BuildPlan`, `BindPlan`, ...), the companions that carry the plan, and the
launcher's pairing (`Candidate`, `Pair`). The host's companion has two readers of the published plan, and reading and sending are two steps of both: the status
thread stores the signature, reads (`ReadPlan`, which may fail) and broadcasts to those registered by then (`BroadcastPlan`), without `order_lock`;
the thread of a joining client reads and sends (`Join`) and registers later (`Register`). What is taken up is not
taken up again until the file changes or a client joins; `published.missed` remembers a plan that was taken up and lost that way. A
client's request whose boundary is no longer READY is passed over at each poll (`Hash`). A save is the world it holds and a copy number, so writing it again is visible to a
hash. Connections are lost, companions restart. The watchers' progress windows are left out, and a save is atomic and known by its
boundary, where the script takes any newer save with the prefix of the session that stays unchanged for six seconds.

### SaveSync

`Rewrite`, `HashFile`, `FinishManifest` are the host's game against `build_save_sync_manifest`; a handler
thread per connection (`Accept` ... `CountDownload`, `Fail`), a receiver per attempt (`Connect` ...
`SendReceipt`), installation (`Choose`, `Rename`, `Installed`), which may raise at a rename or at the final verification
(`InstallFails`), and rollback (`Unlink`), of which any step may fail and is passed over (`UnlinkFails`; the history `kept` says which files were left). A file is a
sequence of chunks, so equality of hashes is equality of contents. Assumed of the platform: a
rename never replaces a file (Windows), a stat tells every rewrite. The run has no preview
image; the proofs hold with one.

### SessionStart

Four kinds of session (open, fresh, continued, restored), the content of each peer, attestation, the one
start intent, the checkpoint that releases play, early intents, emergency pause, crash and lost connection.
Left out: reload in the middle, expiry of the reconnect grace, duplicates of rejected intents, supersession
of a checkpoint, a crash between a record and its outcome, ambiguous declarations.

### Settlement

| in the model | in the code |
|---|---|
| `Register`, `FareAdjust` | `line.register`, `fare.adjust`: a line enters a market, changes its vehicles or leaves service; vehicles found without a cost are priced (`Priced`) |
| `Release` | `vehicle.sync_release`: a departure earns takings, as the passenger and cargo presentations count them |
| `Build`, `Buy`, `Overhaul`, `Sell` | the outcome of a construction, or of buying, replacing or maintaining and selling vehicles, one or a batch: the price, the upkeep it adds or changes, a boundary |
| `Delete` | `line.delete`: the service goes, with what it carries of its own upkeep and the takings not yet paid |
| `Submit`, `Refuse` | the host's game computes `economy.settle` from its own state; the host refuses it while a boundary is open |
| `Settle` | every game computes the results again, pays lines past their cursor, charges upkeep and interest, judges the match |
| `CloseBoundary`, `Finish` | the checkpoint of an entry has agreed; the host's player ends the match |

Games apply the same entries to equal authored states, so there is one state (`line`, `firm`, `vehicle`, `clock`,
`match`); that they stay equal is what the other modules are about. The host's game is nevertheless behind: `sent` is
the settlement it computed and that is not yet ordered, and other entries may come in between. The arithmetic is
that of the code, with its saturation (`_ACCUMULATOR_LIMIT`) and the parts of a cent it carries from one interval to
the next. History variables (`past`, `book`, `owed`, `raced`, `exact`) say what was earned, spent, charged and
breached; no action reads them. Lines have distinct ranks, since the code
settles them in the order of their ids. Left out: the shares of a market (they decide demand, which does not change what a given
snapshot pays), towns, freight industries, and who is ahead in the ranking when a match ends by valuation or by its
last settlement (any company may be); `line.update` and `vehicle.assign`, which only open a boundary, as `Build` does; the
costs a registration carries for vehicles that have one, which are those they have, since only the owner's operations change them. A
deletion takes the service away when a game performs it; here that and its outcome are one step, behind which a boundary is open.

## Runs

Each row of `PROJECT.json` "runs" says what its run shows; this table gives the instance.

| run | instance | states | properties |
|---|---|---|---|
| `order_crash` | host and one client, one message each, two connections, 1 crash, 1 failed append | 531,915 | `ExactlyOnce`, `WriteAhead`, `AcknowledgedIsDecided`, `NothingMissed` |
| `order_live` | client with 2 messages, two connections, 1 crash | 49,496 | `OriginOrder`, `AcknowledgementsHaveNoGap`, `ImplementsOrderedLog`, `EveryMessageAnswered`, `EveryEntryDelivered` |
| `consensus` | 2 peers, 1 intent, 2 digests, 1 late report, 1 crash | 474,431 | `JournalVerifies`, `EveryBarrierEnds` |
| `consensus_two` | 2 peers, 2 intents, 1 digest, 1 crash | 1,390,287 | `SingleFlight`, `RestartRestores`, `AgreedBefore` |
| `clock` | 2 games, speeds 0..2, 2 interferences, 1 correction, 1 crash | 717,654 | `ReleasedTogether`, `NoMeetingWhileAway`, `PauseAgreed` |
| `station` | 2 games, 1 vehicle, 2 lines, 2 rounds, 2 interferences | 560,003 | `DepartsTogether`, `OneRelease`, `RoundsEnd` |
| `recovery` | 2 games, both kinds of work, 1 further fault, edit or crash | 645,409 | `RecoveredWorldsAgree`, `AuditAccepts`, `RestartRestores`, `FaultIsShared` |
| `points` | 2 games, 1 automatic preparation, 1 request, and either 1 departure of a vehicle or time and 1 crash, fault or refused resume | 1,059,130 | `PlanFollows`, `RestorePointsAgree`, `FenceLifts` |
| `save_sync` | 2 attempts, 1 or 2 slots, 1 rewrite, 1 failure (of an unlink: any) | 954,129 | `VisibleSaveIsWhole`, `CountedIsInstalled`, `AttemptsEnd` |
| `handoff` | 2 boundaries, 1 work, 1 rewrite, 1 trouble | 336,948 | `PairIsOneWorld`, `PlanArrives` |
| `session` | 9 scenes, 1 early action, 1 trouble | 1,294,261 | `PlayAfterAgreement`, `StartedTogether`, `SessionStarts` |
| `settlement` | 2 companies, 2 lines (1 of freight), 1 vehicle bought or found, 1 kind of overhaul, 2 markets, 2 fares, 2 edits, 1 departure, 2 works, 3 settlements | 1,054,610 | `CashConserved`, `PaidAsEarned`, `UpkeepExact`, `BankruptcyIsDue`, `RefusedOnlyByRace` |

**Why these bounds.** Two connections of one client are what it takes for an old thread to
run beside a new one, and for a resend; two messages for an acknowledgement gap, a
reordering, or a duplicate that overtakes something new. One crash meets every crash point. Two
digests tell agreement of two peers from disagreement. Two intents are what it takes for
supersession and for a second barrier; two rounds for a release that is acknowledged after
the next arrival; two attempts for two writers in one save directory and for a full listener; two boundaries for
archives of different ones. In `points` a behaviour chooses one of two sets of bounds (`Budgets`): players at work, or trouble
over time; both at once exceed five minutes. In `settlement` three intervals are a breach, a recovery or a second breach
and a verdict; the amounts are small, and chosen so that every charge leaves a part of a cent, `Limit` is reached and
takings exceed a dollar; one vehicle listed by two lines is what it takes for an upkeep charged twice, and one overhaul for
a remainder carried into another rate. A batch sale of several vehicles is only in the proof. A client's last connection is not lost in `order_live`,
so that progress is checked on an execution in which the network works in the end.

`recovery` uses the symmetry of the games and `settlement` that of markets and fares (no temporal formula is checked in them). `clock`
uses a VIEW: of an order that every game has read only what a restart makes of it is kept
(status, and whether it stopped the clock); the properties of that run read nothing else of such
orders than what is fixed when the order and its reports are journalled.

Deadlock is not checked in any run: when the games have emitted their bounded messages and everything is
delivered, the session faulted, or a host fenced, the models really stop.

**Fairness.** Weak fairness of the loops of companions and threads, of a handler that holds
`order_lock`, of the restart of a crashed host by its player: they poll in endless loops and block only on a
socket or on the lock. Nothing is assumed of games, network, players, engine or journal unless named
here. `Expire` (`PhysicalConsensus`) has strong fairness: a deadline passes once and stays
passed, and the polling loop waits for the lock in each round. (The reset of deadlines by a client that
keeps reconnecting is a hazard without a property.) `StationBarrier` assumes that a rendezvous or a pause ends;
`RestorePoints` that a host that stops is started again and that a timeout that stays due is acted upon, by
the schedule's loop; `RestoreHandoff` the loops of watchers and companions; `SaveSync` the threads of
handler and receiver. `SessionStarts` needs no fairness: it is the invariant that at every state in which
nothing more would happen by itself (`AtRest`), both games have started or show a fault.

**Mutants.** For every property `PROJECT.json` names a plausible error of the code (an
operator whose name ends in `Mut`, beside the one it replaces) with which TLC finds that property violated:
registration without a last look at the history, a restart that reuses a number, a supersession of another
peer's boundary, a fault that does not stop the clock, a round that stays ready, a promotion of a
stale report, a receipt accepted after other work, the `.sav` renamed first, and so on.

## Divergences

Places where the code does not do what one of its documents or comments says, or where its
live and its offline half differ. The models follow the code, and the
properties are what remains true.

* A refused intent is remembered in `commits`, not in `seen` (`network.py:459`, `:656`). Sent again after a
  lost receipt, when the reason of its refusal has passed, it is committed as well.
* A crash after the journal append and before `write_inbound` (`network.py:649`) leaves the host's *own* game
  without the entry; clients are caught up from the journal.
* The number of a failed append is not given back (`network.py:598`), and a connection's thread may journal
  the next before the host is fenced; `audit_replay.py:50-53` refuses such a journal.
* `serve_peer` drops only a connection that is registered (`peer_session.py:110`). A thread of an older
  connection that is still catching up registers later, over the newer one; when it ends, the live connection
  is registered nowhere, against `SECURE_RELAY.md` ("missed commits replay before the world becomes ready").
* A prepare that was pending when the session faulted is committed as a build when its last readiness
  arrives (`network.py:768`, `synchronization.py:589`).
* After a crash between the record of the last answer and the outcome only prepares are resolved again
  (`network.py:171`); any other barrier waits for its deadline and faults the session.
* `reconnect.py:14-15` says that the human chooses when to resume the clock; the governor's
  adjustment after an outage can order a rendezvous by itself (`clock_governor.py:204` ff.).
* The health of a peer that is away is dropped, for "old health must never satisfy a post-reconnect resume request"
  (`reconnect.py:85-87`); but a `clock_health` that the replaced connection's thread had read before is counted after it
  (`peer_session.py:58-65`, `network.py:1278-1305`, `synchronization.py:417-449`), and a rendezvous may begin while the peer is
  awaited. `NoMeetingWhileAway` says that this takes such a sample.
* While a recovery is probed, a command of the stock line manager takes native effect in one game, and `checkpointOutcome`
  (`fault_recovery_runtime.lua:167-222`) does not ask again whether an edit is in custody: the session recovers, with an edit that one
  game alone has. Under a proposal fault the capture is refused (`network_intent_runtime.lua:217-223`), under an operation fault
  it is refused or raised onto the fault there is, which the recovery then clears. `RecoveredWorldsAgree` claims what is compared: the works, and edits from before the probe.
* A sync fault ordered while a recovery is being probed: the live host keeps its first fault, `_load_audit`
  takes the last, and `fault_recovery.py:202` then raises on a journal the host itself wrote. A
  fault added while the first is pending is cleared with it, where
  `docs/release-notes/RELEASE_NOTES_0.41.2-alpha.md:30` asks for a restore.
* `automatic_recovery.py:164-171` finishes a preparation as soon as *any* boundary newer than the last completed one is
  restorable, which need not be the boundary of that preparation.
* `anchor_prepare.py:224-227` lets the clocks meet again and asks for another boundary without taking back
  `phaseVerified`: the proof of the vehicles' phases that goes with the later boundary was taken before the earlier one.
* After READY nothing compares game times again: the latched boundary skips pause and health (`anchor.py:52-60`), and
  `anchor_prepare.py:220-227` checks only up to READY. A game that runs on between two saves gives a restore point of two
  instants. The project itself calls this a "practical race closure, not a proof"
  (`investigation/COORDINATED_RESTORE_POINTS_2026-08-06.md:123-128`); `RestorePointsAgree` says that only then the instants differ, and that the gameplay never does.
* A published plan may reach nobody although it can be read: its signature is stored before the read (`restore_plan_exchange.py:54`),
  a failed one is not repeated, and a broadcast goes to the peers registered when it is made (`host_status.py:22,100-101`), which a
  client that has read the older plan is not yet (`peer_session.py:106-110`). An older plan held by the status thread may also arrive after a
  newer one, and `received.json` ends with the older. The next join repairs all of these.
* "preventing a partial loadable save" (`save_sync.py:461-462`): the rollback begins with the `.sav`, swallows an `OSError`
  of its unlink (`:479-483`) and takes the metadata away. `VisibleSaveIsWhole` excepts that. Another attempt may also have found the set
  complete and sent its receipt (`_matches_existing`) before a rollback takes it away.
* `src/tools/watch_recovery_saves.ps1:377,426,601` clears its request only when the peer's receipt
  arrives; a boundary that the peer never files keeps the watcher from filing later ones
  until its window passes.
* A continued match: the host tracks a checkpoint only after a first agreed one (`industry_content.py:469-471`),
  the game exports one as soon as it is initialised (`industry_content_runtime.lua:280-289`). The games then
  wait for an outcome the host never orders; `ALPHA_QUICK_START.md:82-85` describes this start as supported.
  `SessionStarts` excepts it.
* The one submission of `recovery.resume` is not repeated after a rejection
  (`restore_bootstrap_runtime.lua:24`), although a next attempt is scheduled at `:35`.
* A registration of a line for other markets, or of one that was out of service, drops its delivery cursor
  (`checkpoint.py:983-986`, `economy.lua:451-457`), while the presentation goes on counting from the line's whole
  history (`passenger_presentation.lua:288-296`): the next settlement pays it again. `docs/ARCHITECTURE.md:581-583` says that
  each cumulative delivery cursor can be paid once. `PaidAsEarned` counts it as `replayed`.
* A departure, a fare or a registration ordered between the computation of a settlement by the host's game and
  its commit makes every game refuse the settlement, and the failed acknowledgements fault the session
  (`network.py:1388-1391`). `RefusedOnlyByRace` says that nothing else does.
* The credit limit is in cents (`baseLimitCents`, ledger revenue) and is compared with a balance in whole dollars
  (`checkpoint.py:2133-2203`): a company may draw a hundred times what the rules name. The model compares as the code does.
* When the last vehicle of a line is sold, the line's own annual upkeep, which was set from its vehicles when it was
  registered, is charged again until it is registered anew (`checkpoint.py:1463-1485`, `vehicle_cost_runtime.lua:56-60`).
* Freight that has moved binds a line to its contract (`cargo_presentation.lua:170-178`): a registration for
  another one is refused only after it was ordered, by every game, and faults the session.
* A line that is deleted loses the takings not yet paid and what it carried of its own upkeep (`economy.lua:517-521`);
  `PaidAsEarned` and `UpkeepExact` count them (`forgone`, `waived`).
* A registration carries the fare that its owner's game last saw, and undoes a `fare.adjust` ordered meanwhile.

## What is proved

`PROJECT.json` "theorems" lists each result; this section says how they hang together. All of them
are of the form `Spec => []P` (or `[][A]_vars` in its place), for every value of the constants that satisfies the assumptions of the module
(`HostAssumption`, `BoundAssumption`, `PeersAssumption`, ...): any number of clients, peers, messages, connections,
attempts, crashes, companies, lines and settlements. The assumptions say that the host is not one of its clients, that rosters and sets of attempts
are finite, and that bounds are natural numbers; nothing about the code is assumed.

### Commit ordering

`CommitOrder_proofs` proves `TypeOK` and the invariant `IInv` of `CommitOrder.tla`:

* `Numbered`: no two ordered entries of the journal share a number, and a running host's next number is beyond all;
* `Remembered`: every commit in the journal is one a running host remembers, or one being ordered now, or one whose append raised;
* `Staged`: a thread past its append is ordering an entry of the journal, for the message it works on;
* `Sourced`: what is in memory, in an inbox or on a socket is an ordered entry of the journal;
* `Bounded`: no companion is ahead of the game it reads from;
* `Stopped`: nothing of a crashed host still runs.

`Remembered` and `Staged` are the heart: that an intent is journalled once is not inductive, because the append and the
update of `seen` are two steps, with other threads and crashes in between; it becomes so only with what holds of the thread
that is between them. `ExactlyOnce` and `WriteAhead` follow.

The second part builds on it: `Linked` (only a ready connection holds a client's place, and a thread works only
for a connection that is served), `OnTheJob` (a thread works on the message it read last), `Answered` (all up to a cursor, a receipt
or what a live connection has read is decided, but for the message its thread is at) and `InTurn` (when an entry was written, the
earlier intents of its game were decided). `AcknowledgedIsDecided` and `OriginOrder` follow.

The third part proves of each connection that its receipts are consecutive (`Consecutive`) and that
a registered connection is owed nothing that is not filed, on its socket or about to be broadcast (`CaughtUp`):
this is the race of registration with catch-up. `AcknowledgementsHaveNoGap` and `NothingMissed` follow.

The last part proves the refinement of `OrderedLog`: initial states map to initial states, and each action is a
commit, a delivery or a stutter. It needs that the numbers of the journal have no hole (`Counted`), and that is
true only while no append raised; the theorem has `[](uncertain = {})` as hypothesis, which is the true
statement (see "Divergences"), and the run `order_live` has the same hypothesis by its bounds.

### Physical consensus

`PhysicalConsensus_proofs` proves `TypeOK` and `IInv`: `Numbered` and `WellFormed` (what kinds of entries may follow which),
`DecidedOnce` (two decisions about one entry are the same), `OneOpen` (one barrier at most is undecided in the
journal), `InMemory` (memory is a function of the journal) and `PreparedKept`. `InMemory` has to say what a host in the
middle of a handler or of a start still owes, so that `RestartRestores` holds at *every* crash point. With it
`AgreedBefore`, `JournalVerifies` and `SingleFlight` are statements about the journal alone. `AgreedBefore` speaks of when an action of a peer
enters the journal: every boundary before it has its checkpoint outcome complete or was superseded by an operation of the peer it came from. It says nothing of a
first action, nor of what games do with one. `JournalVerifies` is the offline
audit (`audit_replay.py`, `audit_consensus.py`, `operation_consensus.py`) as a predicate on journals; it follows from `Evidenced`
(what the journal has of each decision) and `SaidOnce` (no peer says two things of one entry). `DigestsAssumption` says that
the word the model uses for "no digest" is no digest.

### Hosts that are replayed from their journal

`StationBarrier`, `SessionStart` and `FaultRecovery` keep the memory of the host as a record that a restart
rebuilds by folding a handler over the journal. Their proofs share one shape. A predicate says what a memory may
*know* of a journal; one more entry keeps it, whether it is handled live or read again; and a handler that
writes several entries is proved to leave the journal sound after *each* of them, because a crash may come in between.
That the fold does one such step for each entry is an induction over the journal: the folds are recursive functions over
`0..n`, and the least entry at which the claim would fail is shown not to exist.

**Station barrier.** `Knows` says that a memory's rounds up to the last are those released, that only the next is open, and that
whoever counts in it has a report in the journal. The running memory and the replayed one are *not* equal: a replay does not know
which departures waited for the clock. `Begun` and `Finishes` take a handler apart into the entry it handles and
those it orders of its own; `Chained` says that the journal is sound after each. `InStep` follows a release to the
replicas. `OneRelease` and `DepartsTogether` follow.

**Session start.** `Knows` says of the first n entries whose content was attested first, who reported which world for which open
checkpoint and whether one was agreed. `Shows` says what an entry is evidence of when it is appended, `Sends` what each message of a
game is; games only gain checkpoint barriers, so neither is lost later. `PlayAfterAgreement` and `StartedTogether` follow. That a
session starts at all (`SessionStarts`) stays with TLC.

**Fault recovery.** `Good` says that the journal has evidence for every probe and every conclusion (all engines refused the
work; all checkpoints agreed), `Follows` what a memory that is up knows of it, `Same` where the running memory
and the replayed one must agree although further faults came between. `PointOf` is what makes the points in the journal true of the games when they are compared: the effect of the work in a game that has sent its
checkpoint stays as it was reported, and an edit of its own made before the probe is in the report; one made since is not, and
the theorem does not claim it.
`RecoveredWorldsAgree`, `AuditAccepts`, `RestartRestores` and `FaultIsShared` follow.

### Shared clock

The first part of `ClockMoney_proofs` proves `ClockTypeOK` and `ClockInv`. (The module holds the proofs about the time and about the money
of a match; the names of the two modules are disjoint, `ClockSpec` and `ClockInit` are those of `SharedClock`.) The host is
replayed from its journal as above, but its journal keeps being written to: each entry carries the answers that came for it.

`Core` says what of the journal is true of the games: who acknowledged an order has applied it, who reported for it does not
meet for it again (`Told`), so no peer reports twice; and an order that lets the clock run is preceded by a rendezvous that is `Unanimous`.
`Good` says that a running host's memory fits: the rendezvous that is active is the *newest* order, what it has of a peer is the one report that
is journalled (`Gathered`), nobody is awaited meanwhile of whom no sample was counted since, a pending order was not refused (`Tracking`), and what is acknowledged was
applied by every game (`PauseKept`). A rendezvous begins only on samples of all, and a lost connection ends it and drops the sample: so one that is active
while a peer is awaited takes a sample counted after the loss, which only a replaced connection's thread delivers.

A handler of the host is a function on this memory, and many call each other (a report may complete a rendezvous, which may correct or
pause). `After(h, k)` is what each of them keeps: the new memory is good, and its journal *goes on* from the old one with orders that nobody has
answered (`Extends`). The second half is what makes crashes harmless: a crash keeps a prefix of what a handler wrote, and every
prefix between the old and the new journal satisfies `Core`. `LoadAuditGood` shows that reading such a journal again, and
`finalize_restore` after it, gives a good memory: `NoteStep` for one report, `RestoreStep` for one entry, and an induction by the least counterexample.
`PostedBy` and `GameKept` say that what a game has sent is about orders it had read and is true of it; games only go forward (`Forward`).

`ReleasedTogether`, `NoMeetingWhileAway` and `PauseAgreed` follow, for any number of peers, speeds, corrections, interferences and crashes. That all reports
of a rendezvous were *successful* is claimed only while no host crashed (`crashes = 0`): a replay notes a failed report without the pause the
live handler orders, which the invariant says with the same condition.

### Restore points and starting save

`Saves_proofs` holds the proofs about the saves a session takes and about the save it starts from. The names of the two
modules are disjoint (`PointsSpec`, `PointsInv` are those of `RestorePoints`), so that one module can extend both.

**Restore points.** `PointsInv` begins with the journal alone. `Sound` says that each entry fits those before it: work, a preparation
or a request is ordered only when every boundary before it is settled, an outcome is the first of a boundary that is not settled, and a
receipt comes after the outcome of its boundary, with no work in between, and tells of the save all earlier receipts of it tell of.
`Chained` says this of a handler in its middle, so that it holds after each of its appends and at every crash; the fence, with
its cancellation and its clock order, is taken apart this way. A request whose outcome only receipts have followed is
*owned* (`OwnedBy`). The other parts say what the host and the games know while a boundary is owned: `HealthOK` (a game
that was heard paused and past the outcome is still where it was heard), `SeenOK` (a boundary that any game was told is READY finds
all games `Frozen`: paused, past the outcome, and at one instant unless one of them has `Moved`, which its history `late` tells), `FileOK` (a save of it is of the gameplay up to it, at that
instant), `ReceiptOK` (so are the receipts there are), `Knows` (a game that has read the outcome knows that the boundary is ready, so that
a late resume from then on is remembered). Two lemmas carry most steps: `SteadyKeeps`, for a game that moves or
reads, and `LongerKeeps`, for a journal that grows: what is owned in the longer journal was owned in the shorter one. Neither is
inductive without the other: that the saves agree depends on when a receipt is admitted (`ReadyOwns`), and that on the whole history
of the journal. `PlanFollows` and `RestorePointsAgree` follow. The proof needs no bound on preparations, players, crashes or
faults, and no type invariant beyond the shape of the records.

**Starting save.** `TypeOK` and `IInv` of `SaveSync`: `Hashed` (a finished manifest was on the host's disk at one
moment: its last stat is later than its last read), `Delivered` (so are the manifests on the wire and at the receivers), `Owned` (each
file under its final name is held by an attempt, which has not taken it back or could not (`Holds`); what is still to be taken back begins with the
metadata and ends with the `.sav`, and no other attempt has such a file of that name) and
`Slots` (slots and downloads are counted with the handlers that hold them). `VisibleSaveIsWhole` and `CountedIsInstalled` follow.
`Owned` is what makes two attempts in one directory safe: a rollback unlinks what *this*
attempt renamed, and a rename never replaces a file.

### Restore handoff

`RestoreHandoff_proofs` proves `TypeOK` and `IInv`: `OneOutcome`, `InStep` (no game is ahead of the journal, and it has applied what
was ordered before a boundary that converged), `SavedLater` (a save for a boundary holds that boundary's works or more), `Requested`,
`ReceiptsAgree` (a receipt is of the world of its boundary, with no work ordered in between, and each peer files once) and
`PlansAreFiled`. Each watcher reads the journal, its saves and its partner's plan at times of its own, so the invariant has to follow
a plan through publication, wire, reception and pointer. `PairIsOneWorld` follows; so does `ArchiveIsAttested`, which no run
checks: an archive holds the copy whose receipt is in the journal, although the game may write the save again.

### Settlement

The second part of `ClockMoney_proofs` begins with sums over finite sets, on which the type of what was waived rests, and proves `TypeOK` (every amount stays within `_ACCUMULATOR_LIMIT`, what is carried is less than a unit) and
then, for all intervals, prices and credit rules:

* `CashConserved`: the account and its carried change are the start, less spending and interest, plus the net ledger, to the
  cent. It is inductive with `TypeOK`; its lemma is that whole dollars and change make up the cents (`DollarsSplit`);
* `PaidAsEarned`, with `IdleLinesEmpty`: without it a line that leaves service might keep a cursor beyond its takings;
* `BankruptcyIsDue`, with `StreakCounted` (the counter of insolvent settlements is the length of the unbroken run of breaches
  up to the last one) and `VerdictFollows`;
* `RefusedOnlyByRace`, with `SentIsAgreed` (as long as nothing was ordered meanwhile, what the host's game sent is what every
  game computes), which is true because the host's gate and the order of its outbox keep it apart from every boundary;
* `UpkeepExact`: its sums range over sets of lines and vehicles. The section on sums proves that a sum does not
  depend on the order in which it is taken, that it splits, and that a change of one term changes it by as much, each from a smallest
  set for which it would fail. An overhaul changes the annual cost and not the remainder, a sale or a deletion moves the remainder to what is
  waived (`WaivedExact`). In a settlement in which nothing is cut off, each vehicle is borne by one
  line or by none and rests, and for each asset the charge times the year plus what is carried is the interval times the upkeep;
* `TimeConserved` and `VerdictStands`, which no run checks: schedule and calendar tell the same time, and a finished match
  moves no account.

### Only model-checked

* Progress, because proofs under fairness are out of the prover's reach: `EveryMessageAnswered`,
  `EveryEntryDelivered`, `EveryBarrierEnds`, `RoundsEnd`, `FenceLifts`, `AttemptsEnd`, `PlanArrives`; and
  `SessionStarts`, which speaks of states in which nothing is enabled.
* That the schedule of a restarted host carries on with the preparation in its journal (`Adopted`): only `FenceLifts` depends on it.
* Induction by the library's induction theorems is out of reach of the installed provers, since these theorems take an operator.
  Where a proof here needs an induction, over a journal or a finite set, it takes a least counterexample
  (`WFMin` with `NatLessThanWellFounded`).

## Not modelled, and the plan

* **Rules that move no money by themselves**: demand and how the lines of a market share it, towns and their growth, freight
  industries, the ranking. Each game computes them for itself from the same ordered inputs, and a difference shows in the
  digests that `PhysicalConsensus` compares.
* **Lua intent latch for ordinary intents** and the queue of deferred work: a model of the game's side
  of one intent at a time, next to be written.
* **Lua replay** (constructions, operations): what the engine does with a proposal is only
  known from outside; its reports are inputs of `PhysicalConsensus` and `FaultRecovery`.
* **Protocol, manifests, content identity**: validation and canonical forms of messages, without state.
* **Relay, lobby, social channel**: byte tunnels and a chat beside the ordered log; nothing ordered passes
  through memory of theirs.
* **GUI, native hook, launcher, tools, vendored code**: user interface, binary patches, I/O, third parties.

The plan, in this order:

1. the Lua intent latch as a module that composes with `CommitOrder`;
2. the reset of barrier deadlines by a client that keeps reconnecting, which needs a model of time.
