---------------------------- MODULE SessionStart ----------------------------
(***************************************************************************)
(* How a session starts: both games attest the industry content they have  *)
(* loaded (industry_content.py, industry_content_runtime.lua), the host's  *)
(* game submits the one action the session may start with (a fresh match,  *)
(* an exact saved match that is continued, or a restore plan that is       *)
(* resumed), and the first checkpoint both games agree on releases play    *)
(* (restore_session.py, the gate at the top of CommitHost._commit).        *)
(*                                                                         *)
(* One entry of the log stands for one ordered commit, control or          *)
(* checkpoint record; games skip the records.  What a checkpoint compares  *)
(* is the world the peer loaded.                                           *)
(***************************************************************************)
EXTENDS Integers, Sequences, FiniteSets

CONSTANTS Host, Client,   \* the two peers
          Scenes,         \* how sessions start: see IsScene
          Planned,        \* the world the restore plan names
          Other,          \* another world
          None,           \* nothing
          MaxPlay,        \* bound: gameplay intents and emergency pauses
          MaxTrouble      \* bound: crashes of the host companion and losses of
                          \* the client's connection

Peers == {Host, Client}
Worlds == {Planned, Other}
Kinds == {"open", "fresh", "continue", "plan"}

\* kind: "open" is a session without launcher fencing, "fresh" and "continue"
\* are sessions of --saved-match-auto over a new and over a saved match.
\* An artifact is what the mod loader wrote about one construction: the
\* resource, its parameter declaration, and the digest of its recipe, or None
\* for a construction without cargo flow.
IsScene(s) ==
    /\ DOMAIN s = {"kind", "world", "content"}
    /\ s.kind \in Kinds
    /\ s.world \in [Peers -> Worlds]
    /\ \A p \in Peers : \A a \in s.content[p] :
          DOMAIN a = {"resource", "declaration", "recipe"}

ASSUME PeersAssumption == Host # Client /\ Planned # Other
ASSUME ScenesAssumption == \A s \in Scenes : IsScene(s)
ASSUME BoundsAssumption == {MaxPlay, MaxTrouble} \subseteq Nat

VARIABLES
    scene,    \* the kind of session, the world and the content of each peer
    files,    \* files[p]: artifacts written so far
    registry, \* registry[p]: the registry published to the game, or None
    log,      \* the host's journal
    up,       \* the host companion runs
    mem,      \* what the host companion holds in memory
    link,     \* the client is connected
    out,      \* out[p]: messages of p's game the host has not taken
    game,     \* the games
    used      \* how much of each bound is used

disk == <<files, registry>>
host == <<log, up, mem>>
vars == <<scene, disk, host, link, out, game, used>>

\* The function f that has the value x at n.
With(f, n, x) == [k \in DOMAIN f \union {n} |-> IF k = n THEN x ELSE f[k]]

----------------------------------------------------------------------------
(* The registry a sidecar builds.                                          *)

Recipes(S) == {a \in S : a.recipe # None}

\* build_registry over _merge_resource: the declarations and recipes of every
\* resource that has a recipe, from all its artifacts.
Registry(S) ==
    LET named == {a.resource : a \in Recipes(S)} IN
    [r \in named |->
       LET mine == {a \in S : a.resource = r} IN
       [declarations |-> {a.declaration : a \in mine},
        recipes      |-> {a.recipe : a \in Recipes(mine)}]]

\* ambiguousCount > 0.
Ambiguous(registered) ==
    \E r \in DOMAIN registered :
        \/ Cardinality(registered[r].declarations) > 1
        \/ Cardinality(registered[r].recipes) > 1

WriteArtifact(p) ==
    /\ \E a \in scene.content[p] \ files[p] :
          files' = [files EXCEPT ![p] = @ \union {a}]
    /\ UNCHANGED <<scene, registry, host, link, out, game, used>>

\* IndustryContentCoordinator.refresh: the directory was quiet for 0.75 s,
\* which does not mean that the loader has finished.  Without a recipe the
\* registry cannot be built, and what was published before stays.
Publish(p) ==
    /\ p = Host => up
    /\ Recipes(files[p]) # {}
    /\ registry[p] # Registry(files[p])
    /\ registry' = [registry EXCEPT ![p] = Registry(files[p])]
    /\ UNCHANGED <<scene, files, host, link, out, game, used>>

----------------------------------------------------------------------------
(* What the host makes of an entry, live and when it replays its journal.  *)

StartTypes == {"initialise", "continue", "resume"}
Fenced == scene.kind # "open"

Fresh ==
    [att   |-> [p \in Peers |-> None],   \* IndustryContentConsensus
     ready |-> FALSE,
     fault |-> FALSE,                    \* session_fault is set
     start |-> CASE scene.kind = "open" -> "disabled"
                 [] scene.kind = "plan" -> "awaiting-resume"
                 [] OTHER -> "awaiting-start",
     at    |-> 0,                        \* RestoreSessionCoordinator.commit_seq
     open  |-> << >>,                    \* checkpoints by boundary
     agreed |-> FALSE]                   \* last_agreed_checkpoint is set

\* ConsensusTrackers.track_checkpoint
Track(m, n) ==
    IF n \in DOMAIN m.open THEN m
    ELSE [m EXCEPT !.open =
            With(@, n, [got |-> [p \in Peers |-> None], status |-> "pending"])]

\* IndustryContentConsensus.observe
ObserveAttest(m, e, n) ==
    LET conflict == m.att[e.from] \notin {None, e.val}
        att      == IF conflict THEN m.att ELSE [m.att EXCEPT ![e.from] = e.val]
        all      == \A p \in Peers : att[p] # None
        wrong    == \/ conflict
                    \/ Ambiguous(e.val)
                    \/ all /\ att[Host] # att[Client]
        ready    == ~wrong /\ (m.ready \/ all)
        noted    == [m EXCEPT !.att = att, !.ready = ready, !.fault = @ \/ wrong]
    IN  IF ready /\ m.agreed THEN Track(noted, n) ELSE noted

\* RestoreSessionCoordinator.track_commit; without a fence match.initialise
\* only opens its checkpoint.
ObserveStart(m, n) ==
    Track(IF Fenced THEN [m EXCEPT !.at = n, !.start = "awaiting-checkpoint"]
          ELSE m, n)

\* _emit_checkpoint_outcome_locked, observe_checkpoint_outcome
ObserveOutcome(m, e) ==
    [m EXCEPT !.open[e.at].status = IF e.ok THEN "complete" ELSE "faulted",
              !.agreed = @ \/ e.ok,
              !.fault  = @ \/ ~e.ok,
              !.start  = IF e.at # m.at THEN @
                         ELSE IF e.ok THEN "complete" ELSE "faulted"]

\* _record_checkpoint_locked: a checkpoint of a boundary that is not tracked
\* is journalled and nothing else.
ObserveRecord(m, e) ==
    IF e.at \in DOMAIN m.open THEN [m EXCEPT !.open[e.at].got[e.from] = e.val]
    ELSE m

Observe(m, e, n) ==
    CASE e.type = "attest"       -> ObserveAttest(m, e, n)
      [] e.type \in StartTypes   -> ObserveStart(m, n)
      [] e.type = "outcome"      -> ObserveOutcome(m, e)
      [] e.type = "record"       -> ObserveRecord(m, e)
      [] OTHER                   -> m

\* _load_audit
Replay(entries) ==
    LET m[n \in 0..Len(entries)] ==
          IF n = 0 THEN Fresh ELSE Observe(m[n - 1], entries[n], n)
    IN  m[Len(entries)]

----------------------------------------------------------------------------
(* The host.                                                               *)

Pending(m) == {n \in DOMAIN m.open : m.open[n].status = "pending"}

\* Mutant: the fence of a restore plan lets everything but a second resume in.
InFenceMut(m, p, type) ==
    \/ type \notin StartTypes
    \/ p = Host /\ m.at = 0

\* RestoreSessionCoordinator.before_commit
InFence(m, p, type) ==
    CASE scene.kind = "open" -> type \notin {"resume", "continue"}
      [] scene.kind = "plan" ->
            IF type = "resume" THEN p = Host /\ m.at = 0
            ELSE type = "pause" \/ m.start = "complete"
      [] OTHER ->
            IF type = "resume" THEN FALSE
            ELSE IF m.start = "complete" THEN type # "continue"
            ELSE \/ type \in {"attest", "pause"}
                 \/ type \in StartTypes /\ p = Host /\ m.at = 0

\* The other checks of _commit that say no here.
Admits(p, type) ==
    /\ InFence(mem, p, type)
    /\ type # "pause" => /\ ~mem.fault
                         /\ Pending(mem) = {}
    /\ type \in StartTypes \union {"attest"} => link
    /\ type = "initialise" => p = Host /\ mem.ready

Entry(type, p, val) == [type |-> type, from |-> p, val |-> val, at |-> 0, ok |-> TRUE]

Append1(e) ==
    /\ log' = Append(log, e)
    /\ mem' = Observe(mem, e, Len(log) + 1)

Reachable(p) == up /\ (p = Client => link)

Taken(p) == out' = [out EXCEPT ![p] = Tail(@)]

\* CommitHost._commit, or _reject_intent
OrderIntent(p) ==
    /\ Reachable(p)
    /\ out[p] # << >> /\ Head(out[p]).type # "checkpoint"
    /\ LET i == Head(out[p]) IN
       IF Admits(p, i.type) THEN Append1(Entry(i.type, p, i.val))
       ELSE Append1(Entry("rejected", p, i.type))
    /\ Taken(p)
    /\ UNCHANGED <<scene, disk, up, link, game, used>>

\* Mutant: the outcome does not compare the two checkpoints.
VerdictMut(m, n) == TRUE

\* _resolve_checkpoint_locked
Verdict(m, n) == m.open[n].got[Host] = m.open[n].got[Client]

\* _record_checkpoint_locked with _resolve_checkpoint_locked
TakeCheckpoint(p) ==
    /\ Reachable(p)
    /\ out[p] # << >> /\ Head(out[p]).type = "checkpoint"
    /\ LET c      == Head(out[p])
           e      == [Entry("record", p, c.val) EXCEPT !.at = c.at]
           after  == ObserveRecord(mem, e)
           result == [Entry("outcome", Host, c.val) EXCEPT
                         !.at = c.at, !.ok = Verdict(after, c.at)]
           whole  == /\ c.at \in Pending(after)
                     /\ \A q \in Peers : after.open[c.at].got[q] # None
       IN /\ log' = log \o (IF whole THEN <<e, result>> ELSE <<e>>)
          /\ mem' = IF whole THEN ObserveOutcome(after, result) ELSE after
    /\ Taken(p)
    /\ UNCHANGED <<scene, disk, up, link, game, used>>

\* _expire_proposals: a checkpoint that is not answered in time.
ExpireCheckpoint ==
    /\ up
    /\ \E n \in Pending(mem) :
          Append1([Entry("outcome", Host, None) EXCEPT !.at = n, !.ok = FALSE])
    /\ UNCHANGED <<scene, disk, up, link, out, game, used>>

HostCrash ==
    /\ up
    /\ used.trouble < MaxTrouble
    /\ used' = [used EXCEPT !.trouble = @ + 1]
    /\ up' = FALSE
    /\ mem' = Fresh
    /\ link' = FALSE
    /\ UNCHANGED <<scene, disk, log, out, game>>

HostRestart ==
    /\ ~up
    /\ up' = TRUE
    /\ mem' = Replay(log)
    /\ UNCHANGED <<scene, disk, log, link, out, game, used>>

LinkDown ==
    /\ link
    /\ used.trouble < MaxTrouble
    /\ used' = [used EXCEPT !.trouble = @ + 1]
    /\ link' = FALSE
    /\ UNCHANGED <<scene, disk, host, out, game>>

LinkUp ==
    /\ ~link /\ up
    /\ link' = TRUE
    /\ UNCHANGED <<scene, disk, host, out, game, used>>

----------------------------------------------------------------------------
(* A game.                                                                 *)

\* The state a loaded save starts with: restoreResumeValidation and
\* savedMatchContinuationValidation in state_schema.lua, content attestations
\* and checkpoint barriers cleared.
Loaded(p) ==
    LET valid == \/ scene.kind = "continue"
                 \/ scene.kind = "plan" /\ scene.world[p] = Planned
    IN  [cursor  |-> 0,
         att     |-> [q \in Peers |-> None],
         ready   |-> FALSE,
         blamed  |-> FALSE,              \* industryContent.fault
         fault   |-> FALSE,              \* a sessionFault
         init    |-> valid,              \* state.initialized
         start   |-> CASE valid -> "validated"
                       [] scene.kind = "plan" -> "failed"
                       [] OTHER -> "none",
         at      |-> 0,
         barrier |-> << >>,              \* checkpointConsensus.byBoundary
         latch   |-> None,               \* networkIntentAwaitingOrder
         tried   |-> FALSE]              \* bootstrap.submitted

\* networkPendingBarrierReason
Barred(g) == \/ ~link
             \/ \E n \in DOMAIN g.barrier : g.barrier[n] = "pending"

RestoreFenced(p) == scene.kind = "plan" /\ game[p].start # "committed"

\* applyCommitted for content.industry_attest
ApplyAttest(g, e) ==
    LET att  == [g.att EXCEPT ![e.from] = e.val]
        all  == \A p \in Peers : att[p] # None
        same == att[Host] = att[Client]
    IN  CASE g.att[e.from] \notin {None, e.val} ->
                 [g EXCEPT !.blamed = TRUE, !.fault = TRUE]
          [] Ambiguous(e.val) ->
                 [g EXCEPT !.att = att, !.blamed = TRUE, !.fault = TRUE]
          [] ~all  -> [g EXCEPT !.att = att, !.ready = FALSE]
          [] ~same -> [g EXCEPT !.att = att, !.blamed = TRUE, !.fault = TRUE]
          [] OTHER -> [g EXCEPT !.att = att, !.ready = TRUE, !.blamed = FALSE]

\* initialiseMatch, restore_resume_runtime apply, saved_match_continuation apply
ApplyStart(p, g, e, n) ==
    CASE e.type = "initialise" -> [g EXCEPT !.init = TRUE]
      [] g.start # "validated" -> g
      [] e.type = "resume" -> [g EXCEPT !.start = "committed", !.at = n]
      [] e.val = scene.world[p] ->
             [g EXCEPT !.start = "awaiting-checkpoint", !.at = n]
      [] OTHER -> [g EXCEPT !.start = "failed"]

\* handlers["network.checkpoint_outcome"], afterCheckpoint
ApplyOutcome(p, g, e) ==
    LET held == e.at \in DOMAIN g.barrier
        good == e.ok /\ held /\ e.val = scene.world[p]
    IN  IF held /\ g.barrier[e.at] # "pending" THEN g
        ELSE [g EXCEPT
                !.barrier = With(@, e.at, IF good THEN "complete" ELSE "faulted"),
                !.fault   = @ \/ ~good,
                !.start   = IF g.start = "awaiting-checkpoint" /\ g.at = e.at /\ good
                            THEN "complete" ELSE @]

\* Mutant: the content checkpoint does not wait for match.initialise.
ExportsMut(g, after, e) ==
    \/ e.type = "attest" /\ after.ready
    \/ e.type = "initialise" /\ ~g.init
    \/ e.type \in {"resume", "continue"} /\ after.at # g.at

\* Does applying the entry export a checkpoint: initialActionCheckpoint, and
\* afterCommit of the industry content.
Exports(g, after, e) ==
    \/ e.type = "attest" /\ after.ready /\ g.init
    \/ e.type = "initialise" /\ ~g.init
    \/ e.type \in {"resume", "continue"} /\ after.at # g.at

\* consumeBridge: the next entry that concerns the game.
Apply(p) ==
    LET g == game[p]
        n == g.cursor + 1
    IN
    /\ n <= Len(log)
    /\ p = Client => link
    /\ LET e     == log[n]
           type  == IF e.type = "rejected" THEN e.val ELSE e.type
           after == CASE e.type = "attest"     -> ApplyAttest(g, e)
                      [] e.type \in StartTypes -> ApplyStart(p, g, e, n)
                      [] e.type = "outcome"    -> ApplyOutcome(p, g, e)
                      [] OTHER                 -> g
           sends == Exports(g, after, e)
       IN /\ game' = [game EXCEPT ![p] =
                [after EXCEPT
                   !.cursor  = n,
                   !.latch   = IF e.from = p /\ type = g.latch THEN None ELSE @,
                   !.barrier = IF sends THEN With(@, n, "pending") ELSE @]]
          /\ out' = IF sends
                    THEN [out EXCEPT ![p] = Append(@,
                            [type |-> "checkpoint", val |-> scene.world[p], at |-> n])]
                    ELSE out
    /\ UNCHANGED <<scene, disk, host, link, used>>

\* emitNetworkIntent
Emits(p, type, val) ==
    /\ out' = [out EXCEPT ![p] = Append(@, [type |-> type, val |-> val, at |-> 0])]
    /\ game' = [game EXCEPT ![p].latch = type,
                            ![p].tried = @ \/ type \in {"resume", "continue"}]

Idle(p) == game[p].latch = None /\ ~Barred(game[p])

\* industryContent.maintain
MayAttest(p) ==
    /\ ~RestoreFenced(p)
    /\ ~game[p].blamed /\ ~game[p].fault
    /\ game[p].att[p] = None
    /\ registry[p] # None
    /\ Idle(p)

Attest(p) ==
    /\ MayAttest(p)
    /\ Emits(p, "attest", registry[p])
    /\ UNCHANGED <<scene, disk, host, link, used>>

\* maintainManualBootstrap: recovery.resume is submitted once,
\* recovery.continue and match.initialise wait for the content.
StartAction(g) ==
    CASE scene.kind = "plan" ->
            IF g.start = "validated" /\ ~g.tried THEN "resume" ELSE None
      [] ~g.ready -> None
      [] scene.kind = "continue" ->
            IF g.start = "validated" /\ ~g.tried THEN "continue" ELSE None
      [] OTHER -> IF g.init THEN None ELSE "initialise"

MayStart ==
    /\ StartAction(game[Host]) # None
    /\ ~game[Host].fault
    /\ Idle(Host)

SubmitStart ==
    /\ MayStart
    /\ Emits(Host, StartAction(game[Host]), scene.world[Host])
    /\ UNCHANGED <<scene, disk, host, link, used>>

\* Gameplay that needs no consensus of its own.  network_startup_fence.lua
\* holds it back only while a saved match is being continued.
SubmitWork(p) ==
    /\ used.play < MaxPlay
    /\ used' = [used EXCEPT !.play = @ + 1]
    /\ scene.kind = "continue" => game[p].start = "complete"
    /\ ~game[p].fault
    /\ Idle(p)
    /\ Emits(p, "work", None)
    /\ UNCHANGED <<scene, disk, host, link>>

\* A clock request for speed 0 passes every latch and barrier.
SubmitPause(p) ==
    /\ used.play < MaxPlay
    /\ used' = [used EXCEPT !.play = @ + 1]
    /\ Emits(p, "pause", None)
    /\ UNCHANGED <<scene, disk, host, link>>

----------------------------------------------------------------------------
Init ==
    /\ scene \in Scenes
    /\ files = [p \in Peers |-> {}]
    /\ registry = [p \in Peers |-> None]
    /\ log = << >>
    /\ up = TRUE
    /\ mem = Fresh
    /\ link = TRUE
    /\ out = [p \in Peers |-> << >>]
    /\ game = [p \in Peers |-> Loaded(p)]
    /\ used = [play |-> 0, trouble |-> 0]

Next ==
    \/ \E p \in Peers : WriteArtifact(p) \/ Publish(p)
    \/ \E p \in Peers : OrderIntent(p) \/ TakeCheckpoint(p)
    \/ ExpireCheckpoint
    \/ HostCrash \/ HostRestart
    \/ LinkDown \/ LinkUp
    \/ \E p \in Peers : Apply(p) \/ Attest(p) \/ SubmitWork(p) \/ SubmitPause(p)
    \/ SubmitStart

Spec == Init /\ [][Next]_vars

----------------------------------------------------------------------------
(* Properties.                                                             *)

Intents == StartTypes \union {"attest", "work", "pause"}

TypeOK ==
    /\ scene \in Scenes
    /\ \A p \in Peers : files[p] \subseteq scene.content[p]
    /\ \A n \in 1..Len(log) :
          /\ log[n].type \in Intents \union {"rejected", "record", "outcome"}
          /\ log[n].type \in {"record", "outcome"} => log[n].at \in 1..(n - 1)
    /\ mem.at \in 0..Len(log)
    /\ mem.start \in {"disabled", "awaiting-start", "awaiting-resume",
                      "awaiting-checkpoint", "complete", "faulted"}
    /\ DOMAIN mem.open \subseteq 1..Len(log)
    /\ \A p \in Peers :
          /\ game[p].cursor \in 0..Len(log)
          /\ DOMAIN game[p].barrier \subseteq 1..Len(log)
          /\ game[p].latch \in Intents \union {None}

\* Gameplay waits for the first agreed checkpoint: in a fenced session no
\* gameplay is ordered before the outcome that says both games started from
\* one world, whatever crashes and however late an intent arrives.  The plan's
\* fence exists on the host only: the games let gameplay through.
PlayAfterAgreement ==
    Fenced => \A n \in 1..Len(log) : log[n].type = "work" =>
        \E k \in 1..(n - 1) :
            /\ log[k].type = "outcome" /\ log[k].ok
            /\ log[log[k].at].type \in StartTypes

\* A session is released only over one world and one content: a checkpoint was
\* agreed, so both games loaded the same world, for a restore the one the plan
\* names, and a new match started over content both had attested alike.
StartedTogether ==
    mem.agreed =>
        /\ scene.world[Host] = scene.world[Client]
        /\ scene.kind = "plan" => scene.world[Host] = Planned
        /\ scene.kind \in {"open", "fresh"} =>
              /\ mem.att[Host] = mem.att[Client]
              /\ ~Ambiguous(mem.att[Host])
        /\ \E n \in 1..Len(log) :
              /\ log[n].type \in StartTypes
              /\ \A p \in Peers : n \in DOMAIN game[p].barrier

Started(p) ==
    /\ game[p].init
    /\ scene.kind = "plan" => game[p].start = "committed"
    /\ scene.kind = "continue" => game[p].start = "complete"
    /\ \A n \in DOMAIN game[p].barrier : game[p].barrier[n] = "complete"

\* Nothing is left that the program would do by itself.
AtRest ==
    /\ up /\ link /\ Pending(mem) = {}
    /\ \A p \in Peers :
          /\ files[p] = scene.content[p]
          /\ registry[p] = Registry(files[p])
          /\ out[p] = << >>
          /\ game[p].cursor = Len(log)
          /\ ~MayAttest(p)
    /\ ~MayStart

\* The host's world is not the one the plan names: its game says so, and the
\* launcher has to load the right save.
Refused == scene.kind = "plan" /\ scene.world[Host] # Planned

\* The one submission of recovery.resume was rejected.
GaveUp == \E n \in 1..Len(log) : log[n].type = "rejected" /\ log[n].val = "resume"

\* No session waits for ever: when nothing is left to do, both games have
\* started, or the session is faulted for both to see.  The exceptions are a
\* plan whose one submission of recovery.resume was rejected, and a continued
\* match, whose games wait for a checkpoint that the host does not track.
SessionStarts ==
    AtRest => \/ scene.kind = "continue"
              \/ \A p \in Peers : Started(p)
              \/ \A p \in Peers : game[p].fault
              \/ Refused
              \/ GaveUp

=============================================================================
