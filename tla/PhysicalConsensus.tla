------------------------- MODULE PhysicalConsensus -------------------------
(***************************************************************************)
(* What the host does with an action that changes the worlds of all peers: *)
(* ConsensusTrackers, the resolve and emit methods of CommitHost, and      *)
(* OperationConsensusCoordinator.                                          *)
(*                                                                         *)
(* A construction is prepared by every peer, then built by every peer, and *)
(* its outcome opens a checkpoint boundary that every peer must agree on.  *)
(* A native operation is executed by every peer, and its outcome opens     *)
(* such a boundary too; a direct action of the host (town development, a   *)
(* settlement) is a boundary by itself.  Each of these barriers is a       *)
(* tracker in the host's memory, at the sequence number of the ordered     *)
(* entry that opened it; the peers' answers decide it, or its deadline     *)
(* does.  A barrier that fails faults the session.                         *)
(*                                                                         *)
(* Every handler runs under order_lock.  What can come between its journal *)
(* appends is a crash: the record of an answer may survive without the     *)
(* decision it should have led to.  A restarted host rebuilds its trackers *)
(* from the journal, and a peer sends its message again.                   *)
(***************************************************************************)
EXTENDS Integers, Sequences, FiniteSets, Functions

CONSTANTS Peers,      \* required_peers: the pinned roster
          Host,       \* the ordering peer
          Digests,    \* what a peer can report of its world
          MaxIntents, \* bound: intents admitted
          MaxLate,    \* bound: reports that come after their barrier was decided
          MaxCrash    \* bound: crashes of the host companion

ASSUME PeersAssumption == Host \in Peers /\ IsFiniteSet(Peers)
ASSUME DigestsAssumption == "none" \notin Digests
ASSUME BoundsAssumption == {MaxIntents, MaxLate, MaxCrash} \subseteq Nat

\* Entries of the journal.  Ordered ones carry their sequence number n; the
\* record of a peer's message has n = 0 and names the entry it is about.
NoDigest == "none"
Ordered(type, n, p, of, verdict) ==
    [type |-> type, n |-> n, peer |-> p, of |-> of, verdict |-> verdict,
     digest |-> NoDigest]
Message(type, p, of, verdict, d) ==
    [type |-> type, n |-> 0, peer |-> p, of |-> of, verdict |-> verdict, digest |-> d]

Intents  == {"prepare", "operation", "develop"}
Controls == {"prepare_outcome", "outcome", "checkpoint_outcome"}
Verdicts == {"none", "ok", "failed", "unchanged", "done", "checkpoint",
             "built", "refused", "complete", "rejected", "faulted"}
Entry == [type : Intents \union Controls \union {"build", "sync_fault", "ack", "answer"},
          n : Nat, peer : Peers, of : Nat, verdict : Verdicts,
          digest : Digests \union {NoDigest}]

Statuses == {"none", "pending", "committed", "refused", "complete", "rejected", "faulted",
             "superseded"}

VARIABLES
    journal,  \* AuditLog, as a set: entries are numbered, records are per message
    unacked,  \* the message of each peer the host has read and not acknowledged
    up,       \* "up", "boot" (in CommitHost.__init__, after _load_audit) or "down"
    lock,     \* order_lock: the peer whose message is being handled, if any
    status,   \* the status of the tracker at each sequence number, "none" without one
    held,     \* the acks, completions and checkpoints the trackers have
    fault,    \* session_fault: the number of the entry that set it, or 0
    emitted,  \* sync_fault_emitted
    crashes,  \* crashes so far
    late      \* late reports so far

memory == <<status, held, fault, emitted>>
vars == <<journal, unacked, up, lock, status, held, fault, emitted, crashes, late>>

----------------------------------------------------------------------------
(* Reading the journal and the trackers.                                   *)

At(n)     == CHOOSE e \in journal : e.n = n
next      == Len(status) + 1
Pending   == {n \in DOMAIN status : status[n] = "pending"}
Opens(e)  == \/ e.type \in Intents \union {"build"}
             \/ e.type = "outcome" /\ e.verdict # "faulted"
Faults(e) == e.type = "sync_fault" \/ e.verdict = "faulted"
IsBoundary(e) == e.type \in {"develop", "outcome"}

Acks(n)    == {m \in held : m.type = "ack" /\ m.of = n}
Answers(n) == {m \in held : m.type = "answer" /\ m.of = n}
FromAll(S)   == {m.peer : m \in S} = Peers
OneDigest(S) == \A a, b \in S : a.digest = b.digest
AllSay(S, v) == \A m \in S : m.verdict = v

\* The entries that decide the tracker at n.
Decisions(n) ==
    {e \in journal : e.of = n /\ e.type \in Controls \union {"build", "operation"}}

\* What the peers reported of their worlds before the work at n began.
Before(n) == Acks(IF At(n).type = "build" THEN At(n).of ELSE n)

\* The resolve methods: what the answers held so far make of the tracker at n.
Waiting(n) ==
    LET type == At(n).type IN
    IF type = "prepare" THEN ~ FromAll(Acks(n))
    ELSE \/ ~ FromAll(Answers(n))
         \/ /\ type = "operation"
            /\ \A m \in Answers(n) : m.verdict # "done"
            /\ ~ FromAll(Acks(n))

Success == [prepare |-> "ok", build |-> "done", operation |-> "done",
            develop |-> "checkpoint", outcome |-> "checkpoint"]

Agreed(n) ==
    LET S == IF At(n).type = "prepare" THEN Acks(n) ELSE Answers(n)
    IN  OneDigest(S) /\ AllSay(S, Success[At(n).type])

\* Mutant: the refusals are not compared with what was there before.
UntouchedMut(n) ==
    /\ At(n).type \in {"build", "operation"}
    /\ AllSay(Answers(n), "unchanged")
    /\ OneDigest(Answers(n))

\* Every peer refused the work and none was changed by trying.
Untouched(n) ==
    /\ At(n).type \in {"build", "operation"}
    /\ AllSay(Answers(n), "unchanged")
    /\ FromAll(Before(n))
    /\ AllSay(Before(n), "ok")
    /\ OneDigest(Answers(n) \union Before(n))

Verdict(n) ==
    CASE Waiting(n)   -> "wait"
      [] ~Waiting(n) /\ Agreed(n) -> IF At(n).type = "prepare" THEN "built" ELSE "complete"
      [] ~Waiting(n) /\ ~Agreed(n) /\ Untouched(n) -> "rejected"
      [] OTHER -> IF At(n).type = "prepare" THEN "refused" ELSE "faulted"

----------------------------------------------------------------------------
(* Writing them.                                                           *)

\* The entry e takes the next number: journal, then tracker if it opens one.
Enter(e, st) ==
    /\ journal' = journal \union {e}
    /\ status' = Append(st, IF Opens(e) THEN "pending" ELSE "none")

\* The emit methods: the tracker at n is decided by an ordered control, a
\* passed prepare by the build itself.
Control == [prepare |-> "prepare_outcome", build |-> "outcome", operation |-> "outcome",
            develop |-> "checkpoint_outcome", outcome |-> "checkpoint_outcome"]

Decide(n, v) ==
    LET built == v = "built"
        e == IF built THEN Ordered("build", next, At(n).peer, n, "none")
                      ELSE Ordered(Control[At(n).type], next, Host, n, v)
    IN  /\ Enter(e, [status EXCEPT ![n] = IF built THEN "committed" ELSE v])
        /\ fault' = IF v = "faulted" THEN next ELSE fault
        /\ UNCHANGED emitted

\* fault_session: the first fault stays, and one sync fault is ordered.
FaultSession ==
    /\ fault' = IF fault = 0 THEN next ELSE fault
    /\ emitted' = TRUE
    /\ IF emitted THEN UNCHANGED <<journal, status>>
       ELSE Enter(Ordered("sync_fault", next, Host, 0, "none"), status)

----------------------------------------------------------------------------
Init ==
    /\ journal = {}
    /\ unacked = [p \in Peers |-> {}]
    /\ up = "up"
    /\ lock = {}
    /\ status = << >>
    /\ held = {}
    /\ fault = 0
    /\ emitted = FALSE
    /\ crashes = 0
    /\ late = 0

Free == up = "up" /\ lock = {}

----------------------------------------------------------------------------
(* An intent is admitted.                                                  *)

\* Mutant: the edit may be another peer's.
SupersedesMut(type, p, b) ==
    /\ type = "operation"
    /\ At(b).type = "outcome"
    /\ At(b).verdict = "complete"
    /\ At(At(b).of).type = "operation"

\* can_supersede: an edit the origin's game has made already need not wait for
\* the checkpoint of that origin's own last operation.
Supersedes(type, p, b) ==
    /\ type = "operation"
    /\ At(b).type = "outcome"
    /\ At(b).verdict = "complete"
    /\ At(At(b).of).type = "operation"
    /\ At(At(b).of).peer = p

\* Mutant: nobody looks for an undecided operation or boundary.
CommitMut(p, type) ==
    /\ Free
    /\ Cardinality({e \in journal : e.type \in Intents}) < MaxIntents
    /\ fault = 0
    /\ type = "develop" => p = Host
    /\ \A b \in Pending : At(b).type \notin {"prepare", "build"}
    /\ Enter(Ordered(type, next, p, 0, "none"), status)
    /\ UNCHANGED <<unacked, up, lock, held, fault, emitted, crashes, late>>

\* _commit: nothing is admitted to a faulted session or while another barrier
\* is undecided, but for an optimistic operation that supersedes a boundary.
Commit(p, type) ==
    /\ Free
    /\ Cardinality({e \in journal : e.type \in Intents}) < MaxIntents
    /\ fault = 0
    /\ type = "develop" => p = Host
    /\ \/ /\ Pending = {}
          /\ Enter(Ordered(type, next, p, 0, "none"), status)
       \/ \E b \in Pending :
             /\ Supersedes(type, p, b)
             /\ Enter(Ordered(type, next, p, b, "none"),
                      [status EXCEPT ![b] = "superseded"])
    /\ UNCHANGED <<unacked, up, lock, held, fault, emitted, crashes, late>>

----------------------------------------------------------------------------
(* A peer's game reports, and the host handles the message under           *)
(* order_lock, in two steps: its record is journalled and kept by the      *)
(* tracker, then the tracker is resolved.                                  *)

\* The completions that pass the payload checks.  "unchanged" is a failure that
\* may be harmless (no outputs, no cost and, for an operation, the proof of an
\* unchanged vehicle); any other failure is "failed", and a success has its
\* cost.  Each names its work and the world it left.
Completions(p, n) ==
    {Message("answer", p, n, "failed", NoDigest)} \union
    {Message("answer", p, n, v, d) : v \in {"done", "unchanged"}, d \in Digests}

\* What the game of p can report of the entry e: that its handler accepted or
\* refused it, and, once, what became of it.  (An acceptance that the host only
\* logs is left out.)
Reports(p, e) ==
    UNION { IF e.type \in {"prepare", "operation"}
              THEN {Message("ack", p, e.n, "ok", d) : d \in Digests} ELSE {},
            IF e.type \in Intents \union {"build"}
              THEN {Message("ack", p, e.n, "failed", NoDigest)} ELSE {},
            IF e.type \in {"build", "operation"} THEN Completions(p, e.n) ELSE {},
            IF IsBoundary(e) /\ Opens(e)
              THEN {Message("answer", p, e.n, "checkpoint", d) : d \in Digests} ELSE {} }

\* Nothing is reported twice, and a refused action is not worked on.
New(p) ==
    {m \in UNION {Reports(p, e) : e \in {x \in journal : x.n > 0}} :
        \A s \in journal : s.n = 0 /\ s.peer = p /\ s.of = m.of =>
            s.type # m.type /\ s.verdict # "failed" /\ m.verdict # "failed"}

IsLate(m) == Decisions(m.of) # {}

\* Completions and checkpoints are kept by their tracker, acknowledgements by
\* a tracker that asks for them.
Kept(m) == m.type = "answer" \/ At(m.of).type \in {"prepare", "operation"}

\* _record_non_intent.  What was on its way before the host reads it cannot be
\* seen, so a message is chosen when it is read; one that was read and not
\* acknowledged is sent again first.  An acknowledgement that comes after the
\* decision is not kept.
Record(p) ==
    /\ Free
    /\ \E m \in IF unacked[p] = {} THEN New(p) ELSE unacked[p] :
          /\ ~(m.type = "answer" /\ m \in held)
          /\ IF unacked[p] = {} /\ IsLate(m)
             THEN late < MaxLate /\ late' = late + 1
             ELSE UNCHANGED late
          /\ journal' = journal \union {m}
          /\ held' = IF Kept(m) /\ (m.type = "ack" => status[m.of] = "pending")
                     THEN held \union {m} ELSE held
          /\ unacked' = [unacked EXCEPT ![p] = {m}]
    /\ lock' = {p}
    /\ UNCHANGED <<up, status, fault, emitted, crashes>>

\* A second completion or checkpoint is only acknowledged.
Duplicate(p) ==
    /\ Free
    /\ \E m \in unacked[p] : m.type = "answer" /\ m \in held
    /\ unacked' = [unacked EXCEPT ![p] = {}]
    /\ UNCHANGED <<journal, up, lock, memory, crashes, late>>

\* What the message m decides of its tracker.
Reaction(m) ==
    IF m.type = "ack" /\ m.verdict = "failed" /\ At(m.of).type \in {"build", "operation"}
    THEN "faulted" ELSE Verdict(m.of)

\* A direct action that a peer's handler refused faults the session.
RefusedOrder(m) == m.type = "ack" /\ m.verdict = "failed" /\ At(m.of).type = "develop"

\* The tracker is resolved and the message acknowledged; the receipt may be
\* lost with the connection.
Conclude(p) ==
    /\ lock = {p}
    /\ \E m \in unacked[p] :
          LET decided == status[m.of] = "pending" /\ Reaction(m) # "wait" IN
          \/ RefusedOrder(m) /\ FaultSession
          \/ ~RefusedOrder(m) /\ decided /\ Decide(m.of, Reaction(m))
          \/ ~RefusedOrder(m) /\ ~decided /\ UNCHANGED <<journal, status, fault, emitted>>
    /\ lock' = {}
    /\ unacked' \in {unacked, [unacked EXCEPT ![p] = {}]}
    /\ UNCHANGED <<up, held, crashes, late>>

----------------------------------------------------------------------------
(* Deadlines and faults from outside.                                      *)

\* Mutant: checkpoint boundaries have no deadline.
ExpireMut(n) ==
    /\ Free
    /\ n \in Pending
    /\ ~IsBoundary(At(n))
    /\ Decide(n, IF At(n).type = "prepare" THEN "refused" ELSE "faulted")
    /\ UNCHANGED <<unacked, up, lock, held, crashes, late>>

\* _expire_proposals: an overdue prepare is rejected, anything else overdue
\* faults the session, whatever answers it has.
Expire(n) ==
    /\ Free
    /\ n \in Pending
    /\ Decide(n, IF At(n).type = "prepare" THEN "refused" ELSE "faulted")
    /\ UNCHANGED <<unacked, up, lock, held, crashes, late>>

\* A peer did not reconnect in time (ReconnectCoordinator.expire), or the clock
\* or a station barrier failed: fault_session is called from elsewhere.
\* Once the sync fault is ordered another call changes nothing here.
OutsideFault ==
    /\ Free
    /\ ~emitted
    /\ FaultSession
    /\ UNCHANGED <<unacked, up, lock, held, crashes, late>>

----------------------------------------------------------------------------
(* The host crashes and is started again.                                  *)

HostCrash ==
    /\ up # "down"
    /\ crashes < MaxCrash
    /\ up' = "down"
    /\ lock' = {}
    /\ status' = << >>
    /\ held' = {}
    /\ fault' = 0
    /\ emitted' = FALSE
    /\ crashes' = crashes + 1
    /\ UNCHANGED <<journal, unacked, late>>

Numbers == {e.n : e \in journal} \ {0}

\* What _load_audit makes of the entry at n from the entries after it.
LoadedStatus(n) ==
    LET after == {e \in journal : e.n > n /\ e.of = n} IN
    CASE ~Opens(At(n)) -> "none"
      [] \E e \in after : e.type = "build" -> "committed"
      [] \E e \in after : e.type = "operation" -> "superseded"
      [] \E e \in after : e.type \in Controls ->
             (CHOOSE e \in after : e.type \in Controls).verdict
      [] OTHER -> "pending"

Newest(S) == CHOOSE n \in S : \A k \in S : k <= n
LoadedFault == Newest({0} \union {e.n : e \in {x \in journal : Faults(x)}})

\* Mutant: only an ordered sync fault is read back.
HostRestartMut ==
    /\ up = "down"
    /\ up' = "boot"
    /\ status' = [n \in Numbers |-> LoadedStatus(n)]
    /\ held' = {m \in journal : m.n = 0 /\ Kept(m)}
    /\ fault' = Newest({0} \union {e.n : e \in {x \in journal : x.type = "sync_fault"}})
    /\ emitted' = \E e \in journal : e.type = "sync_fault"
    /\ UNCHANGED <<journal, unacked, lock, crashes, late>>

\* _load_audit.
HostRestart ==
    /\ up = "down"
    /\ up' = "boot"
    /\ status' = [n \in Numbers |-> LoadedStatus(n)]
    /\ held' = {m \in journal : m.n = 0 /\ Kept(m)}
    /\ fault' = LoadedFault
    /\ emitted' = \E e \in journal : e.type = "sync_fault"
    /\ UNCHANGED <<journal, unacked, lock, crashes, late>>

\* CommitHost.__init__ then resolves the pending prepares, and only those.
BootResolve ==
    /\ up = "boot"
    /\ \E n \in Pending :
          /\ At(n).type = "prepare"
          /\ Verdict(n) # "wait"
          /\ Decide(n, Verdict(n))
    /\ UNCHANGED <<unacked, up, lock, held, crashes, late>>

BootDone ==
    /\ up = "boot"
    /\ \A n \in Pending : At(n).type = "prepare" => Verdict(n) = "wait"
    /\ up' = "up"
    /\ UNCHANGED <<journal, unacked, lock, memory, crashes, late>>

----------------------------------------------------------------------------
(* The offline audit: replay reads the journal back and raises on the      *)
(* first thing it finds that a sound host does not write.                  *)

Records(type, n) == {m \in journal : m.type = type /\ m.of = n}

\* The boundaries at which replay looks for a checkpoint: direct actions and
\* outcomes that opened one, until an operation supersedes them.
Boundaries == {n \in Numbers : IsBoundary(At(n)) /\ Opens(At(n))}
ExpectedBoundaries == {n \in Boundaries : Records("operation", n) = {}}

\* Ordered entries have the numbers 1, 2, 3, ..., each once, and an operation
\* supersedes a boundary that was still expected.
ReplayOrder ==
    /\ \A n \in Numbers : 1 .. n \subseteq Numbers
    /\ \A e, f \in journal : e.n = f.n /\ e.n > 0 => e = f
    /\ \A o \in journal : o.type = "operation" /\ o.of # 0 =>
          /\ o.of \in Boundaries /\ o.of < o.n
          /\ Records("operation", o.of) = {o}

\* An outcome is the only one of an earlier commit that has one.
ReplayOutcomes ==
    \A o \in journal : o.type \in {"outcome", "checkpoint_outcome"} =>
        /\ o.of \in Numbers /\ o.of < o.n
        /\ o.type = "outcome" => At(o.of).type \in {"build", "operation"}
        /\ Records(o.type, o.of) = {o}

\* No peer reports two things of one entry; of acknowledgements, two digests.
ReplayRecords ==
    \A a, b \in journal :
        a.n = 0 /\ b.n = 0 /\ a.type = b.type /\ a.of = b.of /\ a.peer = b.peer =>
            \/ a = b
            \/ a.type = "ack" /\ NoDigest \in {a.digest, b.digest}

Digested(n) == {m \in Records("ack", n) : m.digest # NoDigest}
ReplayConverged(n) == OneDigest(Digested(n))

RequiredCompletions(A)  == A # {} /\ Peers \subseteq {m.peer : m \in A}
CompletionsAgree(A, v)  == AllSay(A, v) /\ OneDigest(A)

\* Mutual evidence of a harmless refusal: every peer acknowledged one world,
\* and the refusals report the same one.
PreservesCore(A, K) ==
    /\ RequiredCompletions(A) /\ CompletionsAgree(A, "unchanged")
    /\ RequiredCompletions(K) /\ OneDigest(A \union K)

\* verify_physical_consensus: a construction is judged by its outcome.
ConstructionVerifies(n) ==
    \A o \in Records("outcome", n) :
        LET A == Records("answer", n) IN
        /\ o.verdict = "complete" => RequiredCompletions(A) /\ CompletionsAgree(A, "done")
        /\ o.verdict = "rejected" => PreservesCore(A, Digested(At(n).of))

\* _verify_rejection.
RejectionVerifies(n) == PreservesCore(Records("answer", n), Digested(n))

\* verify_operation_consensus.
OperationVerifies(n) ==
    \A o \in Records("outcome", n) :
        LET A == Records("answer", n) IN
        /\ o.verdict = "complete" => RequiredCompletions(A) /\ CompletionsAgree(A, "done")
        /\ o.verdict = "rejected" => RejectionVerifies(n)

\* A checkpoint that was agreed has an equal record of every peer.
CheckpointVerifies(n) ==
    \A o \in Records("checkpoint_outcome", n) : o.verdict = "complete" =>
        LET A == Records("answer", n)
        IN  RequiredCompletions(A) /\ CompletionsAgree(A, "checkpoint")

----------------------------------------------------------------------------
Next ==
    \/ \E p \in Peers, type \in Intents : Commit(p, type)
    \/ \E p \in Peers : Duplicate(p) \/ Record(p) \/ Conclude(p)
    \/ \E n \in DOMAIN status : Expire(n)
    \/ OutsideFault
    \/ HostCrash
    \/ HostRestart \/ BootResolve \/ BootDone

Spec == Init /\ [][Next]_vars

\* A handler that has order_lock ends; the polling loop, which waits for the
\* lock in every round, gets it sooner or later; a crashed host is started
\* again.  Nothing is assumed of the games or of their messages.
Fairness ==
    /\ WF_vars(\E p \in Peers : Conclude(p))
    /\ SF_vars(\E n \in DOMAIN status : Expire(n))
    /\ WF_vars(HostRestart \/ BootResolve \/ BootDone)

LiveSpec == Spec /\ Fairness

----------------------------------------------------------------------------
(* Properties.                                                             *)

TypeOK ==
    /\ journal \subseteq Entry
    /\ unacked \in [Peers -> SUBSET journal]
    /\ up \in {"up", "boot", "down"}
    /\ lock \subseteq Peers
    /\ status \in Seq(Statuses)
    /\ held \subseteq journal
    /\ fault \in Nat
    /\ emitted \in BOOLEAN
    /\ crashes \in Nat /\ late \in Nat
    /\ up # "down" => DOMAIN status = Numbers

\* Physical work is single-flight across crashes too: one barrier at most is
\* undecided, in memory and in the journal, and each is decided at most once
\* (a prepare built or rejected, a boundary agreed, faulted or superseded).
SingleFlight ==
    /\ Cardinality(Pending) <= 1
    /\ Cardinality({n \in Numbers : Opens(At(n)) /\ Decisions(n) = {}}) <= 1
    /\ \A n \in Numbers : Cardinality(Decisions(n)) <= 1

\* A restart loses nothing: the journal, read by _load_audit, gives back the
\* status of every tracker, the answers of every undecided one and whether the
\* session is faulted, at every moment between two entries.
RestartRestores ==
    up # "down" =>
        /\ status = [n \in Numbers |-> LoadedStatus(n)]
        /\ \A n \in Pending : {m \in held : m.of = n} =
                               {m \in journal : m.n = 0 /\ m.of = n /\ Kept(m)}
        /\ fault = 0 <=> LoadedFault = 0

\* audit_replay accepts every journal the host writes: its order, its records,
\* and the evidence of every decision.  Acknowledgements are the exception: the
\* replay raises when those of any commit diverge, the host only refuses to
\* build, so they are known to converge where a construction was built.
JournalVerifies ==
    /\ ReplayOrder /\ ReplayOutcomes /\ ReplayRecords
    /\ \A n \in Numbers :
          /\ At(n).type = "build" => /\ ConstructionVerifies(n)
                                    /\ ReplayConverged(At(n).of)
          /\ At(n).type = "operation" => OperationVerifies(n)
          /\ n \in ExpectedBoundaries => CheckpointVerifies(n)

\* Actions follow agreement: before an action of a peer is committed every
\* earlier boundary has an agreed checkpoint, or is superseded by an operation
\* of the peer whose operation it is the outcome of; and no fault came before.
\* Before the first boundary nothing is asked.
AgreedBefore ==
    \A e \in journal : e.type \in Intents =>
        /\ \A b \in journal : IsBoundary(b) /\ Opens(b) /\ b.n < e.n =>
              \E d \in Decisions(b.n) :
                  /\ d.n <= e.n
                  /\ \/ d.type = "checkpoint_outcome" /\ d.verdict = "complete"
                     \/ d.type = "operation" /\ d.peer = At(b.of).peer
        /\ \A f \in journal : Faults(f) => f.n > e.n

\* Every barrier ends, whatever the peers do and whenever the host crashes.
EveryBarrierEnds ==
    \A n \in 1 .. 4 * MaxIntents :
        n \in Numbers /\ Opens(At(n)) ~> Decisions(n) # {}

=============================================================================
