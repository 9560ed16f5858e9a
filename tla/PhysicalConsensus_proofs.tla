---------------------- MODULE PhysicalConsensus_proofs ----------------------
(***************************************************************************)
(* Machine-checked proofs about PhysicalConsensus, for any roster, any     *)
(* digests and any bounds: its type invariant, that physical work is       *)
(* single-flight across crashes (SingleFlight), that a restart restores    *)
(* the trackers from the journal (RestartRestores), that work begins on    *)
(* worlds known to agree (AgreedBefore), and that the journal verifies     *)
(* offline (JournalVerifies).                                              *)
(*                                                                         *)
(* The argument.  Ordered entries are numbered 1, 2, 3, ... without a gap  *)
(* (Numbered), and each names an earlier entry of the right kind           *)
(* (WellFormed).  Together with RestartRestores, which says that memory is *)
(* a function of the journal, this turns every question about the trackers *)
(* into one about the journal: an entry is pending when it opens a barrier *)
(* and nothing in the journal decides it.  One entry at most is in that    *)
(* state (OneOpen), because an intent is admitted only when none is, or    *)
(* when it decides the one that is, and because a decision closes one      *)
(* barrier and opens one at most.  What the peers answered cannot change   *)
(* after a decision they all had a part in, so what was checked then still *)
(* holds of the journal (Evidenced, PreparedKept), and since no peer says  *)
(* two things of one entry (SaidOnce) that is all the audit asks for.      *)
(***************************************************************************)
EXTENDS PhysicalConsensus, FiniteSetTheorems, TLAPS

Messages == {"ack", "answer"}
Outcomes == [prepare_outcome |-> {"refused"},
             outcome |-> {"complete", "rejected", "faulted"},
             checkpoint_outcome |-> {"complete", "faulted"}]

\* Ordered entries are numbered 1, 2, 3, ..., and messages are not numbered.
Numbered ==
    /\ \E k \in Nat : Numbers = 1 .. k
    /\ \A e, f \in journal : e.n = f.n /\ e.n # 0 => e = f
    /\ \A e \in journal : e.n = 0 <=> e.type \in Messages
    /\ \A p \in Peers : \A m \in unacked[p] : m.n = 0

\* What an entry is about is an earlier one that it can be about.
WellFormed ==
    \A e \in journal :
        /\ e.n = 0 => e.of \in Numbers /\ e.verdict \notin {"faulted", "rejected"}
        /\ e.n # 0 /\ e.of # 0 => e.of \in Numbers /\ e.of < e.n /\ Opens(At(e.of))
        /\ e.type \in {"prepare", "develop", "sync_fault"} => e.of = 0
        /\ e.type = "build" => e.of # 0 /\ At(e.of).type = "prepare"
        /\ e.type = "operation" /\ e.of # 0 =>
             At(e.of).type = "outcome" /\ e.peer = At(At(e.of).of).peer
        /\ e.type \in Controls => /\ e.of # 0 /\ e.type = Control[At(e.of).type]
                                  /\ e.verdict \in Outcomes[e.type]
        /\ e.n # 0 /\ e.type \notin Controls => e.verdict = "none"

\* A barrier is decided once, and one at most is not decided.
Undecided(n) == Opens(At(n)) /\ Decisions(n) = {}
DecidedOnce == \A n \in Numbers : \A d, e \in Decisions(n) : d = e
OneOpen     == \A m, n \in Numbers : Undecided(m) /\ Undecided(n) => m = n

\* What a running host has in memory besides its trackers, and that the journal has a
\* newest fault to read back.
FaultNumbers == {0} \union {e.n : e \in {x \in journal : Faults(x)}}
Faulted  == \E e \in journal : Faults(e)
InMemory ==
    /\ \E n \in FaultNumbers : \A k \in FaultNumbers : k <= n
    /\ lock # {} => up = "up"
    /\ up = "down" => status = << >>
    /\ up # "down" => /\ fault # 0 <=> Faulted
                      /\ emitted <=> \E e \in journal : e.type = "sync_fault"

\* The host still has every peer's preparation of a construction that is built.
PreparedKept ==
    up # "down" =>
        \A e \in journal : e.type = "build" => Records("ack", e.of) \subseteq held

\* What the journal has of every decision: of a success the agreement of the answers,
\* of a rejection that nothing changed, of a construction its preparation.
Evidenced ==
    \A e \in journal :
        LET A == Records("answer", e.of)
            K == Records("ack", IF At(e.of).type = "build" THEN At(e.of).of ELSE e.of)
        IN  /\ e.type \in Controls /\ e.verdict = "complete" =>
                   FromAll(A) /\ OneDigest(A) /\ AllSay(A, Success[At(e.of).type])
            /\ e.verdict = "rejected" =>
                   /\ FromAll(A) /\ FromAll(K)
                   /\ OneDigest(A \union K) /\ AllSay(A, "unchanged")
            /\ e.type = "build" => FromAll(K) /\ OneDigest(K) /\ AllSay(K, "ok")

\* A peer reports one thing of an entry, and, unless it failed, its world with it.
SaidOnce ==
    /\ \A a, b \in journal :
          a.n = 0 /\ b.n = 0 /\ a.type = b.type /\ a.of = b.of /\ a.peer = b.peer => a = b
    /\ \A m \in journal : m.n = 0 /\ m.verdict # "failed" => m.digest # NoDigest

IInv == /\ Numbered /\ WellFormed /\ DecidedOnce /\ OneOpen /\ InMemory /\ PreparedKept
        /\ RestartRestores /\ AgreedBefore /\ Evidenced /\ SaidOnce

----------------------------------------------------------------------------
(* Reading the journal.  (These lemmas are formulas, so that they can be   *)
(* used of the next state too.)                                            *)

\* A number of the journal is the number of one entry.
LEMMA AtFacts ==
    TypeOK /\ Numbered =>
        \A n \in Numbers :
            /\ n \in Nat /\ n # 0 /\ At(n) \in journal /\ At(n) \in Entry /\ At(n).n = n
            /\ \A e \in journal : e.n = n => e = At(n)
<1> SUFFICES ASSUME TypeOK, Numbered, NEW n \in Numbers
             PROVE  /\ n \in Nat /\ n # 0 /\ At(n) \in journal /\ At(n) \in Entry
                    /\ At(n).n = n /\ \A e \in journal : e.n = n => e = At(n)
  OBVIOUS
<1>1. PICK e \in journal : e.n = n /\ n # 0
  BY DEF Numbers
<1>2. At(n) \in journal /\ At(n).n = n
  BY <1>1 DEF At
<1>3. \A f \in journal : f.n = n => f = At(n)
  BY <1>1, <1>2 DEF Numbered
<1>4. At(n) \in Entry /\ n \in Nat
  BY <1>2 DEF TypeOK, Entry
<1> QED BY <1>1, <1>2, <1>3, <1>4

\* A running host's next number is just beyond those of the journal.
LEMMA NextFacts ==
    TypeOK /\ Numbered /\ up # "down" =>
        /\ Len(status) \in Nat /\ next \in Nat /\ next # 0 /\ next = Len(status) + 1
        /\ DOMAIN status = Numbers /\ Numbers = 1 .. Len(status) /\ next \notin Numbers
        /\ \A n \in Numbers : n < next
        /\ \A e \in journal : e.n \in Nat /\ e.n < next
<1> SUFFICES ASSUME TypeOK, Numbered, up # "down"
             PROVE  /\ Len(status) \in Nat /\ next \in Nat /\ next # 0
                    /\ next = Len(status) + 1
                    /\ DOMAIN status = Numbers /\ Numbers = 1 .. Len(status)
                    /\ next \notin Numbers
                    /\ \A n \in Numbers : n < next
                    /\ \A e \in journal : e.n \in Nat /\ e.n < next
  OBVIOUS
<1>1. status \in Seq(Statuses) /\ DOMAIN status = Numbers
  BY DEF TypeOK
<1>2. Len(status) \in Nat /\ Numbers = 1 .. Len(status) /\ next = Len(status) + 1
  BY <1>1 DEF next
<1>3. \A e \in journal : e.n \in Nat /\ (e.n = 0 \/ e.n \in Numbers)
  BY DEF TypeOK, Entry, Numbers
<1> QED BY <1>1, <1>2, <1>3

\* What a decision is, and is about.
LEMMA DecisionFacts ==
    TypeOK /\ Numbered /\ WellFormed =>
        \A n \in Numbers : \A d \in Decisions(n) :
            /\ d \in journal /\ d \in Entry /\ d.of = n /\ d.n \in Numbers /\ n < d.n
            /\ Opens(At(n)) /\ d.type \in Controls \union {"build", "operation"}
            /\ d.type \in Controls => d.verdict \in Outcomes[d.type]
<1> SUFFICES ASSUME TypeOK, Numbered, WellFormed, NEW n \in Numbers, NEW d \in Decisions(n)
             PROVE  /\ d \in journal /\ d \in Entry /\ d.of = n /\ d.n \in Numbers /\ n < d.n
                    /\ Opens(At(n)) /\ d.type \in Controls \union {"build", "operation"}
                    /\ d.type \in Controls => d.verdict \in Outcomes[d.type]
  OBVIOUS
<1>1. d \in journal /\ d.of = n /\ d.type \in Controls \union {"build", "operation"}
  BY DEF Decisions
<1>2. d.n # 0 /\ n # 0
  BY <1>1, AtFacts DEF Numbered, Messages, Controls
<1>3. d \in Entry /\ d.n \in Numbers
  BY <1>1, <1>2 DEF TypeOK, Numbers
<1>4. Opens(At(n)) /\ n < d.n /\ (d.type \in Controls => d.verdict \in Outcomes[d.type])
  BY <1>1, <1>2 DEF WellFormed
<1> QED BY <1>1, <1>3, <1>4

\* What a decision makes of the tracker it is about.
Outcome(d) == IF d.type = "build" THEN "committed"
              ELSE IF d.type = "operation" THEN "superseded" ELSE d.verdict
After(n) == {e \in journal : e.n > n /\ e.of = n}

\* What _load_audit reads: an entry that opens no barrier has no tracker, one that
\* nothing decides is pending, another has its decision's outcome, which is not that.
LEMMA LoadedFacts ==
    TypeOK /\ Numbered /\ WellFormed /\ DecidedOnce =>
        \A n \in Numbers :
            /\ ~ Opens(At(n)) => LoadedStatus(n) = "none"
            /\ Undecided(n) => LoadedStatus(n) = "pending"
            /\ \A d \in Decisions(n) : LoadedStatus(n) = Outcome(d) /\ Outcome(d) # "pending"
                                       /\ Outcome(d) \in Statuses
<1> SUFFICES ASSUME TypeOK, Numbered, WellFormed, DecidedOnce, NEW n \in Numbers
             PROVE  /\ ~ Opens(At(n)) => LoadedStatus(n) = "none"
                    /\ Undecided(n) => LoadedStatus(n) = "pending"
                    /\ \A d \in Decisions(n) :
                         /\ LoadedStatus(n) = Outcome(d) /\ Outcome(d) # "pending"
                         /\ Outcome(d) \in Statuses
  OBVIOUS
<1>0. LoadedStatus(n) =
        CASE ~Opens(At(n)) -> "none"
          [] \E e \in After(n) : e.type = "build" -> "committed"
          [] \E e \in After(n) : e.type = "operation" -> "superseded"
          [] \E e \in After(n) : e.type \in Controls ->
                 (CHOOSE e \in After(n) : e.type \in Controls).verdict
          [] OTHER -> "pending"
  BY DEF LoadedStatus, After
<1>1. \A e \in After(n) :
          e.type \in Controls \union {"build", "operation"} => e \in Decisions(n)
  BY DEF After, Decisions
<1>2. CASE Decisions(n) = {}
  <2>1. \A e \in After(n) : e.type \notin Controls \union {"build", "operation"}
    BY <1>1, <1>2
  <2>2. CASE Opens(At(n))
    BY <1>0, <1>2, <2>1, <2>2
  <2>3. CASE ~ Opens(At(n))
    BY <1>0, <1>2, <2>1, <2>3 DEF Undecided
  <2> QED BY <2>2, <2>3
<1>3. ASSUME NEW d \in Decisions(n)
      PROVE  LoadedStatus(n) = Outcome(d) /\ Outcome(d) # "pending" /\ Outcome(d) \in Statuses
  <2>1. d \in After(n) /\ d.type \in Controls \union {"build", "operation"} /\ Opens(At(n))
        /\ (d.type \in Controls => d.verdict \in Outcomes[d.type])
    BY <1>3, AtFacts, DecisionFacts DEF After
  <2>2. \A e \in After(n) : e.type \in Controls \union {"build", "operation"} => e = d
    BY <1>1, <1>3 DEF DecidedOnce
  <2>3. CASE d.type \in {"build", "operation"}
    <3>1. \A e \in After(n) : e.type \notin Controls
      BY <2>2, <2>3 DEF Controls
    <3>2. CASE d.type = "build"
      BY <1>0, <2>1, <2>2, <3>1, <3>2 DEF Outcome, Statuses
    <3>3. CASE d.type = "operation"
      BY <1>0, <2>1, <2>2, <3>1, <3>3 DEF Outcome, Statuses
    <3> QED BY <2>3, <3>2, <3>3
  <2>4. CASE d.type \in Controls
    <3>1. d.type \notin {"build", "operation"}
      BY <2>4 DEF Controls
    <3>2. \A e \in After(n) : e.type \notin {"build", "operation"}
      BY <2>2, <3>1
    <3>3. (CHOOSE e \in After(n) : e.type \in Controls) = d
      BY <2>1, <2>2, <2>4
    <3>4. LoadedStatus(n) = d.verdict
      BY <1>0, <2>1, <2>4, <3>2, <3>3
    <3>5. d.verdict \in {"refused", "complete", "rejected", "faulted"}
      BY <2>1, <2>4 DEF Controls, Outcomes
    <3> QED BY <3>1, <3>4, <3>5 DEF Outcome, Statuses
  <2> QED BY <2>1, <2>3, <2>4
<1>4. ~ Opens(At(n)) => Decisions(n) = {}
  BY DecisionFacts
<1> QED BY <1>0, <1>2, <1>3, <1>4 DEF Undecided

----------------------------------------------------------------------------
(* What a step does to the journal.                                        *)

\* What the host has when it decides the tracker at n with v.
Evidence(n, v) ==
    /\ v \in {"built", "refused", "complete", "rejected", "faulted"}
    /\ v \in {"built", "refused"} <=> At(n).type = "prepare"
    /\ v = "built" => FromAll(Acks(n)) /\ OneDigest(Acks(n)) /\ AllSay(Acks(n), "ok")
    /\ v = "complete" => /\ FromAll(Answers(n)) /\ OneDigest(Answers(n))
                         /\ AllSay(Answers(n), Success[At(n).type])
    /\ v = "rejected" => FromAll(Answers(n)) /\ Untouched(n)

\* A message is no longer resent, or still is.
Fewer == /\ unacked' \in [Peers -> SUBSET journal']
         /\ \A p \in Peers : unacked'[p] \subseteq unacked[p]

\* The journal and what is read from it stay as they are.
Still == /\ UNCHANGED <<journal, status, held, fault, emitted>> /\ Fewer
         /\ up' = up \/ (up = "boot" /\ up' = "up")

\* A running host orders the entry e.
Adds(e) ==
    /\ up # "down" /\ UNCHANGED <<up, held>> /\ Fewer
    /\ e \in Entry /\ e.n = next /\ e.type \notin Messages
    /\ journal' = journal \union {e}
    /\ LET own == IF Opens(e) THEN "pending" ELSE "none" IN
       \/ e.of = 0 /\ status' = Append(status, own)
       \/ e.of \in Pending /\ status' = Append([status EXCEPT ![e.of] = Outcome(e)], own)
    /\ fault' \in Nat /\ (fault' # 0 <=> fault # 0 \/ Faults(e))
    /\ emitted' = (emitted \/ e.type = "sync_fault")
    \* an entry is about one of the right kind
    /\ e.type \in {"prepare", "develop", "sync_fault"} => e.of = 0
    /\ e.type = "build" => e.of # 0 /\ At(e.of).type = "prepare"
    /\ e.type = "operation" /\ e.of # 0 =>
         At(e.of).type = "outcome" /\ e.peer = At(At(e.of).of).peer
    /\ e.type \in Controls => /\ e.of # 0 /\ e.type = Control[At(e.of).type]
                              /\ e.verdict \in Outcomes[e.type]
    /\ e.type \notin Controls => e.verdict = "none"
    \* nothing else is pending when a barrier opens, nor a fault when work begins
    /\ Opens(e) => Pending \subseteq {e.of}
    /\ e.type \in Intents => fault = 0
    \* what the decision rests on
    /\ e.type = "build" => Evidence(e.of, "built")
    /\ e.verdict \in {"complete", "rejected"} => Evidence(e.of, e.verdict)

\* The host journals the message m of a peer.
Hears(m) ==
    /\ up = "up" /\ UNCHANGED <<up, status, fault, emitted>>
    /\ m \in Entry /\ m.n = 0 /\ m.type \in Messages /\ m.of \in Numbers
    /\ m.verdict \notin {"faulted", "rejected"}
    /\ m.verdict # "failed" => m.digest # NoDigest
    /\ journal' = journal \union {m}
    /\ unacked' \in [Peers -> SUBSET journal']
    /\ \A q \in Peers : unacked'[q] = unacked[q] \/ unacked'[q] = {m}
    /\ \/ m \in journal
       \/ \A s \in journal : s.n = 0 /\ s.peer = m.peer /\ s.of = m.of => s.type # m.type
    /\ held' = IF Kept(m) /\ (m.type = "ack" => status[m.of] = "pending")
               THEN held \union {m} ELSE held

----------------------------------------------------------------------------
\* Every verdict but "wait" has its evidence.
LEMMA VerdictEvidence ==
    ASSUME NEW n, At(n).type \in {"prepare", "build", "operation", "develop", "outcome"},
           Verdict(n) # "wait"
    PROVE  Evidence(n, Verdict(n))
<1> DEFINE type == At(n).type
<1>1. ~ Waiting(n)
  BY DEF Verdict
<1>2. type # "prepare" => FromAll(Answers(n))
  BY <1>1 DEF Waiting
<1>3. type = "prepare" => FromAll(Acks(n))
  BY <1>1 DEF Waiting
<1>4. Success[type] = CASE type = "prepare" -> "ok" [] type \in {"build", "operation"} -> "done"
                        [] OTHER -> "checkpoint"
  BY DEF Success
<1>5. CASE Agreed(n)
  <2>1. Verdict(n) = IF type = "prepare" THEN "built" ELSE "complete"
    BY <1>1, <1>5 DEF Verdict
  <2>2. CASE type = "prepare"
    BY <1>3, <1>4, <1>5, <2>1, <2>2 DEF Evidence, Agreed
  <2>3. CASE type # "prepare"
    <3> QED BY <1>2, <1>5, <2>1, <2>3 DEF Evidence, Agreed
  <2> QED BY <2>2, <2>3
<1>6. CASE ~ Agreed(n) /\ Untouched(n)
  <2>1. Verdict(n) = "rejected"
    BY <1>1, <1>6 DEF Verdict
  <2>2. type # "prepare"
    BY <1>6 DEF Untouched
  <2> QED BY <1>2, <1>6, <2>1, <2>2 DEF Evidence
<1>7. CASE ~ Agreed(n) /\ ~ Untouched(n)
  <2>1. Verdict(n) = IF type = "prepare" THEN "refused" ELSE "faulted"
    BY <1>1, <1>7 DEF Verdict
  <2> QED BY <2>1 DEF Evidence
<1> QED BY <1>5, <1>6, <1>7

\* An intent that is admitted.
LEMMA CommitAdds ==
    ASSUME TypeOK, IInv, NEW p \in Peers, NEW type \in Intents, Commit(p, type)
    PROVE  \E e : Adds(e)
<1>0. /\ up = "up" /\ fault = 0 /\ UNCHANGED <<unacked, up, lock, held, fault, emitted>>
      /\ status \in Seq(Statuses) /\ next \in Nat /\ next # 0
  BY NextFacts DEF Commit, Free, TypeOK, IInv
<1>1. ASSUME NEW b \in Nat
      PROVE  LET e == Ordered(type, next, p, b, "none") IN
             /\ e \in Entry /\ e.n = next /\ e.type = type /\ e.of = b /\ e.peer = p
             /\ e.verdict = "none" /\ e.type \notin Messages /\ e.type \notin Controls
             /\ Opens(e) /\ ~ Faults(e) /\ e.type \notin {"build", "sync_fault"}
  BY <1>0 DEF Ordered, Entry, NoDigest, Intents, Controls, Verdicts, Messages, Opens, Faults
<1>2. Fewer
  BY <1>0 DEF Fewer, TypeOK, Commit, Enter
<1>3. CASE Pending = {} /\ Enter(Ordered(type, next, p, 0, "none"), status)
  <2> DEFINE e == Ordered(type, next, p, 0, "none")
  <2>1. Adds(e)
    BY <1>0, <1>1, <1>2, <1>3 DEF Adds, Enter, TypeOK
  <2> QED BY <2>1
<1>4. ASSUME NEW b \in Pending, Supersedes(type, p, b),
             Enter(Ordered(type, next, p, b, "none"), [status EXCEPT ![b] = "superseded"])
      PROVE  \E e : Adds(e)
  <2> DEFINE e == Ordered(type, next, p, b, "none")
  <2>1. b \in Numbers /\ b \in Nat /\ b # 0 /\ LoadedStatus(b) = "pending"
    BY <1>0, NextFacts, AtFacts DEF Pending, IInv, RestartRestores
  <2>2. Pending \subseteq {b}
    <3>1. \A n \in Pending : n \in Numbers /\ LoadedStatus(n) = "pending"
      BY <1>0, NextFacts DEF Pending, IInv, RestartRestores
    <3>2. \A n \in Pending : Undecided(n)
      BY <3>1, LoadedFacts DEF IInv, Undecided
    <3> QED BY <3>1, <3>2 DEF IInv, OneOpen
  <2>3. type = "operation" /\ At(b).type = "outcome" /\ p = At(At(b).of).peer
    BY <1>4 DEF Supersedes
  <2>4. Outcome(e) = "superseded"
    BY <1>1, <2>1, <2>3 DEF Outcome
  <2>5. Adds(e)
    BY <1>0, <1>1, <1>2, <1>4, <2>1, <2>2, <2>3, <2>4 DEF Adds, Enter, TypeOK
  <2> QED BY <2>5
<1> QED BY <1>3, <1>4 DEF Commit

\* A decision, with its evidence.
LEMMA DecideAdds ==
    ASSUME TypeOK, IInv, NEW n \in Pending, NEW v, Evidence(n, v), Decide(n, v),
           up # "down", UNCHANGED <<up, held>>, Fewer
    PROVE  \E e : Adds(e)
<1>0. /\ status \in Seq(Statuses) /\ next \in Nat /\ next # 0 /\ fault \in Nat
      /\ n \in Numbers /\ n \in Nat /\ n # 0 /\ LoadedStatus(n) = "pending"
      /\ At(n) \in Entry /\ At(n).peer \in Peers
  <2>1. n \in Numbers /\ LoadedStatus(n) = "pending"
    BY NextFacts DEF Pending, IInv, RestartRestores
  <2> QED BY <2>1, NextFacts, AtFacts DEF IInv, TypeOK, Entry
<1>1. Pending \subseteq {n} /\ Opens(At(n))
  <2>1. \A m \in Pending : m \in Numbers /\ LoadedStatus(m) = "pending"
    BY NextFacts DEF Pending, IInv, RestartRestores
  <2>2. \A m \in Pending : Undecided(m)
    BY <2>1, LoadedFacts DEF IInv, Undecided
  <2> QED BY <1>0, <2>1, <2>2 DEF IInv, OneOpen, Undecided
<1>2. At(n).type \in {"prepare", "build", "operation", "develop", "outcome"}
  BY <1>1 DEF Opens, Intents
<1>3. CASE v = "built"
  <2> DEFINE e == Ordered("build", next, At(n).peer, n, "none")
  <2>1. /\ e \in Entry /\ e.n = next /\ e.type = "build" /\ e.of = n
        /\ e.verdict = "none" /\ e.type \notin Messages /\ e.type \notin Controls
        /\ Opens(e) /\ ~ Faults(e) /\ e.type \notin Intents
    BY <1>0 DEF Ordered, Entry, NoDigest, Intents, Controls, Verdicts, Messages, Opens,
       Faults
  <2>2. Outcome(e) = "committed" /\ At(n).type = "prepare"
    BY <1>3, <2>1 DEF Outcome, Evidence
  <2>3. /\ Enter(e, [status EXCEPT ![n] = "committed"]) /\ fault' = fault
        /\ emitted' = emitted
    BY <1>3 DEF Decide
  <2>4. Adds(e)
    BY <1>0, <1>1, <1>3, <2>1, <2>2, <2>3 DEF Adds, Enter, TypeOK
  <2> QED BY <2>4
<1>4. CASE v # "built"
  <2> DEFINE e == Ordered(Control[At(n).type], next, Host, n, v)
  <2>1. /\ Control[At(n).type] \in Controls
        /\ v \in Outcomes[Control[At(n).type]]
    <3>1. v \in {"refused", "complete", "rejected", "faulted"}
          /\ (v = "refused" <=> At(n).type = "prepare")
          /\ (v = "rejected" => At(n).type \in {"build", "operation"})
      BY <1>4 DEF Evidence, Untouched
    <3> QED BY <1>2, <3>1 DEF Controls, Control, Outcomes
  <2>2. /\ e \in Entry /\ e.n = next /\ e.type = Control[At(n).type] /\ e.of = n
        /\ e.verdict = v /\ e.type \in Controls
    BY <1>0, <2>1, PeersAssumption DEF Ordered, Entry, NoDigest, Evidence, Verdicts
  <2>3. /\ e.type \notin Messages /\ e.type \notin Intents /\ e.type # "sync_fault"
        /\ e.type \notin {"build", "operation", "prepare", "develop"}
        /\ (Faults(e) <=> v = "faulted")
    BY <2>2 DEF Controls, Messages, Intents, Faults
  <2>4. Outcome(e) = v
    BY <2>2, <2>3 DEF Outcome
  <2>5. /\ Enter(e, [status EXCEPT ![n] = v])
        /\ fault' = (IF v = "faulted" THEN next ELSE fault) /\ emitted' = emitted
    BY <1>4 DEF Decide
  <2>6. Adds(e)
    BY <1>0, <1>1, <2>1, <2>2, <2>3, <2>4, <2>5 DEF Adds, Enter, TypeOK
  <2> QED BY <2>6
<1> QED BY <1>3, <1>4

\* A sync fault, or nothing if one was ordered before.
LEMMA FaultAdds ==
    ASSUME TypeOK, IInv, FaultSession, up # "down", UNCHANGED <<up, held>>, Fewer
    PROVE  Still \/ \E e : Adds(e)
<1>0. status \in Seq(Statuses) /\ next \in Nat /\ next # 0 /\ fault \in Nat
  BY NextFacts DEF IInv, TypeOK
<1>1. CASE emitted
  <2>1. fault # 0
    BY <1>1 DEF IInv, InMemory, Faulted, Faults
  <2> QED BY <1>1, <2>1 DEF FaultSession, Still, TypeOK
<1>2. CASE ~ emitted
  <2> DEFINE e == Ordered("sync_fault", next, Host, 0, "none")
  <2>1. /\ e \in Entry /\ e.n = next /\ e.type = "sync_fault" /\ e.of = 0
        /\ e.verdict = "none" /\ e.type \notin Messages /\ e.type \notin Controls
        /\ ~ Opens(e) /\ Faults(e) /\ e.type \notin Intents
        /\ e.type \notin {"build", "operation"}
    BY <1>0, PeersAssumption DEF Ordered, Entry, NoDigest, Intents, Controls, Verdicts,
       Messages, Opens, Faults
  <2>2. Enter(e, status) /\ fault' = (IF fault = 0 THEN next ELSE fault) /\ emitted'
    BY <1>2 DEF FaultSession
  <2>3. Adds(e)
    BY <1>0, <1>2, <2>1, <2>2 DEF Adds, Enter, TypeOK
  <2> QED BY <2>3
<1> QED BY <1>1, <1>2 DEF TypeOK

\* A peer's message is recorded.
LEMMA RecordHears ==
    ASSUME TypeOK, IInv, NEW p \in Peers, Record(p)
    PROVE  \E m : Hears(m)
<1>0. /\ unacked \in [Peers -> SUBSET journal] /\ up = "up"
      /\ UNCHANGED <<up, status, fault, emitted>>
  BY DEF Record, Free, TypeOK
<1>1. PICK m \in IF unacked[p] = {} THEN New(p) ELSE unacked[p] :
        /\ journal' = journal \union {m}
        /\ held' = IF Kept(m) /\ (m.type = "ack" => status[m.of] = "pending")
                   THEN held \union {m} ELSE held
        /\ unacked' = [unacked EXCEPT ![p] = {m}]
  BY DEF Record
<1>2. /\ unacked' \in [Peers -> SUBSET journal']
      /\ \A q \in Peers : unacked'[q] = unacked[q] \/ unacked'[q] = {m}
  BY <1>0, <1>1
<1>3. CASE m \in unacked[p]
  <2>1. m \in journal /\ m.n = 0 /\ m \in Entry
    BY <1>0, <1>3 DEF IInv, Numbered, TypeOK
  <2>2. m.type \in Messages /\ m.of \in Numbers /\ m.verdict \notin {"faulted", "rejected"}
    BY <2>1 DEF IInv, Numbered, WellFormed
  <2>3. m.verdict # "failed" => m.digest # NoDigest
    BY <2>1 DEF IInv, SaidOnce
  <2> QED BY <1>0, <1>1, <1>2, <2>1, <2>2, <2>3 DEF Hears
<1>4. CASE m \in New(p)
  <2>1. PICK e \in journal : e.n > 0 /\ m \in Reports(p, e)
    BY <1>4 DEF New
  <2>2. e.n \in Nat /\ e.n # 0 /\ e.n \in Numbers
    BY <2>1 DEF TypeOK, Entry, Numbers
  <2>3. \E type \in Messages, v \in Verdicts \ {"faulted", "rejected"}, d \in Digests \union {NoDigest} :
            m = Message(type, p, e.n, v, d)
    BY <2>1 DEF Reports, Completions, Messages, Verdicts
  <2>4. m \in Entry /\ m.n = 0 /\ m.type \in Messages /\ m.of = e.n /\ m.peer = p
        /\ m.verdict \notin {"faulted", "rejected"}
    BY <2>2, <2>3 DEF Message, Entry, Messages
  <2>5. \A s \in journal : s.n = 0 /\ s.peer = m.peer /\ s.of = m.of => s.type # m.type
    BY <1>4, <2>4 DEF New
  <2>6. m.verdict # "failed" => m.digest # NoDigest
    BY <2>1, DigestsAssumption DEF Reports, Completions, Message, NoDigest
  <2> QED BY <1>0, <1>1, <1>2, <2>2, <2>4, <2>5, <2>6 DEF Hears
<1> QED BY <1>1, <1>3, <1>4

\* Every step orders an entry, records a message, stops or starts the host, or leaves the
\* journal and the trackers alone.
LEMMA Steps ==
    ASSUME TypeOK, IInv, [Next]_vars
    PROVE  Still \/ (\E e : Adds(e)) \/ (\E m : Hears(m)) \/ HostCrash \/ HostRestart
<1>0. unacked \in [Peers -> SUBSET journal]
  BY DEF TypeOK
<1>1. CASE UNCHANGED vars
  BY <1>0, <1>1 DEF vars, Still, Fewer
<1>2. ASSUME NEW p \in Peers, Duplicate(p) PROVE Still
  BY <1>0, <1>2 DEF Duplicate, Still, Fewer, memory
<1>3. ASSUME NEW p \in Peers, Conclude(p)
      PROVE  Still \/ \E e : Adds(e)
  <2>1. up # "down" /\ UNCHANGED <<up, held>>
    BY <1>3 DEF Conclude, IInv, InMemory
  <2>2. journal \subseteq journal'
    BY <1>3 DEF Conclude, FaultSession, Decide, Enter
  <2>3. Fewer
    BY <1>0, <1>3, <2>2 DEF Conclude, Fewer
  <2>4. PICK m \in unacked[p] :
          LET decided == status[m.of] = "pending" /\ Reaction(m) # "wait" IN
          \/ RefusedOrder(m) /\ FaultSession
          \/ ~RefusedOrder(m) /\ decided /\ Decide(m.of, Reaction(m))
          \/ ~RefusedOrder(m) /\ ~decided /\ UNCHANGED <<journal, status, fault, emitted>>
    BY <1>3 DEF Conclude
  <2>5. m \in journal /\ m.of \in Numbers
    BY <1>0, <2>4 DEF IInv, Numbered, WellFormed
  <2>6. CASE FaultSession
    BY <2>1, <2>3, <2>6, FaultAdds
  <2>7. CASE status[m.of] = "pending" /\ Reaction(m) # "wait" /\ Decide(m.of, Reaction(m))
    <3> DEFINE n == m.of
    <3>1. n \in Pending
      BY <2>1, <2>5, <2>7, NextFacts DEF IInv, Pending
    <3>2. At(n).type \in {"prepare", "build", "operation", "develop", "outcome"}
      <4>1. LoadedStatus(n) = "pending"
        BY <2>1, <2>5, <2>7 DEF IInv, RestartRestores
      <4>2. Opens(At(n))
        BY <2>5, <4>1, LoadedFacts DEF IInv
      <4> QED BY <4>2 DEF Opens, Intents
    <3>3. Evidence(n, Reaction(m))
      <4>1. CASE Reaction(m) = Verdict(n)
        BY <2>7, <3>2, <4>1, VerdictEvidence
      <4>2. CASE Reaction(m) = "faulted" /\ At(n).type \in {"build", "operation"}
        BY <4>2 DEF Evidence
      <4> QED BY <4>1, <4>2 DEF Reaction
    <3> QED BY <2>1, <2>3, <2>7, <3>1, <3>3, DecideAdds
  <2>8. CASE UNCHANGED <<journal, status, fault, emitted>>
    BY <2>1, <2>3, <2>8 DEF Still
  <2> QED BY <2>4, <2>6, <2>7, <2>8
<1>4. ASSUME NEW n \in Pending, NEW v,
             Decide(n, v), UNCHANGED <<unacked, held>>, up # "down", up' = up,
             \/ v = (IF At(n).type = "prepare" THEN "refused" ELSE "faulted")
             \/ v = Verdict(n) /\ Verdict(n) # "wait"
      PROVE  \E e : Adds(e)
  <2>1. n \in Numbers /\ LoadedStatus(n) = "pending"
    BY <1>4, NextFacts DEF IInv, Pending, RestartRestores
  <2>2. At(n).type \in {"prepare", "build", "operation", "develop", "outcome"}
    <3>1. Opens(At(n))
      BY <2>1, LoadedFacts DEF IInv
    <3> QED BY <3>1 DEF Opens, Intents
  <2>3. Evidence(n, v)
    <3>1. CASE v = (IF At(n).type = "prepare" THEN "refused" ELSE "faulted")
      BY <3>1 DEF Evidence
    <3> QED BY <1>4, <2>2, <3>1, VerdictEvidence
  <2>4. journal \subseteq journal'
    BY <1>4 DEF Decide, Enter
  <2>5. Fewer
    BY <1>0, <1>4, <2>4 DEF Fewer
  <2> QED BY <1>4, <2>3, <2>5, DecideAdds
<1>5. ASSUME NEW n \in DOMAIN status, Expire(n) PROVE \E e : Adds(e)
  BY <1>4, <1>5 DEF Expire, Free
<1>6. CASE BootResolve
  BY <1>4, <1>6 DEF BootResolve
<1>7. CASE OutsideFault
  <2>1. journal \subseteq journal'
    BY <1>7 DEF OutsideFault, FaultSession, Enter
  <2>2. Fewer
    BY <1>0, <1>7, <2>1 DEF Fewer, OutsideFault
  <2> QED BY <1>7, <2>2, FaultAdds DEF OutsideFault, Free
<1>8. CASE BootDone
  BY <1>0, <1>8 DEF BootDone, Still, Fewer, memory
<1> QED BY <1>1, <1>2, <1>3, <1>5, <1>6, <1>7, <1>8, CommitAdds, RecordHears DEF Next

----------------------------------------------------------------------------
(* The type invariant and the numbers.                                     *)

\* A new entry takes the next number, and the others keep theirs.
LEMMA NumbersGrow ==
    ASSUME TypeOK, Numbered, NEW e, Adds(e)
    PROVE  Numbers' = Numbers \union {next} /\ next # 0 /\ next \in Nat
<1>1. next # 0 /\ next \in Nat
  BY NextFacts DEF Adds
<1> QED BY <1>1 DEF Adds, Numbers

LEMMA NumberedStep ==
    ASSUME TypeOK, IInv, [Next]_vars PROVE Numbered'
<1>1. CASE Still \/ HostCrash \/ HostRestart
  <2>1. journal' = journal /\ \A p \in Peers : unacked'[p] \subseteq unacked[p]
    BY <1>1 DEF Still, Fewer, HostCrash, HostRestart
  <2> QED BY <2>1 DEF IInv, Numbered, Numbers
<1>2. ASSUME NEW e, Adds(e) PROVE Numbered'
  <2>0. /\ next # 0 /\ next \in Nat /\ \A f \in journal : f.n < next
        /\ journal' = journal \union {e} /\ e.n = next /\ e.type \notin Messages
        /\ \A p \in Peers : unacked'[p] \subseteq unacked[p]
    BY <1>2, NextFacts DEF IInv, Adds, Fewer
  <2>1. \E k \in Nat : Numbers' = 1 .. k
    <3>1. Numbers' = (1 .. Len(status)) \union {next} /\ next = Len(status) + 1
          /\ Len(status) \in Nat
      BY <1>2, NextFacts, NumbersGrow DEF IInv, Adds
    <3>2. Numbers' = 1 .. next
      BY <3>1
    <3> QED BY <2>0, <3>2
  <2>2. \A f, g \in journal' : f.n = g.n /\ f.n # 0 => f = g
    BY <2>0 DEF IInv, Numbered
  <2>3. \A f \in journal' : f.n = 0 <=> f.type \in Messages
    BY <2>0 DEF IInv, Numbered
  <2>4. \A p \in Peers : \A m \in unacked'[p] : m.n = 0
    BY <2>0 DEF IInv, Numbered
  <2> QED BY <2>1, <2>2, <2>3, <2>4 DEF Numbered
<1>3. ASSUME NEW m, Hears(m) PROVE Numbered'
  <2>0. /\ journal' = journal \union {m} /\ m.n = 0 /\ m.type \in Messages
        /\ \A p \in Peers : unacked'[p] = unacked[p] \/ unacked'[p] = {m}
    BY <1>3 DEF Hears
  <2>1. Numbers' = Numbers
    BY <2>0 DEF Numbers
  <2> QED BY <2>0, <2>1 DEF IInv, Numbered
<1> QED BY <1>1, <1>2, <1>3, Steps


\* The newest fault of the journal is read back, and there is one to read if there is
\* any.
LEMMA LoadedFaultFacts ==
    TypeOK /\ Numbered /\ WellFormed /\ InMemory =>
        LoadedFault \in Nat /\ (LoadedFault = 0 <=> ~ Faulted)
<1> SUFFICES ASSUME TypeOK, Numbered, WellFormed, InMemory
             PROVE  LoadedFault \in Nat /\ (LoadedFault = 0 <=> ~ Faulted)
  OBVIOUS
<1>1. \A n \in FaultNumbers : n \in Nat
  BY DEF FaultNumbers, TypeOK, Entry
<1>2. PICK n \in FaultNumbers : \A k \in FaultNumbers : k <= n
  BY DEF InMemory
<1>3. LoadedFault = CHOOSE j \in FaultNumbers : \A k \in FaultNumbers : k <= j
  BY DEF LoadedFault, Newest, FaultNumbers
<1>4. LoadedFault \in FaultNumbers /\ \A k \in FaultNumbers : k <= LoadedFault
  BY <1>2, <1>3
<1>5. \A e \in journal : Faults(e) => e.n # 0
  BY DEF Numbered, WellFormed, Faults, Messages
<1>6. CASE Faulted
  <2>1. PICK e \in journal : Faults(e)
    BY <1>6 DEF Faulted
  <2>2. e.n \in FaultNumbers /\ e.n # 0
    BY <1>5, <2>1 DEF FaultNumbers
  <2> QED BY <1>1, <1>4, <1>6, <2>2
<1>7. CASE ~ Faulted
  BY <1>4, <1>7 DEF FaultNumbers, Faulted
<1> QED BY <1>1, <1>4, <1>6, <1>7

\* The lock and the counters keep their types.
LEMMA AsideStep ==
    ASSUME TypeOK, [Next]_vars
    PROVE  lock' \subseteq Peers /\ crashes' \in Nat /\ late' \in Nat
<1>0. lock \subseteq Peers /\ crashes \in Nat /\ late \in Nat
  BY DEF TypeOK
<1>1. ASSUME NEW p \in Peers, Record(p)
      PROVE  lock' \subseteq Peers /\ crashes' = crashes /\ late' \in {late, late + 1}
  BY <1>1 DEF Record
<1>2. ASSUME NEW p \in Peers, Conclude(p) \/ Duplicate(p)
      PROVE  lock' \in {lock, {}} /\ crashes' = crashes /\ late' = late
  BY <1>2 DEF Conclude, Duplicate
<1>3. CASE HostCrash
  BY <1>0, <1>3 DEF HostCrash
<1>4. ASSUME NEW p \in Peers, NEW type \in Intents, Commit(p, type)
      PROVE  UNCHANGED <<lock, crashes, late>>
  BY <1>4 DEF Commit
<1>5. ASSUME NEW n \in DOMAIN status, Expire(n) PROVE UNCHANGED <<lock, crashes, late>>
  BY <1>5 DEF Expire
<1>6. CASE OutsideFault \/ HostRestart \/ BootResolve \/ BootDone \/ UNCHANGED vars
  BY <1>0, <1>6 DEF OutsideFault, HostRestart, BootResolve, BootDone, vars
<1> QED BY <1>0, <1>1, <1>2, <1>3, <1>4, <1>5, <1>6 DEF Next

\* Every step keeps the type invariant.
LEMMA TypeStep == ASSUME TypeOK, IInv, [Next]_vars PROVE TypeOK'
<1>0. /\ journal \subseteq Entry /\ unacked \in [Peers -> SUBSET journal]
      /\ up \in {"up", "boot", "down"} /\ status \in Seq(Statuses) /\ held \subseteq journal
      /\ fault \in Nat /\ emitted \in BOOLEAN /\ (up # "down" => DOMAIN status = Numbers)
  BY DEF TypeOK
<1> DEFINE Core == /\ journal' \subseteq Entry /\ unacked' \in [Peers -> SUBSET journal']
                   /\ up' \in {"up", "boot", "down"} /\ status' \in Seq(Statuses)
                   /\ held' \subseteq journal'
                   /\ fault' \in Nat
                   /\ up' # "down" => DOMAIN status' = Numbers'
<1>1. ASSUME Still PROVE Core
  <2>1. Numbers' = Numbers
    BY <1>1 DEF Still, Numbers
  <2> QED BY <1>0, <1>1, <2>1 DEF Still, Fewer
<1>2. ASSUME NEW e, Adds(e) PROVE Core
  <2>1. status' \in Seq(Statuses) /\ DOMAIN status' = DOMAIN status \union {next}
    <3>1. Len(status) \in Nat /\ next = Len(status) + 1
      BY <1>2, NextFacts DEF IInv, Adds
    <3>2. ASSUME NEW s \in Seq(Statuses), NEW own \in Statuses, status' = Append(s, own),
                 Len(s) = Len(status)
          PROVE  status' \in Seq(Statuses) /\ DOMAIN status' = DOMAIN status \union {next}
      BY <1>0, <3>1, <3>2
    <3>3. {"pending", "none"} \subseteq Statuses
      BY DEF Statuses
    <3>4. CASE e.of = 0 /\ status' = Append(status, IF Opens(e) THEN "pending" ELSE "none")
      BY <1>0, <3>2, <3>3, <3>4
    <3>5. CASE /\ e.of \in Pending
               /\ status' = Append([status EXCEPT ![e.of] = Outcome(e)],
                                   IF Opens(e) THEN "pending" ELSE "none")
      <4>1. Outcome(e) \in Statuses
        <5>1. e.type \in Controls \union {"build", "operation"}
          <6>1. e.type \notin {"prepare", "develop", "sync_fault"} /\ e.type \notin Messages
            <7>1. e.of # 0
              BY <1>0, <3>5 DEF Pending
            <7> QED BY <1>2, <7>1 DEF Adds
          <6> QED BY <1>2, <6>1 DEF Adds, Entry, Intents, Messages
        <5>2. e.type \in Controls => e.verdict \in {"refused", "complete", "rejected", "faulted"}
          BY <1>2 DEF Adds, Controls, Outcomes
        <5> QED BY <5>1, <5>2 DEF Outcome, Statuses, Controls
      <4>2. [status EXCEPT ![e.of] = Outcome(e)] \in Seq(Statuses)
            /\ Len([status EXCEPT ![e.of] = Outcome(e)]) = Len(status)
        <5>1. status \in [1 .. Len(status) -> Statuses] /\ Len(status) \in Nat
          BY <1>0
        <5>2. [status EXCEPT ![e.of] = Outcome(e)] \in [1 .. Len(status) -> Statuses]
          BY <4>1, <5>1
        <5>3. \A s \in [1 .. Len(status) -> Statuses] :
                  s \in Seq(Statuses) /\ Len(s) = Len(status)
          BY <5>1
        <5> QED BY <5>2, <5>3
      <4> QED BY <3>2, <3>3, <3>5, <4>2
    <3> QED BY <1>2, <3>4, <3>5 DEF Adds
  <2>2. Numbers' = Numbers \union {next}
    BY <1>2, NumbersGrow DEF IInv
  <2> QED BY <1>0, <1>2, <2>1, <2>2 DEF Adds, Fewer
<1>3. ASSUME NEW m, Hears(m) PROVE Core
  <2>1. Numbers' = Numbers
    BY <1>3 DEF Hears, Numbers
  <2> QED BY <1>0, <1>3, <2>1 DEF Hears
<1>4. ASSUME HostCrash PROVE Core
  BY <1>0, <1>4 DEF HostCrash
<1>5. ASSUME HostRestart PROVE Core
  <2>1. Numbers' = Numbers
    BY <1>5 DEF HostRestart, Numbers
  <2>2. \A n \in Numbers : LoadedStatus(n) \in Statuses
    <3>1. {"none", "pending"} \subseteq Statuses
      BY DEF Statuses
    <3>2. \A n \in Numbers : \/ ~ Opens(At(n)) \/ Undecided(n) \/ Decisions(n) # {}
      BY DEF Undecided
    <3> QED BY <3>1, <3>2, LoadedFacts DEF IInv
  <2>3. status' \in Seq(Statuses) /\ DOMAIN status' = Numbers
    <3>1. PICK k \in Nat : Numbers = 1 .. k
      BY DEF IInv, Numbered
    <3>2. status' = [n \in 1 .. k |-> LoadedStatus(n)]
      BY <1>5, <3>1 DEF HostRestart
    <3> QED BY <2>2, <3>1, <3>2
  <2>4. LoadedFault \in Nat
    BY <1>0, LoadedFaultFacts DEF IInv
  <2> QED BY <1>0, <1>5, <2>1, <2>3, <2>4 DEF HostRestart
<1> HIDE DEF Core
<1>6. Core
  BY <1>1, <1>2, <1>3, <1>4, <1>5, Steps
<1>7. lock' \subseteq Peers /\ crashes' \in Nat /\ late' \in Nat
  BY AsideStep
<1>8. emitted' \in BOOLEAN
  <2>1. Still => emitted' = emitted
    BY DEF Still
  <2>2. ASSUME NEW e, Adds(e) PROVE emitted' \in BOOLEAN
    BY <2>2 DEF Adds
  <2>3. ASSUME NEW m, Hears(m) PROVE emitted' = emitted
    BY <2>3 DEF Hears
  <2>4. HostCrash \/ HostRestart => emitted' \in BOOLEAN
    BY DEF HostCrash, HostRestart
  <2> QED BY <1>0, <2>1, <2>2, <2>3, <2>4, Steps
<1> QED BY <1>6, <1>7, <1>8 DEF TypeOK, Core

----------------------------------------------------------------------------
(* The shape of the journal.                                               *)

\* The same of the next state.
LEMMA AtNext ==
    ASSUME TypeOK', Numbered'
    PROVE  \A n \in Numbers' :
             /\ At(n)' \in journal' /\ At(n)' \in Entry /\ At(n)'.n = n
             /\ \A e \in journal' : e.n = n => e = At(n)'
<1>1. (TypeOK /\ Numbered =>
         \A n \in Numbers :
           /\ n \in Nat /\ n # 0 /\ At(n) \in journal /\ At(n) \in Entry /\ At(n).n = n
           /\ \A e \in journal : e.n = n => e = At(n))'
  BY AtFacts, PTL
<1> QED BY <1>1

\* What is in the journal stays where it is.
LEMMA AtKept ==
    ASSUME TypeOK, TypeOK', Numbered, Numbered', journal \subseteq journal'
    PROVE  \A n \in Numbers : n \in Numbers' /\ At(n)' = At(n)
<1>1. \A n \in Numbers' : \A e \in journal' : e.n = n => e = At(n)'
  BY AtNext
<1>2. ASSUME NEW n \in Numbers PROVE n \in Numbers' /\ At(n)' = At(n)
  <2>1. At(n) \in journal' /\ At(n).n = n /\ n # 0
    BY AtFacts
  <2>2. n \in Numbers'
    BY <2>1 DEF Numbers
  <2> QED BY <1>1, <2>1, <2>2
<1> QED BY <1>2

\* What a pending tracker is.
LEMMA PendingFacts ==
    TypeOK /\ IInv /\ up # "down" =>
        \A n \in Numbers : n \in Pending <=> Undecided(n)
<1> SUFFICES ASSUME TypeOK, IInv, up # "down", NEW n \in Numbers
             PROVE  n \in Pending <=> Undecided(n)
  OBVIOUS
<1>1. n \in DOMAIN status /\ status[n] = LoadedStatus(n)
  BY NextFacts DEF IInv, RestartRestores
<1>2. n \in Pending <=> LoadedStatus(n) = "pending"
  BY <1>1 DEF Pending
<1>3. Undecided(n) \/ ~ Opens(At(n)) \/ Decisions(n) # {}
  BY DEF Undecided
<1> QED BY <1>2, <1>3, LoadedFacts DEF IInv, Undecided

\* The decisions of the journal after an entry is added.
Decides(e) == e.type \in Controls \union {"build", "operation"}
LEMMA Grown ==
    ASSUME TypeOK, TypeOK', IInv, Numbered', NEW e, Adds(e)
    PROVE  /\ Numbers' = Numbers \union {next} /\ next \notin Numbers /\ next # 0
           /\ \A n \in Numbers : At(n)' = At(n)
           /\ At(e.n)' = e /\ e.n = next
           /\ e.of # 0 => e.of \in Pending /\ e.of \in Numbers /\ Undecided(e.of) /\ Decides(e)
           /\ \A n \in Numbers : Decisions(n)' = IF e.of = n THEN {e} ELSE Decisions(n)
           /\ Decisions(e.n)' = {}
<1>0. /\ journal' = journal \union {e} /\ e.n = next /\ e.type \notin Messages /\ e \in Entry
      /\ e.of = 0 \/ e.of \in Pending
      /\ up # "down"
  BY DEF Adds
<1>1. Numbers' = Numbers \union {next} /\ next \notin Numbers /\ next # 0
  BY <1>0, NumbersGrow, NextFacts DEF IInv
<1>2. \A n \in Numbers : At(n)' = At(n) /\ n # 0
  BY <1>0, AtKept, AtFacts DEF IInv
<1>3. At(e.n)' = e
  <2>2. \A n \in Numbers' : \A f \in journal' : f.n = n => f = At(n)'
    BY AtNext
  <2>3. e.n \in Numbers' /\ e \in journal'
    BY <1>0, <1>1
  <2> QED BY <2>2, <2>3
<1>4. e.of # 0 => e.of \in Pending /\ e.of \in Numbers /\ Undecided(e.of) /\ Decides(e)
  <2> SUFFICES ASSUME e.of # 0
               PROVE  e.of \in Pending /\ e.of \in Numbers /\ Undecided(e.of) /\ Decides(e)
    OBVIOUS
  <2>1. e.of \in Pending /\ e.of \in Numbers
    BY <1>0, NextFacts DEF IInv, Pending
  <2>2. Undecided(e.of)
    BY <1>0, <2>1, PendingFacts
  <2>3. e.type \notin {"prepare", "develop", "sync_fault"}
    BY DEF Adds
  <2> QED BY <1>0, <2>1, <2>2, <2>3 DEF Decides, Entry, Intents, Messages
<1>5. ASSUME NEW n \in Numbers
      PROVE  Decisions(n)' = IF e.of = n THEN {e} ELSE Decisions(n)
  <2>1. n # 0
    BY <1>2
  <2>2. CASE e.of = n
    <3>1. Decisions(n) = {} /\ Decides(e)
      BY <1>4, <2>1, <2>2 DEF Undecided
    <3> QED BY <1>0, <2>2, <3>1 DEF Decisions, Decides
  <2>3. CASE e.of # n
    BY <1>0, <2>3 DEF Decisions
  <2> QED BY <2>2, <2>3
<1>6. \A f \in journal : f.of # e.n
  BY <1>0, <1>1 DEF IInv, WellFormed
<1>7. e.of # e.n
  BY <1>0, <1>1, <1>4
<1>8. Decisions(e.n)' = {}
  BY <1>0, <1>6, <1>7 DEF Decisions
<1> QED BY <1>0, <1>1, <1>2, <1>3, <1>4, <1>5, <1>8

\* A message decides nothing and moves nothing.
LEMMA Heard ==
    ASSUME TypeOK, TypeOK', IInv, Numbered', NEW m, Hears(m)
    PROVE  /\ Numbers' = Numbers
           /\ \A n \in Numbers : At(n)' = At(n) /\ Decisions(n)' = Decisions(n)
<1>0. journal' = journal \union {m} /\ m.n = 0 /\ m.type \in Messages
  BY DEF Hears
<1>1. Numbers' = Numbers
  BY <1>0 DEF Numbers
<1>2. \A n \in Numbers : At(n)' = At(n)
  BY <1>0, AtKept DEF IInv
<1>3. \A n \in Numbers : Decisions(n)' = Decisions(n)
  BY <1>0 DEF Decisions, Messages, Controls
<1> QED BY <1>1, <1>2, <1>3

\* Every step keeps the journal well formed.
LEMMA WellFormedStep ==
    ASSUME TypeOK, TypeOK', IInv, Numbered', [Next]_vars
    PROVE  WellFormed'
<1>1. ASSUME journal \subseteq journal',
             \A n \in Numbers : n \in Numbers' /\ At(n)' = At(n),
             \A f \in journal' \ journal :
               /\ f.n = 0 => f.of \in Numbers /\ f.verdict \notin {"faulted", "rejected"}
               /\ f.n # 0 /\ f.of # 0 => f.of \in Numbers /\ f.of < f.n /\ Opens(At(f.of))
               /\ f.type \in {"prepare", "develop", "sync_fault"} => f.of = 0
               /\ f.type = "build" => f.n # 0 /\ f.of # 0 /\ At(f.of).type = "prepare"
               /\ f.type = "operation" /\ f.of # 0 =>
                    f.n # 0 /\ At(f.of).type = "outcome" /\ f.peer = At(At(f.of).of).peer
               /\ f.type \in Controls => /\ f.n # 0 /\ f.of # 0
                                         /\ f.type = Control[At(f.of).type]
                                         /\ f.verdict \in Outcomes[f.type]
               /\ f.n # 0 /\ f.type \notin Controls => f.verdict = "none"
      PROVE  WellFormed'
  <2>1. \A n \in Numbers : At(n).type = "outcome" =>
            At(n).of \in Numbers /\ At(At(n).of)' = At(At(n).of)
    <3>1. ASSUME NEW n \in Numbers, At(n).type = "outcome" PROVE At(n).of \in Numbers
      <4>1. At(n) \in journal /\ At(n).n # 0
        BY AtFacts DEF IInv
      <4>2. At(n).of # 0
        BY <3>1, <4>1 DEF IInv, WellFormed, Controls
      <4> QED BY <4>1, <4>2 DEF IInv, WellFormed
    <3> QED BY <1>1, <3>1
  <2> DEFINE Fits(e) ==
        /\ e.n = 0 => e.of \in Numbers /\ e.verdict \notin {"faulted", "rejected"}
        /\ e.n # 0 /\ e.of # 0 => e.of \in Numbers /\ e.of < e.n /\ Opens(At(e.of))
        /\ e.type \in {"prepare", "develop", "sync_fault"} => e.of = 0
        /\ e.type = "build" => e.n # 0 /\ e.of # 0 /\ At(e.of).type = "prepare"
        /\ e.type = "operation" /\ e.of # 0 =>
             e.n # 0 /\ At(e.of).type = "outcome" /\ e.peer = At(At(e.of).of).peer
        /\ e.type \in Controls => /\ e.n # 0 /\ e.of # 0 /\ e.type = Control[At(e.of).type]
                                  /\ e.verdict \in Outcomes[e.type]
        /\ e.n # 0 /\ e.type \notin Controls => e.verdict = "none"
  <2>2. \A e \in journal' : Fits(e)
    <3>1. \A e \in journal : e.n = 0 <=> e.type \in Messages
      BY DEF IInv, Numbered
    <3>2. ASSUME NEW e \in journal PROVE Fits(e)
      <4>1. e.type \in Controls \union {"build", "operation"} => e.n # 0
        BY <3>1 DEF Controls, Messages
      <4> QED BY <4>1 DEF IInv, WellFormed
    <3> QED BY <1>1, <3>2
  <2>3. ASSUME NEW e \in journal'
        PROVE  /\ e.n = 0 => e.of \in Numbers' /\ e.verdict \notin {"faulted", "rejected"}
               /\ e.n # 0 /\ e.of # 0 => e.of \in Numbers' /\ e.of < e.n /\ Opens(At(e.of))'
               /\ e.type \in {"prepare", "develop", "sync_fault"} => e.of = 0
               /\ e.type = "build" => e.of # 0 /\ At(e.of)'.type = "prepare"
               /\ e.type = "operation" /\ e.of # 0 =>
                    At(e.of)'.type = "outcome" /\ e.peer = At(At(e.of).of)'.peer
               /\ e.type \in Controls => /\ e.of # 0 /\ e.type = Control[At(e.of)'.type]
                                         /\ e.verdict \in Outcomes[e.type]
               /\ e.n # 0 /\ e.type \notin Controls => e.verdict = "none"
    <3>1. Fits(e)
      BY <2>2
    <3>2. ASSUME e.of \in Numbers
          PROVE  /\ e.of \in Numbers' /\ At(e.of)' = At(e.of)
                 /\ Opens(At(e.of)) => Opens(At(e.of))'
                 /\ At(e.of).type = "outcome" => At(At(e.of).of)' = At(At(e.of).of)
      <4>1. PICK k : k = e.of
        OBVIOUS
      <4>2. k \in Numbers' /\ At(k)' = At(k)
        BY <1>1, <3>2, <4>1
      <4>3. Opens(At(k)) => Opens(At(k))'
        BY <4>2 DEF Opens
      <4>4. At(k).type = "outcome" => At(At(k).of)' = At(At(k).of)
        BY <2>1, <3>2, <4>1
      <4> QED BY <4>1, <4>2, <4>3, <4>4
    <3>3. e.n # 0 /\ e.of # 0 => e.of \in Numbers
      BY <3>1
    <3> QED BY <3>1, <3>2, <3>3
  <2> HIDE DEF Fits
  <2> QED BY <2>3 DEF WellFormed
<1>2. CASE journal' = journal
  <2>1. \A n \in Numbers : n \in Numbers' /\ At(n)' = At(n)
    BY <1>2, AtKept DEF IInv
  <2> QED BY <1>1, <1>2, <2>1
<1>3. ASSUME NEW e, Adds(e) PROVE WellFormed'
  <2>1. /\ journal \subseteq journal' /\ journal' = journal \union {e} /\ e.n = next
        /\ e.n # 0 /\ e \notin journal
    BY <1>3, Grown, NextFacts DEF Adds, IInv
  <2>2. \A n \in Numbers : n \in Numbers' /\ At(n)' = At(n)
    BY <1>3, Grown
  <2>3. e.of # 0 => e.of \in Numbers /\ e.of < e.n /\ Opens(At(e.of))
    BY <1>3, <2>1, Grown, NextFacts DEF Undecided, Adds, IInv
  <2> QED BY <1>1, <1>3, <2>1, <2>2, <2>3 DEF Adds
<1>4. ASSUME NEW m, Hears(m) PROVE WellFormed'
  <2>1. journal \subseteq journal' /\ journal' = journal \union {m}
    BY <1>4 DEF Hears
  <2>2. \A n \in Numbers : n \in Numbers' /\ At(n)' = At(n)
    BY <1>4, Heard
  <2>3. CASE m \in journal
    <3>1. journal' = journal
      BY <2>1, <2>3
    <3> QED BY <1>2, <3>1
  <2>4. CASE m \notin journal
    <3>1. /\ m.n = 0 /\ m.of \in Numbers /\ m.verdict \notin {"faulted", "rejected"}
          /\ m.type \notin {"prepare", "develop", "sync_fault", "build", "operation"}
          /\ m.type \notin Controls
      BY <1>4 DEF Hears, Messages, Controls
    <3> QED BY <1>1, <2>1, <2>2, <2>4, <3>1
  <2> QED BY <2>3, <2>4
<1>5. Still \/ HostCrash \/ HostRestart => journal' = journal
  BY DEF Still, HostCrash, HostRestart
<1> QED BY <1>2, <1>3, <1>4, <1>5, Steps

\* A step that leaves the journal as it is, or adds to it.
LEMMA JournalSteps ==
    ASSUME TypeOK, TypeOK', IInv, Numbered', [Next]_vars
    PROVE  \/ /\ journal' = journal /\ Numbers' = Numbers
              /\ \A n \in Numbers : At(n)' = At(n) /\ Decisions(n)' = Decisions(n)
           \/ \E e : Adds(e)
           \/ \E m : Hears(m)
<1>1. ASSUME journal' = journal
      PROVE  /\ Numbers' = Numbers
             /\ \A n \in Numbers : At(n)' = At(n) /\ Decisions(n)' = Decisions(n)
  BY <1>1 DEF Numbers, At, Decisions
<1>2. Still \/ HostCrash \/ HostRestart => journal' = journal
  BY DEF Still, HostCrash, HostRestart
<1> QED BY <1>1, <1>2, Steps

\* A barrier that was decided is not decided again.
LEMMA DecidedOnceStep ==
    ASSUME TypeOK, TypeOK', IInv, Numbered', [Next]_vars
    PROVE  DecidedOnce'
<1>0. \A n \in Numbers : \A d, f \in Decisions(n) : d = f
  BY DEF IInv, DecidedOnce
<1>1. ASSUME Numbers' = Numbers, \A n \in Numbers : Decisions(n)' = Decisions(n)
      PROVE  DecidedOnce'
  BY <1>0, <1>1 DEF DecidedOnce
<1>2. ASSUME NEW e, Adds(e) PROVE DecidedOnce'
  <2>1. /\ Numbers' = Numbers \union {e.n} /\ Decisions(e.n)' = {}
        /\ \A n \in Numbers : Decisions(n)' = IF e.of = n THEN {e} ELSE Decisions(n)
    BY <1>2, Grown
  <2>2. ASSUME NEW n \in Numbers' PROVE \A d, f \in Decisions(n)' : d = f
    BY <1>0, <2>1
  <2> QED BY <2>2 DEF DecidedOnce
<1>3. ASSUME NEW m, Hears(m) PROVE DecidedOnce'
  BY <1>1, <1>3, Heard
<1> QED BY <1>1, <1>2, <1>3, JournalSteps

\* Whatever opens a barrier closes the one that was open.
LEMMA OneOpenStep ==
    ASSUME TypeOK, TypeOK', IInv, Numbered', [Next]_vars
    PROVE  OneOpen'
<1>0. \A j, k \in Numbers : Undecided(j) /\ Undecided(k) => j = k
  BY DEF IInv, OneOpen
<1>1. ASSUME Numbers' = Numbers,
             \A n \in Numbers : At(n)' = At(n) /\ Decisions(n)' = Decisions(n)
      PROVE  OneOpen'
  <2>1. \A n \in Numbers' : Undecided(n)' <=> Undecided(n)
    BY <1>1 DEF Undecided, Opens
  <2> QED BY <1>0, <1>1, <2>1 DEF OneOpen
<1>2. ASSUME NEW e, Adds(e) PROVE OneOpen'
  <2>1. /\ Numbers' = Numbers \union {e.n} /\ At(e.n)' = e
        /\ \A n \in Numbers : At(n)' = At(n)
        /\ \A n \in Numbers : Decisions(n)' = IF e.of = n THEN {e} ELSE Decisions(n)
    BY <1>2, Grown
  <2>2. ASSUME NEW n \in Numbers, Undecided(n)'
        PROVE  Undecided(n) /\ ~ Opens(e) /\ e.of # n
    <3>1. e.of # n
      BY <2>1, <2>2 DEF Undecided
    <3>2. Undecided(n)
      BY <2>1, <2>2, <3>1 DEF Undecided, Opens
    <3>3. n \in Pending
      BY <1>2, <3>2, PendingFacts DEF Adds
    <3> QED BY <1>2, <3>1, <3>2, <3>3 DEF Adds
  <2>3. Undecided(e.n)' => Opens(e)
    BY <2>1 DEF Undecided, Opens
  <2> QED BY <1>0, <2>1, <2>2, <2>3 DEF OneOpen
<1>3. ASSUME NEW m, Hears(m) PROVE OneOpen'
  BY <1>1, <1>3, Heard
<1> QED BY <1>1, <1>2, <1>3, JournalSteps

----------------------------------------------------------------------------
(* What the host has in memory.                                            *)

\* Whoever has the lock belongs to a running host.
LEMMA LockStep ==
    ASSUME TypeOK, IInv, [Next]_vars
    PROVE  lock' # {} => up' = "up"
<1>0. lock # {} => up = "up"
  BY DEF IInv, InMemory
<1>1. ASSUME NEW p \in Peers, Record(p) PROVE up' = "up"
  BY <1>1 DEF Record, Free
<1>2. ASSUME NEW p \in Peers, Conclude(p) PROVE lock' = {}
  BY <1>2 DEF Conclude
<1>3. ASSUME NEW p \in Peers, Duplicate(p) PROVE UNCHANGED <<lock, up>>
  BY <1>3 DEF Duplicate
<1>4. ASSUME NEW p \in Peers, NEW type \in Intents, Commit(p, type)
      PROVE  UNCHANGED <<lock, up>>
  BY <1>4 DEF Commit
<1>5. ASSUME NEW n \in DOMAIN status, Expire(n) PROVE UNCHANGED <<lock, up>>
  BY <1>5 DEF Expire
<1>6. OutsideFault \/ BootResolve \/ UNCHANGED vars => UNCHANGED <<lock, up>>
  BY DEF OutsideFault, BootResolve, vars
<1>7. HostCrash => lock' = {}
  BY DEF HostCrash
<1>8. HostRestart \/ BootDone => lock' = {}
  BY <1>0 DEF HostRestart, BootDone
<1> QED BY <1>0, <1>1, <1>2, <1>3, <1>4, <1>5, <1>6, <1>7, <1>8 DEF Next

\* The host knows of the faults of the journal, the newest of which is the newest entry
\* that is one.
LEMMA InMemoryStep ==
    ASSUME TypeOK, TypeOK', IInv, Numbered', [Next]_vars
    PROVE  InMemory'
<1> DEFINE Known == up' # "down" => /\ fault' # 0 <=> Faulted'
                                    /\ emitted' <=> \E f \in journal' : f.type = "sync_fault"
           Newer == \E n \in FaultNumbers' : \A k \in FaultNumbers' : k <= n
<1>0. /\ \E n \in FaultNumbers : \A k \in FaultNumbers : k <= n
      /\ up # "down" => /\ fault # 0 <=> Faulted
                        /\ emitted <=> \E f \in journal : f.type = "sync_fault"
      /\ \A n \in FaultNumbers : n \in Nat
  <2>1. \A n \in FaultNumbers : n \in Nat
    BY DEF FaultNumbers, TypeOK, Entry
  <2> QED BY <2>1 DEF IInv, InMemory
<1>1. ASSUME \A f \in journal' \ journal : f.type # "sync_fault" /\ ~ Faults(f),
             journal \subseteq journal'
      PROVE  /\ FaultNumbers' = FaultNumbers /\ (Faulted' <=> Faulted)
             /\ (\E f \in journal' : f.type = "sync_fault") <=>
                    \E f \in journal : f.type = "sync_fault"
  BY <1>1 DEF FaultNumbers, Faulted, Faults
<1>2. ASSUME Still PROVE Known /\ Newer
  <2>1. journal' = journal /\ fault' = fault /\ emitted' = emitted
        /\ (up' # "down" => up # "down")
    BY <1>2 DEF Still
  <2> QED BY <1>0, <1>1, <2>1
<1>3. ASSUME NEW m, Hears(m) PROVE Known /\ Newer
  <2>1. /\ journal' = journal \union {m} /\ m.type # "sync_fault" /\ ~ Faults(m)
        /\ UNCHANGED <<up, fault, emitted>>
    BY <1>3 DEF Hears, Messages, Faults
  <2> QED BY <1>0, <1>1, <2>1
<1>4. ASSUME NEW e, Adds(e) PROVE Known /\ Newer
  <2>1. /\ journal' = journal \union {e} /\ up' = up /\ up # "down"
        /\ fault' # 0 <=> fault # 0 \/ Faults(e)
        /\ emitted' = (emitted \/ e.type = "sync_fault")
        /\ e.n = next /\ next \in Nat
        /\ \A f \in journal : f.n < next
    BY <1>4, NextFacts DEF Adds, IInv
  <2>2. Known
    <3>1. Faulted' <=> Faulted \/ Faults(e)
      BY <2>1 DEF Faulted, Faults
    <3>2. (\E f \in journal' : f.type = "sync_fault") <=>
             (\E f \in journal : f.type = "sync_fault") \/ e.type = "sync_fault"
      BY <2>1
    <3> QED BY <1>0, <2>1, <3>1, <3>2
  <2>3. CASE Faults(e)
    <3>1. FaultNumbers' = FaultNumbers \union {next}
      BY <2>1, <2>3 DEF FaultNumbers, Faults
    <3>2. \A k \in FaultNumbers : k <= next
      BY <2>1 DEF FaultNumbers, TypeOK, Entry
    <3>3. PICK j : j = next
      OBVIOUS
    <3>4. j \in FaultNumbers' /\ \A k \in FaultNumbers' : k <= j
      BY <2>1, <3>1, <3>2, <3>3
    <3> QED BY <2>2, <3>4
  <2>4. CASE ~ Faults(e)
    <3>1. e.type # "sync_fault"
      BY <2>4 DEF Faults
    <3> QED BY <1>0, <1>1, <2>1, <2>2, <2>4, <3>1
  <2> QED BY <2>3, <2>4
<1>5. ASSUME HostCrash PROVE Known /\ Newer
  BY <1>0, <1>1, <1>5 DEF HostCrash
<1>6. ASSUME HostRestart PROVE Known /\ Newer
  <2>1. journal' = journal /\ fault' = LoadedFault
        /\ emitted' = \E e \in journal : e.type = "sync_fault"
    BY <1>6 DEF HostRestart
  <2>2. LoadedFault = 0 <=> ~ Faulted
    BY LoadedFaultFacts DEF IInv
  <2> QED BY <1>0, <1>1, <2>1, <2>2
<1> HIDE DEF Known, Newer
<1>9. up' = "down" => status' = << >>
  <2>1. up = "down" => status = << >>
    BY DEF IInv, InMemory
  <2>2. Still => status' = status /\ (up' = "down" => up = "down")
    BY DEF Still
  <2>3. ASSUME NEW e, Adds(e) PROVE up' # "down"
    BY <2>3 DEF Adds
  <2>4. ASSUME NEW m, Hears(m) PROVE up' # "down"
    BY <2>4 DEF Hears
  <2>5. (HostCrash => status' = << >>) /\ (HostRestart => up' # "down")
    BY DEF HostCrash, HostRestart
  <2> QED BY <2>1, <2>2, <2>3, <2>4, <2>5, Steps
<1>7. Known /\ Newer
  BY <1>2, <1>3, <1>4, <1>5, <1>6, Steps
<1>8. lock' # {} => up' = "up"
  BY LockStep
<1> QED BY <1>7, <1>8, <1>9 DEF InMemory, Known, Newer

----------------------------------------------------------------------------
(* Restarting the host.                                                    *)

\* What _load_audit would read of the next journal.
LEMMA LoadedNext ==
    ASSUME TypeOK', Numbered', WellFormed', DecidedOnce'
    PROVE  \A n \in Numbers' :
             /\ ~ Opens(At(n))' => LoadedStatus(n)' = "none"
             /\ Opens(At(n))' /\ Decisions(n)' = {} => LoadedStatus(n)' = "pending"
             /\ \A d \in Decisions(n)' : LoadedStatus(n)' = Outcome(d) /\ Outcome(d) # "pending"
<1>1. (TypeOK /\ Numbered /\ WellFormed /\ DecidedOnce =>
         \A n \in Numbers :
            /\ ~ Opens(At(n)) => LoadedStatus(n) = "none"
            /\ Undecided(n) => LoadedStatus(n) = "pending"
            /\ \A d \in Decisions(n) : LoadedStatus(n) = Outcome(d) /\ Outcome(d) # "pending"
                                       /\ Outcome(d) \in Statuses)'
  BY LoadedFacts, PTL
<1>2. \A n \in Numbers' :
        /\ ~ Opens(At(n))' => LoadedStatus(n)' = "none"
        /\ Undecided(n)' => LoadedStatus(n)' = "pending"
        /\ \A d \in Decisions(n)' : LoadedStatus(n)' = Outcome(d) /\ Outcome(d) # "pending"
  BY <1>1
<1> QED BY <1>2 DEF Undecided

\* The journal gives back the same as before for what the step does not touch.
LEMMA LoadedSame ==
    ASSUME TypeOK, TypeOK', IInv, Numbered', WellFormed', DecidedOnce',
           NEW n \in Numbers, n \in Numbers', At(n)' = At(n), Decisions(n)' = Decisions(n)
    PROVE  LoadedStatus(n)' = LoadedStatus(n)
<1>1. Opens(At(n))' <=> Opens(At(n))
  BY DEF Opens
<1>2. CASE Decisions(n) # {}
  BY <1>2, LoadedFacts, LoadedNext DEF IInv
<1>3. CASE Decisions(n) = {}
  BY <1>1, <1>3, LoadedFacts, LoadedNext DEF IInv, Undecided
<1> QED BY <1>2, <1>3

\* What a tracker keeps stays so.
LEMMA KeptSame ==
    ASSUME \A n \in Numbers : At(n)' = At(n), WellFormed,
           NEW m \in journal, m.n = 0
    PROVE  Kept(m)' <=> Kept(m)
<1>1. m.of \in Numbers
  BY DEF WellFormed
<1>2. At(m.of)' = At(m.of)
  BY <1>1
<1> QED BY <1>2 DEF Kept

\* Every step keeps the trackers as a restart would find them.
LEMMA RestartRestoresStep ==
    ASSUME TypeOK, TypeOK', IInv, Numbered', WellFormed', DecidedOnce', InMemory', [Next]_vars
    PROVE  RestartRestores'
<1> DEFINE Status == status' = [n \in Numbers' |-> LoadedStatus(n)']
           Held == \A n \in Pending' : {m \in held' : m.of = n} =
                                       {m \in journal' : m.n = 0 /\ m.of = n /\ Kept(m)'}
<1>1. up' # "down" => (fault' = 0 <=> LoadedFault' = 0)
  <2>1. (TypeOK /\ Numbered /\ WellFormed /\ InMemory =>
            LoadedFault \in Nat /\ (LoadedFault = 0 <=> ~ Faulted))'
    BY LoadedFaultFacts, PTL
  <2> QED BY <2>1 DEF InMemory
<1>2. ASSUME up # "down"
      PROVE  /\ \A n \in Pending : {m \in held : m.of = n} =
                                   {m \in journal : m.n = 0 /\ m.of = n /\ Kept(m)}
             /\ status = [n \in Numbers |-> LoadedStatus(n)]
  BY <1>2 DEF IInv, RestartRestores
<1>3. ASSUME Still, up' # "down" PROVE Status /\ Held
  <2>1. /\ journal' = journal /\ status' = status /\ held' = held /\ up # "down"
        /\ Numbers' = Numbers /\ Pending' = Pending
    BY <1>3 DEF Still, Numbers, Pending
  <2>2. \A n \in Numbers : At(n)' = At(n) /\ Decisions(n)' = Decisions(n)
    BY <2>1 DEF At, Decisions
  <2>3. \A n \in Numbers : LoadedStatus(n)' = LoadedStatus(n)
    BY <2>1, <2>2, LoadedSame
  <2>4. \A m \in journal : m.n = 0 => (Kept(m)' <=> Kept(m))
    BY <2>2, KeptSame DEF IInv
  <2> QED BY <1>2, <2>1, <2>3, <2>4
<1>4. ASSUME NEW m, Hears(m) PROVE Status /\ Held
  <2>1. /\ Numbers' = Numbers /\ up # "down" /\ status' = status /\ Pending' = Pending
        /\ journal' = journal \union {m} /\ m.n = 0 /\ m.of \in Numbers
        /\ held' = IF Kept(m) /\ (m.type = "ack" => status[m.of] = "pending")
                   THEN held \union {m} ELSE held
    BY <1>4, Heard DEF Hears, Pending
  <2>2. \A n \in Numbers : At(n)' = At(n) /\ Decisions(n)' = Decisions(n)
    BY <1>4, Heard
  <2>3. \A n \in Numbers : LoadedStatus(n)' = LoadedStatus(n)
    BY <2>1, <2>2, LoadedSame
  <2>4. \A s \in journal : s.n = 0 => (Kept(s)' <=> Kept(s))
    BY <2>2, KeptSame DEF IInv
  <2>5. Kept(m)' <=> Kept(m)
    <3>1. At(m.of)' = At(m.of)
      BY <2>1, <2>2
    <3> QED BY <3>1 DEF Kept
  <2>6. Status
    BY <1>2, <2>1, <2>3
  <2>7. ASSUME NEW n \in Pending
        PROVE  {s \in held' : s.of = n} = {s \in journal' : s.n = 0 /\ s.of = n /\ Kept(s)'}
    <3>1. {s \in held : s.of = n} = {s \in journal : s.n = 0 /\ s.of = n /\ Kept(s)}
      BY <1>2, <2>1
    <3>2. {s \in journal' : s.n = 0 /\ s.of = n /\ Kept(s)'} =
             {s \in held : s.of = n} \union (IF m.of = n /\ Kept(m) THEN {m} ELSE {})
      BY <2>1, <2>4, <2>5, <3>1
    <3>3. status[n] = "pending"
      BY DEF Pending
    <3>4. {s \in held' : s.of = n} =
             {s \in held : s.of = n} \union (IF m.of = n /\ Kept(m) THEN {m} ELSE {})
      BY <2>1, <3>3
    <3> QED BY <3>2, <3>4
  <2> QED BY <2>1, <2>6, <2>7
<1>5. ASSUME NEW e, Adds(e) PROVE Status /\ Held
  <2>1. /\ Numbers' = Numbers \union {e.n} /\ e.n \notin Numbers /\ e.n = next
        /\ At(e.n)' = e /\ Decisions(e.n)' = {} /\ e.n # 0
        /\ \A n \in Numbers : At(n)' = At(n)
        /\ \A n \in Numbers : Decisions(n)' = IF e.of = n THEN {e} ELSE Decisions(n)
        /\ e.of # 0 => e.of \in Pending /\ e.of \in Numbers /\ Undecided(e.of) /\ Decides(e)
        /\ up # "down" /\ held' = held /\ journal' = journal \union {e}
    BY <1>5, Grown DEF Adds
  <2>2. /\ status \in Seq(Statuses) /\ Len(status) \in Nat /\ next = Len(status) + 1
        /\ DOMAIN status = Numbers /\ Numbers = 1 .. Len(status)
    BY <2>1, NextFacts DEF IInv, TypeOK
  <2>3. ASSUME NEW n \in Numbers
        PROVE  status'[n] = IF e.of = n THEN Outcome(e) ELSE status[n]
    <3>1. n # 0 /\ n \in 1 .. Len(status)
      BY <2>1, <2>2
    <3> DEFINE own == IF Opens(e) THEN "pending" ELSE "none"
    <3>2. CASE e.of = 0 /\ status' = Append(status, own)
      BY <2>2, <3>1, <3>2
    <3>3. CASE e.of \in Pending /\ status' = Append([status EXCEPT ![e.of] = Outcome(e)], own)
      <4>1. status \in [1 .. Len(status) -> Statuses]
        BY <2>2
      <4>2. PICK s : s = [status EXCEPT ![e.of] = Outcome(e)]
        OBVIOUS
      <4>3. s \in [1 .. Len(status) -> Statuses \union {Outcome(e)}]
            /\ s[n] = IF e.of = n THEN Outcome(e) ELSE status[n]
        BY <3>1, <4>1, <4>2
      <4>4. s \in Seq(Statuses \union {Outcome(e)}) /\ Len(s) = Len(status)
        BY <2>2, <4>3
      <4>5. Append(s, own)[n] = s[n]
        BY <3>1, <4>4
      <4> QED BY <3>3, <4>2, <4>3, <4>5
    <3> QED BY <1>5, <3>2, <3>3 DEF Adds
  <2>4. status'[e.n] = IF Opens(e) THEN "pending" ELSE "none"
    <3> DEFINE own == IF Opens(e) THEN "pending" ELSE "none"
    <3>1. CASE e.of = 0 /\ status' = Append(status, own)
      BY <2>1, <2>2, <3>1
    <3>2. CASE e.of \in Pending /\ status' = Append([status EXCEPT ![e.of] = Outcome(e)], own)
      <4>1. status \in [1 .. Len(status) -> Statuses]
        BY <2>2
      <4>2. PICK s : s = [status EXCEPT ![e.of] = Outcome(e)]
        OBVIOUS
      <4>3. s \in [1 .. Len(status) -> Statuses \union {Outcome(e)}]
        BY <4>1, <4>2
      <4>4. s \in Seq(Statuses \union {Outcome(e)}) /\ Len(s) = Len(status)
        BY <2>2, <4>3
      <4> QED BY <2>1, <2>2, <3>2, <4>2, <4>4
    <3> QED BY <1>5, <3>1, <3>2 DEF Adds
  <2>5. ASSUME NEW n \in Numbers PROVE status'[n] = LoadedStatus(n)'
    <3>1. CASE e.of = n
      <4>1. LoadedStatus(n)' = Outcome(e)
        BY <2>1, <3>1, LoadedNext
      <4> QED BY <2>3, <3>1, <4>1
    <3>2. CASE e.of # n
      <4>1. LoadedStatus(n)' = LoadedStatus(n)
        BY <2>1, <3>2, LoadedSame
      <4> QED BY <1>2, <2>1, <2>3, <3>2, <4>1
    <3> QED BY <3>1, <3>2
  <2>6. status'[e.n] = LoadedStatus(e.n)'
    <3>1. Opens(At(e.n))' <=> Opens(e)
      BY <2>1 DEF Opens
    <3> QED BY <2>1, <2>4, <3>1, LoadedNext
  <2>7. Status
    <3>1. status' \in Seq(Statuses) /\ DOMAIN status' = Numbers'
      BY <1>5, <2>1 DEF TypeOK, Adds
    <3>2. \A n \in Numbers' : status'[n] = LoadedStatus(n)'
      BY <2>1, <2>5, <2>6
    <3>3. status' = [n \in DOMAIN status' |-> status'[n]]
      BY <3>1
    <3> QED BY <3>1, <3>2, <3>3
  <2>8. \A s \in journal : s.n = 0 => (Kept(s)' <=> Kept(s))
    BY <2>1, KeptSame DEF IInv
  <2>9. ASSUME NEW n \in Pending'
        PROVE  {s \in held' : s.of = n} = {s \in journal' : s.n = 0 /\ s.of = n /\ Kept(s)'}
    <3>1. n \in Numbers' /\ status'[n] = "pending"
      BY <2>7 DEF Pending
    <3>2. {s \in journal' : s.n = 0 /\ s.of = n /\ Kept(s)'} =
             {s \in journal : s.n = 0 /\ s.of = n /\ Kept(s)}
      BY <2>1, <2>8
    <3>3. CASE n = e.n
      <4>1. \A s \in journal : s.of # n
        BY <2>1, <3>3 DEF IInv, WellFormed
      <4>2. \A s \in held : s.of # n
        BY <4>1 DEF TypeOK
      <4> QED BY <2>1, <3>2, <4>1, <4>2
    <3>4. CASE n \in Numbers
      <4>1. e.of # n
        BY <2>1, <2>5, <3>1, <3>4, LoadedNext
      <4>2. n \in Pending
        BY <2>2, <2>3, <3>1, <3>4, <4>1 DEF Pending
      <4> QED BY <1>2, <2>1, <3>2, <4>2
    <3> QED BY <2>1, <3>1, <3>3, <3>4
  <2> QED BY <2>7, <2>9
<1>6. ASSUME HostRestart PROVE Status /\ Held
  <2>1. /\ journal' = journal /\ status' = [n \in Numbers |-> LoadedStatus(n)]
        /\ held' = {m \in journal : m.n = 0 /\ Kept(m)}
        /\ Numbers' = Numbers
    BY <1>6 DEF HostRestart, Numbers
  <2>2. \A n \in Numbers : At(n)' = At(n) /\ Decisions(n)' = Decisions(n)
    BY <2>1 DEF At, Decisions
  <2>3. \A n \in Numbers : LoadedStatus(n)' = LoadedStatus(n)
    BY <2>1, <2>2, LoadedSame
  <2>4. \A m \in journal : m.n = 0 => (Kept(m)' <=> Kept(m))
    BY <2>2, KeptSame DEF IInv
  <2> QED BY <2>1, <2>3, <2>4
<1>7. HostCrash => up' = "down"
  BY DEF HostCrash
<1> HIDE DEF Status, Held
<1>8. up' # "down" => Status /\ Held
  BY <1>3, <1>4, <1>5, <1>6, <1>7, Steps
<1> QED BY <1>1, <1>8 DEF RestartRestores, Status, Held

----------------------------------------------------------------------------
(* What decisions rest on.                                                 *)

\* Actions follow the agreement on earlier boundaries.
LEMMA AgreedBeforeStep ==
    ASSUME TypeOK, TypeOK', IInv, Numbered', [Next]_vars
    PROVE  AgreedBefore'
<1> DEFINE Settled(b, N) == /\ b.n \in Numbers
                            /\ \E d \in Decisions(b.n) :
                                 /\ d.n <= N
                                 /\ \/ d.type = "checkpoint_outcome" /\ d.verdict = "complete"
                                    \/ d.type = "operation" /\ d.peer = At(b.of).peer
<1>0. ASSUME NEW e \in journal, e.type \in Intents
      PROVE  /\ e.n \in Numbers
             /\ \A b \in journal : IsBoundary(b) /\ Opens(b) /\ b.n < e.n => Settled(b, e.n)
             /\ \A f \in journal : Faults(f) => f.n > e.n
  <2>1. e.n # 0 /\ e.n \in Nat
    BY <1>0 DEF IInv, Numbered, Intents, Messages, TypeOK, Entry
  <2>2. \A b \in journal : IsBoundary(b) => b.n \in Numbers
    BY DEF IInv, Numbered, IsBoundary, Messages, Numbers
  <2> QED BY <1>0, <2>1, <2>2 DEF IInv, AgreedBefore, Numbers
\* what was settled stays so
<1>1. ASSUME \A n \in Numbers : At(n)' = At(n),
             \A n \in Numbers : Decisions(n) # {} => Decisions(n)' = Decisions(n),
             NEW b \in journal, IsBoundary(b), NEW N, Settled(b, N)
      PROVE  \E d \in Decisions(b.n)' :
               /\ d.n <= N
               /\ \/ d.type = "checkpoint_outcome" /\ d.verdict = "complete"
                  \/ d.type = "operation" /\ d.peer = At(b.of)'.peer
  <2>1. PICK d \in Decisions(b.n) :
               /\ d.n <= N
               /\ \/ d.type = "checkpoint_outcome" /\ d.verdict = "complete"
                  \/ d.type = "operation" /\ d.peer = At(b.of).peer
    BY <1>1
  <2>2. d \in Decisions(b.n)'
    BY <1>1, <2>1
  <2>3. d.type = "operation" => b.of \in Numbers
    <3>1. d \in journal /\ d.of = b.n /\ b.n # 0 /\ b = At(b.n)
      BY <1>1, <2>1, AtFacts DEF Decisions, IInv
    <3>2. d.type = "operation" => b.type = "outcome"
      BY <3>1 DEF IInv, WellFormed
    <3>3. b.type = "outcome" => b.of # 0
      BY DEF IInv, WellFormed, Controls
    <3> QED BY <1>1, <3>1, <3>2, <3>3 DEF IInv, WellFormed
  <2>4. d.type = "operation" => At(b.of)' = At(b.of)
    BY <1>1, <2>3
  <2> QED BY <2>1, <2>2, <2>4
<1>2. ASSUME \A n \in Numbers : At(n)' = At(n),
             \A n \in Numbers : Decisions(n) # {} => Decisions(n)' = Decisions(n),
             NEW f \in Entry, journal' \subseteq journal \union {f},
             Opens(f) \/ Faults(f) \/ f.type \in Intents =>
                  \A e \in journal : e.n < f.n,
             f.type \in Intents =>
               /\ \A b \in journal : IsBoundary(b) /\ Opens(b) =>
                    \E d \in Decisions(b.n)' :
                       /\ d.n <= f.n
                       /\ \/ d.type = "checkpoint_outcome" /\ d.verdict = "complete"
                          \/ d.type = "operation" /\ d.peer = At(b.of)'.peer
               /\ \A e \in journal' : ~ Faults(e)
      PROVE  AgreedBefore'
  <2>1. ASSUME NEW e \in journal', e.type \in Intents,
               NEW b \in journal', IsBoundary(b), Opens(b), b.n < e.n
        PROVE  \E d \in Decisions(b.n)' :
                 /\ d.n <= e.n
                 /\ \/ d.type = "checkpoint_outcome" /\ d.verdict = "complete"
                    \/ d.type = "operation" /\ d.peer = At(b.of)'.peer
    <3>0. e.n \in Nat /\ b.n \in Nat /\ f.n \in Nat
      BY DEF TypeOK, Entry
    <3>1. CASE e \in journal
      <4>1. b \in journal
        BY <1>2, <2>1, <3>0, <3>1
      <4>2. Settled(b, e.n)
        BY <1>0, <2>1, <3>1, <4>1
      <4> HIDE DEF Settled
      <4> QED BY <1>1, <1>2, <2>1, <4>1, <4>2
    <3>2. CASE e = f
      <4>1. b \in journal
        BY <1>2, <2>1, <3>0, <3>2
      <4> QED BY <1>2, <2>1, <3>2, <4>1
    <3> QED BY <1>2, <3>1, <3>2
  <2>2. ASSUME NEW e \in journal', e.type \in Intents, NEW g \in journal', Faults(g)
        PROVE  g.n > e.n
    <3>0. e.n \in Nat /\ g.n \in Nat /\ f.n \in Nat
      BY DEF TypeOK, Entry
    <3>1. e \in journal
      BY <1>2, <2>2
    <3>2. CASE g \in journal
      BY <1>0, <2>2, <3>1, <3>2
    <3>3. CASE g = f
      BY <1>2, <2>2, <3>0, <3>1, <3>3
    <3> QED BY <1>2, <3>2, <3>3
  <2>3. \A e : (Opens(e)' <=> Opens(e)) /\ (IsBoundary(e)' <=> IsBoundary(e))
               /\ (Faults(e)' <=> Faults(e))
    BY DEF Opens, IsBoundary, Faults
  <2> QED BY <2>1, <2>2, <2>3 DEF AgreedBefore
<1> HIDE DEF Settled
<1>3. CASE /\ journal' = journal
           /\ \A n \in Numbers : At(n)' = At(n) /\ Decisions(n)' = Decisions(n)
  <2>1. CASE journal = {}
    BY <1>3, <2>1 DEF AgreedBefore
  <2>2. ASSUME NEW f \in journal PROVE AgreedBefore'
    <3>1. PICK m : m = [f EXCEPT !.type = "ack", !.verdict = "none"]
      OBVIOUS
    <3>2. /\ m \in Entry /\ ~ Opens(m) /\ ~ Faults(m) /\ m.type \notin Intents
      BY <3>1 DEF TypeOK, Entry, Verdicts, Opens, Faults, Intents
    <3> QED BY <1>2, <1>3, <3>2
  <2> QED BY <2>1, <2>2
<1>4. ASSUME NEW m, Hears(m) PROVE AgreedBefore'
  <2>1. /\ m \in Entry /\ m.n = 0 /\ journal' = journal \union {m}
        /\ ~ Opens(m) /\ ~ Faults(m) /\ m.type \notin Intents
    BY <1>4 DEF Hears, Messages, Opens, Faults, Intents
  <2> QED BY <1>2, <1>4, <2>1, Heard
<1>5. ASSUME NEW f, Adds(f) PROVE AgreedBefore'
  <2>1. /\ f \in Entry /\ f.n = next /\ journal' = journal \union {f} /\ up # "down"
        /\ \A n \in Numbers : At(n)' = At(n)
        /\ \A n \in Numbers : Decisions(n)' = IF f.of = n THEN {f} ELSE Decisions(n)
        /\ f.of # 0 => f.of \in Numbers /\ Undecided(f.of)
        /\ \A e \in journal : e.n \in Nat /\ e.n < f.n
    BY <1>5, Grown, NextFacts DEF Adds, IInv
  <2>2. \A n \in Numbers : Decisions(n) # {} => Decisions(n)' = Decisions(n)
    <3>1. \A n \in Numbers : n # 0
      BY DEF Numbers
    <3> QED BY <2>1, <3>1 DEF Undecided
  <2>3. ASSUME f.type \in Intents
        PROVE  /\ \A b \in journal : IsBoundary(b) /\ Opens(b) =>
                    \E d \in Decisions(b.n)' :
                       /\ d.n <= f.n
                       /\ \/ d.type = "checkpoint_outcome" /\ d.verdict = "complete"
                          \/ d.type = "operation" /\ d.peer = At(b.of)'.peer
               /\ \A e \in journal' : ~ Faults(e)
    <3>1. \A e \in journal : ~ Faults(e)
      BY <1>5, <2>1, <2>3 DEF Adds, IInv, InMemory, Faulted
    <3>2. ~ Faults(f)
      BY <1>5, <2>3 DEF Adds, Faults, Intents, Controls
    <3>3. ASSUME NEW b \in journal, IsBoundary(b), Opens(b)
          PROVE  \E d \in Decisions(b.n)' :
                    /\ d.n <= f.n
                    /\ \/ d.type = "checkpoint_outcome" /\ d.verdict = "complete"
                       \/ d.type = "operation" /\ d.peer = At(b.of)'.peer
      <4>1. b.n \in Numbers /\ b = At(b.n) /\ b.n # 0
        <5>1. b.n # 0
          BY <3>3 DEF IInv, Numbered, IsBoundary, Messages
        <5>2. b.n \in Numbers
          BY <5>1 DEF Numbers
        <5> QED BY <5>1, <5>2, AtFacts DEF IInv
      <4>2. b.type = "outcome" => At(b.of)' = At(b.of)
        <5>1. b.type = "outcome" => b.of \in Numbers
          BY <4>1 DEF IInv, WellFormed, Controls
        <5> QED BY <2>1, <5>1
      <4>3. CASE Undecided(b.n)
        <5>1. b.n \in Pending
          BY <2>1, <4>1, <4>3, PendingFacts
        <5>2. f.of = b.n /\ f.of # 0
          BY <1>5, <2>3, <4>1, <5>1 DEF Adds, Opens
        <5>3. f.type = "operation"
          BY <1>5, <2>3, <5>2 DEF Adds, Intents
        <5>4. b.type = "outcome" /\ f.peer = At(b.of).peer
          BY <1>5, <4>1, <5>2, <5>3 DEF Adds
        <5>5. f \in Decisions(b.n)' /\ f.n <= f.n
          BY <2>1, <4>1, <5>2 DEF Entry
        <5> QED BY <4>2, <5>3, <5>4, <5>5
      <4>4. ASSUME NEW d \in Decisions(b.n)
            PROVE  \E g \in Decisions(b.n)' :
                      /\ g.n <= f.n
                      /\ \/ g.type = "checkpoint_outcome" /\ g.verdict = "complete"
                         \/ g.type = "operation" /\ g.peer = At(b.of)'.peer
        <5>1. d \in Decisions(b.n)'
          BY <2>2, <4>1, <4>4
        <5>2. d \in journal /\ d.of = b.n /\ d.type \in Controls \union {"build", "operation"}
              /\ d.n \in Nat /\ d.n < f.n /\ f.n \in Nat
          BY <2>1, <4>4 DEF Decisions, Entry
        <5>3. d.type # "build"
          BY <3>3, <4>1, <5>2 DEF IInv, WellFormed, IsBoundary
        <5>4. CASE d.type = "operation"
          <6>1. b.type = "outcome" /\ d.peer = At(b.of).peer
            BY <4>1, <5>2, <5>4 DEF IInv, WellFormed
          <6> QED BY <4>2, <5>1, <5>2, <5>4, <6>1
        <5>5. CASE d.type \in Controls
          <6>1. d.type = "checkpoint_outcome" /\ d.verdict \in {"complete", "faulted"}
            <7>1. d.type = Control[b.type] /\ d.verdict \in Outcomes[d.type]
              BY <4>1, <5>2, <5>5 DEF IInv, WellFormed
            <7>2. Control[b.type] = "checkpoint_outcome"
              BY <3>3 DEF IsBoundary, Control
            <7> QED BY <7>1, <7>2 DEF Outcomes
          <6>2. d.verdict # "faulted"
            BY <3>1, <5>2 DEF Faults
          <6> QED BY <5>1, <5>2, <6>1, <6>2
        <5> QED BY <5>2, <5>3, <5>4, <5>5
      <4>5. Undecided(b.n) \/ Decisions(b.n) # {}
        BY <3>3, <4>1 DEF Undecided
      <4> QED BY <4>3, <4>4, <4>5
    <3> QED BY <2>1, <3>1, <3>2, <3>3
  <2> QED BY <1>2, <2>1, <2>2, <2>3
<1> QED BY <1>3, <1>4, <1>5, JournalSteps

\* A tracker that is undecided has every answer of the journal, and the acknowledgements
\* that its verdict is compared with.
LEMMA HeldFacts ==
    ASSUME TypeOK, IInv, up # "down", NEW n \in Pending
    PROVE  /\ Answers(n) = Records("answer", n)
           /\ At(n).type \in {"prepare", "operation"} => Acks(n) = Records("ack", n)
           /\ At(n).type = "build" => Acks(At(n).of) = Records("ack", At(n).of)
<1>0. n \in Numbers /\ At(n) \in journal /\ At(n).n = n
  BY NextFacts, AtFacts DEF Pending, IInv
<1>1. {m \in held : m.of = n} = {m \in journal : m.n = 0 /\ m.of = n /\ Kept(m)}
  BY DEF IInv, RestartRestores
<1>2. held \subseteq journal /\ \A m \in journal : m.type \in Messages => m.n = 0
  BY DEF TypeOK, IInv, Numbered
<1>3. Answers(n) = Records("answer", n)
  BY <1>1, <1>2 DEF Answers, Records, Kept, Messages
<1>4. At(n).type \in {"prepare", "operation"} => Acks(n) = Records("ack", n)
  BY <1>1, <1>2 DEF Acks, Records, Kept, Messages
<1>5. ASSUME At(n).type = "build" PROVE Acks(At(n).of) = Records("ack", At(n).of)
  <2>1. Records("ack", At(n).of) \subseteq held
    BY <1>0, <1>5 DEF IInv, PreparedKept
  <2> QED BY <1>2, <2>1 DEF Acks, Records
<1> QED BY <1>3, <1>4, <1>5

\* A message that every peer has sent is not sent again.
LEMMA AllHeard ==
    ASSUME Numbered, NEW m, Hears(m), NEW type \in Messages, NEW k, FromAll(Records(type, k))
    PROVE  Records(type, k)' = Records(type, k)
<1>1. journal' = journal \union {m} /\ m.n = 0 /\ m.peer \in Peers
  BY DEF Hears, Entry
<1>2. CASE m \in journal
  BY <1>1, <1>2 DEF Records
<1>3. CASE m \notin journal
  <2>1. ASSUME m.type = type, m.of = k PROVE FALSE
    <3>1. PICK s \in Records(type, k) : s.peer = m.peer
      BY <1>1 DEF FromAll
    <3>2. s \in journal /\ s.type = m.type /\ s.of = m.of
      BY <2>1, <3>1 DEF Records
    <3>3. s.n = 0
      BY <3>2 DEF Numbered, Hears
    <3> QED BY <1>3, <3>1, <3>2, <3>3 DEF Hears
  <2> QED BY <1>1, <2>1 DEF Records
<1> QED BY <1>2, <1>3

\* A peer's preparation of what is built is in the host's memory.
LEMMA PreparedKeptStep ==
    ASSUME TypeOK, TypeOK', IInv, Numbered', [Next]_vars
    PROVE  PreparedKept'
<1> DEFINE Prepared == \A e \in journal' : e.type = "build" => Records("ack", e.of)' \subseteq held'
<1>0. /\ up # "down" => \A e \in journal : e.type = "build" => Records("ack", e.of) \subseteq held
      /\ \A e \in journal : e.type = "build" =>
           /\ e.of \in Numbers /\ At(e.of).type = "prepare"
           /\ FromAll(Records("ack", e.of))
  <2>1. ASSUME NEW e \in journal, e.type = "build"
        PROVE  e.of # 0 /\ At(e.of).type = "prepare" /\ e.n # 0
               /\ FromAll(Records("ack", e.of))
    BY <2>1 DEF IInv, WellFormed, Numbered, Messages, Evidenced
  <2> QED BY <2>1 DEF IInv, PreparedKept, WellFormed
<1>1. ASSUME Still, up' # "down" PROVE Prepared
  BY <1>0, <1>1 DEF Still, Records
<1>2. ASSUME NEW m, Hears(m) PROVE Prepared
  <2>1. /\ journal' = journal \union {m} /\ m.type \in Messages /\ held \subseteq held'
        /\ up # "down"
    BY <1>2 DEF Hears
  <2>2. ASSUME NEW e \in journal, e.type = "build" PROVE Records("ack", e.of)' \subseteq held'
    <3>1. Records("ack", e.of)' = Records("ack", e.of)
      BY <1>0, <1>2, <2>2, AllHeard DEF Messages, IInv
    <3> QED BY <1>0, <2>1, <2>2, <3>1
  <2> QED BY <2>1, <2>2 DEF Messages
<1>3. ASSUME NEW f, Adds(f) PROVE Prepared
  <2>1. /\ journal' = journal \union {f} /\ f.type \notin Messages /\ held' = held
        /\ up # "down"
    BY <1>3 DEF Adds
  <2>2. \A k : Records("ack", k)' = Records("ack", k)
    BY <2>1 DEF Records, Messages
  <2>3. ASSUME f.type = "build" PROVE Records("ack", f.of) \subseteq held
    <3>1. f.of \in Pending /\ At(f.of).type = "prepare"
      BY <1>3, <2>3 DEF Adds
    <3>2. Acks(f.of) = Records("ack", f.of)
      BY <2>1, <3>1, HeldFacts
    <3> QED BY <3>2 DEF Acks
  <2> QED BY <1>0, <2>1, <2>2, <2>3
<1>4. ASSUME HostRestart PROVE Prepared
  <2>1. journal' = journal /\ held' = {m \in journal : m.n = 0 /\ Kept(m)}
    BY <1>4 DEF HostRestart
  <2>2. \A m \in journal : m.type = "ack" => m.n = 0
    BY DEF IInv, Numbered, Messages
  <2>3. ASSUME NEW e \in journal, e.type = "build", NEW m \in Records("ack", e.of)
        PROVE  m \in held'
    BY <1>0, <2>1, <2>2, <2>3 DEF Records, Kept
  <2>4. \A k : Records("ack", k)' = Records("ack", k)
    BY <2>1 DEF Records
  <2> QED BY <2>1, <2>3, <2>4
<1>5. HostCrash => up' = "down"
  BY DEF HostCrash
<1> HIDE DEF Prepared
<1>6. up' # "down" => Prepared
  BY <1>1, <1>2, <1>3, <1>4, <1>5, Steps
<1> QED BY <1>6 DEF PreparedKept, Prepared


\* Every step keeps the journal acceptable to audit_replay.
LEMMA EvidencedStep ==
    ASSUME TypeOK, TypeOK', IInv, Numbered', [Next]_vars
    PROVE  Evidenced'
<1> DEFINE Prep(e) == IF At(e.of).type = "build" THEN At(e.of).of ELSE e.of
           Rests(e) == e.type \in Controls \union {"build"} \/ e.verdict = "rejected"
           Verified(e, T, A, K) ==
             /\ e.type \in Controls /\ e.verdict = "complete" =>
                   FromAll(A) /\ OneDigest(A) /\ AllSay(A, Success[T])
             /\ e.verdict = "rejected" =>
                   /\ FromAll(A) /\ FromAll(K)
                   /\ OneDigest(A \union K) /\ AllSay(A, "unchanged")
             /\ e.type = "build" => FromAll(K) /\ OneDigest(K) /\ AllSay(K, "ok")
           Good(e) == Rests(e) => /\ e.of \in Numbers
                                  /\ Verified(e, At(e.of).type, Records("answer", e.of), Records("ack", Prep(e)))
\* what all peers have answered they do not answer again
           Fixed == \A type \in Messages : \A k :
                       FromAll(Records(type, k)) => Records(type, k)' = Records(type, k)
<1>1. \A e \in journal : Good(e)
  <2>1. \A e \in journal : Rests(e) => e.of \in Numbers
    BY DEF IInv, WellFormed, Numbered, Messages, Controls
  <2>2. \A e \in journal : Verified(e, At(e.of).type, Records("answer", e.of), Records("ack", Prep(e)))
    BY DEF IInv, Evidenced
  <2> QED BY <2>1, <2>2
<1>2. ASSUME \A n \in Numbers : At(n)' = At(n), Fixed, \A e \in journal' : Good(e)
      PROVE  Evidenced'
  <2>1. ASSUME NEW e \in journal'
        PROVE  Verified(e, At(e.of)'.type, Records("answer", e.of)',
                        Records("ack", IF At(e.of).type = "build" THEN At(e.of).of ELSE e.of)')
    <3>1. CASE ~ Rests(e)
      BY <3>1
    <3>2. CASE Rests(e)
      <4>1. At(e.of)' = At(e.of)
        BY <1>2, <3>2
      <4>2. PICK j : j = Prep(e)
        OBVIOUS
      <4>3. PICK A : A = Records("answer", e.of)
        OBVIOUS
      <4>4. PICK K : K = Records("ack", j)
        OBVIOUS
      <4>5. Verified(e, At(e.of).type, A, K)
        BY <1>2, <3>2, <4>2, <4>3, <4>4
      <4>6. FromAll(A) => Records("answer", e.of)' = A
        BY <1>2, <4>3 DEF Messages
      <4>7. FromAll(K) => Records("ack", j)' = K
        BY <1>2, <4>4 DEF Messages
      <4>8. Verified(e, At(e.of)'.type, Records("answer", e.of)', Records("ack", j)')
        <5>1. e.type \in Controls /\ e.verdict = "complete" => FromAll(A)
          BY <4>5
        <5>2. e.verdict = "rejected" => FromAll(A) /\ FromAll(K)
          BY <4>5
        <5>3. e.type = "build" => FromAll(K)
          BY <4>5
        <5> QED BY <4>1, <4>5, <4>6, <4>7, <5>1, <5>2, <5>3
      <4>9. (IF At(e.of).type = "build" THEN At(e.of).of ELSE e.of)' = j
        BY <4>1, <4>2
      <4> QED BY <4>8, <4>9
    <3> QED BY <3>1, <3>2
  <2> QED BY <2>1 DEF Evidenced, FromAll, OneDigest, AllSay
<1> HIDE DEF Good, Fixed
<1>3. CASE /\ journal' = journal
           /\ \A n \in Numbers : At(n)' = At(n) /\ Decisions(n)' = Decisions(n)
  <2>1. Fixed
    BY <1>3 DEF Fixed, Records
  <2> QED BY <1>1, <1>2, <1>3, <2>1
<1>4. ASSUME NEW m, Hears(m) PROVE Evidenced'
  <2>1. Fixed
    BY <1>4, AllHeard DEF Fixed, IInv
  <2>2. journal' = journal \union {m} /\ ~ Rests(m)
    BY <1>4 DEF Hears, Messages, Controls
  <2>3. Good(m)
    BY <2>2 DEF Good
  <2> QED BY <1>1, <1>2, <1>4, <2>1, <2>2, <2>3, Heard
<1>5. ASSUME NEW f, Adds(f) PROVE Evidenced'
  <2>1. journal' = journal \union {f} /\ f.type \notin Messages /\ up # "down"
    BY <1>5 DEF Adds
  <2>2. Fixed
    BY <2>1 DEF Fixed, Records
  <2>3. Good(f)
    <3>1. ASSUME Rests(f) PROVE f.of \in Pending /\ f.of \in Numbers
      <4>1. f.type \in Controls \union {"build"}
        BY <1>5, <3>1 DEF Adds
      <4>2. f.of # 0
        BY <1>5, <4>1 DEF Adds
      <4> QED BY <1>5, <4>2, Grown
    <3>2. ASSUME f.type = "build" PROVE Good(f)
      <4>1. /\ f.of \in Pending /\ f.of \in Numbers /\ At(f.of).type = "prepare"
            /\ Evidence(f.of, "built") /\ f.verdict = "none"
        BY <1>5, <3>1, <3>2 DEF Adds, Controls
      <4>2. Acks(f.of) = Records("ack", f.of) /\ Prep(f) = f.of
        BY <2>1, <4>1, HeldFacts
      <4>3. FromAll(Records("ack", f.of)) /\ OneDigest(Records("ack", f.of))
            /\ AllSay(Records("ack", f.of), "ok")
        BY <4>1, <4>2 DEF Evidence
      <4> QED BY <3>2, <4>1, <4>2, <4>3 DEF Good, Controls
    <3>3. ASSUME f.type \in Controls PROVE Good(f)
      <4>1. f.of \in Pending /\ f.of \in Numbers
        BY <3>1, <3>3
      <4>2. Answers(f.of) = Records("answer", f.of)
        BY <2>1, <4>1, HeldFacts
      <4>3. CASE f.verdict = "complete"
        <5>1. Evidence(f.of, "complete")
          BY <1>5, <4>3 DEF Adds
        <5> QED BY <3>3, <4>1, <4>2, <4>3, <5>1 DEF Evidence, Good, Controls
      <4>4. CASE f.verdict = "rejected"
        <5>1. FromAll(Answers(f.of)) /\ Untouched(f.of)
          BY <1>5, <4>4 DEF Adds, Evidence
        <5>2. Before(f.of) = Records("ack", Prep(f))
          BY <2>1, <4>1, <5>1, HeldFacts DEF Untouched, Before
        <5>3. /\ FromAll(Records("ack", Prep(f))) /\ AllSay(Answers(f.of), "unchanged")
              /\ OneDigest(Answers(f.of) \union Records("ack", Prep(f)))
          BY <5>1, <5>2 DEF Untouched
        <5> QED BY <3>3, <4>1, <4>2, <4>4, <5>1, <5>3 DEF Good, Controls
      <4>5. CASE f.verdict \notin {"complete", "rejected"}
        BY <3>3, <4>1, <4>5 DEF Good, Controls
      <4> QED BY <4>3, <4>4, <4>5
    <3>4. ASSUME f.type \notin Controls \union {"build"} PROVE Good(f)
      BY <1>5, <3>4 DEF Good, Adds
    <3> QED BY <3>2, <3>3, <3>4
  <2> QED BY <1>1, <1>2, <1>5, <2>1, <2>2, <2>3, Grown
<1> QED BY <1>3, <1>4, <1>5, JournalSteps

\* A peer does not speak twice of one entry.
LEMMA SaidOnceStep ==
    ASSUME TypeOK, TypeOK', IInv, Numbered', [Next]_vars
    PROVE  SaidOnce'
<1>0. /\ \A a, b \in journal :
            a.n = 0 /\ b.n = 0 /\ a.type = b.type /\ a.of = b.of /\ a.peer = b.peer => a = b
      /\ \A m \in journal : m.n = 0 /\ m.verdict # "failed" => m.digest # NoDigest
  BY DEF IInv, SaidOnce
<1>1. CASE journal' = journal
  BY <1>0, <1>1 DEF SaidOnce
<1>2. ASSUME NEW e, Adds(e) PROVE SaidOnce'
  <2>1. journal' = journal \union {e} /\ e.n # 0
    BY <1>2, Grown DEF Adds
  <2> QED BY <1>0, <2>1 DEF SaidOnce
<1>3. ASSUME NEW m, Hears(m) PROVE SaidOnce'
  <2>1. /\ journal' = journal \union {m}
        /\ m.verdict # "failed" => m.digest # NoDigest
        /\ \/ m \in journal
           \/ \A s \in journal : s.n = 0 /\ s.peer = m.peer /\ s.of = m.of => s.type # m.type
    BY <1>3 DEF Hears
  <2> QED BY <1>0, <2>1 DEF SaidOnce
<1> QED BY <1>1, <1>2, <1>3, JournalSteps

----------------------------------------------------------------------------
(* The theorems.                                                           *)

LEMMA Initially == Init => TypeOK /\ IInv
<1> SUFFICES ASSUME Init PROVE TypeOK /\ IInv
  OBVIOUS
<1> USE DEF Init
<1>1. Numbers = {} /\ Pending = {} /\ FaultNumbers = {0} /\ ~ Faulted
  BY DEF Numbers, Pending, FaultNumbers, Faulted
<1>2. TypeOK
  <2>1. status \in Seq(Statuses) /\ DOMAIN status = Numbers
    BY <1>1
  <2>2. unacked \in [Peers -> SUBSET journal]
    OBVIOUS
  <2> QED BY <2>1, <2>2 DEF TypeOK
<1>3. Numbered
  <2>1. Numbers = 1 .. 0
    BY <1>1
  <2> QED BY <2>1 DEF Numbered
<1>4. WellFormed /\ DecidedOnce /\ OneOpen /\ PreparedKept /\ AgreedBefore /\ Evidenced /\ SaidOnce
  BY <1>1 DEF WellFormed, DecidedOnce, OneOpen, PreparedKept, AgreedBefore, Evidenced,
     SaidOnce
<1>5. InMemory
  BY <1>1 DEF InMemory
<1>6. RestartRestores
  <2>1. LoadedFault = 0
    <3>1. LoadedFault = CHOOSE n \in {0} : \A k \in {0} : k <= n
      BY DEF LoadedFault, Newest
    <3> QED BY <3>1
  <2>2. status = [n \in Numbers |-> LoadedStatus(n)]
    BY <1>1
  <2> QED BY <1>1, <2>1, <2>2 DEF RestartRestores
<1> QED BY <1>2, <1>3, <1>4, <1>5, <1>6 DEF IInv

LEMMA Step == TypeOK /\ IInv /\ [Next]_vars => TypeOK' /\ IInv'
<1> SUFFICES ASSUME TypeOK, IInv, [Next]_vars PROVE TypeOK' /\ IInv'
  OBVIOUS
<1>1. TypeOK' /\ Numbered'
  BY TypeStep, NumberedStep
<1>2. WellFormed' /\ DecidedOnce' /\ OneOpen' /\ InMemory' /\ PreparedKept' /\ AgreedBefore'
      /\ Evidenced' /\ SaidOnce'
  BY <1>1, WellFormedStep, DecidedOnceStep, OneOpenStep, InMemoryStep, PreparedKeptStep,
     AgreedBeforeStep, EvidencedStep, SaidOnceStep
<1>3. RestartRestores'
  BY <1>1, <1>2, RestartRestoresStep
<1> QED BY <1>1, <1>2, <1>3 DEF IInv

\* The inductive invariant: the journal is numbered, well formed and decided once, one
\* barrier at most is open, and memory is what the journal says.
THEOREM Inductive == Spec => [](TypeOK /\ IInv)
BY Initially, Step, PTL DEF Spec

\* Every value the host and the journal hold is of its kind.
THEOREM TypeCorrect == Spec => []TypeOK
BY Inductive, PTL

\* A restart loses nothing: the trackers, what they hold and the fault are what
\* _load_audit makes of the journal (RestartRestores).
THEOREM Restores == Spec => []RestartRestores
<1>1. TypeOK /\ IInv => RestartRestores
  BY DEF IInv
<1> QED BY <1>1, Inductive, PTL

\* An action enters the journal only after each boundary before it was decided: its
\* checkpoint outcome is complete, or it was superseded by an operation of the peer it
\* came from (AgreedBefore).
THEOREM Agrees == Spec => []AgreedBefore
<1>1. TypeOK /\ IInv => AgreedBefore
  BY DEF IInv
<1> QED BY <1>1, Inductive, PTL

\* What replay reads of one decided barrier.
LEMMA ReplayEvidence ==
    ASSUME TypeOK, IInv, NEW n \in Numbers
    PROVE  /\ At(n).type = "build" => ConstructionVerifies(n) /\ ReplayConverged(At(n).of)
           /\ At(n).type = "operation" => OperationVerifies(n)
           /\ n \in ExpectedBoundaries => CheckpointVerifies(n)
<1>0. /\ At(n) \in journal /\ At(n).n = n /\ n # 0
      /\ WellFormed /\ Evidenced /\ SaidOnce
  BY AtFacts DEF IInv
<1>1. PICK A : A = Records("answer", n)
  OBVIOUS
<1>2. PICK K : K = Records("ack", IF At(n).type = "build" THEN At(n).of ELSE n)
  OBVIOUS
<1>3. Peers # {}
  BY PeersAssumption
<1>4. ASSUME NEW o \in journal, o.of = n, o.type \in {"outcome", "checkpoint_outcome"}
      PROVE  /\ o.verdict = "complete" =>
                   RequiredCompletions(A) /\ CompletionsAgree(A, Success[At(n).type])
             /\ o.verdict = "rejected" => PreservesCore(A, {m \in K : m.digest # NoDigest})
  <2>1. /\ o.verdict = "complete" =>
             FromAll(A) /\ OneDigest(A) /\ AllSay(A, Success[At(n).type])
        /\ o.verdict = "rejected" =>
             /\ FromAll(A) /\ FromAll(K)
             /\ OneDigest(A \union K) /\ AllSay(A, "unchanged")
    BY <1>0, <1>1, <1>2, <1>4 DEF Evidenced, Controls
  <2>2. \A m \in A : m \in journal /\ m.n = 0
    BY <1>1 DEF Records, IInv, Numbered, Messages
  <2>3. ASSUME o.verdict = "rejected" PROVE {m \in K : m.digest # NoDigest} = K
    <3>1. PICK a \in A : TRUE
      BY <1>3, <2>1, <2>3 DEF FromAll
    <3>2. a.digest # NoDigest
      BY <1>0, <2>1, <2>2, <2>3, <3>1 DEF SaidOnce, AllSay
    <3>3. \A m \in K : m.digest = a.digest
      BY <2>1, <2>3, <3>1 DEF OneDigest
    <3> QED BY <3>2, <3>3
  <2>4. FromAll(A) => RequiredCompletions(A)
    BY <1>3 DEF FromAll, RequiredCompletions
  <2>5. FromAll(K) => RequiredCompletions(K)
    BY <1>3 DEF FromAll, RequiredCompletions
  <2>6. OneDigest(A \union K) => OneDigest(A)
    BY DEF OneDigest
  <2> QED BY <2>1, <2>3, <2>4, <2>5, <2>6 DEF PreservesCore, CompletionsAgree
<1>5. ASSUME At(n).type = "build" PROVE ConstructionVerifies(n) /\ ReplayConverged(At(n).of)
  <2>1. Success[At(n).type] = "done" /\ Digested(At(n).of) = {m \in K : m.digest # NoDigest}
    BY <1>2, <1>5 DEF Success, Digested
  <2>2. ConstructionVerifies(n)
    BY <1>1, <1>4, <2>1 DEF ConstructionVerifies, Records
  <2>3. At(At(n).of).type = "prepare"
    BY <1>0, <1>5 DEF WellFormed
  <2>4. OneDigest(Records("ack", At(n).of))
    BY <1>0, <1>5, <2>3 DEF Evidenced
  <2> QED BY <2>2, <2>4 DEF ReplayConverged, Digested, OneDigest
<1>6. ASSUME At(n).type = "operation" PROVE OperationVerifies(n)
  <2>1. Success[At(n).type] = "done" /\ Digested(n) = {m \in K : m.digest # NoDigest}
    BY <1>2, <1>6 DEF Success, Digested
  <2> QED BY <1>1, <1>4, <2>1 DEF OperationVerifies, RejectionVerifies, Records
<1>7. ASSUME n \in ExpectedBoundaries PROVE CheckpointVerifies(n)
  <2>1. Success[At(n).type] = "checkpoint"
    BY <1>7 DEF ExpectedBoundaries, Boundaries, IsBoundary, Success
  <2> QED BY <1>1, <1>4, <2>1 DEF CheckpointVerifies, Records
<1> QED BY <1>5, <1>6, <1>7

\* audit_replay accepts every journal the host writes: its order, its records and the
\* evidence of every decision (JournalVerifies).
THEOREM Verifies == Spec => []JournalVerifies
<1>1. TypeOK /\ IInv => JournalVerifies
  <2> SUFFICES ASSUME TypeOK, IInv PROVE JournalVerifies
    OBVIOUS
  <2>1. \A e \in journal : e.n # 0 => e.n \in Numbers
    BY DEF Numbers
  <2>2. \A e \in journal : e.n # 0 /\ e.of # 0 =>
           /\ e.of \in Numbers /\ e.of < e.n
           /\ e.type \in Controls \union {"build", "operation"} => e \in Decisions(e.of)
    BY DEF IInv, WellFormed, Decisions
  <2>3. ASSUME NEW o \in journal, o.of # 0, o.n # 0,
               o.type \in {"operation", "outcome", "checkpoint_outcome"}
        PROVE  Records(o.type, o.of) = {o}
    <3>1. o.of \in Numbers /\ o \in Decisions(o.of)
      BY <2>2, <2>3 DEF Controls
    <3>2. Records(o.type, o.of) \subseteq Decisions(o.of)
      BY <2>3 DEF Records, Decisions, Controls
    <3>3. \A d \in Decisions(o.of) : d = o
      BY <3>1 DEF IInv, DecidedOnce
    <3> QED BY <3>2, <3>3 DEF Records
  <2>4. ReplayOrder
    <3>1. \A n \in Numbers : 1 .. n \subseteq Numbers
      BY DEF IInv, Numbered
    <3>2. \A e, f \in journal : e.n = f.n /\ e.n > 0 => e = f
      BY DEF IInv, Numbered
    <3>3. ASSUME NEW o \in journal, o.type = "operation", o.of # 0
          PROVE  /\ o.of \in Boundaries /\ o.of < o.n
                 /\ Records("operation", o.of) = {o}
      <4>1. o.n # 0
        BY <3>3 DEF IInv, Numbered, Messages
      <4>2. o.of \in Numbers /\ o.of < o.n /\ Opens(At(o.of)) /\ At(o.of).type = "outcome"
        BY <3>3, <4>1 DEF IInv, WellFormed
      <4> QED BY <2>3, <3>3, <4>1, <4>2 DEF Boundaries, IsBoundary
    <3> QED BY <3>1, <3>2, <3>3 DEF ReplayOrder
  <2>5. ReplayOutcomes
    <3>1. ASSUME NEW o \in journal, o.type \in {"outcome", "checkpoint_outcome"}
          PROVE  /\ o.of \in Numbers /\ o.of < o.n
                 /\ o.type = "outcome" => At(o.of).type \in {"build", "operation"}
                 /\ Records(o.type, o.of) = {o}
      <4>1. o.n # 0 /\ o.of # 0 /\ o.type = Control[At(o.of).type]
        BY <3>1 DEF IInv, Numbered, Messages, WellFormed, Controls
      <4>2. o.of \in Numbers /\ o.of < o.n /\ Opens(At(o.of))
        BY <3>1, <4>1 DEF IInv, WellFormed
      <4>3. At(o.of).type \in {"prepare", "operation", "develop", "build", "outcome"}
        BY <4>2 DEF Opens, Intents
      <4>4. o.type = "outcome" => At(o.of).type \in {"build", "operation"}
        BY <4>1, <4>3 DEF Control
      <4> QED BY <2>3, <3>1, <4>1, <4>2, <4>4
    <3> QED BY <3>1 DEF ReplayOutcomes
  <2>6. ReplayRecords
    BY DEF IInv, SaidOnce, ReplayRecords
  <2> QED BY <2>4, <2>5, <2>6, ReplayEvidence DEF JournalVerifies
<1> QED BY <1>1, Inductive, PTL

\* Physical work is single-flight across crashes, in memory and in the journal
\* (SingleFlight).
THEOREM FliesSingly == Spec => []SingleFlight
<1>1. ASSUME NEW S, \A a, b \in S : a = b PROVE Cardinality(S) <= 1
  <2>1. CASE S = {}
    BY <2>1, FS_EmptySet
  <2>2. ASSUME NEW a \in S PROVE Cardinality(S) <= 1
    <3>1. S = {a}
      BY <1>1, <2>2
    <3> QED BY <3>1, FS_Singleton
  <2> QED BY <2>1, <2>2
<1>2. TypeOK /\ IInv => SingleFlight
  <2> SUFFICES ASSUME TypeOK, IInv PROVE SingleFlight
    OBVIOUS
  <2>1. \A j, k \in Pending : j = k
    <3>1. CASE up = "down"
      <4>1. status = << >>
        BY <3>1 DEF IInv, InMemory
      <4> QED BY <4>1 DEF Pending
    <3>2. CASE up # "down"
      <4>1. \A n \in Pending : n \in Numbers /\ Undecided(n)
        BY <3>2, NextFacts, PendingFacts DEF IInv, Pending
      <4> QED BY <4>1 DEF IInv, OneOpen
    <3> QED BY <3>1, <3>2
  <2>2. \A j, k \in {n \in Numbers : Opens(At(n)) /\ Decisions(n) = {}} : j = k
    BY DEF IInv, OneOpen, Undecided
  <2>3. \A n \in Numbers : \A d, e \in Decisions(n) : d = e
    BY DEF IInv, DecidedOnce
  <2> QED BY <1>1, <2>1, <2>2, <2>3 DEF SingleFlight
<1> QED BY <1>2, Inductive, PTL
=============================================================================
