------------------------ MODULE RestoreHandoff_proofs ------------------------
(***************************************************************************)
(* Machine-checked proofs about RestoreHandoff, for any number of          *)
(* boundaries, works, rewrites and lost connections: its type invariant,   *)
(* that an archive is the save its receipt attests (ArchiveIsAttested),    *)
(* and that two pointers of one plan are one world (PairIsOneWorld).       *)
(*                                                                         *)
(* The argument.  What the journal says of a boundary does not change when *)
(* it grows: where the outcome is, the works before it, the receipts       *)
(* (Grows).  A game writes a save for a boundary only after the boundary   *)
(* converged, so the save holds the works before the outcome at least      *)
(* (SavedLater); the host admits a receipt only while nothing was ordered  *)
(* since, so it holds them at most (ReceiptsAgree).  Every plan anyone     *)
(* holds is made of receipts in the journal (PlansAreFiled), and an        *)
(* archive is moved only under a plan that attests it.                     *)
(***************************************************************************)
EXTENDS RestoreHandoff, FiniteSetTheorems, TLAPS

Boundaries == 1 .. Latest

\* Each boundary has one outcome, in the journal.
OneOutcome ==
    /\ Latest <= MaxBoundary /\ Works <= MaxWork
    /\ \A i \in Positions("outcome") : journal[i].boundary \in Boundaries
    /\ \A i, j \in Positions("outcome") : journal[i].boundary = journal[j].boundary => i = j
    /\ \A b \in Boundaries : \E i \in Positions("outcome") : journal[i].boundary = b

\* A game applies what is ordered, and had applied what was ordered before a boundary
\* when the boundary converged.
InStep ==
    \A p \in Peer : /\ applied[p] <= Works
                    /\ \A b \in Boundaries : WorldAt(b) <= applied[p]

\* A save for a boundary holds the works ordered before it, and perhaps later ones.
From(b, s) == WorldAt(b) <= s.world /\ s.world <= Works

SavedLater ==
    \A p \in Peer : \A b \in Boundary :
        disk[p][b] # NoSave =>
            b \in Boundaries /\ From(b, disk[p][b]) /\ 0 < disk[p][b].copy

Requested ==
    \A p \in Peer :
        /\ watch[p].phase = "observed" => watch[p].seen # 0
        /\ request[p].status # "none" =>
             \E b \in Boundary :
                 /\ request[p].boundary = b /\ disk[p][b] # NoSave
                 /\ request[p].status \in {"pending", "accepted"} => From(b, request[p].save)

\* A receipt is of the world of its boundary, nothing was ordered in between, and a
\* peer files once.
ReceiptsAgree ==
    /\ \A i \in Positions("receipt") : \E b \in Boundaries :
          /\ journal[i].boundary = b /\ journal[i].save.world = WorldAt(b)
          /\ OutcomeAt(b) < i
          /\ ~ \E k \in Positions("work") : OutcomeAt(b) < k /\ k < i
    /\ \A i, j \in Positions("receipt") :
          journal[i].boundary = journal[j].boundary /\ journal[i].peer = journal[j].peer
          => i = j

\* A plan names, for each peer, the save of a receipt in the journal.
IsFiled(plan) ==
    plan # NoPlan =>
        \A p \in Peer : \E i \in ReceiptsOf(plan.boundary, p) :
            journal[i].save = plan.saves[p]

PlansAreFiled ==
    /\ IsFiled(published.plan) /\ IsFiled(published.held) /\ IsFiled(received)
    /\ \A i \in DOMAIN wire : IsFiled(wire[i])
    /\ \A p \in Peer : IsFiled(watch[p].tried) /\ IsFiled(pointer[p].plan)
    /\ \A p \in Peer : pointer[p].plan # NoPlan => pointer[p].save = pointer[p].plan.saves[p]

IInv == /\ OneOutcome /\ InStep /\ SavedLater /\ Requested /\ ReceiptsAgree
        /\ PlansAreFiled

----------------------------------------------------------------------------
(* The journal                                                             *)

LEMMA Peers == Host \in Peer /\ Client \in Peer /\ Host # Client
BY RestoreHandoffAssumption DEF Peer

LEMMA Bounds == MaxBoundary \in Nat /\ MaxWork \in Nat /\ MaxTrouble \in Nat
BY RestoreHandoffAssumption

LEMMA Entries ==
    TypeOK => /\ journal \in Seq(EntryType) /\ Len(journal) \in Nat
              /\ DOMAIN journal = 1 .. Len(journal)
              /\ \A i \in DOMAIN journal : i \in Nat /\ journal[i] \in EntryType
BY DEF TypeOK

\* Positions of a kind are finitely many, so that they can be counted.
LEMMA Counts ==
    TypeOK => /\ \A type : Positions(type) \subseteq DOMAIN journal
                           /\ IsFiniteSet(Positions(type))
              /\ Works \in Nat /\ Latest \in Nat
<1> SUFFICES ASSUME TypeOK
             PROVE  /\ \A type : Positions(type) \subseteq DOMAIN journal
                                 /\ IsFiniteSet(Positions(type))
                    /\ Works \in Nat /\ Latest \in Nat
  OBVIOUS
<1>1. IsFiniteSet(1 .. Len(journal))
  BY Entries, FS_Interval
<1>2. \A type : Positions(type) \subseteq 1 .. Len(journal)
  BY Entries DEF Positions
<1>3. \A type : IsFiniteSet(Positions(type))
  BY <1>1, <1>2, FS_Subset
<1>4. Works \in Nat /\ Latest \in Nat
  BY <1>3, FS_CardinalityType DEF Works, Latest
<1> QED BY <1>2, <1>3, <1>4, Entries

\* The outcome of a boundary, and the works ordered before it.
LEMMA Outcomes ==
    TypeOK /\ OneOutcome =>
        \A b \in Boundaries :
            /\ b \in Boundary /\ b # 0 /\ b \in Nat
            /\ OutcomeAt(b) \in Positions("outcome") /\ OutcomeAt(b) \in DOMAIN journal
            /\ journal[OutcomeAt(b)].boundary = b
            /\ WorldAt(b) \in Nat /\ WorldAt(b) <= Works
<1> SUFFICES ASSUME TypeOK, OneOutcome, NEW b \in Boundaries
             PROVE  /\ b \in Boundary /\ b # 0 /\ b \in Nat
                    /\ OutcomeAt(b) \in Positions("outcome")
                    /\ OutcomeAt(b) \in DOMAIN journal
                    /\ journal[OutcomeAt(b)].boundary = b
                    /\ WorldAt(b) \in Nat /\ WorldAt(b) <= Works
  OBVIOUS
<1>1. b \in Boundary /\ b # 0 /\ b \in Nat
  BY Counts, Bounds DEF Boundaries, Boundary, OneOutcome
<1>2. OutcomeAt(b) \in Positions("outcome") /\ journal[OutcomeAt(b)].boundary = b
  BY DEF OneOutcome, OutcomeAt
<1> DEFINE before == {i \in Positions("work") : i < OutcomeAt(b)}
<1>3. IsFiniteSet(Positions("work")) /\ before \subseteq Positions("work")
  BY Counts
<1>4. IsFiniteSet(before) /\ Cardinality(before) <= Cardinality(Positions("work"))
  BY <1>3, FS_Subset
<1>5. WorldAt(b) \in Nat /\ WorldAt(b) <= Works
  BY <1>4, FS_CardinalityType DEF WorldAt, Works
<1> QED BY <1>1, <1>2, <1>5, Counts

\* While a boundary is READY no work was ordered since it.
LEMMA ReadyFacts ==
    TypeOK /\ OneOutcome =>
        /\ Ready \in 0 .. MaxBoundary
        /\ Ready # 0 => /\ Ready = Latest /\ Ready \in Boundaries /\ WorldAt(Ready) = Works
                        /\ \A k \in Positions("work") : k < OutcomeAt(Ready)
<1> SUFFICES ASSUME TypeOK, OneOutcome
             PROVE  /\ Ready \in 0 .. MaxBoundary
                    /\ Ready # 0 => /\ Ready = Latest /\ Ready \in Boundaries
                                    /\ WorldAt(Ready) = Works
                                    /\ \A k \in Positions("work") : k < OutcomeAt(Ready)
  OBVIOUS
<1>1. Latest \in Nat /\ Latest <= MaxBoundary
  BY Counts DEF OneOutcome
<1>2. Ready \in 0 .. MaxBoundary
  BY <1>1, Bounds DEF Ready
<1>3. ASSUME Ready # 0
      PROVE  /\ Ready = Latest /\ Ready \in Boundaries /\ WorldAt(Ready) = Works
             /\ \A k \in Positions("work") : k < OutcomeAt(Ready)
  <2>1. Ready = Latest /\ Latest # 0 /\ ~ \E i \in Positions("work") : i > OutcomeAt(Latest)
    BY <1>3 DEF Ready
  <2>2. Latest \in Boundaries
    BY <1>1, <2>1 DEF Boundaries
  <2>3. \A k \in Positions("work") : k \in Nat /\ k # OutcomeAt(Latest) /\ ~ k > OutcomeAt(Latest)
    BY <2>1, <2>2, Outcomes, Entries DEF Positions
  <2>4. OutcomeAt(Latest) \in Nat
    BY <2>2, Outcomes, Entries
  <2>5. \A k \in Positions("work") : k < OutcomeAt(Latest)
    BY <2>3, <2>4
  <2>6. {i \in Positions("work") : i < OutcomeAt(Latest)} = Positions("work")
    BY <2>5
  <2>7. WorldAt(Latest) = Works
    BY <2>6 DEF WorldAt, Works
  <2> QED BY <2>1, <2>2, <2>5, <2>7
<1> QED BY <1>2, <1>3

\* What the journal says of a boundary stays true when it grows.
LEMMA Grows ==
    ASSUME TypeOK, OneOutcome, NEW e \in EntryType, journal' = Append(journal, e)
    PROVE  /\ DOMAIN journal' = DOMAIN journal \union {Len(journal) + 1}
           /\ journal'[Len(journal) + 1] = e
           /\ \A i \in DOMAIN journal : journal'[i] = journal[i] /\ i < Len(journal) + 1
           /\ \A type : Positions(type)' =
                  Positions(type) \union (IF e.type = type THEN {Len(journal) + 1} ELSE {})
           /\ Works' = Works + (IF e.type = "work" THEN 1 ELSE 0)
           /\ Latest' = Latest + (IF e.type = "outcome" THEN 1 ELSE 0)
           /\ (e.type = "outcome" => e.boundary = Latest + 1) =>
                  \A b \in Boundaries : OutcomeAt(b)' = OutcomeAt(b) /\ WorldAt(b)' = WorldAt(b)
<1> DEFINE n == Len(journal) + 1
<1>1. journal \in Seq(EntryType) /\ Len(journal) \in Nat /\ DOMAIN journal = 1 .. Len(journal)
      /\ \A i \in DOMAIN journal : i \in Nat
  BY Entries
<1>2. /\ DOMAIN journal' = DOMAIN journal \union {n} /\ journal'[n] = e
      /\ \A i \in DOMAIN journal : journal'[i] = journal[i] /\ i < n
      /\ n \notin DOMAIN journal /\ n \in Nat
  BY <1>1
<1>3. \A type : Positions(type)' = Positions(type) \union (IF e.type = type THEN {n} ELSE {})
  BY <1>2 DEF Positions
<1>4. \A type : n \notin Positions(type) /\ IsFiniteSet(Positions(type))
  BY <1>2, Counts DEF Positions
<1>5. \A type : Cardinality(Positions(type) \union {n}) = Cardinality(Positions(type)) + 1
  BY <1>4, FS_AddElement
<1>6. Works' = Works + (IF e.type = "work" THEN 1 ELSE 0)
  <2>1. CASE e.type = "work"
    <3>1. Positions("work")' = Positions("work") \union {n}
      BY <1>3, <2>1
    <3> QED BY <1>5, <2>1, <3>1 DEF Works
  <2>2. CASE e.type # "work"
    <3>1. Positions("work")' = Positions("work")
      BY <1>3, <2>2
    <3>2. Works' = Works
      BY <3>1 DEF Works
    <3> QED BY <2>2, <3>2, Counts
  <2> QED BY <2>1, <2>2
<1>7. Latest' = Latest + (IF e.type = "outcome" THEN 1 ELSE 0)
  <2>1. CASE e.type = "outcome"
    <3>1. Positions("outcome")' = Positions("outcome") \union {n}
      BY <1>3, <2>1
    <3> QED BY <1>5, <2>1, <3>1 DEF Latest
  <2>2. CASE e.type # "outcome"
    <3>1. Positions("outcome")' = Positions("outcome")
      BY <1>3, <2>2
    <3>2. Latest' = Latest
      BY <3>1 DEF Latest
    <3> QED BY <2>2, <3>2, Counts
  <2> QED BY <2>1, <2>2
<1>8. ASSUME e.type = "outcome" => e.boundary = Latest + 1, NEW b \in Boundaries
      PROVE  OutcomeAt(b)' = OutcomeAt(b) /\ WorldAt(b)' = WorldAt(b)
  <2>1. OutcomeAt(b) \in Positions("outcome") /\ journal[OutcomeAt(b)].boundary = b
        /\ OutcomeAt(b) \in DOMAIN journal
    BY Outcomes
  <2>2. e.type = "outcome" => e.boundary # b
    BY <1>8, Counts DEF Boundaries
  <2>3. \A i \in Positions("outcome")' : journal'[i].boundary = b => i = OutcomeAt(b)
    BY <1>2, <1>3, <2>1, <2>2, Counts DEF OneOutcome
  <2>4. OutcomeAt(b) \in Positions("outcome")' /\ journal'[OutcomeAt(b)].boundary = b
    BY <1>2, <1>3, <2>1
  <2>5. OutcomeAt(b)' = CHOOSE i \in Positions("outcome")' : journal'[i].boundary = b
    BY DEF OutcomeAt
  <2>6. OutcomeAt(b)' = OutcomeAt(b)
    BY <2>3, <2>4, <2>5
  <2>7. {i \in Positions("work")' : i < OutcomeAt(b)} = {i \in Positions("work") : i < OutcomeAt(b)}
    <3>1. ~ n < OutcomeAt(b)
      BY <1>1, <1>2, <2>1
    <3> QED BY <1>3, <3>1
  <2>8. WorldAt(b)' = Cardinality({i \in Positions("work")' : i < OutcomeAt(b)'})
    BY DEF WorldAt
  <2> QED BY <2>6, <2>7, <2>8 DEF WorldAt
<1> QED BY <1>2, <1>3, <1>6, <1>7, <1>8

----------------------------------------------------------------------------
(* What a step changes                                                     *)

\* A receipt the host orders.
Filing(p) ==
    /\ request[p].status = "pending" /\ Admits(p) /\ ReceiptsOf(Ready, p) = {}
    /\ journal' = Append(journal, Receipt(Ready, p, request[p].save))

LEMMA Frame ==
    ASSUME [Next]_vars
    PROVE  /\ \/ journal' = journal
              \/ OrderWork \/ Converge
              \/ \E p \in Peer : Filing(p) /\ applied' = applied
           /\ applied' = applied \/ (journal' = journal /\ \E p \in Peer : ApplyWork(p))
           /\ disk' = disk \/ (journal' = journal /\ \E p \in Peer : Save(p))
           /\ \/ request' = request
              \/ /\ disk' = disk
                 /\ \E p \in Peer : \/ File(p) \/ Hash(p) \/ OrderReceipt(p)
                                    \/ request' = [request EXCEPT ![p] = NoRequest]
           /\ \/ /\ watch' = watch /\ pointer' = pointer
              \/ \E p \in Peer : Observe(p) \/ File(p) \/ Rejected(p) \/ WatcherFails(p)
              \/ BuildPlan \/ BindPlan \/ KeepPending
           /\ \/ published' = published /\ wire' = wire /\ received' = received
              \/ Publish \/ ReadPlan \/ BroadcastPlan \/ Join \/ Register
              \/ Disconnect \/ Accept
<1>1. CASE UNCHANGED vars
  BY <1>1 DEF vars
<1>2. CASE OrderWork \/ Converge \/ Heartbeat
  BY <1>2 DEF OrderWork, Converge, Heartbeat, game
<1>3. ASSUME NEW p \in Peer, ApplyWork(p) \/ Save(p)
      PROVE  /\ ApplyWork(p) => disk' = disk
             /\ Save(p) => applied' = applied
             /\ journal' = journal /\ request' = request /\ watch' = watch
             /\ pointer' = pointer /\ published' = published /\ wire' = wire
             /\ received' = received
  BY <1>3 DEF ApplyWork, Save, game
<1>4. ASSUME NEW p \in Peer, Watch(p)
      PROVE  /\ applied' = applied /\ disk' = disk /\ published' = published
             /\ wire' = wire /\ received' = received
             /\ journal' = journal \/ Filing(p)
             /\ \/ request' = request \/ File(p) \/ Hash(p) \/ OrderReceipt(p)
                \/ request' = [request EXCEPT ![p] = NoRequest]
             /\ \/ watch' = watch /\ pointer' = pointer
                \/ Observe(p) \/ File(p) \/ Rejected(p) \/ WatcherFails(p)
  <2>1. CASE Observe(p)
    BY <2>1 DEF Observe, watching
  <2>2. CASE File(p)
    BY <2>2 DEF File, watching
  <2>3. CASE Hash(p)
    BY <2>3 DEF Hash, watching
  <2>4. CASE OrderReceipt(p)
    BY <2>4 DEF OrderReceipt, Filing
  <2>5. CASE Rejected(p)
    BY <2>5 DEF Rejected, watching
  <2>6. CASE WatcherFails(p)
    BY <2>6 DEF WatcherFails, watching
  <2> QED BY <1>4, <2>1, <2>2, <2>3, <2>4, <2>5, <2>6 DEF Watch
<1>5. CASE BuildPlan \/ BindPlan \/ KeepPending
  BY <1>5, Peers DEF BuildPlan, BindPlan, KeepPending, watching
<1>6. CASE Publish \/ ReadPlan \/ BroadcastPlan \/ Join \/ Register \/ Accept \/ Disconnect
  BY <1>6 DEF Publish, ReadPlan, BroadcastPlan, Join, Register, Accept, Disconnect, exchanging
<1>7. \/ UNCHANGED vars \/ OrderWork \/ Converge \/ Heartbeat
      \/ \E p \in Peer : ApplyWork(p) \/ Save(p)
      \/ \E p \in Peer : Watch(p)
      \/ BuildPlan \/ BindPlan \/ KeepPending
      \/ Publish \/ ReadPlan \/ BroadcastPlan \/ Join \/ Register \/ Accept \/ Disconnect
  BY DEF Next, Exchange
<1>8. CASE \E p \in Peer : ApplyWork(p) \/ Save(p)
  BY <1>3, <1>8
<1>9. CASE \E p \in Peer : Watch(p)
  BY <1>4, <1>9
<1> QED BY <1>1, <1>2, <1>5, <1>6, <1>7, <1>8, <1>9

\* What the journal said still holds.
Persists ==
    /\ \A i \in DOMAIN journal : i \in DOMAIN journal' /\ journal'[i] = journal[i]
    /\ Works' \in Nat /\ Latest' \in Nat /\ Works <= Works' /\ Latest <= Latest'
    /\ \A b \in Boundaries : /\ b \in Boundaries'
                             /\ OutcomeAt(b)' = OutcomeAt(b) /\ WorldAt(b)' = WorldAt(b)

LEMMA JournalKept ==
    ASSUME TypeOK, OneOutcome, journal' = journal
    PROVE  OneOutcome' /\ Persists /\ Boundaries' = Boundaries /\ Works' = Works
           /\ Latest' = Latest /\ \A type : Positions(type)' = Positions(type)
<1>1. \A type : Positions(type)' = Positions(type)
  BY DEF Positions
<1>2. Works' = Works /\ Latest' = Latest
  BY <1>1 DEF Works, Latest
<1>3. Boundaries' = Boundaries
  BY <1>2 DEF Boundaries
<1>4. \A b : OutcomeAt(b)' = OutcomeAt(b)
  BY <1>1 DEF OutcomeAt
<1>5. \A b : WorldAt(b)' = WorldAt(b)
  BY <1>1, <1>4 DEF WorldAt
<1>6. OneOutcome'
  BY <1>1, <1>2, <1>3 DEF OneOutcome
<1> QED BY <1>1, <1>2, <1>3, <1>4, <1>5, <1>6, Counts DEF Persists

\* A receipt is an entry.
LEMMA FilingFacts ==
    ASSUME TypeOK, OneOutcome, NEW p \in Peer, Filing(p)
    PROVE  /\ Receipt(Ready, p, request[p].save) \in EntryType
           /\ Ready = request[p].boundary /\ request[p] \in RequestType
<1>1. request[p] \in RequestType
  BY DEF TypeOK
<1>2. request[p].boundary \in 0 .. MaxBoundary /\ request[p].save \in SaveType
  BY <1>1 DEF RequestType
<1> QED BY <1>1, <1>2, ReadyFacts DEF Filing, Admits, Receipt, EntryType

LEMMA NoSaveType == NoSave \in SaveType
BY Bounds DEF NoSave, SaveType

\* OneOutcome is kept, and what the journal said of a boundary.
LEMMA OneOutcomeStep ==
    ASSUME TypeOK, OneOutcome, [Next]_vars
    PROVE  OneOutcome' /\ Persists
<1>0. Works \in Nat /\ Latest \in Nat /\ Len(journal) \in Nat
  BY Counts, Entries
<1>1. CASE journal' = journal
  BY <1>1, JournalKept
<1>2. ASSUME NEW e \in EntryType, journal' = Append(journal, e),
             e.type = "work" => Works < MaxWork,
             e.type = "outcome" => e.boundary = Latest + 1 /\ Latest < MaxBoundary
      PROVE  OneOutcome' /\ Persists
  <2> DEFINE n == Len(journal) + 1
  <2>1. /\ DOMAIN journal' = DOMAIN journal \union {n} /\ journal'[n] = e
        /\ \A i \in DOMAIN journal : journal'[i] = journal[i] /\ i < n
        /\ Positions("outcome")' =
             Positions("outcome") \union (IF e.type = "outcome" THEN {n} ELSE {})
        /\ Works' = Works + (IF e.type = "work" THEN 1 ELSE 0)
        /\ Latest' = Latest + (IF e.type = "outcome" THEN 1 ELSE 0)
        /\ \A b \in Boundaries : OutcomeAt(b)' = OutcomeAt(b) /\ WorldAt(b)' = WorldAt(b)
    BY <1>2, Grows
  <2>2. Works' \in Nat /\ Latest' \in Nat /\ Works <= Works' /\ Latest <= Latest'
        /\ Works' <= MaxWork /\ Latest' <= MaxBoundary
    BY <1>0, <1>2, <2>1, Bounds DEF OneOutcome
  <2>3. \A b \in Boundaries : b \in Boundaries'
    BY <1>0, <2>2 DEF Boundaries
  <2>4. Persists
    BY <2>1, <2>2, <2>3 DEF Persists
  <2>5. \A i \in Positions("outcome") : i \in DOMAIN journal /\ journal'[i] = journal[i]
                                        /\ journal[i].boundary \in Boundaries
    BY <2>1 DEF OneOutcome, Positions
  <2>6. CASE e.type = "outcome"
    <3>1. Positions("outcome")' = Positions("outcome") \union {n}
          /\ journal'[n].boundary = Latest + 1 /\ Latest' = Latest + 1
      BY <1>2, <2>1, <2>6
    <3>2. \A b : b \in Boundaries' <=> b \in Boundaries \/ b = Latest + 1
      BY <1>0, <3>1 DEF Boundaries
    <3>3. \A b \in Boundaries : b # Latest + 1
      BY <1>0 DEF Boundaries
    <3>4. \A i \in Positions("outcome")' : journal'[i].boundary \in Boundaries'
      BY <2>5, <3>1, <3>2
    <3>5. \A i, j \in Positions("outcome")' :
              journal'[i].boundary = journal'[j].boundary => i = j
      BY <2>5, <3>1, <3>3 DEF OneOutcome
    <3>6. \A b \in Boundaries' : \E i \in Positions("outcome")' : journal'[i].boundary = b
      BY <2>5, <3>1, <3>2 DEF OneOutcome
    <3> QED BY <2>2, <2>4, <3>4, <3>5, <3>6 DEF OneOutcome
  <2>7. CASE e.type # "outcome"
    <3>0. Positions("outcome")' = Positions("outcome")
      BY <2>1, <2>7
    <3>1. Positions("outcome")' = Positions("outcome") /\ Latest' = Latest
      BY <1>0, <2>1, <2>7, <3>0
    <3>2. Boundaries' = Boundaries
      BY <3>1 DEF Boundaries
    <3> QED BY <2>2, <2>4, <2>5, <3>1, <3>2 DEF OneOutcome
  <2> QED BY <2>6, <2>7
<1>3. CASE OrderWork
  <2>1. Work \in EntryType /\ Work.type = "work"
    BY Peers, Bounds, NoSaveType DEF Work, EntryType
  <2> QED BY <1>2, <1>3, <2>1 DEF OrderWork
<1>4. CASE Converge
  <2>1. Latest + 1 \in 0 .. MaxBoundary
    BY <1>0, <1>4, Bounds DEF Converge
  <2>2. Outcome(Latest + 1) \in EntryType /\ Outcome(Latest + 1).type = "outcome"
        /\ Outcome(Latest + 1).boundary = Latest + 1
    BY <2>1, Peers, NoSaveType DEF Outcome, EntryType
  <2> QED BY <1>2, <1>4, <2>2 DEF Converge
<1>5. ASSUME NEW p \in Peer, Filing(p)
      PROVE  OneOutcome' /\ Persists
  <2>1. Receipt(Ready, p, request[p].save) \in EntryType
    BY <1>5, FilingFacts
  <2>2. Receipt(Ready, p, request[p].save).type = "receipt"
    BY DEF Receipt
  <2> QED BY <1>2, <1>5, <2>1, <2>2 DEF Filing
<1> QED BY <1>1, <1>3, <1>4, <1>5, Frame

----------------------------------------------------------------------------
(* Each part of the invariant is kept                                      *)

LEMMA TypedApplied == TypeOK => applied \in [Peer -> Nat]
BY Bounds DEF TypeOK

LEMMA Worlds == TypeOK /\ OneOutcome => \A b \in Boundaries : WorldAt(b) <= Works
BY Outcomes

LEMMA InStepStep ==
    ASSUME TypeOK, OneOutcome, InStep, TypeOK', OneOutcome', Persists, [Next]_vars
    PROVE  InStep'
<1>0. applied \in [Peer -> Nat] /\ Works \in Nat /\ Works' \in Nat /\ Works <= Works'
  BY TypedApplied, Counts DEF Persists
<1>1. CASE applied' = applied /\ ~ Converge
  <2>1. \A b \in Boundaries' : b \in Boundaries
    <3>1. CASE journal' = journal
      BY <3>1, JournalKept
    <3>2. CASE OrderWork
      <4>1. Work \in EntryType /\ Work.type = "work"
        BY Peers, Bounds, NoSaveType DEF Work, EntryType
      <4>2. Latest' = Latest + (IF Work.type = "outcome" THEN 1 ELSE 0)
        BY <3>2, <4>1, Grows DEF OrderWork
      <4> QED BY <4>1, <4>2, Counts DEF Boundaries
    <3>3. ASSUME NEW p \in Peer, Filing(p)
          PROVE  \A b \in Boundaries' : b \in Boundaries
      <4> DEFINE r == Receipt(Ready, p, request[p].save)
      <4>1. r \in EntryType /\ r.type = "receipt"
        BY <3>3, FilingFacts DEF Receipt
      <4> HIDE DEF r
      <4>2. journal' = Append(journal, r)
        BY <3>3 DEF Filing, r
      <4>3. Latest' = Latest + (IF r.type = "outcome" THEN 1 ELSE 0)
        BY <4>1, <4>2, Grows
      <4> QED BY <4>1, <4>3, Counts DEF Boundaries
    <3> QED BY <1>1, <3>1, <3>2, <3>3, Frame
  <2>2. \A b \in Boundaries : WorldAt(b)' = WorldAt(b)
    BY DEF Persists
  <2>3. \A p \in Peer : applied[p] <= Works'
    BY <1>0 DEF InStep
  <2>4. \A p \in Peer : \A b \in Boundaries' : WorldAt(b)' <= applied[p]
    BY <2>1, <2>2 DEF InStep
  <2> QED BY <1>1, <2>3, <2>4 DEF InStep
<1>2. CASE Converge
  <2>0. applied' = applied /\ \A p \in Peer : applied[p] = Works
    BY <1>2 DEF Converge, game
  <2>1. Latest + 1 \in 0 .. MaxBoundary
    BY <1>2, Counts, Bounds DEF Converge
  <2> DEFINE o == Outcome(Latest + 1)
  <2>2. o \in EntryType /\ o.type = "outcome"
    BY <2>1, Peers, NoSaveType DEF Outcome, EntryType
  <2> HIDE DEF o
  <2>3. journal' = Append(journal, o)
    BY <1>2 DEF Converge, o
  <2>4. Works' = Works + (IF o.type = "work" THEN 1 ELSE 0)
    BY <2>2, <2>3, Grows
  <2>5. Works' = Works
    BY <1>0, <2>2, <2>4
  <2>6. (TypeOK /\ OneOutcome => \A b \in Boundaries : WorldAt(b) <= Works)'
    BY Worlds, PTL
  <2>7. \A b \in Boundaries' : WorldAt(b)' <= Works'
    BY <2>6
  <2> QED BY <1>0, <2>0, <2>5, <2>7 DEF InStep
<1>3. ASSUME journal' = journal, NEW p \in Peer, ApplyWork(p)
      PROVE  InStep'
  <2>1. applied[p] < Works /\ applied' = [applied EXCEPT ![p] = @ + 1]
    BY <1>3 DEF ApplyWork
  <2>2. \A q \in Peer : applied'[q] \in Nat /\ applied[q] <= applied'[q] /\ applied'[q] <= Works
    BY <1>0, <2>1 DEF InStep
  <2>3. Works' = Works /\ Boundaries' = Boundaries
    BY <1>3, JournalKept
  <2>4. \A b \in Boundaries : WorldAt(b)' = WorldAt(b) /\ WorldAt(b) \in Nat
    BY Outcomes DEF Persists
  <2>5. \A q \in Peer : \A b \in Boundaries' : WorldAt(b)' <= applied'[q]
    BY <1>0, <2>2, <2>3, <2>4 DEF InStep
  <2> QED BY <2>2, <2>3, <2>5 DEF InStep
<1> QED BY <1>1, <1>2, <1>3, Frame

\* A watcher that observes has seen a boundary.
LEMMA WatchStep ==
    ASSUME TypeOK, OneOutcome, [Next]_vars,
           \A p \in Peer : watch[p].phase = "observed" => watch[p].seen # 0
    PROVE  \A p \in Peer : watch'[p].phase = "observed" => watch'[p].seen # 0
<1>1. watch \in [Peer -> WatchType]
  BY DEF TypeOK
<1>2. CASE watch' = watch
  BY <1>2
<1>3. ASSUME NEW p \in Peer, Observe(p)
      PROVE  watch'[p].seen # 0 /\ \A q \in Peer : q # p => watch'[q] = watch[q]
  <2>1. View(p) \in Nat
    BY ReadyFacts, Bounds DEF View, TypeOK
  <2>2. View(p) # 0
    BY <1>3, <2>1 DEF Observe
  <2> QED BY <1>1, <1>3, <2>2 DEF Observe, WatchType
<1>4. ASSUME NEW p \in Peer, File(p) \/ Rejected(p) \/ WatcherFails(p)
      PROVE  watch'[p].phase # "observed" /\ \A q \in Peer : q # p => watch'[q] = watch[q]
  BY <1>1, <1>4 DEF File, Rejected, WatcherFails, WatchType
<1>5. ASSUME BuildPlan \/ KeepPending
      PROVE  \E p \in Peer : /\ watch'[p].phase # "observed"
                             /\ \A q \in Peer : q # p => watch'[q] = watch[q]
  <2>1. CASE BuildPlan
    BY <1>1, <2>1, Peers DEF BuildPlan, Archived, WatchType
  <2>2. CASE KeepPending
    BY <1>1, <2>2, Peers DEF KeepPending, Archived, WatchType
  <2> QED BY <1>5, <2>1, <2>2
<1>6. ASSUME BindPlan
      PROVE  /\ watch'[Client].phase = watch[Client].phase
             /\ watch'[Client].seen = watch[Client].seen
             /\ \A q \in Peer : q # Client => watch'[q] = watch[q]
  BY <1>1, <1>6, Peers DEF BindPlan, WatchType
<1> QED BY <1>2, <1>3, <1>4, <1>5, <1>6, Peers, Frame

\* A file is a save of its boundary or of none; a later one has a higher copy number.
LEMMA DiskFacts ==
    TypeOK => \A p \in Peer : \A b \in Boundary :
                 disk[p][b] \in SaveType /\ disk[p][b].world \in Nat /\ disk[p][b].copy \in Nat
BY Bounds DEF TypeOK, SaveType

\* Save changes one file.
LEMMA Overwrites ==
    ASSUME TypeOK, NEW q \in Peer, Save(q), NEW p \in Peer, NEW b \in Boundary
    PROVE  disk'[p][b] = IF p = q /\ b = Latest
                         THEN [world |-> applied[q], copy |-> disk[q][b].copy + 1]
                         ELSE disk[p][b]
<1>1. disk \in [Peer -> [Boundary -> SaveType]]
  BY DEF TypeOK
<1>2. disk' = [disk EXCEPT ![q][Latest] = [world |-> applied[q], copy |-> @.copy + 1]]
  BY DEF Save
<1> QED BY <1>1, <1>2

LEMMA SavedLaterStep ==
    ASSUME TypeOK, OneOutcome, InStep, SavedLater, OneOutcome', Persists, [Next]_vars
    PROVE  SavedLater'
<1>0. Works \in Nat /\ Works' \in Nat /\ Works <= Works' /\ Latest \in Nat
  BY Counts DEF Persists
<1>1. \A b \in Boundaries : b \in Boundaries' /\ WorldAt(b)' = WorldAt(b) /\ WorldAt(b) \in Nat
  BY Outcomes DEF Persists
<1>2. CASE disk' = disk
  <2> SUFFICES ASSUME NEW p \in Peer, NEW b \in Boundary, disk[p][b] # NoSave
               PROVE  b \in Boundaries' /\ From(b, disk[p][b])' /\ 0 < disk[p][b].copy
    BY <1>2 DEF SavedLater, From
  <2>1. b \in Boundaries /\ From(b, disk[p][b]) /\ 0 < disk[p][b].copy
    BY DEF SavedLater
  <2>2. disk[p][b].world \in Nat
    BY DiskFacts
  <2>3. WorldAt(b)' <= disk[p][b].world /\ disk[p][b].world <= Works'
    BY <1>0, <1>1, <2>1, <2>2 DEF From
  <2> QED BY <1>1, <1>2, <2>1, <2>3 DEF From
<1>3. ASSUME journal' = journal, NEW q \in Peer, Save(q)
      PROVE  SavedLater'
  <2> SUFFICES ASSUME NEW p \in Peer, NEW b \in Boundary, disk'[p][b] # NoSave
               PROVE  /\ b \in Boundaries' /\ 0 < disk'[p][b].copy
                      /\ WorldAt(b)' <= disk'[p][b].world /\ disk'[p][b].world <= Works'
    BY DEF SavedLater, From
  <2>1. disk'[p][b] = IF p = q /\ b = Latest
                      THEN [world |-> applied[q], copy |-> disk[q][b].copy + 1]
                      ELSE disk[p][b]
    BY <1>3, Overwrites
  <2>2. CASE p = q /\ b = Latest
    <3>1. b \in Boundaries
      BY <1>0, <2>2 DEF Boundaries, Boundary
    <3>2. WorldAt(b) <= applied[q] /\ applied[q] <= Works /\ applied[q] \in Nat
      BY <3>1, TypedApplied DEF InStep
    <3>3. disk'[p][b].world = applied[q] /\ disk'[p][b].copy = disk[q][b].copy + 1
          /\ disk[q][b].copy \in Nat
      BY <2>1, <2>2, DiskFacts
    <3> QED BY <1>0, <1>1, <3>1, <3>2, <3>3
  <2>3. CASE ~ (p = q /\ b = Latest)
    <3>1. disk'[p][b] = disk[p][b] /\ disk[p][b].world \in Nat
      BY <2>1, <2>3, DiskFacts
    <3>2. b \in Boundaries /\ From(b, disk[p][b]) /\ 0 < disk[p][b].copy
      BY <3>1 DEF SavedLater
    <3> QED BY <1>0, <1>1, <3>1, <3>2 DEF From
  <2> QED BY <2>2, <2>3
<1> QED BY <1>2, <1>3, Frame

\* A file may be written over, and is not removed.
LEMMA NeverRemoved ==
    ASSUME TypeOK, SavedLater, [Next]_vars, NEW p \in Peer, NEW b \in Boundary,
           disk[p][b] # NoSave
    PROVE  disk'[p][b] # NoSave
<1>1. CASE disk' = disk
  BY <1>1
<1>2. ASSUME NEW q \in Peer, Save(q)
      PROVE  disk'[p][b] # NoSave
  <2>0. disk'[p][b] = IF p = q /\ b = Latest
                      THEN [world |-> applied[q], copy |-> disk[q][b].copy + 1]
                      ELSE disk[p][b]
    BY <1>2, Overwrites
  <2>1. disk'[p][b] = disk[p][b] \/ disk'[p][b].copy = disk[q][b].copy + 1
    BY <2>0
  <2>2. disk[q][b].copy \in Nat
    BY DiskFacts
  <2>3. disk'[p][b] = disk[p][b] \/ disk'[p][b].copy # 0
    BY <2>1, <2>2
  <2> QED BY <2>3 DEF NoSave
<1> QED BY <1>1, <1>2, Frame

LEMMA RequestedStep ==
    ASSUME TypeOK, OneOutcome, SavedLater, Requested, OneOutcome', Persists, [Next]_vars
    PROVE  Requested'
<1>0. Works \in Nat /\ Works' \in Nat /\ Works <= Works'
  BY Counts DEF Persists
<1>1. \A b \in Boundaries : WorldAt(b)' = WorldAt(b) /\ WorldAt(b) \in Nat
  BY Outcomes DEF Persists
<1>2. request \in [Peer -> RequestType] /\ watch \in [Peer -> WatchType]
      /\ \A p \in Peer : request[p] \in RequestType /\ request[p].save.world \in Nat
  BY Bounds DEF TypeOK, RequestType, SaveType
\* What is said of one peer's request.
<1> DEFINE Good(r, p) ==
             r.status # "none" =>
                 \E b \in Boundary :
                     /\ r.boundary = b /\ disk'[p][b] # NoSave
                     /\ r.status \in {"pending", "accepted"} =>
                          WorldAt(b)' <= r.save.world /\ r.save.world <= Works'
\* A save made of this boundary is still one, and was never removed.
<1>3. ASSUME NEW p \in Peer, NEW b \in Boundary, disk[p][b] # NoSave, NEW s,
             From(b, s), s.world \in Nat
      PROVE  disk'[p][b] # NoSave /\ WorldAt(b)' <= s.world /\ s.world <= Works'
  <2>1. b \in Boundaries
    BY <1>3 DEF SavedLater
  <2> QED BY <1>0, <1>1, <1>3, <2>1, NeverRemoved DEF From
<1>4. \A p \in Peer : Good(request[p], p)
  <2> SUFFICES ASSUME NEW p \in Peer, request[p].status # "none"
               PROVE  \E b \in Boundary :
                          /\ request[p].boundary = b /\ disk'[p][b] # NoSave
                          /\ request[p].status \in {"pending", "accepted"} =>
                               WorldAt(b)' <= request[p].save.world
                               /\ request[p].save.world <= Works'
    OBVIOUS
  <2>1. PICK b \in Boundary :
            /\ request[p].boundary = b /\ disk[p][b] # NoSave
            /\ request[p].status \in {"pending", "accepted"} => From(b, request[p].save)
    BY DEF Requested
  <2>2. disk'[p][b] # NoSave
    BY <2>1, NeverRemoved
  <2>3. request[p].status \in {"pending", "accepted"} =>
           WorldAt(b)' <= request[p].save.world /\ request[p].save.world <= Works'
    BY <1>2, <1>3, <2>1
  <2> QED BY <2>1, <2>2, <2>3
<1>5. (\A p \in Peer : Good(request'[p], p)) =>
         \A p \in Peer : request'[p].status # "none" =>
             \E b \in Boundary :
                 /\ request'[p].boundary = b /\ disk'[p][b] # NoSave
                 /\ request'[p].status \in {"pending", "accepted"} => From(b, request[p].save)'
  BY DEF From
<1> HIDE DEF Good
<1>6. ASSUME NEW p \in Peer, NEW r, request' = [request EXCEPT ![p] = r], Good(r, p)
      PROVE  \A q \in Peer : Good(request'[q], q)
  <2>1. \A q \in Peer : request'[q] = IF q = p THEN r ELSE request[q]
    BY <1>2, <1>6
  <2> QED BY <1>4, <1>6, <2>1
<1>7. ASSUME request' = request
      PROVE  \A q \in Peer : Good(request'[q], q)
  BY <1>4, <1>7
<1>8. ASSUME NEW p \in Peer, File(p), request' # request
      PROVE  \A q \in Peer : Good(request'[q], q)
  <2> DEFINE r == [boundary |-> watch[p].seen, status |-> "submitted", save |-> NoSave]
  <2>1. request' = [request EXCEPT ![p] = r] /\ watch[p].phase = "observed"
        /\ disk[p][watch[p].seen] # NoSave
    BY <1>8 DEF File
  <2>2. watch[p].seen \in Boundary
    BY <1>2, <2>1, Bounds DEF Requested, WatchType, Boundary
  <2>3. disk'[p][watch[p].seen] # NoSave
    BY <2>1, <2>2, NeverRemoved
  <2>4. Good(r, p)
    BY <2>2, <2>3 DEF Good
  <2> QED BY <1>6, <2>1, <2>4
<1>9. ASSUME NEW p \in Peer, Hash(p)
      PROVE  \A q \in Peer : Good(request'[q], q)
  <2>1. PICK b \in Boundary : request[p].boundary = b /\ disk[p][b] # NoSave
    BY <1>9 DEF Hash, Requested
  <2>2. CASE request' = [request EXCEPT ![p].status = "rejected"]
    <3> DEFINE r == [request[p] EXCEPT !.status = "rejected"]
    <3>1. request' = [request EXCEPT ![p] = r]
      BY <1>2, <2>2
    <3>2. r.boundary = b /\ r.status = "rejected"
      BY <1>2, <2>1 DEF RequestType
    <3>3. disk'[p][b] # NoSave
      BY <2>1, NeverRemoved
    <3>4. Good(r, p)
      BY <3>2, <3>3 DEF Good
    <3> QED BY <1>6, <3>1, <3>4
  <2>3. CASE request' = [request EXCEPT ![p].status = "pending",
                                        ![p].save = disk[p][request[p].boundary]]
    <3> DEFINE r == [request[p] EXCEPT !.status = "pending", !.save = disk[p][b]]
    <3>1. request' = [request EXCEPT ![p] = r]
      BY <1>2, <2>1, <2>3
    <3>2. r.boundary = b /\ r.save = disk[p][b] /\ r.status = "pending"
      BY <1>2, <2>1 DEF RequestType
    <3>3. From(b, disk[p][b]) /\ disk[p][b].world \in Nat
      BY <2>1, DiskFacts DEF SavedLater
    <3>4. disk'[p][b] # NoSave
      BY <2>1, NeverRemoved
    <3> HIDE DEF r
    <3>6. WorldAt(b)' <= r.save.world /\ r.save.world <= Works'
      BY <1>3, <2>1, <3>2, <3>3
    <3>5. Good(r, p)
      BY <3>2, <3>4, <3>6 DEF Good
    <3> QED BY <1>6, <3>1, <3>5
  <2> QED BY <1>9, <2>2, <2>3 DEF Hash
<1>10. ASSUME NEW p \in Peer, OrderReceipt(p)
      PROVE  \A q \in Peer : Good(request'[q], q)
  <2>1. PICK s \in {"accepted", "rejected"} : request' = [request EXCEPT ![p].status = s]
    BY <1>10 DEF OrderReceipt
  <2>2. request[p].status = "pending" /\ Good(request[p], p)
    BY <1>4, <1>10 DEF OrderReceipt
  <2> DEFINE r == [request[p] EXCEPT !.status = s]
  <2>3. request' = [request EXCEPT ![p] = r]
    BY <1>2, <2>1
  <2>4. r.boundary = request[p].boundary /\ r.save = request[p].save /\ r.status = s
    BY <1>2 DEF RequestType
  <2> HIDE DEF r
  <2>5. Good(r, p)
    BY <2>2, <2>4 DEF Good
  <2> QED BY <1>6, <2>3, <2>5
<1>11. ASSUME NEW p \in Peer, request' = [request EXCEPT ![p] = NoRequest]
      PROVE  \A q \in Peer : Good(request'[q], q)
  <2>1. Good(NoRequest, p)
    BY DEF Good, NoRequest
  <2> QED BY <1>6, <1>11, <2>1
<1>12. \A q \in Peer : Good(request'[q], q)
  <2>1. \/ request' = request
        \/ \E p \in Peer : \/ File(p) \/ Hash(p) \/ OrderReceipt(p)
                            \/ request' = [request EXCEPT ![p] = NoRequest]
    BY Frame
  <2>2. CASE request' = request
    BY <1>7, <2>2
  <2>3. ASSUME request' # request, NEW p \in Peer,
               \/ File(p) \/ Hash(p) \/ OrderReceipt(p)
               \/ request' = [request EXCEPT ![p] = NoRequest]
        PROVE  \A q \in Peer : Good(request'[q], q)
    <3>1. CASE File(p)
      BY <1>8, <2>3, <3>1
    <3>2. CASE Hash(p)
      BY <1>9, <2>3, <3>2
    <3>3. CASE OrderReceipt(p)
      BY <1>10, <2>3, <3>3
    <3>4. CASE request' = [request EXCEPT ![p] = NoRequest]
      BY <1>11, <2>3, <3>4
    <3> QED BY <2>3, <3>1, <3>2, <3>3, <3>4
  <2> QED BY <2>1, <2>2, <2>3
<1>13. \A p \in Peer : watch'[p].phase = "observed" => watch'[p].seen # 0
  <2>1. \A p \in Peer : watch[p].phase = "observed" => watch[p].seen # 0
    BY DEF Requested
  <2> QED BY <2>1, WatchStep
<1> QED BY <1>5, <1>12, <1>13 DEF Requested

\* The receipts stay what they are, and a new one is of the world of its boundary.
LEMMA ReceiptsAgreeStep ==
    ASSUME TypeOK, OneOutcome, Requested, ReceiptsAgree, OneOutcome', Persists, [Next]_vars
    PROVE  ReceiptsAgree'
<1>0. /\ \A i \in DOMAIN journal : i \in DOMAIN journal' /\ journal'[i] = journal[i]
      /\ \A b \in Boundaries : b \in Boundaries' /\ OutcomeAt(b)' = OutcomeAt(b)
                               /\ WorldAt(b)' = WorldAt(b)
  BY DEF Persists
<1>1. CASE journal' = journal
  <2>1. Positions("receipt")' = Positions("receipt") /\ Positions("work")' = Positions("work")
    BY <1>1, JournalKept
  <2> QED BY <1>0, <1>1, <2>1 DEF ReceiptsAgree
<1> DEFINE n == Len(journal) + 1
\* An old receipt, when the journal grows by an entry of any kind.
<1>2. ASSUME NEW e \in EntryType, journal' = Append(journal, e),
             NEW i \in Positions("receipt")
      PROVE  /\ i \in DOMAIN journal /\ journal'[i] = journal[i] /\ i # n
             /\ \E b \in Boundaries' :
                   /\ journal'[i].boundary = b /\ journal'[i].save.world = WorldAt(b)'
                   /\ OutcomeAt(b)' < i
                   /\ ~ \E k \in Positions("work")' : OutcomeAt(b)' < k /\ k < i
  <2>1. /\ \A j \in DOMAIN journal : journal'[j] = journal[j] /\ j < n
        /\ Positions("work")' =
             Positions("work") \union (IF e.type = "work" THEN {n} ELSE {})
    BY <1>2, Grows
  <2>2. i \in DOMAIN journal /\ journal'[i] = journal[i] /\ i < n /\ i \in Nat /\ n \in Nat
    BY <1>2, <2>1, Entries DEF Positions
  <2>3. PICK b \in Boundaries :
            /\ journal[i].boundary = b /\ journal[i].save.world = WorldAt(b)
            /\ OutcomeAt(b) < i
            /\ ~ \E k \in Positions("work") : OutcomeAt(b) < k /\ k < i
    BY DEF ReceiptsAgree
  <2>4. \A k \in Positions("work")' : k \in Positions("work") \/ k = n
    BY <2>1
  <2>5. ~ \E k \in Positions("work")' : OutcomeAt(b) < k /\ k < i
    BY <2>2, <2>3, <2>4
  <2> QED BY <1>0, <2>2, <2>3, <2>5
<1>3. ASSUME NEW e \in EntryType, journal' = Append(journal, e), e.type # "receipt"
      PROVE  ReceiptsAgree'
  <2>1. Positions("receipt")' =
          Positions("receipt") \union (IF e.type = "receipt" THEN {n} ELSE {})
    BY <1>3, Grows
  <2>2. Positions("receipt")' = Positions("receipt")
    BY <1>3, <2>1
  <2>3. \A i, j \in Positions("receipt")' :
            journal'[i].boundary = journal'[j].boundary /\ journal'[i].peer = journal'[j].peer
            => i = j
    BY <1>2, <1>3, <2>2 DEF ReceiptsAgree
  <2> QED BY <1>2, <1>3, <2>2, <2>3 DEF ReceiptsAgree
<1>4. CASE OrderWork
  <2>1. Work \in EntryType /\ Work.type = "work"
    BY Peers, Bounds, NoSaveType DEF Work, EntryType
  <2> QED BY <1>3, <1>4, <2>1 DEF OrderWork
<1>5. CASE Converge
  <2>1. Latest + 1 \in 0 .. MaxBoundary
    BY <1>5, Counts, Bounds DEF Converge
  <2>2. Outcome(Latest + 1) \in EntryType /\ Outcome(Latest + 1).type = "outcome"
    BY <2>1, Peers, NoSaveType DEF Outcome, EntryType
  <2> QED BY <1>3, <1>5, <2>2 DEF Converge
<1>6. ASSUME NEW p \in Peer, Filing(p)
      PROVE  ReceiptsAgree'
  <2>1. PICK e \in EntryType : e = Receipt(Ready, p, request[p].save)
    BY <1>6, FilingFacts
  <2>2. PICK b \in Boundary : /\ request[p].boundary = b /\ From(b, request[p].save)
    BY <1>6 DEF Requested, Filing
  <2>3. Ready = b /\ b # 0
    BY <1>6, <2>2, FilingFacts DEF Boundary
  <2>4. b \in Boundaries /\ WorldAt(b) = Works
        /\ \A k \in Positions("work") : k < OutcomeAt(b)
    BY <2>3, ReadyFacts
  <2>5. e.type = "receipt" /\ e.boundary = b /\ e.peer = p /\ e.save = request[p].save
        /\ journal' = Append(journal, e) /\ ReceiptsOf(b, p) = {}
    BY <1>6, <2>1, <2>3 DEF Filing, Receipt
  <2>6. e.save.world = WorldAt(b)
    <3>1. request[p].save.world \in Nat
      BY Bounds DEF TypeOK, RequestType, SaveType
    <3> QED BY <2>2, <2>4, <2>5, <3>1, Counts DEF From
  <2>7. /\ \A j \in DOMAIN journal : journal'[j] = journal[j] /\ j < n
        /\ journal'[n] = e
        /\ Positions("receipt")' =
             Positions("receipt") \union (IF e.type = "receipt" THEN {n} ELSE {})
        /\ Positions("work")' =
             Positions("work") \union (IF e.type = "work" THEN {n} ELSE {})
    BY <2>5, Grows
  <2>8. Positions("receipt")' = Positions("receipt") \union {n}
        /\ Positions("work")' = Positions("work")
    BY <2>5, <2>7
  <2>9. OutcomeAt(b) < n /\ OutcomeAt(b) \in Nat /\ Positions("work") \subseteq Nat
    BY <2>4, <2>7, Outcomes, Entries, Counts
  <2>10. ~ \E k \in Positions("work")' : OutcomeAt(b) < k /\ k < n
    BY <2>4, <2>8, <2>9
  <2>11. \E c \in Boundaries' :
            /\ journal'[n].boundary = c /\ journal'[n].save.world = WorldAt(c)'
            /\ OutcomeAt(c)' < n
            /\ ~ \E k \in Positions("work")' : OutcomeAt(c)' < k /\ k < n
    BY <1>0, <2>4, <2>5, <2>6, <2>7, <2>9, <2>10
  <2>12. \A i \in Positions("receipt") :
            ~ (journal[i].boundary = b /\ journal[i].peer = p)
    BY <2>5 DEF ReceiptsOf
  <2>13. \A i, j \in Positions("receipt")' :
            journal'[i].boundary = journal'[j].boundary /\ journal'[i].peer = journal'[j].peer
            => i = j
    BY <1>2, <2>5, <2>7, <2>8, <2>12 DEF ReceiptsAgree
  <2> QED BY <1>2, <2>5, <2>8, <2>11, <2>13 DEF ReceiptsAgree
<1> QED BY <1>1, <1>4, <1>5, <1>6, Frame

----------------------------------------------------------------------------
(* The plans                                                               *)

\* The plan of a boundary that can be restored is made of receipts.
LEMMA PlanIsFiled ==
    ASSUME TypeOK, NEW b \in 0 .. MaxBoundary, Restorable(b)
    PROVE  PlanFor(b) \in PlanType /\ PlanFor(b).boundary = b /\ IsFiled(PlanFor(b))
<1>1. ASSUME NEW p \in Peer
      PROVE  \E i \in ReceiptsOf(b, p) :
                 i \in DOMAIN journal /\ PlanFor(b).saves[p] = journal[i].save
  <2> DEFINE i == CHOOSE i \in ReceiptsOf(b, p) : TRUE
  <2>1. i \in ReceiptsOf(b, p)
    BY DEF Restorable
  <2>2. PlanFor(b).saves[p] = journal[i].save
    BY DEF PlanFor
  <2>3. i \in DOMAIN journal
    BY <2>1 DEF ReceiptsOf, Positions
  <2> QED BY <2>1, <2>2, <2>3
<1>2. PlanFor(b).boundary = b
  BY DEF PlanFor
<1>3. \A p \in Peer : PlanFor(b).saves[p] \in SaveType
  BY <1>1, Entries DEF EntryType
<1>4. PlanFor(b) = [boundary |-> b, saves |-> [p \in Peer |-> PlanFor(b).saves[p]]]
  BY DEF PlanFor
<1>5. PlanFor(b) \in PlanType
  BY <1>3, <1>4 DEF PlanType
<1> QED BY <1>1, <1>2, <1>5 DEF IsFiled

\* A plan that is filed stays filed.
LEMMA FiledStays ==
    ASSUME Persists, NEW plan, IsFiled(plan)
    PROVE  IsFiled(plan)'
<1> SUFFICES ASSUME plan # NoPlan, NEW p \in Peer
             PROVE  \E i \in ReceiptsOf(plan.boundary, p)' : journal'[i].save = plan.saves[p]
  BY DEF IsFiled
<1>1. PICK i \in ReceiptsOf(plan.boundary, p) : journal[i].save = plan.saves[p]
  BY DEF IsFiled
<1>2. i \in DOMAIN journal' /\ journal'[i] = journal[i]
  BY <1>1 DEF Persists, ReceiptsOf, Positions
<1>3. i \in ReceiptsOf(plan.boundary, p)'
  BY <1>1, <1>2 DEF ReceiptsOf, Positions
<1> QED BY <1>1, <1>2, <1>3

\* Everything the machines hold: each plan is NoPlan, or one of a step before, or the
\* one the host's watcher builds.
Held == {published.plan, published.held, received, NoPlan} \union {wire[i] : i \in DOMAIN wire}
        \union {watch[p].tried : p \in Peer} \union {pointer[p].plan : p \in Peer}

LEMMA HeldFiled == PlansAreFiled <=>
    /\ \A plan \in Held : IsFiled(plan)
    /\ \A p \in Peer : pointer[p].plan # NoPlan => pointer[p].save = pointer[p].plan.saves[p]
BY DEF PlansAreFiled, Held, IsFiled

\* What the exchange passes on is what someone held.
LEMMA ExchangeHolds ==
    ASSUME TypeOK, Publish \/ ReadPlan \/ BroadcastPlan \/ Join \/ Register \/ Disconnect \/ Accept
    PROVE  /\ published'.plan \in Held /\ published'.held \in Held /\ received' \in Held
           /\ \A i \in DOMAIN wire' : wire'[i] \in Held
           /\ watch' = watch /\ pointer' = pointer
<1>0. published \in PublishedType /\ wire \in Seq(PlanType) /\ Peer # {} /\ Host \in Peer
  BY Peers DEF TypeOK
<1> USE DEF exchanging
<1>1. CASE Publish
  BY <1>0, <1>1 DEF Publish, Held, PublishedType
<1>2. CASE ReadPlan
  BY <1>0, <1>2 DEF ReadPlan, Held, PublishedType
<1>6. CASE BroadcastPlan
  <2>1. wire' = wire \/ wire' = Append(wire, published.held)
    BY <1>6 DEF BroadcastPlan
  <2>2. published.held \in PlanType
    BY <1>0 DEF PublishedType
  <2>3. \A i \in DOMAIN wire' : wire'[i] = published.held \/ (i \in DOMAIN wire /\ wire'[i] = wire[i])
    BY <1>0, <2>1, <2>2
  <2>4. published'.plan = published.plan /\ published'.held = NoPlan
    BY <1>0, <1>6 DEF BroadcastPlan, PublishedType
  <2> QED BY <1>6, <2>3, <2>4 DEF BroadcastPlan, Held
<1>3. CASE Join
  <2>1. wire' = <<>> \/ wire' = <<published.plan>>
    BY <1>3 DEF Join
  <2>2. \A i \in DOMAIN wire' : wire'[i] = published.plan
    BY <2>1
  <2>3. published'.plan = published.plan /\ published'.held = published.held
    BY <1>0, <1>3 DEF Join, PublishedType
  <2> QED BY <1>3, <2>2, <2>3 DEF Join, Held
<1>7. CASE Register
  BY <1>0, <1>7 DEF Register, Held, PublishedType
<1>4. CASE Disconnect
  <2>1. /\ published'.plan = published.plan
        /\ published'.held = published.held \/ published'.held = NoPlan
    BY <1>0, <1>4 DEF Disconnect, PublishedType
  <2>2. wire' = <<>> /\ received' = received /\ watch' = watch /\ pointer' = pointer
    BY <1>4 DEF Disconnect
  <2>3. \A i \in DOMAIN wire' : FALSE
    BY <2>2
  <2> QED BY <2>1, <2>2, <2>3 DEF Held
<1>5. CASE Accept
  <2>1. wire # <<>> /\ received' = Head(wire) /\ wire' = Tail(wire)
        /\ published' = published /\ watch' = watch /\ pointer' = pointer
    BY <1>5 DEF Accept
  <2>2. 1 \in DOMAIN wire /\ Head(wire) = wire[1]
    BY <1>0, <2>1
  <2>3. \A i \in DOMAIN wire' : i + 1 \in DOMAIN wire /\ wire'[i] = wire[i + 1]
    BY <1>0, <2>1
  <2> QED BY <2>1, <2>2, <2>3 DEF Held
<1> QED BY <1>1, <1>2, <1>3, <1>4, <1>5, <1>6, <1>7

\* Every plan a machine holds is made of receipts, and an archive is what its plan says.
LEMMA PlansAreFiledStep ==
    ASSUME TypeOK, OneOutcome, PlansAreFiled, OneOutcome', Persists, [Next]_vars
    PROVE  PlansAreFiled'
<1>0. /\ watch \in [Peer -> WatchType]
      /\ pointer \in [Peer -> [plan : PlanType, save : SaveType]]
      /\ Host \in Peer /\ Client \in Peer /\ Host # Client
  BY Peers DEF TypeOK
<1>1. \A plan \in Held : IsFiled(plan)'
  <2> SUFFICES ASSUME NEW plan \in Held
               PROVE  IsFiled(plan)'
    OBVIOUS
  <2>1. IsFiled(plan)
    BY HeldFiled
  <2> QED BY <2>1, FiledStays
<1>2. \A p \in Peer : pointer[p].plan # NoPlan => pointer[p].save = pointer[p].plan.saves[p]
  BY HeldFiled
\* The plans of the exchange.
<1>3. /\ IsFiled(published.plan)' /\ IsFiled(published.held)' /\ IsFiled(received)'
      /\ \A i \in DOMAIN wire' : IsFiled(wire[i])'
  <2>1. /\ published'.plan \in Held /\ published'.held \in Held /\ received' \in Held
        /\ \A i \in DOMAIN wire' : wire'[i] \in Held
    <3>1. CASE published' = published /\ wire' = wire /\ received' = received
      BY <3>1 DEF Held
    <3>2. CASE \/ Publish \/ ReadPlan \/ BroadcastPlan \/ Join \/ Register
               \/ Disconnect \/ Accept
      BY <3>2, ExchangeHolds
    <3> QED BY <3>1, <3>2, Frame
  <2> QED BY <1>1, <2>1 DEF IsFiled, ReceiptsOf, Positions
\* The watchers' plans: one watcher changes, and its plan is filed.
<1>4. ASSUME NEW p \in Peer, NEW plan, IsFiled(plan)',
             watch'[p].tried = plan, \A q \in Peer : q # p => watch'[q].tried = watch[q].tried,
             \/ pointer' = pointer
             \/ pointer' = [pointer EXCEPT ![p] = [plan |-> plan, save |-> plan.saves[p]]]
      PROVE  PlansAreFiled'
  <2>1. \A q \in Peer : IsFiled(watch[q].tried)' /\ IsFiled(pointer[q].plan)'
    <3> SUFFICES ASSUME NEW q \in Peer
                 PROVE  IsFiled(watch[q].tried)' /\ IsFiled(pointer[q].plan)'
      OBVIOUS
    <3>1. watch[q].tried \in Held /\ pointer[q].plan \in Held
      BY DEF Held
    <3>2. watch'[q].tried = plan \/ watch'[q].tried \in Held
      BY <1>4, <3>1
    <3>3. pointer'[q].plan = plan \/ pointer'[q].plan \in Held
      BY <1>0, <1>4, <3>1
    <3> QED BY <1>1, <1>4, <3>2, <3>3 DEF IsFiled, ReceiptsOf, Positions
  <2>2. \A q \in Peer : pointer'[q].plan # NoPlan => pointer'[q].save = pointer'[q].plan.saves[q]
    BY <1>0, <1>2, <1>4
  <2> QED BY <1>3, <2>1, <2>2 DEF PlansAreFiled
<1>5. CASE watch' = watch /\ pointer' = pointer
  <2>1. IsFiled(watch[Host].tried)'
    <3>1. PICK plan \in Held : plan = watch[Host].tried
      BY <1>0 DEF Held
    <3>2. IsFiled(plan)' /\ plan = watch'[Host].tried
      BY <1>1, <1>5, <3>1
    <3> QED BY <3>2 DEF IsFiled, ReceiptsOf, Positions
  <2> QED BY <1>0, <1>4, <1>5, <2>1
<1>6. ASSUME NEW p \in Peer, pointer' = pointer,
             \A q \in Peer : watch'[q].tried = watch[q].tried
      PROVE  PlansAreFiled'
  <2>1. PICK plan \in Held : plan = watch[p].tried
    BY DEF Held
  <2> QED BY <1>1, <1>4, <1>6, <2>1
<1>7. ASSUME NEW p \in Peer, Observe(p) \/ File(p) \/ Rejected(p) \/ WatcherFails(p)
      PROVE  PlansAreFiled'
  <2>1. pointer' = pointer /\ \A q \in Peer : watch'[q].tried = watch[q].tried
    <3>1. CASE Observe(p)
      BY <1>0, <3>1 DEF Observe, WatchType
    <3>2. CASE File(p)
      BY <1>0, <3>2 DEF File, WatchType
    <3>3. CASE Rejected(p)
      BY <1>0, <3>3 DEF Rejected, WatchType
    <3>4. CASE WatcherFails(p)
      BY <1>0, <3>4 DEF WatcherFails, WatchType
    <3> QED BY <1>7, <3>1, <3>2, <3>3, <3>4
  <2> QED BY <1>6, <2>1
<1>8. CASE KeepPending
  <2>1. pointer' = pointer /\ \A q \in Peer : watch'[q].tried = watch[q].tried
    BY <1>0, <1>8 DEF KeepPending, Archived, WatchType
  <2> QED BY <1>0, <1>6, <2>1
<1>9. CASE BuildPlan
  <2>1. request[Host].boundary \in 0 .. MaxBoundary /\ Restorable(request[Host].boundary)
    BY <1>0, <1>9 DEF BuildPlan, TypeOK, RequestType
  <2>2. PICK plan : plan = PlanFor(request[Host].boundary)
    OBVIOUS
  <2>3. IsFiled(plan) /\ IsFiled(plan)'
    BY <2>1, <2>2, PlanIsFiled, FiledStays
  <2>4. /\ Attested(Host, plan)
        /\ pointer' = [pointer EXCEPT ![Host] =
                         [plan |-> plan, save |-> disk[Host][plan.boundary]]]
        /\ watch' = [watch EXCEPT ![Host] =
                [Archived(Host, plan.boundary) EXCEPT !.bound = TRUE, !.tried = plan]]
    BY <1>9, <2>2 DEF BuildPlan
  <2>5. /\ pointer' = [pointer EXCEPT ![Host] = [plan |-> plan, save |-> plan.saves[Host]]]
        /\ watch'[Host].tried = plan
        /\ \A q \in Peer : q # Host => watch'[q].tried = watch[q].tried
    BY <1>0, <2>4 DEF Attested, Archived, WatchType
  <2> QED BY <1>0, <1>4, <2>3, <2>5
<1>10. CASE BindPlan
  <2>1. PICK plan \in Held : plan = received
    BY DEF Held
  <2>2. \/ pointer' = pointer
        \/ Attested(Client, plan)
           /\ pointer' = [pointer EXCEPT ![Client] =
                            [plan |-> plan, save |-> disk[Client][plan.boundary]]]
    BY <1>10, <2>1, Zenon DEF BindPlan
  <2>3. \/ pointer' = pointer
        \/ pointer' = [pointer EXCEPT ![Client] = [plan |-> plan, save |-> plan.saves[Client]]]
    BY <2>2 DEF Attested
  <2>4. watch'[Client].tried = plan
        /\ \A q \in Peer : q # Client => watch'[q].tried = watch[q].tried
    BY <1>0, <1>10, <2>1 DEF BindPlan, WatchType
  <2> QED BY <1>0, <1>1, <1>4, <2>1, <2>3, <2>4
<1> QED BY <1>5, <1>7, <1>8, <1>9, <1>10, Frame

----------------------------------------------------------------------------
(* Types                                                                   *)

LEMMA TypeOKStep ==
    ASSUME TypeOK, IInv, OneOutcome', Persists, [Next]_vars
    PROVE  TypeOK'
<1>0. /\ journal \in Seq(EntryType) /\ applied \in [Peer -> 0 .. MaxWork]
      /\ disk \in [Peer -> [Boundary -> SaveType]] /\ mirror \in 0 .. MaxBoundary
      /\ request \in [Peer -> RequestType] /\ watch \in [Peer -> WatchType]
      /\ published \in PublishedType
      /\ wire \in Seq(PlanType) /\ received \in PlanType
      /\ pointer \in [Peer -> [plan : PlanType, save : SaveType]]
      /\ trouble \in 0 .. MaxTrouble
  BY DEF TypeOK
<1>1. journal' \in Seq(EntryType)
  <2>1. ASSUME NEW e \in EntryType, journal' = Append(journal, e)
        PROVE  journal' \in Seq(EntryType)
    BY <1>0, <2>1
  <2>2. CASE OrderWork
    <3>1. Work \in EntryType
      BY Peers, Bounds, NoSaveType DEF Work, EntryType
    <3> QED BY <2>1, <2>2, <3>1 DEF OrderWork
  <2>3. CASE Converge
    <3>1. Latest + 1 \in 0 .. MaxBoundary
      BY <2>3, Counts, Bounds DEF Converge
    <3>2. Outcome(Latest + 1) \in EntryType
      BY <3>1, Peers, NoSaveType DEF Outcome, EntryType
    <3> QED BY <2>1, <2>3, <3>2 DEF Converge
  <2>4. ASSUME NEW p \in Peer, Filing(p)
        PROVE  journal' \in Seq(EntryType)
    <3>1. Receipt(Ready, p, request[p].save) \in EntryType
      BY <2>4, FilingFacts DEF IInv
    <3> QED BY <2>1, <2>4, <3>1 DEF Filing
  <2> QED BY <1>0, <2>2, <2>3, <2>4, Frame
<1>2. applied' \in [Peer -> 0 .. MaxWork]
  <2>1. ASSUME NEW p \in Peer, ApplyWork(p)
        PROVE  applied' \in [Peer -> 0 .. MaxWork]
    <3>1. applied[p] \in 0 .. MaxWork /\ applied[p] < Works /\ Works <= MaxWork
      BY <1>0, <2>1 DEF ApplyWork, IInv, OneOutcome
    <3>2. applied[p] + 1 \in 0 .. MaxWork
      BY <3>1, Counts, Bounds
    <3> QED BY <1>0, <2>1, <3>2 DEF ApplyWork
  <2> QED BY <1>0, <2>1, Frame
<1>3. disk' \in [Peer -> [Boundary -> SaveType]]
  <2>1. ASSUME NEW p \in Peer, Save(p)
        PROVE  disk' \in [Peer -> [Boundary -> SaveType]]
    <3>1. Latest \in Boundary
      BY <2>1, Counts, Bounds DEF Save, Boundary, IInv, OneOutcome
    <3>2. disk[p][Latest].copy \in 0 .. 2 /\ disk[p][Latest].copy < 2 /\ applied[p] \in 0 .. MaxWork
      BY <1>0, <2>1, <3>1 DEF Save, SaveType
    <3>3. [world |-> applied[p], copy |-> disk[p][Latest].copy + 1] \in SaveType
      BY <3>2 DEF SaveType
    <3> QED BY <1>0, <2>1, <3>1, <3>3 DEF Save
  <2> QED BY <1>0, <2>1, Frame
<1>4. mirror' \in 0 .. MaxBoundary /\ trouble' \in 0 .. MaxTrouble
  <2>1. Ready \in 0 .. MaxBoundary
    BY ReadyFacts DEF IInv
  <2>2. mirror' \in {mirror, Ready} /\ (trouble' = trouble \/ (trouble < MaxTrouble /\ trouble' = trouble + 1))
    BY DEF Next, vars, OrderWork, Converge, Heartbeat, ApplyWork, Save, Watch, Observe, File,
           Hash, OrderReceipt, Rejected, WatcherFails, Exchange, BuildPlan, Publish,
           ReadPlan, BroadcastPlan, Join, Register, exchanging, Accept, BindPlan, KeepPending, Disconnect, game, watching
  <2> QED BY <1>0, <2>1, <2>2, Bounds
<1>5. request' \in [Peer -> RequestType]
  <2>1. NoRequest \in RequestType
    BY NoSaveType, Bounds DEF NoRequest, RequestType
  <2>2. ASSUME NEW p \in Peer, File(p)
        PROVE  request' \in [Peer -> RequestType]
    <3>1. watch[p].seen \in 0 .. MaxBoundary
      BY <1>0 DEF WatchType
    <3>2. [boundary |-> watch[p].seen, status |-> "submitted", save |-> NoSave] \in RequestType
      BY <3>1, NoSaveType DEF RequestType
    <3> QED BY <1>0, <2>2, <3>2 DEF File
  <2>3. ASSUME NEW p \in Peer, Hash(p)
        PROVE  request' \in [Peer -> RequestType]
    <3>1. request[p].boundary \in Boundary
      BY <2>3 DEF Hash, IInv, Requested
    <3>2. disk[p][request[p].boundary] \in SaveType
      BY <1>0, <3>1
    <3>3. request[p] \in RequestType
      BY <1>0
    <3>4. CASE request' = [request EXCEPT ![p].status = "rejected"]
      <4> DEFINE r == [request[p] EXCEPT !.status = "rejected"]
      <4>1. r \in RequestType
        BY <3>3 DEF RequestType
      <4>2. request' = [request EXCEPT ![p] = r]
        BY <1>0, <3>4
      <4> QED BY <1>0, <4>1, <4>2
    <3>5. CASE request' = [request EXCEPT ![p].status = "pending",
                                          ![p].save = disk[p][request[p].boundary]]
      <4> DEFINE r == [request[p] EXCEPT !.status = "pending",
                                         !.save = disk[p][request[p].boundary]]
      <4>1. r \in RequestType
        BY <3>2, <3>3 DEF RequestType
      <4>2. request' = [request EXCEPT ![p] = r]
        BY <1>0, <3>5
      <4> QED BY <1>0, <4>1, <4>2
    <3> QED BY <2>3, <3>4, <3>5 DEF Hash
  <2>4. ASSUME NEW p \in Peer, OrderReceipt(p)
        PROVE  request' \in [Peer -> RequestType]
    <3>1. PICK s \in {"accepted", "rejected"} : request' = [request EXCEPT ![p].status = s]
      BY <2>4 DEF OrderReceipt
    <3> DEFINE r == [request[p] EXCEPT !.status = s]
    <3>2. r \in RequestType
      <4>1. request[p] \in RequestType
        BY <1>0
      <4> QED BY <4>1 DEF RequestType
    <3>3. request' = [request EXCEPT ![p] = r]
      BY <1>0, <3>1
    <3> QED BY <1>0, <3>2, <3>3
  <2> QED BY <1>0, <2>1, <2>2, <2>3, <2>4, Frame
<1>6. /\ received' \in PlanType /\ wire' \in Seq(PlanType)
      /\ published' \in PublishedType
  <2>0. NoPlan \in PlanType
    BY NoSaveType, Bounds DEF NoPlan, PlanType
  <2>00. watch[Host].tried \in PlanType /\ published.plan \in PlanType
    BY <1>0, Peers DEF WatchType, PublishedType
  <2>1. CASE Publish
    BY <1>0, <2>00, <2>1 DEF Publish, PublishedType
  <2>01. published.held \in PlanType
    BY <1>0 DEF PublishedType
  <2>2. CASE ReadPlan
    <3>1. received' = received /\ wire' = wire
      BY <2>2 DEF ReadPlan, exchanging
    <3>2. published' \in PublishedType
      BY <1>0, <2>00, <2>2 DEF ReadPlan, PublishedType
    <3> QED BY <1>0, <3>1, <3>2
  <2>6. CASE BroadcastPlan
    <3>1. received' = received /\ wire' \in {wire, Append(wire, published.held)}
      BY <2>6 DEF BroadcastPlan, exchanging
    <3>2. Append(wire, published.held) \in Seq(PlanType)
      BY <1>0, <2>01
    <3>3. Overtaken \in PlanType
      BY <1>0 DEF Overtaken, PublishedType
    <3>4. published' \in PublishedType
      BY <1>0, <2>0, <2>6, <3>3 DEF BroadcastPlan, PublishedType
    <3> QED BY <1>0, <3>1, <3>2, <3>4
  <2>3. CASE Join
    <3>1. received' = received /\ wire' \in {<<>>, <<published.plan>>}
      BY <2>3 DEF Join, exchanging
    <3>2. <<published.plan>> \in Seq(PlanType) /\ <<>> \in Seq(PlanType)
      BY <2>00
    <3>3. published' \in PublishedType
      BY <1>0, <2>0, <2>00, <2>3 DEF Join, PublishedType
    <3> QED BY <1>0, <3>1, <3>2, <3>3
  <2>7. CASE Register
    <3>1. received' = received /\ wire' = wire
      BY <2>7 DEF Register, exchanging
    <3>2. published' \in PublishedType
      BY <1>0, <2>0, <2>7 DEF Register, PublishedType
    <3> QED BY <1>0, <3>1, <3>2
  <2>4. CASE Accept
    <3>1. Head(wire) \in PlanType /\ Tail(wire) \in Seq(PlanType)
      BY <1>0, <2>4 DEF Accept
    <3> QED BY <1>0, <2>4, <3>1 DEF Accept
  <2>5. CASE Disconnect
    <3>1. wire' = <<>> /\ received' = received
      BY <2>5 DEF Disconnect, exchanging
    <3>2. published' \in PublishedType
      BY <1>0, <2>0, <2>5 DEF Disconnect, PublishedType
    <3> QED BY <1>0, <3>1, <3>2
  <2> QED BY <1>0, <2>1, <2>2, <2>3, <2>4, <2>5, <2>6, <2>7, Frame
<1>7. /\ watch' \in [Peer -> WatchType]
      /\ pointer' \in [Peer -> [plan : PlanType, save : SaveType]]
  <2>0. Host \in Peer /\ Client \in Peer
    BY Peers
  <2>9. 0 \in 0 .. MaxBoundary
    BY Bounds
  <2>1. ASSUME NEW p \in Peer, NEW w \in WatchType, watch' = [watch EXCEPT ![p] = w],
               \/ pointer' = pointer
               \/ \E a \in [plan : PlanType, save : SaveType] :
                     pointer' = [pointer EXCEPT ![p] = a]
        PROVE  <1>7
    BY <1>0, <2>1
  <2>2. ASSUME NEW p \in Peer, Observe(p) \/ File(p) \/ Rejected(p) \/ WatcherFails(p)
        PROVE  <1>7
    <3>1. watch[p] \in WatchType /\ View(p) \in 0 .. MaxBoundary
      BY <1>0, ReadyFacts DEF View, IInv
    <3>2. CASE Observe(p)
      <4> DEFINE w == [watch[p] EXCEPT !.seen = View(p), !.phase = "observed",
                                       !.save = NoSave, !.bound = FALSE]
      <4>1. w \in WatchType
        BY <3>1, NoSaveType DEF WatchType
      <4>2. watch' = [watch EXCEPT ![p] = w] /\ pointer' = pointer
        BY <1>0, <3>2 DEF Observe
      <4> QED BY <2>1, <4>1, <4>2
    <3>3. CASE File(p) \/ Rejected(p) \/ WatcherFails(p)
      <4>1. pointer' = pointer
            /\ \/ \E ph \in {"filed", "failed"} : watch' = [watch EXCEPT ![p].phase = ph]
               \/ watch' = [watch EXCEPT ![p].phase = "idle", ![p].seen = 0]
        BY <3>3 DEF File, Rejected, WatcherFails
      <4>2. CASE watch' = [watch EXCEPT ![p].phase = "idle", ![p].seen = 0]
        <5> DEFINE w == [watch[p] EXCEPT !.phase = "idle", !.seen = 0]
        <5>1. w \in WatchType
          BY <2>9, <3>1 DEF WatchType
        <5>2. watch' = [watch EXCEPT ![p] = w]
          BY <1>0, <4>2
        <5> QED BY <2>1, <4>1, <5>1, <5>2
      <4>3. ASSUME NEW ph \in {"filed", "failed"}, watch' = [watch EXCEPT ![p].phase = ph]
            PROVE  <1>7
        <5> DEFINE w == [watch[p] EXCEPT !.phase = ph]
        <5>1. w \in WatchType
          BY <3>1 DEF WatchType
        <5>2. watch' = [watch EXCEPT ![p] = w]
          BY <1>0, <4>3
        <5> QED BY <2>1, <4>1, <5>1, <5>2
      <4> QED BY <4>1, <4>2, <4>3
    <3> QED BY <2>2, <3>2, <3>3
  <2>3. CASE KeepPending
    <3>1. request[Client].boundary \in 0 .. MaxBoundary /\ request[Client].save \in SaveType
          /\ watch[Client] \in WatchType
      BY <1>0, <2>0 DEF RequestType
    <3> DEFINE b == request[Client].boundary
    <3> DEFINE w == [watch[Client] EXCEPT !.phase = "idle", !.seen = 0, !.archived = b,
                                          !.save = request[Client].save]
    <3>2. w \in WatchType
      BY <2>9, <3>1 DEF WatchType
    <3>3. watch' = [watch EXCEPT ![Client] =
              [[watch[Client] EXCEPT !.phase = "idle", !.seen = 0, !.archived = b]
                 EXCEPT !.save = request[Client].save]] /\ pointer' = pointer
      BY <2>3 DEF KeepPending, Archived
    <3>4. watch' = [watch EXCEPT ![Client] = w]
      BY <3>1, <3>3 DEF WatchType
    <3> QED BY <2>0, <2>1, <3>2, <3>3, <3>4
  <2>4. CASE BuildPlan
    <3>1. request[Host].boundary \in 0 .. MaxBoundary /\ Restorable(request[Host].boundary)
      BY <1>0, <2>0, <2>4 DEF BuildPlan, RequestType
    <3>2. PICK plan : plan = PlanFor(request[Host].boundary)
      OBVIOUS
    <3>3. plan \in PlanType /\ plan.boundary \in 0 .. MaxBoundary /\ plan.saves[Host] \in SaveType
      BY <2>0, <3>1, <3>2, PlanIsFiled DEF PlanType
    <3>4. /\ Attested(Host, plan)
          /\ pointer' = [pointer EXCEPT ![Host] =
                           [plan |-> plan, save |-> disk[Host][plan.boundary]]]
          /\ watch' = [watch EXCEPT ![Host] =
                  [Archived(Host, plan.boundary) EXCEPT !.bound = TRUE, !.tried = plan]]
      BY <2>4, <3>2 DEF BuildPlan
    <3>5. [plan |-> plan, save |-> disk[Host][plan.boundary]] \in [plan : PlanType, save : SaveType]
      BY <3>3, <3>4 DEF Attested
    <3> DEFINE w == [watch[Host] EXCEPT !.phase = "idle", !.seen = 0,
                        !.archived = plan.boundary, !.bound = TRUE, !.tried = plan]
    <3>6. watch[Host] \in WatchType
      BY <1>0, <2>0
    <3>7. w \in WatchType
      BY <2>9, <3>3, <3>6 DEF WatchType
    <3>8. watch' = [watch EXCEPT ![Host] = w]
      BY <3>4, <3>6 DEF Archived, WatchType
    <3> QED BY <2>0, <2>1, <3>4, <3>5, <3>7, <3>8
  <2>5. CASE BindPlan
    <3>1. PICK plan \in PlanType : plan = received
      BY <1>0
    <3>2. PICK attempts \in 0 .. MaxAttempts, bound \in BOOLEAN :
              /\ bound => Attested(Client, plan)
              /\ pointer' = IF bound THEN [pointer EXCEPT ![Client] =
                                  [plan |-> plan, save |-> disk[Client][plan.boundary]]]
                            ELSE pointer
              /\ watch' = [watch EXCEPT ![Client].bound = bound, ![Client].tried = plan,
                                        ![Client].attempts = attempts]
      <4> DEFINE a == IF received = watch[Client].tried THEN watch[Client].attempts ELSE 0
                 older == received.boundary < watch[Client].archived
                 bound == ~ older /\ Binds(received) /\ Attested(Client, received)
                 n == IF older THEN 0 ELSE a + 1
      <4>1. a \in 0 .. MaxAttempts
        BY <1>0, <2>0 DEF WatchType, MaxAttempts
      <4>2. a < MaxAttempts
        BY <2>5 DEF BindPlan
      <4>3. n \in 0 .. MaxAttempts /\ bound \in BOOLEAN
        BY <4>1, <4>2 DEF MaxAttempts
      <4>4. /\ pointer' = IF bound THEN [pointer EXCEPT ![Client] =
                                  [plan |-> plan, save |-> disk[Client][plan.boundary]]]
                            ELSE pointer
            /\ watch' = [watch EXCEPT ![Client].bound = bound, ![Client].tried = plan,
                                      ![Client].attempts = n]
        BY <2>5, <3>1 DEF BindPlan
      <4>5. bound => Attested(Client, plan)
        BY <3>1
      <4> HIDE DEF bound, n
      <4> QED BY <4>3, <4>4, <4>5
    <3>3. plan.saves[Client] \in SaveType
      BY <2>0 DEF PlanType
    <3>4. watch[Client] \in WatchType
      BY <1>0, <2>0
    <3>5. PICK w \in WatchType : watch' = [watch EXCEPT ![Client] = w]
      <4> DEFINE u == [watch[Client] EXCEPT !.bound = bound, !.tried = plan, !.attempts = attempts]
      <4>1. u \in WatchType
        BY <3>1, <3>4 DEF WatchType
      <4>2. watch' = [watch EXCEPT ![Client] = u]
        BY <1>0, <2>0, <3>2
      <4> QED BY <4>1, <4>2
    <3>6. \/ pointer' = pointer
          \/ \E a \in [plan : PlanType, save : SaveType] : pointer' = [pointer EXCEPT ![Client] = a]
      <4>1. CASE bound
        <5>1. [plan |-> plan, save |-> disk[Client][plan.boundary]] \in [plan : PlanType, save : SaveType]
          BY <3>1, <3>2, <3>3, <4>1 DEF Attested
        <5> QED BY <3>2, <4>1, <5>1
      <4>2. CASE ~ bound
        BY <3>2, <4>2
      <4> QED BY <4>1, <4>2
    <3> QED BY <2>0, <2>1, <3>5, <3>6
  <2> QED BY <1>0, <2>1, <2>2, <2>3, <2>4, <2>5, Frame
<1> QED BY <1>1, <1>2, <1>3, <1>4, <1>5, <1>6, <1>7 DEF TypeOK

----------------------------------------------------------------------------
(* The theorems                                                            *)

LEMMA Initially == Init => TypeOK /\ IInv
<1> SUFFICES ASSUME Init
             PROVE  TypeOK /\ IInv
  OBVIOUS
<1> USE DEF Init
<1>0. NoPlan \in PlanType /\ NoRequest \in RequestType /\ NewWatch \in WatchType
      /\ NoArchive \in [plan : PlanType, save : SaveType]
  BY NoSaveType, Bounds DEF NoPlan, PlanType, NoRequest, RequestType, NewWatch, WatchType,
     NoArchive, MaxAttempts
<1>1. TypeOK
  BY <1>0, NoSaveType, Bounds DEF TypeOK, PublishedType
<1>2. \A type : Positions(type) = {}
  BY DEF Positions
<1>3. Works = 0 /\ Latest = 0
  BY <1>2, FS_EmptySet DEF Works, Latest
<1>4. Boundaries = {}
  BY <1>3 DEF Boundaries
<1>5. OneOutcome /\ InStep /\ ReceiptsAgree
  BY <1>2, <1>3, <1>4, Bounds DEF OneOutcome, InStep, ReceiptsAgree
<1>6. SavedLater /\ Requested
  BY DEF SavedLater, Requested, NoRequest, NewWatch
<1>7. PlansAreFiled
  BY DEF PlansAreFiled, IsFiled, NewWatch, NoArchive
<1> QED BY <1>1, <1>5, <1>6, <1>7 DEF IInv

\* The inductive invariant: a boundary has one outcome, saves are of it or later, receipts
\* are of it, and plans are made of receipts.
THEOREM Inductive == Spec => [](TypeOK /\ IInv)
<1>1. TypeOK /\ IInv /\ [Next]_vars => (TypeOK /\ IInv)'
  <2> SUFFICES ASSUME TypeOK, IInv, [Next]_vars
               PROVE  TypeOK' /\ IInv'
    OBVIOUS
  <2> USE DEF IInv
  <2>1. OneOutcome' /\ Persists
    BY OneOutcomeStep
  <2>2. TypeOK'
    BY <2>1, TypeOKStep
  <2>3. InStep' /\ SavedLater' /\ Requested'
    BY <2>1, <2>2, InStepStep, SavedLaterStep, RequestedStep
  <2>4. ReceiptsAgree' /\ PlansAreFiled'
    BY <2>1, ReceiptsAgreeStep, PlansAreFiledStep
  <2> QED BY <2>1, <2>2, <2>3, <2>4
<1> QED BY <1>1, Initially, PTL DEF Spec

\* Every value the journal, the disks and the watchers hold is of its kind.
THEOREM TypeCorrect == Spec => []TypeOK
BY Inductive, PTL

\* What the world of a filed plan is.
LEMMA FiledWorld ==
    ASSUME TypeOK, OneOutcome, ReceiptsAgree, NEW plan, plan # NoPlan, IsFiled(plan),
           NEW p \in Peer
    PROVE  plan.saves[p].world = WorldAt(plan.boundary)
<1>1. PICK i \in ReceiptsOf(plan.boundary, p) : journal[i].save = plan.saves[p]
  BY DEF IsFiled
<1>2. i \in Positions("receipt") /\ journal[i].boundary = plan.boundary
  BY <1>1 DEF ReceiptsOf
<1>3. PICK b \in Boundaries : journal[i].boundary = b /\ journal[i].save.world = WorldAt(b)
  BY <1>2 DEF ReceiptsAgree
<1> QED BY <1>1, <1>2, <1>3

\* Two pointers of one plan are one world, whatever was saved, ordered, written over or
\* lost while receipts and plan were under way (PairIsOneWorld).
THEOREM PairsAreOneWorld == Spec => []PairIsOneWorld
<1>1. TypeOK /\ IInv => PairIsOneWorld
  <2> SUFFICES ASSUME TypeOK, IInv, Pair, NEW p \in Peer
               PROVE  pointer[p].save.world = WorldAt(pointer[p].plan.boundary)
    BY DEF PairIsOneWorld
  <2>1. pointer[p].plan # NoPlan /\ IsFiled(pointer[p].plan)
        /\ pointer[p].save = pointer[p].plan.saves[p]
    BY Peers DEF Pair, Candidate, Peer, IInv, PlansAreFiled
  <2>2. pointer[p].plan.saves[p].world = WorldAt(pointer[p].plan.boundary)
    BY <2>1, FiledWorld DEF IInv
  <2> QED BY <2>1, <2>2
<1> QED BY <1>1, Inductive, PTL

\* An archive a pointer names is the save its peer's receipt attests, for a boundary that
\* can still be restored (ArchiveIsAttested).
THEOREM ArchivesAreAttested == Spec => []ArchiveIsAttested
<1>1. TypeOK /\ IInv => ArchiveIsAttested
  <2> SUFFICES ASSUME TypeOK, IInv, NEW p \in Peer, pointer[p].plan # NoPlan
               PROVE  /\ Restorable(pointer[p].plan.boundary)
                      /\ \A i \in ReceiptsOf(pointer[p].plan.boundary, p) :
                            journal[i].save = pointer[p].save
    BY DEF ArchiveIsAttested
  <2> DEFINE b == pointer[p].plan.boundary
  <2>1. pointer[p].save = pointer[p].plan.saves[p]
        /\ \A q \in Peer : \E i \in ReceiptsOf(b, q) : journal[i].save = pointer[p].plan.saves[q]
    BY DEF IInv, PlansAreFiled, IsFiled
  <2> HIDE DEF b
  <2>2. \A q \in Peer : \A i, j \in ReceiptsOf(b, q) : i = j
    BY DEF ReceiptsOf, IInv, ReceiptsAgree
  <2>3. \A q \in Peer : \A i \in ReceiptsOf(b, q) :
            i > OutcomeAt(b) /\ ~ \E k \in Positions("work") : OutcomeAt(b) < k /\ k < i
    <3> SUFFICES ASSUME NEW q \in Peer, NEW i \in ReceiptsOf(b, q)
                 PROVE  i > OutcomeAt(b)
                        /\ ~ \E k \in Positions("work") : OutcomeAt(b) < k /\ k < i
      OBVIOUS
    <3>1. i \in Positions("receipt") /\ journal[i].boundary = b
      BY DEF ReceiptsOf
    <3>2. PICK c \in Boundaries :
              /\ journal[i].boundary = c /\ OutcomeAt(c) < i
              /\ ~ \E k \in Positions("work") : OutcomeAt(c) < k /\ k < i
      BY <3>1 DEF IInv, ReceiptsAgree
    <3> QED BY <3>1, <3>2
  <2>4. Restorable(b)
    BY <2>1, <2>2, <2>3 DEF Restorable
  <2> QED BY <2>1, <2>2, <2>4 DEF b
<1> QED BY <1>1, Inductive, PTL

=====
