----------------------- MODULE FaultRecovery_proofs -----------------------
(***************************************************************************)
(* Machine-checked proofs about FaultRecovery, for any games, either kind  *)
(* of work, any number of further faults, local edits and crashes: its     *)
(* type invariant, that a recovered session goes on in worlds that are     *)
(* alike (RecoveredWorldsAgree), that the offline audit accepts every      *)
(* recovery (AuditAccepts), that a restart restores the memory of the host *)
(* (RestartRestores), and that the host and every game agree in the end on *)
(* whether the session is faulted (FaultIsShared).                         *)
(*                                                                         *)
(* The argument.  Good says of a journal that it is in order, that is,     *)
(* every failure has a code, a probe names a fault before it, a checkpoint *)
(* outcome names its probe and there is one at most; and of the memory     *)
(* that a replay leads to that its evidence is complete where the journal  *)
(* needs it: a probe was ordered when every game had refused the work, a   *)
(* recovery when their checkpoints agreed.  Follows says what a memory     *)
(* that is up knows of the journal.  The host that runs and the replayed   *)
(* memory agree but for faults that were ordered since (Same), which is    *)
(* why a replay may raise at a recovery that clears another fault and yet  *)
(* never be wrong about one that it accepts.                               *)
(*                                                                         *)
(* A handler writes several entries and a crash may end it between any two *)
(* of them, so every lemma about a handler is about Chained: after each of *)
(* the entries that it has written the journal is Good.  The journal after *)
(* n entries is a recursive function, and what it gives for n + 1 follows  *)
(* from the least entry at which it could differ (ExtendedMore).  What the *)
(* checkpoint of a game shows of the work stays true of its world          *)
(* (PointOf): it has begun the probe and its engine has finished.  A local *)
(* edit may still change the world; so PointOf says only that an edit made *)
(* before the probe is in the checkpoint.  Nobody else's checkpoint has    *)
(* it, and checkpoints that are compared and equal therefore have none.    *)
(***************************************************************************)
EXTENDS FaultRecovery, FiniteSetTheorems, WellFoundedInduction, TLAPS

\* The types of a memory, of the entries and of a game.
Statuses == {"pending", "complete", "rejected", "faulted"}
Probing == {"none", "probing", "recovered", "rollback"}
WorldType == [work : {"old", "new", "odd"}, own : SUBSET Peer]
PointType == [world : WorldType, core : {"kept", "changed"}]
HealthType == [read : Nat, fault : Codes, residue : BOOLEAN]

\* A memory between two handlers has nothing written, the one of a handler has.
Memory(wrote) ==
    [up : BOOLEAN, wrote : wrote, fault : Codes, emitted : BOOLEAN, status : Statuses,
     code : Codes, outcome : Nat, done : [Peer -> Results \union {None}], boundary : Nat,
     probe : Probing, core : {"none", "kept"}, points : [Peer -> PointType \union {None}],
     stopping : BOOLEAN, stopped : SUBSET Peer, health : [Peer -> HealthType \union {None}]]

OrderType ==
    [type : {"outcome"}, seq : Nat, result : Statuses \ {"pending"}, code : Codes]
      \union [type : {"sync_fault"}, seq : Nat, code : Codes]
      \union [type : {"pause"}, seq : Nat]
      \union [type : {"requalify"}, seq : Nat, at : Nat, clears : Codes, core : {"kept"}]
      \union [type : {"checkpoint"}, seq : Nat, boundary : Nat, success : BOOLEAN,
              code : Codes, clears : Codes]

MessageType ==
    [type : {"done"}, peer : Peer, state : Results]
      \union [type : {"point"}, peer : Peer, state : PointType]
      \union [type : {"ack"}, peer : Peer]
      \union [type : {"health"}, peer : Peer, state : HealthType]

EntryType == OrderType \union MessageType
MemoryType == Memory({<<>>})
HandlerType == Memory(Seq(EntryType))

GameType(n) ==
    [read : 0..n, result : Results \union {None}, world : {"old", "new", "odd"},
     core : {"kept", "changed"}, proposal : Codes, operation : Codes, residue : BOOLEAN,
     probe : Probing, edit : {"none", "before", "since"}, unseen : BOOLEAN]

\* An entry that faults the session, and one that clears its fault.
Failing(e) ==
    \/ e.type = "outcome" /\ e.result = "faulted"
    \/ e.type = "sync_fault"
    \/ e.type = "checkpoint" /\ ~e.success
Clearing(e) == e.type = "checkpoint" /\ e.success

\* After n entries the session is faulted.
Faulted(O, n) ==
    \E i \in 1..n : Failing(O[i]) /\ \A j \in (i + 1)..n : ~Clearing(O[j])

\* The journal has an order of this type, and one that cleared a fault.
Has(O, t) == \E i \in 1..Len(O) : O[i].type = t
Cleared(O) == \E i \in 1..Len(O) : Clearing(O[i])

\* A failure names a fault, a probe one that was ordered before it, the outcome of the
\* probe names the probe, and there is one at most.
Coded(O) == \A i \in 1..Len(O) : Failing(O[i]) => O[i].code # "none"
Probes(O, i) ==
    /\ O[i].at \in 1..(i - 1)
    /\ O[O[i].at].type = "outcome" /\ O[O[i].at].result = "faulted"
    /\ O[O[i].at].code = O[i].clears
Probed(O) == \A i \in 1..Len(O) : O[i].type = "requalify" => Probes(O, i)
Concludes(O, i) ==
    /\ O[i].boundary \in 1..(i - 1) /\ O[O[i].boundary].type = "requalify"
    /\ O[i].clears = O[O[i].boundary].clears
Conclusive(O) ==
    \A i \in 1..Len(O) : O[i].type = "checkpoint" =>
        /\ Concludes(O, i)
        /\ \A j \in 1..Len(O) : O[j].type = "checkpoint" => i = j

\* The evidence of the memory that the journal leads to: every game has refused the work
\* when a probe was ordered, and their checkpoints agree when it was concluded well.
Refused(d, O) ==
    Has(O, "requalify") => \A p \in Peer :
        d.done[p] # None /\ ~d.done[p].success /\ d.done[p].empty /\ d.done[p].core = "kept"
Alike(d, O) ==
    Cleared(O) =>
        /\ \A p \in Peer : d.points[p] # None /\ d.points[p].core = "kept"
        /\ \A p, q \in Peer : d.points[p].world = d.points[q].world
Stops(d, O) == ~d.stopping => d.stopped = {} /\ ~Has(O, "pause")

\* What a memory that is up knows: of the work, of the probe, of the fault.
Worked(m, O) ==
    /\ m.status = "pending" => m.outcome = 0 /\ m.probe = "none"
    /\ m.status # "pending" =>
         /\ m.outcome \in 1..Len(O) /\ O[m.outcome].type = "outcome"
         /\ O[m.outcome].code = m.code
         /\ m.status = "faulted" => O[m.outcome].result = "faulted"
    /\ \A i \in 1..Len(O) : O[i].type = "requalify" => 0 < m.outcome /\ m.outcome < i
Guided(m, O) ==
    /\ m.boundary \in 0..Len(O) /\ (m.probe = "none" <=> m.boundary = 0)
    /\ m.probe \in {"none", "probing"} => ~Has(O, "checkpoint")
    /\ m.probe = "probing" =>
         /\ m.status = "faulted" /\ m.core = "kept"
         /\ O[m.boundary].type = "requalify" /\ O[m.boundary].clears = m.code
    /\ m.probe = "recovered" <=> Cleared(O)
Blames(m, O) ==
    /\ m.fault # "none" => Faulted(O, Len(O))
    /\ m.emitted => m.fault # "none" /\ Has(O, "sync_fault")
    /\ m.probe = "probing" /\ ~Has(O, "sync_fault") => m.fault = m.code
Follows(m, O) == Worked(m, O) /\ Guided(m, O) /\ Blames(m, O)

\* A memory of a host that runs, and the memory that its journal leads to.
Same(m, d, O) ==
    /\ d.done = m.done /\ d.points = m.points /\ d.code = m.code /\ d.outcome = m.outcome
    /\ d.boundary = m.boundary /\ d.core = m.core
    /\ d.stopping = m.stopping /\ d.stopped = m.stopped
    /\ d.up => d.probe = m.probe /\ d.status = m.status /\ d.emitted = m.emitted
    /\ ~Has(O, "sync_fault") => d.up /\ d.fault = m.fault

\* The last health of a game says nothing that the host would have to promote.
Heard(m, O) ==
    \A p \in Peer : m.health[p] # None =>
        /\ m.health[p].read <= Len(O)
        /\ m.health[p].fault # "none" /\ m.health[p].read >= Len(O) => m.fault # "none"

\* A checkpoint of a game that will not change any more.
PointOf(p, g, s) ==
    /\ s.world.work = g.world /\ s.core = g.core /\ s.world.own \subseteq {p}
    /\ g.edit = "before" => s.world.own = {p}
    /\ g.probe # "none" /\ g.result # None /\ ~g.result.success
Pointed(d, g) == \A p \in Peer : d.points[p] # None => PointOf(p, g[p], d.points[p])

\* The journal O and the memory d that it leads to, over the games g.
NoHealth == [p \in Peer |-> None]
Sound(O) == Coded(O) /\ Probed(O) /\ Conclusive(O)
Good(d, O, g) ==
    /\ d \in MemoryType /\ d.health = NoHealth /\ O \in Seq(OrderType)
    /\ Sound(O) /\ Refused(d, O) /\ Alike(d, O) /\ Stops(d, O)
    /\ Pointed(d, g)
    /\ d.up => Follows(d, O)

\* The memory h of a handler, when what it has written is on the disk.
Kept(h, d, O, g) ==
    /\ h \in HandlerType /\ h.up /\ Follows(h, O) /\ Same(h, d, O) /\ Good(d, O, g)

\* A message on its way from p.
Sends(p, e, g, O) ==
    /\ e.peer = p
    /\ e.type = "point" => PointOf(p, g, e.state)
    /\ e.type = "ack" => Has(O, "pause")
    /\ e.type = "health" => e.state.read <= Len(O)

\* The types of the variables.
Types ==
    /\ host \in MemoryType
    /\ game \in [Peer -> GameType(Len(orders))]
    /\ out \in [Peer -> Seq(MessageType)] /\ \A p \in Peer : Len(out[p]) <= 2
    /\ kind \in Kind /\ spent \in 0..Budget
\* The host knows its journal; a game that has read a fault has one.
Minds ==
    IF host.up THEN Kept(host, disk, orders, game) /\ Heard(host, orders) ELSE host = Down
Journalled == Good(disk, orders, game)
Played ==
    \A p \in Peer :
        /\ Faulted(orders, game[p].read) => Fault(game[p]) # "none"
        /\ \A i \in 1..Len(out[p]) : Sends(p, out[p][i], game[p], orders)

\* The inductive invariant.
IInv == Types /\ Minds /\ Journalled /\ Played
----------------------------------------------------------------------------
(* The journal, entry by entry *)
\* A set of numbers that is not empty has a least one.
LEMMA Least ==
    ASSUME NEW T, T \subseteq Nat, T # {}
    PROVE  \E x \in T : \A y \in T : x <= y
<1>1. \E x \in T : \A y \in T : ~(<<y, x>> \in OpToRel(<, Nat))
    BY NatLessThanWellFounded, WFMin
<1>2. PICK x \in T : \A y \in T : ~(<<y, x>> \in OpToRel(<, Nat))
    BY <1>1
<1>3. ASSUME NEW y \in T PROVE x <= y
    <2>1. <<y, x>> \notin {ss \in Nat \X Nat : ss[1] < ss[2]}
        BY <1>2 DEF OpToRel
    <2> QED BY <2>1
<1> QED BY <1>3

\* The journal before a handler writes.
Now == [memory |-> disk, orders |-> orders]

\* f gives the journal after each of the first n entries of w.
Unfolds(f, w, n) ==
    f = [i \in 0..n |-> IF i = 0 THEN Now ELSE Extend(f[i - 1], w[i])]

\* There is such a function.
LEMMA UnfoldsExists ==
    ASSUME NEW w
    PROVE  \A n \in Nat : \E f : Unfolds(f, w, n)
<1> DEFINE T == {n \in Nat : ~ \E f : Unfolds(f, w, n)}
<1> SUFFICES ASSUME T # {} PROVE FALSE
    OBVIOUS
<1>1. PICK n \in T : \A m \in T : n <= m
    BY Least
<1>2. n # 0
    <2>1. Unfolds([i \in 0..0 |-> Now], w, 0)
        BY DEF Unfolds
    <2> QED BY <2>1
<1>3. n - 1 \in Nat /\ n - 1 \notin T /\ n \in Nat
    BY <1>1, <1>2
<1>4. PICK f : Unfolds(f, w, n - 1)
    BY <1>3
<1> DEFINE g == [i \in 0..n |-> IF i = n THEN Extend(f[n - 1], w[n]) ELSE f[i]]
<1>5. Unfolds(g, w, n)
    <2>1. ASSUME NEW i \in 0..n
          PROVE  g[i] = IF i = 0 THEN Now ELSE Extend(g[i - 1], w[i])
        <3>1. CASE i = n
            BY <1>2, <1>3, <3>1
        <3>2. CASE i # n
            BY <1>2, <1>3, <1>4, <3>2 DEF Unfolds
        <3> QED BY <3>1, <3>2
    <2> QED BY <2>1 DEF Unfolds
<1> QED BY <1>5

\* So the journal after n entries is that after n - 1 and one entry more.
LEMMA ExtendedSteps ==
    ASSUME NEW w, NEW len \in Nat, Len(w) = len
    PROVE  /\ Extended(w)[0] = Now
           /\ \A n \in 1..len : Extended(w)[n] = Extend(Extended(w)[n - 1], w[n])
<1>1. Extended(w) = CHOOSE f : Unfolds(f, w, len)
    BY DEF Extended, Unfolds, Now
<1>2. Unfolds(Extended(w), w, len)
    BY <1>1, UnfoldsExists
<1> HIDE DEF Extended
<1>3. \A n \in 0..len :
        Extended(w)[n] = IF n = 0 THEN Now ELSE Extend(Extended(w)[n - 1], w[n])
    BY <1>2 DEF Unfolds
<1> QED BY <1>3

\* The journal that all of the entries lead to.
Led(h) == Extended(h.wrote)[Len(h.wrote)]

\* One more entry leaves the journal after the others as it was.
LEMMA ExtendedMore ==
    ASSUME NEW w \in Seq(EntryType), NEW e \in EntryType
    PROVE  /\ Len(Append(w, e)) = Len(w) + 1 /\ Len(w) \in Nat
           /\ \A n \in 0..Len(w) : Extended(Append(w, e))[n] = Extended(w)[n]
           /\ Extended(Append(w, e))[Len(w) + 1] = Extend(Extended(w)[Len(w)], e)
<1> DEFINE v == Append(w, e)
           len == Len(w)
<1>1. /\ len \in Nat /\ Len(v) = len + 1 /\ v[len + 1] = e
      /\ \A n \in 1..len : v[n] = w[n]
    OBVIOUS
<1>2. /\ Extended(w)[0] = Now
      /\ \A n \in 1..len : Extended(w)[n] = Extend(Extended(w)[n - 1], w[n])
    BY <1>1, ExtendedSteps
<1>3. /\ Extended(v)[0] = Now
      /\ \A n \in 1..(len + 1) : Extended(v)[n] = Extend(Extended(v)[n - 1], v[n])
    <2>1. len + 1 \in Nat
        BY <1>1
    <2> HIDE DEF v, len
    <2> QED BY <1>1, <2>1, ExtendedSteps
<1> HIDE DEF v, len
<1>4. \A n \in 0..len : Extended(v)[n] = Extended(w)[n]
    <2> DEFINE T == {n \in 0..len : Extended(v)[n] # Extended(w)[n]}
    <2> SUFFICES ASSUME T # {} PROVE FALSE
        OBVIOUS
    <2>0. T \subseteq Nat
        BY <1>1
    <2>1. PICK n \in T : \A m \in T : n <= m
        BY <2>0, Least
    <2>2. n # 0 /\ n \in 1..len /\ n - 1 \in 0..len /\ n - 1 \notin T
        BY <1>1, <1>2, <1>3, <2>1
    <2>3. Extended(v)[n - 1] = Extended(w)[n - 1] /\ v[n] = w[n] /\ n \in 1..(len + 1)
        BY <1>1, <2>2
    <2>4. Extended(v)[n] = Extended(w)[n]
        BY <1>2, <1>3, <2>2, <2>3
    <2> QED BY <2>1, <2>4
<1>5. Extended(v)[len + 1] = Extend(Extended(w)[len], e)
    <2>1. len \in 0..len /\ len + 1 \in 1..(len + 1) /\ (len + 1) - 1 = len
        BY <1>1
    <2> QED BY <1>1, <1>3, <1>4, <2>1
<1> QED BY <1>1, <1>4, <1>5 DEF v, len
----------------------------------------------------------------------------
(* Types *)
\* The fields of a memory.
LEMMA MemoryFields ==
    ASSUME NEW W, NEW m \in Memory(W)
    PROVE  /\ m.up \in BOOLEAN /\ m.wrote \in W /\ m.fault \in Codes /\ m.emitted \in BOOLEAN
           /\ m.status \in Statuses /\ m.code \in Codes /\ m.outcome \in Nat
           /\ m.done \in [Peer -> Results \union {None}] /\ m.boundary \in Nat
           /\ m.probe \in Probing /\ m.core \in {"none", "kept"}
           /\ m.points \in [Peer -> PointType \union {None}]
           /\ m.stopping \in BOOLEAN /\ m.stopped \in SUBSET Peer
           /\ m.health \in [Peer -> HealthType \union {None}]
BY DEF Memory

\* Memories with equal fields are equal.
LEMMA MemoryEqual ==
    ASSUME NEW W, NEW m \in Memory(W), NEW n \in Memory(W),
           n.up = m.up, n.wrote = m.wrote, n.fault = m.fault, n.emitted = m.emitted,
           n.status = m.status, n.code = m.code, n.outcome = m.outcome, n.done = m.done,
           n.boundary = m.boundary, n.probe = m.probe, n.core = m.core,
           n.points = m.points, n.stopping = m.stopping, n.stopped = m.stopped,
           n.health = m.health
    PROVE  n = m
BY DEF Memory

\* A handler ends: what it has written is on the disk.
LEMMA Rested ==
    ASSUME NEW m \in HandlerType
    PROVE  LET r == [m EXCEPT !.wrote = <<>>]
           IN /\ r \in MemoryType /\ r.up = m.up /\ r.fault = m.fault /\ r.emitted = m.emitted
              /\ r.status = m.status /\ r.code = m.code /\ r.outcome = m.outcome
              /\ r.done = m.done /\ r.boundary = m.boundary /\ r.probe = m.probe
              /\ r.core = m.core /\ r.points = m.points /\ r.stopping = m.stopping
              /\ r.stopped = m.stopped /\ r.health = m.health /\ r.wrote = <<>>
BY DEF HandlerType, MemoryType, Memory

\* A memory between two handlers is one of a handler that has written nothing.
LEMMA HandlerMemory ==
    ASSUME NEW m \in MemoryType
    PROVE  m \in HandlerType /\ m.wrote = <<>> /\ [m EXCEPT !.wrote = <<>>] = m
<1>1. <<>> \in Seq(EntryType)
    OBVIOUS
<1> QED BY <1>1 DEF HandlerType, MemoryType, Memory

\* The entries by their types.
LEMMA OrderKinds ==
    ASSUME NEW e \in OrderType
    PROVE  /\ e.type \in {"outcome", "sync_fault", "pause", "requalify", "checkpoint"}
           /\ Ordered(e)
           /\ e.type = "outcome" => e.result \in Statuses \ {"pending"} /\ e.code \in Codes
                                    /\ e.seq \in Nat
           /\ e.type = "sync_fault" => e.code \in Codes
           /\ e.type = "requalify" => e.seq \in Nat /\ e.at \in Nat /\ e.clears \in Codes
                                      /\ e.core = "kept"
           /\ e.type = "checkpoint" => e.boundary \in Nat /\ e.success \in BOOLEAN
                                       /\ e.code \in Codes /\ e.clears \in Codes
BY DEF OrderType, Ordered

\* The messages by their types.
LEMMA MessageKinds ==
    ASSUME NEW e \in MessageType
    PROVE  /\ e.type \in {"done", "point", "ack", "health"} /\ e.peer \in Peer
           /\ ~Ordered(e)
           /\ e.type = "done" => e.state \in Results
           /\ e.type = "point" => e.state \in PointType
           /\ e.type = "health" => e.state \in HealthType
BY DEF MessageType, Ordered

----------------------------------------------------------------------------
(* One order more *)
\* K is O and the entry e.
Longer(O, K, e) ==
    /\ O \in Seq(OrderType) /\ K \in Seq(OrderType) /\ e \in OrderType
    /\ Len(O) \in Nat /\ Len(K) = Len(O) + 1 /\ K[Len(O) + 1] = e
    /\ \A i \in 1..Len(O) : K[i] = O[i]

\* Appending gives such a K.
LEMMA AppendLonger ==
    ASSUME NEW O \in Seq(OrderType), NEW e \in OrderType
    PROVE  Longer(O, Append(O, e), e)
BY DEF Longer

\* The types of the orders of K.
LEMMA HasLonger ==
    ASSUME NEW O, NEW K, NEW e, Longer(O, K, e), NEW t
    PROVE  Has(K, t) <=> Has(O, t) \/ e.type = t
<1>1. \A i : i \in 1..Len(K) <=> i \in 1..Len(O) \/ i = Len(O) + 1
    BY DEF Longer
<1> QED BY <1>1 DEF Longer, Has

\* Whether K has cleared a fault.
LEMMA ClearedLonger ==
    ASSUME NEW O, NEW K, NEW e, Longer(O, K, e)
    PROVE  Cleared(K) <=> Cleared(O) \/ Clearing(e)
<1>1. \A i : i \in 1..Len(K) <=> i \in 1..Len(O) \/ i = Len(O) + 1
    BY DEF Longer
<1> QED BY <1>1 DEF Longer, Cleared

\* Whether the session is faulted after K, and after what was there before.
LEMMA FaultedLonger ==
    ASSUME NEW O, NEW K, NEW e, Longer(O, K, e)
    PROVE  /\ \A n \in 0..Len(O) : Faulted(K, n) <=> Faulted(O, n)
           /\ Faulted(O, Len(O)) /\ ~Clearing(e) => Faulted(K, Len(K))
           /\ Failing(e) => Faulted(K, Len(K))
<1>0. Len(O) \in Nat /\ Len(K) = Len(O) + 1 /\ K[Len(O) + 1] = e
    BY DEF Longer
<1>1. ASSUME NEW n \in 0..Len(O) PROVE Faulted(K, n) <=> Faulted(O, n)
    <2>1. \A i \in 1..n : K[i] = O[i]
        BY <1>0 DEF Longer
    <2>2. \A i \in 1..n : \A j \in (i + 1)..n : j \in 1..n
        BY <1>0
    <2> QED BY <2>1, <2>2 DEF Faulted
<1>2. ASSUME Faulted(O, Len(O)), ~Clearing(e) PROVE Faulted(K, Len(K))
    <2>1. PICK i \in 1..Len(O) :
             Failing(O[i]) /\ \A j \in (i + 1)..Len(O) : ~Clearing(O[j])
        BY <1>2 DEF Faulted
    <2>2. i \in 1..Len(K) /\ K[i] = O[i]
        BY <1>0, <2>1 DEF Longer
    <2>3. ASSUME NEW j \in (i + 1)..Len(K) PROVE ~Clearing(K[j])
        <3>1. CASE j = Len(O) + 1
            BY <1>0, <1>2, <3>1
        <3>2. CASE j # Len(O) + 1
            <4>1. j \in (i + 1)..Len(O) /\ j \in 1..Len(O)
                BY <1>0, <2>1, <3>2
            <4> QED BY <2>1, <4>1 DEF Longer
        <3> QED BY <3>1, <3>2
    <2> QED BY <2>1, <2>2, <2>3 DEF Faulted
<1>3. ASSUME Failing(e) PROVE Faulted(K, Len(K))
    <2>1. Len(K) \in 1..Len(K) /\ Failing(K[Len(K)]) /\ (Len(K) + 1)..Len(K) = {}
        BY <1>0, <1>3
    <2> QED BY <2>1 DEF Faulted
<1> QED BY <1>1, <1>2, <1>3

\* What the journal says stays true, if the new entry is in order.
LEMMA SoundLonger ==
    ASSUME NEW O, NEW K, NEW e, Longer(O, K, e), Sound(O),
           Failing(e) => e.code # "none",
           e.type = "requalify" => Probes(K, Len(K)),
           e.type = "checkpoint" => Concludes(K, Len(K)) /\ ~Has(O, "checkpoint")
    PROVE  Sound(K)
<1>0. /\ Len(O) \in Nat /\ Len(K) = Len(O) + 1 /\ K[Len(K)] = e
      /\ \A i \in 1..Len(K) : i \in 1..Len(O) \/ i = Len(K)
      /\ \A i \in 1..Len(O) : K[i] = O[i]
    BY DEF Longer
<1>1. Coded(K)
    BY <1>0 DEF Sound, Coded
<1>2. Probed(K)
    <2>1. ASSUME NEW i \in 1..Len(O), O[i].type = "requalify" PROVE Probes(K, i)
        <3>1. Probes(O, i) /\ O[i].at \in 1..Len(O)
            BY <1>0, <2>1 DEF Sound, Probed, Probes
        <3> QED BY <1>0, <3>1 DEF Probes
    <2> QED BY <1>0, <2>1 DEF Probed
<1>3. Conclusive(K)
    <2>1. ASSUME NEW i \in 1..Len(O), O[i].type = "checkpoint" PROVE Concludes(K, i)
        <3>1. Concludes(O, i) /\ O[i].boundary \in 1..Len(O)
            BY <1>0, <2>1 DEF Sound, Conclusive, Concludes
        <3> QED BY <1>0, <3>1 DEF Concludes
    <2>2. ASSUME NEW i \in 1..Len(K), K[i].type = "checkpoint",
                 NEW j \in 1..Len(K), K[j].type = "checkpoint"
          PROVE  i = j
        BY <1>0, <2>2 DEF Sound, Conclusive, Has
    <2> QED BY <1>0, <2>1, <2>2 DEF Conclusive
<1> QED BY <1>1, <1>2, <1>3 DEF Sound

\* A journal with a conclusion has a probe.
LEMMA ConcludedProbed ==
    ASSUME NEW O \in Seq(OrderType), Sound(O), Has(O, "checkpoint")
    PROVE  Has(O, "requalify")
<1>1. PICK i \in 1..Len(O) : O[i].type = "checkpoint"
    BY DEF Has
<1>2. O[i].boundary \in 1..(i - 1) /\ O[O[i].boundary].type = "requalify"
    BY <1>1 DEF Sound, Conclusive, Concludes
<1>3. O[i].boundary \in 1..Len(O)
    BY <1>1, <1>2
<1> QED BY <1>2, <1>3 DEF Has

----------------------------------------------------------------------------
(* What a memory knows, when it changes and the journal grows *)
\* What Follows says of a memory rests on these fields of it.
LEMMA FollowsLike ==
    ASSUME NEW O, NEW m, Follows(m, O), NEW n,
           n.status = m.status, n.code = m.code, n.outcome = m.outcome,
           n.boundary = m.boundary, n.probe = m.probe, n.core = m.core,
           n.fault = m.fault, n.emitted = m.emitted
    PROVE  Follows(n, O)
BY DEF Follows, Worked, Guided, Blames

\* A pause.
LEMMA FollowsPause ==
    ASSUME NEW O, NEW K, NEW e, Longer(O, K, e), e.type = "pause",
           NEW m \in HandlerType, Follows(m, O)
    PROVE  Follows(m, K)
<1>0. /\ Len(O) \in Nat /\ Len(K) = Len(O) + 1 /\ K[Len(K)] = e
      /\ \A i \in 1..Len(K) : i \in 1..Len(O) \/ i = Len(K)
      /\ \A i \in 1..Len(O) : K[i] = O[i] /\ i \in 1..Len(K)
    BY DEF Longer
<1>1. /\ \A t : t # "pause" => (Has(K, t) <=> Has(O, t))
      /\ Cleared(K) <=> Cleared(O)
      /\ Faulted(O, Len(O)) => Faulted(K, Len(K))
    BY HasLonger, ClearedLonger, FaultedLonger DEF Clearing
<1>2. m.outcome \in Nat /\ m.boundary \in Nat /\ m.probe \in Probing
    BY MemoryFields DEF HandlerType
<1>3. Worked(m, K)
    BY <1>0 DEF Follows, Worked
<1>4. Guided(m, K)
    <2>1. m.probe = "probing" => m.boundary \in 1..Len(O)
        BY <1>2, <1>0 DEF Follows, Guided
    <2> QED BY <1>0, <1>1, <1>2, <2>1 DEF Follows, Guided
<1>5. Blames(m, K)
    BY <1>1 DEF Follows, Blames
<1> QED BY <1>3, <1>4, <1>5 DEF Follows

\* A synchronization fault, noted live or read again.
LEMMA FollowsSyncFault ==
    ASSUME NEW O, NEW K, NEW e, Longer(O, K, e), e.type = "sync_fault",
           NEW m \in HandlerType, Follows(m, O), NEW n,
           n.status = m.status, n.code = m.code, n.outcome = m.outcome,
           n.boundary = m.boundary, n.probe = m.probe, n.core = m.core,
           n.fault # "none"
    PROVE  Follows(n, K)
<1>0. /\ Len(O) \in Nat /\ Len(K) = Len(O) + 1 /\ K[Len(K)] = e
      /\ \A i \in 1..Len(K) : i \in 1..Len(O) \/ i = Len(K)
      /\ \A i \in 1..Len(O) : K[i] = O[i] /\ i \in 1..Len(K)
    BY DEF Longer
<1>1. /\ \A t : t # "sync_fault" => (Has(K, t) <=> Has(O, t))
      /\ Has(K, "sync_fault")
      /\ Cleared(K) <=> Cleared(O)
      /\ Faulted(K, Len(K))
    BY HasLonger, ClearedLonger, FaultedLonger DEF Clearing, Failing
<1>2. m.outcome \in Nat /\ m.boundary \in Nat /\ m.probe \in Probing
    BY MemoryFields DEF HandlerType
<1>3. Worked(n, K)
    BY <1>0 DEF Follows, Worked
<1>4. Guided(n, K)
    <2>1. m.probe = "probing" => m.boundary \in 1..Len(O)
        BY <1>2, <1>0 DEF Follows, Guided
    <2> QED BY <1>0, <1>1, <1>2, <2>1 DEF Follows, Guided
<1>5. Blames(n, K)
    BY <1>1 DEF Blames
<1> QED BY <1>3, <1>4, <1>5 DEF Follows

\* The outcome of the work.
LEMMA FollowsOutcome ==
    ASSUME NEW O, NEW K, NEW e, Longer(O, K, e), e.type = "outcome", e.seq = Len(K),
           e.result = "faulted" => e.code # "none",
           NEW m \in HandlerType, Follows(m, O), m.status = "pending", Sound(O), NEW n,
           n.status = e.result, n.code = e.code, n.outcome = e.seq,
           n.boundary = m.boundary, n.probe = m.probe, n.core = m.core,
           n.fault = (IF e.result = "faulted" THEN e.code ELSE m.fault), n.emitted = m.emitted
    PROVE  Follows(n, K)
<1>0. /\ Len(O) \in Nat /\ Len(K) = Len(O) + 1 /\ K[Len(K)] = e
      /\ \A i \in 1..Len(K) : i \in 1..Len(O) \/ i = Len(K)
      /\ \A i \in 1..Len(O) : K[i] = O[i] /\ i \in 1..Len(K)
    BY DEF Longer
<1>1. /\ \A t : t # "outcome" => (Has(K, t) <=> Has(O, t))
      /\ Cleared(K) <=> Cleared(O)
      /\ Faulted(O, Len(O)) => Faulted(K, Len(K))
      /\ e.result = "faulted" => Faulted(K, Len(K))
    BY HasLonger, ClearedLonger, FaultedLonger DEF Clearing, Failing
<1>2. m.outcome = 0 /\ m.probe = "none" /\ ~Has(O, "requalify") /\ m.boundary = 0
    BY DEF Follows, Worked, Guided, Has
<1>3. Worked(n, K)
    <2>1. e.result # "pending"
        BY OrderKinds DEF Longer
    <2>2. \A i \in 1..Len(K) : K[i].type # "requalify"
        BY <1>0, <1>2 DEF Has
    <2> QED BY <1>0, <2>1, <2>2 DEF Worked
<1>4. Guided(n, K)
    BY <1>0, <1>1, <1>2 DEF Follows, Guided
<1>5. Blames(n, K)
    BY <1>1, <1>2 DEF Follows, Blames
<1> QED BY <1>3, <1>4, <1>5 DEF Follows

\* A probe.
LEMMA FollowsProbe ==
    ASSUME NEW O, NEW K, NEW e, Longer(O, K, e), e.type = "requalify", e.core = "kept",
           NEW m \in HandlerType, Follows(m, O), m.status = "faulted", e.clears = m.code,
           ~Has(O, "requalify"), Sound(O), ~Has(O, "sync_fault") => m.fault = m.code,
           NEW n, n.status = m.status, n.code = m.code, n.outcome = m.outcome,
           n.boundary = Len(K), n.probe = "probing", n.core = e.core,
           n.fault = m.fault, n.emitted = m.emitted
    PROVE  Follows(n, K)
<1>0. /\ Len(O) \in Nat /\ Len(K) = Len(O) + 1 /\ K[Len(K)] = e /\ O \in Seq(OrderType)
      /\ \A i \in 1..Len(K) : i \in 1..Len(O) \/ i = Len(K)
      /\ \A i \in 1..Len(O) : K[i] = O[i] /\ i \in 1..Len(K)
    BY DEF Longer
<1>1. /\ \A t : t # "requalify" => (Has(K, t) <=> Has(O, t))
      /\ Cleared(K) <=> Cleared(O)
      /\ Faulted(O, Len(O)) => Faulted(K, Len(K))
    BY HasLonger, ClearedLonger, FaultedLonger DEF Clearing
<1>2. ~Has(O, "checkpoint") /\ ~Cleared(O)
    BY <1>0, ConcludedProbed DEF Cleared, Clearing, Has
<1>3. Worked(n, K)
    <2>1. m.outcome \in 1..Len(O)
        BY DEF Follows, Worked
    <2>2. \A i \in 1..Len(K) : K[i].type = "requalify" => i = Len(K)
        BY <1>0 DEF Has
    <2> QED BY <1>0, <2>1, <2>2 DEF Follows, Worked
<1>4. Guided(n, K)
    BY <1>0, <1>1, <1>2 DEF Guided
<1>5. Blames(n, K)
    BY <1>1 DEF Follows, Blames
<1> QED BY <1>3, <1>4, <1>5 DEF Follows

\* The checkpoint that concludes the probe.
LEMMA FollowsCheckpoint ==
    ASSUME NEW O, NEW K, NEW e, Longer(O, K, e), e.type = "checkpoint",
           ~e.success => e.code # "none",
           NEW m \in HandlerType, Follows(m, O), m.probe = "probing", NEW n,
           n.code = m.code, n.outcome = m.outcome, n.boundary = m.boundary,
           n.status = (IF e.success THEN "rejected" ELSE m.status),
           n.probe = (IF e.success THEN "recovered" ELSE "rollback"),
           n.fault = (IF e.success THEN "none" ELSE e.code),
           (e.success => ~n.emitted) /\ (~e.success => n.emitted = m.emitted)
    PROVE  Follows(n, K)
<1>0. /\ Len(O) \in Nat /\ Len(K) = Len(O) + 1 /\ K[Len(K)] = e /\ O \in Seq(OrderType)
      /\ \A i \in 1..Len(K) : i \in 1..Len(O) \/ i = Len(K)
      /\ \A i \in 1..Len(O) : K[i] = O[i] /\ i \in 1..Len(K)
    BY DEF Longer
<1>1. /\ \A t : t # "checkpoint" => (Has(K, t) <=> Has(O, t))
      /\ Cleared(K) <=> Cleared(O) \/ e.success
      /\ ~e.success => Faulted(K, Len(K))
    BY HasLonger, ClearedLonger, FaultedLonger DEF Clearing, Failing
<1>2. ~Has(O, "checkpoint") /\ ~Cleared(O) /\ m.status = "faulted"
    BY DEF Follows, Guided, Cleared, Clearing, Has
<1>3. Worked(n, K)
    <2>1. m.outcome \in 1..Len(O)
        BY <1>2 DEF Follows, Worked
    <2>2. n.status # "pending" /\ (n.status = "faulted" => m.status = "faulted")
        BY <1>2
    <2>3. \A i \in 1..Len(K) : K[i].type = "requalify" => i \in 1..Len(O) /\ O[i].type = "requalify"
        BY <1>0
    <2> QED BY <1>0, <1>2, <2>1, <2>2, <2>3 DEF Follows, Worked
<1>4. Guided(n, K)
    <2>1. m.boundary \in 0..Len(O) /\ m.boundary # 0
        BY DEF Follows, Guided
    <2> QED BY <1>0, <1>1, <1>2, <2>1 DEF Guided
<1>5. Blames(n, K)
    BY <1>1 DEF Follows, Blames
<1> QED BY <1>3, <1>4, <1>5 DEF Follows

----------------------------------------------------------------------------
(* One entry, in the memory of the handler and in the one that is read again *)
\* The parts of a memory that an entry can leave alone.
LikeWork(m, n) == n.status = m.status /\ n.code = m.code /\ n.outcome = m.outcome
LikeProbe(m, n) == n.boundary = m.boundary /\ n.probe = m.probe /\ n.core = m.core
LikeFault(m, n) == n.fault = m.fault /\ n.emitted = m.emitted
LikeStop(m, n) == n.stopping = m.stopping /\ n.stopped = m.stopped
LikeSaid(m, n) == n.done = m.done /\ n.points = m.points
LikeSelf(m, n) == n.up = m.up /\ n.health = m.health

\* What a restart makes of a message that the host had read.
LEMMA ReplayMessage ==
    ASSUME NEW d \in MemoryType, NEW e \in MessageType, e.type # "health"
    PROVE  LET x == Replay(d, e)
           IN /\ x \in MemoryType
              /\ LikeWork(d, x) /\ LikeProbe(d, x) /\ LikeFault(d, x) /\ LikeSelf(d, x)
              /\ e.type = "done" => /\ x.done = [d.done EXCEPT ![e.peer] = e.state]
                                    /\ x.points = d.points /\ LikeStop(d, x)
              /\ e.type = "point" => /\ x.points = [d.points EXCEPT ![e.peer] = e.state]
                                     /\ x.done = d.done /\ LikeStop(d, x)
              /\ e.type = "ack" => /\ x.stopped = d.stopped \union {e.peer}
                                   /\ x.stopping = d.stopping /\ LikeSaid(d, x)
<1>0. /\ d.done \in [Peer -> Results \union {None}]
      /\ d.points \in [Peer -> PointType \union {None}] /\ d.stopped \subseteq Peer
    BY MemoryFields DEF MemoryType
<1>1. CASE e.type = "done"
    <2>1. Replay(d, e) = [d EXCEPT !.done = [d.done EXCEPT ![e.peer] = e.state]]
        BY <1>1 DEF Replay
    <2>2. [d.done EXCEPT ![e.peer] = e.state] \in [Peer -> Results \union {None}]
        BY <1>0, <1>1, MessageKinds
    <2> DEFINE f == [d.done EXCEPT ![e.peer] = e.state]
    <2> HIDE DEF f
    <2>3. [d EXCEPT !.done = f] \in MemoryType
        BY <2>2 DEF f, MemoryType, Memory
    <2>4. LET x == [d EXCEPT !.done = f]
          IN /\ x.done = f /\ x.points = d.points /\ LikeStop(d, x)
             /\ LikeWork(d, x) /\ LikeProbe(d, x) /\ LikeFault(d, x) /\ LikeSelf(d, x)
        BY DEF MemoryType, Memory, LikeWork, LikeProbe, LikeFault, LikeSelf, LikeStop
    <2> QED BY <1>1, <2>1, <2>3, <2>4 DEF f
<1>2. CASE e.type = "point"
    <2>1. Replay(d, e) = [d EXCEPT !.points = [d.points EXCEPT ![e.peer] = e.state]]
        BY <1>2 DEF Replay
    <2>2. [d.points EXCEPT ![e.peer] = e.state] \in [Peer -> PointType \union {None}]
        BY <1>0, <1>2, MessageKinds
    <2> DEFINE f == [d.points EXCEPT ![e.peer] = e.state]
    <2> HIDE DEF f
    <2>3. [d EXCEPT !.points = f] \in MemoryType
        BY <2>2 DEF f, MemoryType, Memory
    <2>4. LET x == [d EXCEPT !.points = f]
          IN /\ x.points = f /\ x.done = d.done /\ LikeStop(d, x)
             /\ LikeWork(d, x) /\ LikeProbe(d, x) /\ LikeFault(d, x) /\ LikeSelf(d, x)
        BY DEF MemoryType, Memory, LikeWork, LikeProbe, LikeFault, LikeSelf, LikeStop
    <2> QED BY <1>2, <2>1, <2>3, <2>4 DEF f
<1>3. CASE e.type = "ack"
    <2>1. Replay(d, e) = [d EXCEPT !.stopped = d.stopped \union {e.peer}]
        BY <1>3 DEF Replay
    <2>2. d.stopped \union {e.peer} \subseteq Peer
        BY <1>0, MessageKinds
    <2> DEFINE f == d.stopped \union {e.peer}
    <2> HIDE DEF f
    <2>3. [d EXCEPT !.stopped = f] \in MemoryType
        BY <2>2 DEF f, MemoryType, Memory
    <2>4. LET x == [d EXCEPT !.stopped = f]
          IN /\ x.stopped = f /\ x.stopping = d.stopping /\ LikeSaid(d, x)
             /\ LikeWork(d, x) /\ LikeProbe(d, x) /\ LikeFault(d, x) /\ LikeSelf(d, x)
        BY DEF MemoryType, Memory, LikeWork, LikeProbe, LikeFault, LikeSelf, LikeSaid
    <2> QED BY <1>3, <2>1, <2>3, <2>4 DEF f
<1> QED BY <1>1, <1>2, <1>3, MessageKinds

\* Memories that differ in what games have said, and in the pause, know the same.
LEMMA FollowsSaid ==
    ASSUME NEW m, NEW n, NEW O, Follows(m, O), LikeWork(m, n), LikeProbe(m, n), LikeFault(m, n)
    PROVE  Follows(n, O)
BY FollowsLike DEF LikeWork, LikeProbe, LikeFault

\* A completion of the work.
LEMMA DoneKept ==
    ASSUME NEW O, NEW g, NEW d, NEW h, Kept(h, d, O, g),
           NEW e \in MessageType, e.type = "done", h.done[e.peer] = None,
           NEW x \in HandlerType, x.done = [h.done EXCEPT ![e.peer] = e.state],
           x.points = h.points, LikeWork(h, x), LikeProbe(h, x), LikeFault(h, x),
           LikeStop(h, x), x.up = h.up
    PROVE  Kept(x, Replay(d, e), O, g)
<1> DEFINE y == Replay(d, e)
<1>0. d \in MemoryType /\ Good(d, O, g) /\ Same(h, d, O) /\ Follows(h, O) /\ e.peer \in Peer
    BY MessageKinds DEF Kept, Good
<1>1. /\ y \in MemoryType /\ LikeWork(d, y) /\ LikeProbe(d, y) /\ LikeFault(d, y)
      /\ LikeSelf(d, y) /\ y.done = [d.done EXCEPT ![e.peer] = e.state]
      /\ y.points = d.points /\ LikeStop(d, y)
    BY <1>0, ReplayMessage
<1> HIDE DEF y
<1>2. Follows(x, O) /\ (d.up => Follows(y, O))
    BY <1>0, <1>1, FollowsSaid DEF Good
<1>3. Same(x, y, O)
    BY <1>0, <1>1 DEF Same, LikeWork, LikeProbe, LikeFault, LikeSelf, LikeStop
<1>4. ~Has(O, "requalify")
    BY <1>0 DEF Good, Refused, Same
<1>5. Good(y, O, g)
    BY <1>0, <1>1, <1>2, <1>4 DEF Good, Refused, Alike, Stops, Pointed, LikeSelf, LikeStop
<1> QED BY <1>2, <1>3, <1>5 DEF Kept, y

\* A checkpoint of a game.
LEMMA PointKept ==
    ASSUME NEW O, NEW g, NEW d, NEW h, Kept(h, d, O, g),
           NEW e \in MessageType, e.type = "point", h.points[e.peer] = None,
           PointOf(e.peer, g[e.peer], e.state),
           NEW x \in HandlerType, x.points = [h.points EXCEPT ![e.peer] = e.state],
           x.done = h.done, LikeWork(h, x), LikeProbe(h, x), LikeFault(h, x),
           LikeStop(h, x), x.up = h.up
    PROVE  Kept(x, Replay(d, e), O, g)
<1> DEFINE y == Replay(d, e)
<1>0. d \in MemoryType /\ Good(d, O, g) /\ Same(h, d, O) /\ Follows(h, O) /\ e.peer \in Peer
    BY MessageKinds DEF Kept, Good
<1>1. /\ y \in MemoryType /\ LikeWork(d, y) /\ LikeProbe(d, y) /\ LikeFault(d, y)
      /\ LikeSelf(d, y) /\ y.points = [d.points EXCEPT ![e.peer] = e.state]
      /\ y.done = d.done /\ LikeStop(d, y)
    BY <1>0, ReplayMessage
<1> HIDE DEF y
<1>2. Follows(x, O) /\ (d.up => Follows(y, O))
    BY <1>0, <1>1, FollowsSaid DEF Good
<1>3. Same(x, y, O)
    BY <1>0, <1>1 DEF Same, LikeWork, LikeProbe, LikeFault, LikeSelf, LikeStop
<1>4. ~Cleared(O)
    BY <1>0 DEF Good, Alike, Same
<1>5. Pointed(y, g)
    <2>1. d.points \in [Peer -> PointType \union {None}]
        BY <1>0, MemoryFields DEF MemoryType
    <2> QED BY <1>0, <1>1, <2>1 DEF Good, Pointed
<1>6. Good(y, O, g)
    BY <1>0, <1>1, <1>2, <1>4, <1>5 DEF Good, Refused, Alike, Stops, LikeSelf, LikeStop
<1> QED BY <1>2, <1>3, <1>6 DEF Kept, y

\* An acknowledgement of the pause.
LEMMA AckKept ==
    ASSUME NEW O, NEW g, NEW d, NEW h, Kept(h, d, O, g),
           NEW e \in MessageType, e.type = "ack", Has(O, "pause"),
           NEW x \in HandlerType, x.stopped = h.stopped \union {e.peer},
           x.stopping = h.stopping, LikeSaid(h, x), LikeWork(h, x), LikeProbe(h, x),
           LikeFault(h, x), x.up = h.up
    PROVE  Kept(x, Replay(d, e), O, g)
<1> DEFINE y == Replay(d, e)
<1>0. d \in MemoryType /\ Good(d, O, g) /\ Same(h, d, O) /\ Follows(h, O) /\ e.peer \in Peer
    BY MessageKinds DEF Kept, Good
<1>1. /\ y \in MemoryType /\ LikeWork(d, y) /\ LikeProbe(d, y) /\ LikeFault(d, y)
      /\ LikeSelf(d, y) /\ y.stopped = d.stopped \union {e.peer}
      /\ y.stopping = d.stopping /\ LikeSaid(d, y)
    BY <1>0, ReplayMessage
<1> HIDE DEF y
<1>2. Follows(x, O) /\ (d.up => Follows(y, O))
    BY <1>0, <1>1, FollowsSaid DEF Good
<1>3. Same(x, y, O)
    BY <1>0, <1>1 DEF Same, LikeWork, LikeProbe, LikeFault, LikeSelf, LikeSaid
<1>4. Good(y, O, g)
    BY <1>0, <1>1, <1>2 DEF Good, Refused, Alike, Stops, Pointed, LikeSelf, LikeSaid
<1> QED BY <1>2, <1>3, <1>4 DEF Kept, y

\* The outcome of the work, live or read again.
LEMMA OutcomeTracked ==
    ASSUME NEW W, NEW d \in Memory(W), NEW e \in OrderType, e.type = "outcome"
    PROVE  LET x == TrackOutcome(d, e)
           IN /\ x \in Memory(W) /\ x.wrote = d.wrote
              /\ x.status = e.result /\ x.code = e.code /\ x.outcome = e.seq
              /\ x.fault = (IF e.result = "faulted" THEN e.code ELSE d.fault)
              /\ x.emitted = d.emitted
              /\ LikeProbe(d, x) /\ LikeStop(d, x) /\ LikeSaid(d, x) /\ LikeSelf(d, x)
<1>1. /\ e.result \in Statuses /\ e.code \in Codes /\ e.seq \in Nat
    BY OrderKinds
<1> DEFINE f == IF e.result = "faulted" THEN e.code ELSE d.fault
<1>2. f \in Codes
    BY <1>1, MemoryFields
<1>3. TrackOutcome(d, e) =
        [d EXCEPT !.status = e.result, !.code = e.code, !.outcome = e.seq, !.fault = f]
    BY DEF TrackOutcome
<1> HIDE DEF f
<1> DEFINE x == [d EXCEPT !.status = e.result, !.code = e.code, !.outcome = e.seq, !.fault = f]
<1>4. x \in Memory(W)
    BY <1>1, <1>2 DEF Memory
<1>5. /\ x.status = e.result /\ x.code = e.code /\ x.outcome = e.seq /\ x.fault = f
      /\ x.emitted = d.emitted /\ x.wrote = d.wrote
      /\ LikeProbe(d, x) /\ LikeStop(d, x) /\ LikeSaid(d, x) /\ LikeSelf(d, x)
    BY DEF Memory, LikeProbe, LikeStop, LikeSaid, LikeSelf
<1> QED BY <1>3, <1>4, <1>5 DEF f

\* A probe.
LEMMA ProbeTracked ==
    ASSUME NEW W, NEW d \in Memory(W), NEW e \in OrderType, e.type = "requalify"
    PROVE  LET x == TrackProbe(d, e)
           IN /\ x \in Memory(W) /\ x.wrote = d.wrote
              /\ x.probe = "probing" /\ x.boundary = e.seq /\ x.core = e.core
              /\ x.points = NoHealth /\ x.done = d.done
              /\ LikeWork(d, x) /\ LikeFault(d, x) /\ LikeStop(d, x) /\ LikeSelf(d, x)
<1>1. e.core = "kept" /\ e.seq \in Nat
    BY OrderKinds
<1>2. TrackProbe(d, e) = [d EXCEPT !.probe = "probing", !.boundary = e.seq,
                                   !.core = e.core, !.points = NoHealth]
    BY DEF TrackProbe, NoHealth
<1>3. NoHealth \in [Peer -> PointType \union {None}]
    BY DEF NoHealth
<1> HIDE DEF NoHealth
<1> DEFINE x == [d EXCEPT !.probe = "probing", !.boundary = e.seq,
                          !.core = e.core, !.points = NoHealth]
<1>4. x \in Memory(W)
    BY <1>1, <1>3 DEF Memory, Probing
<1>5. /\ x.probe = "probing" /\ x.boundary = e.seq /\ x.core = e.core
      /\ x.points = NoHealth /\ x.done = d.done /\ x.wrote = d.wrote
      /\ LikeWork(d, x) /\ LikeFault(d, x) /\ LikeStop(d, x) /\ LikeSelf(d, x)
    BY DEF Memory, LikeWork, LikeFault, LikeStop, LikeSelf
<1> QED BY <1>2, <1>4, <1>5

\* The checkpoint that concludes it.
LEMMA CheckpointTracked ==
    ASSUME NEW W, NEW d \in Memory(W), NEW e \in OrderType, e.type = "checkpoint",
           NEW x, x = TrackCheckpoint(d, e)
    PROVE  /\ x \in Memory(W) /\ x.wrote = d.wrote
           /\ x.probe = (IF e.success THEN "recovered" ELSE "rollback")
           /\ x.status = (IF e.success THEN "rejected" ELSE d.status)
           /\ x.fault = (IF e.success THEN "none" ELSE e.code)
           /\ (e.success => ~x.emitted) /\ (~e.success => x.emitted = d.emitted)
           /\ x.boundary = d.boundary /\ x.core = d.core
           /\ x.code = d.code /\ x.outcome = d.outcome
           /\ LikeStop(d, x) /\ LikeSaid(d, x) /\ LikeSelf(d, x)
<1>1. e.success \in BOOLEAN /\ e.code \in Codes /\ "none" \in Codes
    BY OrderKinds DEF Codes
<1>2. CASE e.success
    BY <1>1, <1>2 DEF TrackCheckpoint, Memory, Probing, Statuses, LikeStop, LikeSaid, LikeSelf
<1>3. CASE ~e.success
    BY <1>1, <1>3 DEF TrackCheckpoint, Memory, Probing, LikeStop, LikeSaid, LikeSelf
<1> QED BY <1>2, <1>3

\* The other orders, as a restart reads them.
LEMMA ReplayOrder ==
    ASSUME NEW d \in MemoryType, NEW e \in OrderType
    PROVE  LET x == Replay(d, e)
           IN /\ e.type = "outcome" => x = TrackOutcome(d, e)
              /\ e.type = "requalify" => x = TrackProbe(d, e)
              /\ e.type = "checkpoint" =>
                   x = IF ClearsAnother(d, e) THEN [d EXCEPT !.up = FALSE]
                       ELSE TrackCheckpoint(d, e)
              /\ e.type = "sync_fault" =>
                   /\ x \in MemoryType /\ x.fault = e.code /\ x.emitted = TRUE
                   /\ LikeWork(d, x) /\ LikeProbe(d, x) /\ LikeStop(d, x)
                   /\ LikeSaid(d, x) /\ LikeSelf(d, x)
              /\ e.type = "pause" =>
                   /\ x \in MemoryType /\ x.stopping = TRUE /\ x.stopped = {}
                   /\ LikeWork(d, x) /\ LikeProbe(d, x) /\ LikeFault(d, x)
                   /\ LikeSaid(d, x) /\ LikeSelf(d, x)
<1>1. CASE e.type = "outcome"
    BY <1>1 DEF Replay
<1>2. CASE e.type = "requalify"
    BY <1>2 DEF Replay
<1>3. CASE e.type = "checkpoint"
    BY <1>3 DEF Replay
<1>4. CASE e.type = "sync_fault"
    <2>1. Replay(d, e) = [d EXCEPT !.fault = e.code, !.emitted = TRUE] /\ e.code \in Codes
        BY <1>4, OrderKinds DEF Replay
    <2> DEFINE x == [d EXCEPT !.fault = e.code, !.emitted = TRUE]
    <2>2. x \in MemoryType
        BY <2>1 DEF MemoryType, Memory
    <2>3. /\ x.fault = e.code /\ x.emitted = TRUE
          /\ LikeWork(d, x) /\ LikeProbe(d, x) /\ LikeStop(d, x)
          /\ LikeSaid(d, x) /\ LikeSelf(d, x)
        BY DEF MemoryType, Memory, LikeWork, LikeProbe, LikeStop, LikeSaid, LikeSelf
    <2> QED BY <1>4, <2>1, <2>2, <2>3
<1>5. CASE e.type = "pause"
    <2>1. Replay(d, e) = [d EXCEPT !.stopping = TRUE, !.stopped = {}]
        BY <1>5 DEF Replay
    <2> DEFINE x == [d EXCEPT !.stopping = TRUE, !.stopped = {}]
    <2>2. x \in MemoryType
        BY DEF MemoryType, Memory
    <2>3. /\ x.stopping = TRUE /\ x.stopped = {}
          /\ LikeWork(d, x) /\ LikeProbe(d, x) /\ LikeFault(d, x)
          /\ LikeSaid(d, x) /\ LikeSelf(d, x)
        BY DEF MemoryType, Memory, LikeWork, LikeProbe, LikeFault, LikeSaid, LikeSelf
    <2> QED BY <1>5, <2>1, <2>2, <2>3
<1> QED BY <1>1, <1>2, <1>3, <1>4, <1>5, OrderKinds

\* A handler writes an entry.
LEMMA WrittenMemory ==
    ASSUME NEW m \in HandlerType, NEW e \in EntryType
    PROVE  LET x == Write(m, e)
           IN /\ x \in HandlerType /\ x.wrote = Append(m.wrote, e)
              /\ LikeWork(m, x) /\ LikeProbe(m, x) /\ LikeFault(m, x) /\ LikeStop(m, x)
              /\ LikeSaid(m, x) /\ LikeSelf(m, x)
<1>1. Append(m.wrote, e) \in Seq(EntryType)
    BY MemoryFields DEF HandlerType
<1> DEFINE w == Append(m.wrote, e)
<1>2. Write(m, e) = [m EXCEPT !.wrote = w]
    BY DEF Write
<1> HIDE DEF w
<1> DEFINE x == [m EXCEPT !.wrote = w]
<1>3. x \in HandlerType
    BY <1>1 DEF w, HandlerType, Memory
<1>4. /\ x.wrote = w
      /\ LikeWork(m, x) /\ LikeProbe(m, x) /\ LikeFault(m, x) /\ LikeStop(m, x)
      /\ LikeSaid(m, x) /\ LikeSelf(m, x)
    BY DEF HandlerType, Memory, LikeWork, LikeProbe, LikeFault, LikeStop, LikeSaid, LikeSelf
<1> QED BY <1>2, <1>3, <1>4 DEF w

\* What Kept says does not depend on what is written and on health.
LEMMA KeptLike ==
    ASSUME NEW O, NEW g, NEW d, NEW h, Kept(h, d, O, g), NEW x \in HandlerType, x.up = h.up,
           LikeWork(h, x), LikeProbe(h, x), LikeFault(h, x), LikeStop(h, x), LikeSaid(h, x)
    PROVE  Kept(x, d, O, g)
<1>1. Follows(x, O)
    BY FollowsSaid DEF Kept
<1> QED BY <1>1 DEF Kept, Same, LikeWork, LikeProbe, LikeFault, LikeStop, LikeSaid

\* The work is over.
LEMMA OutcomeKept ==
    ASSUME NEW O, NEW g, NEW d, NEW h, Kept(h, d, O, g), h.status = "pending",
           NEW e \in OrderType, e.type = "outcome", e.seq = Len(O) + 1,
           e.result = "faulted" => e.code # "none",
           NEW x \in HandlerType, x.status = e.result, x.code = e.code, x.outcome = e.seq,
           x.fault = (IF e.result = "faulted" THEN e.code ELSE h.fault),
           x.emitted = h.emitted, LikeProbe(h, x), LikeStop(h, x), LikeSaid(h, x), x.up = h.up
    PROVE  Kept(x, Replay(d, e), Append(O, e), g)
<1> DEFINE y == Replay(d, e)
           K == Append(O, e)
<1>0. /\ d \in MemoryType /\ Good(d, O, g) /\ Same(h, d, O) /\ Follows(h, O) /\ h \in HandlerType
      /\ O \in Seq(OrderType) /\ Longer(O, K, e) /\ Len(K) = Len(O) + 1 /\ K \in Seq(OrderType)
      /\ Sound(O)
    BY AppendLonger DEF Kept, Good, Longer
<1>1. /\ y \in MemoryType /\ LikeProbe(d, y) /\ LikeStop(d, y) /\ LikeSaid(d, y)
      /\ LikeSelf(d, y) /\ y.status = e.result /\ y.code = e.code /\ y.outcome = e.seq
      /\ y.fault = (IF e.result = "faulted" THEN e.code ELSE d.fault) /\ y.emitted = d.emitted
    <2>1. y = TrackOutcome(d, e) /\ d \in Memory({<<>>})
        BY <1>0, ReplayOrder DEF MemoryType
    <2>2. LET z == TrackOutcome(d, e)
          IN /\ z \in Memory({<<>>})
             /\ LikeProbe(d, z) /\ LikeStop(d, z) /\ LikeSaid(d, z) /\ LikeSelf(d, z)
             /\ z.status = e.result /\ z.code = e.code /\ z.outcome = e.seq
             /\ z.fault = (IF e.result = "faulted" THEN e.code ELSE d.fault)
             /\ z.emitted = d.emitted
        BY <2>1, OutcomeTracked
    <2> HIDE DEF y
    <2> QED BY <2>1, <2>2 DEF MemoryType
<1> HIDE DEF y, K
<1>2. Follows(x, K)
    BY <1>0, FollowsOutcome DEF LikeProbe
<1>3. d.up => Follows(y, K)
    <2>1. d \in HandlerType
        BY <1>0, HandlerMemory
    <2>2. ASSUME d.up PROVE d.status = "pending" /\ Follows(d, O)
        BY <1>0, <2>2 DEF Same, Good
    <2> QED BY <1>0, <1>1, <2>1, <2>2, FollowsOutcome DEF LikeProbe
<1>4. /\ Has(K, "sync_fault") <=> Has(O, "sync_fault")
      /\ Has(K, "requalify") <=> Has(O, "requalify")
      /\ Has(K, "pause") <=> Has(O, "pause")
      /\ Cleared(K) <=> Cleared(O)
    BY <1>0, HasLonger, ClearedLonger DEF Clearing
<1>5. Same(x, y, K)
    BY <1>0, <1>1, <1>4 DEF Same, LikeProbe, LikeSelf, LikeStop, LikeSaid
<1>6. Sound(K)
    BY <1>0, SoundLonger DEF Failing
<1>7. Good(y, K, g)
    BY <1>0, <1>1, <1>3, <1>4, <1>6 DEF Good, Refused, Alike, Stops, Pointed, LikeSelf, LikeStop, LikeSaid
<1> QED BY <1>2, <1>5, <1>7 DEF Kept, y, K

\* A synchronization fault is ordered.
LEMMA SyncFaultKept ==
    ASSUME NEW O, NEW g, NEW d, NEW h, Kept(h, d, O, g),
           NEW e \in OrderType, e.type = "sync_fault", e.code # "none",
           NEW x \in HandlerType, x.fault # "none", x.emitted = TRUE,
           LikeWork(h, x), LikeProbe(h, x), LikeStop(h, x), LikeSaid(h, x), x.up = h.up
    PROVE  Kept(x, Replay(d, e), Append(O, e), g)
<1> DEFINE y == Replay(d, e)
           K == Append(O, e)
<1>0. /\ d \in MemoryType /\ Good(d, O, g) /\ Same(h, d, O) /\ Follows(h, O) /\ h \in HandlerType
      /\ O \in Seq(OrderType) /\ Longer(O, K, e) /\ Len(K) = Len(O) + 1 /\ K \in Seq(OrderType)
      /\ Sound(O)
    BY AppendLonger DEF Kept, Good, Longer
<1>1. /\ y \in MemoryType /\ LikeWork(d, y) /\ LikeProbe(d, y) /\ LikeStop(d, y)
      /\ LikeSaid(d, y) /\ LikeSelf(d, y) /\ y.fault = e.code /\ y.emitted = TRUE
    BY <1>0, ReplayOrder
<1> HIDE DEF y, K
<1>2. Follows(x, K)
    BY <1>0, FollowsSyncFault DEF LikeWork, LikeProbe
<1>3. d.up => Follows(y, K)
    <2>1. d \in HandlerType
        BY <1>0, HandlerMemory
    <2>2. d.up => Follows(d, O)
        BY <1>0 DEF Good
    <2> QED BY <1>0, <1>1, <2>1, <2>2, FollowsSyncFault DEF LikeWork, LikeProbe
<1>4. /\ Has(K, "sync_fault")
      /\ Has(K, "requalify") <=> Has(O, "requalify")
      /\ Has(K, "pause") <=> Has(O, "pause")
      /\ Cleared(K) <=> Cleared(O)
    BY <1>0, HasLonger, ClearedLonger DEF Clearing
<1>5. Same(x, y, K)
    BY <1>0, <1>1, <1>4 DEF Same, LikeWork, LikeProbe, LikeSelf, LikeStop, LikeSaid
<1>6. Sound(K)
    BY <1>0, SoundLonger
<1>7. Good(y, K, g)
    BY <1>0, <1>1, <1>3, <1>4, <1>6 DEF Good, Refused, Alike, Stops, Pointed, LikeSelf, LikeStop, LikeSaid
<1> QED BY <1>2, <1>5, <1>7 DEF Kept, y, K

\* A pause is ordered.
LEMMA PauseKept ==
    ASSUME NEW O, NEW g, NEW d, NEW h, Kept(h, d, O, g),
           NEW e \in OrderType, e.type = "pause",
           NEW x \in HandlerType, x.stopping = TRUE, x.stopped = {},
           LikeWork(h, x), LikeProbe(h, x), LikeFault(h, x), LikeSaid(h, x), x.up = h.up
    PROVE  Kept(x, Replay(d, e), Append(O, e), g)
<1> DEFINE y == Replay(d, e)
           K == Append(O, e)
<1>0. /\ d \in MemoryType /\ Good(d, O, g) /\ Same(h, d, O) /\ Follows(h, O) /\ h \in HandlerType
      /\ O \in Seq(OrderType) /\ Longer(O, K, e) /\ Len(K) = Len(O) + 1 /\ K \in Seq(OrderType)
      /\ Sound(O)
    BY AppendLonger DEF Kept, Good, Longer
<1>1. /\ y \in MemoryType /\ LikeWork(d, y) /\ LikeProbe(d, y) /\ LikeFault(d, y)
      /\ LikeSaid(d, y) /\ LikeSelf(d, y) /\ y.stopping = TRUE /\ y.stopped = {}
    BY <1>0, ReplayOrder
<1> HIDE DEF y, K
<1>2. Follows(x, K)
    BY <1>0, FollowsPause, FollowsSaid
<1>3. d.up => Follows(y, K)
    <2>1. d \in HandlerType
        BY <1>0, HandlerMemory
    <2>2. d.up => Follows(d, K)
        BY <1>0, <2>1, FollowsPause DEF Good
    <2> QED BY <1>1, <2>2, FollowsSaid
<1>4. /\ Has(K, "sync_fault") <=> Has(O, "sync_fault")
      /\ Has(K, "requalify") <=> Has(O, "requalify")
      /\ Cleared(K) <=> Cleared(O)
    BY <1>0, HasLonger, ClearedLonger DEF Clearing
<1>5. Same(x, y, K)
    BY <1>0, <1>1, <1>4 DEF Same, LikeWork, LikeProbe, LikeFault, LikeSelf, LikeSaid
<1>6. Sound(K)
    BY <1>0, SoundLonger DEF Failing
<1>7. Good(y, K, g)
    BY <1>0, <1>1, <1>3, <1>4, <1>6 DEF Good, Refused, Alike, Stops, Pointed, LikeSelf, LikeSaid
<1> QED BY <1>2, <1>5, <1>7 DEF Kept, y, K

\* A probe is ordered.
LEMMA ProbeKept ==
    ASSUME NEW O, NEW g, NEW d, NEW h, Kept(h, d, O, g), h.status = "faulted",
           h.fault = h.code, ~Has(O, "requalify"),
           \A p \in Peer : h.done[p] # None /\ ~h.done[p].success /\ h.done[p].empty
                           /\ h.done[p].core = "kept",
           NEW e \in OrderType, e.type = "requalify", e.seq = Len(O) + 1, e.at = h.outcome,
           e.clears = h.fault, e.core = "kept",
           NEW x \in HandlerType, x.probe = "probing", x.boundary = e.seq, x.core = e.core,
           x.points = NoHealth, x.done = h.done,
           LikeWork(h, x), LikeFault(h, x), LikeStop(h, x), x.up = h.up
    PROVE  Kept(x, Replay(d, e), Append(O, e), g)
<1> DEFINE y == Replay(d, e)
           K == Append(O, e)
<1>0. /\ d \in MemoryType /\ Good(d, O, g) /\ Same(h, d, O) /\ Follows(h, O) /\ h \in HandlerType
      /\ O \in Seq(OrderType) /\ Longer(O, K, e) /\ Len(K) = Len(O) + 1 /\ K \in Seq(OrderType)
      /\ Sound(O) /\ Len(O) \in Nat /\ K[Len(K)] = e /\ \A i \in 1..Len(O) : K[i] = O[i]
    BY AppendLonger DEF Kept, Good, Longer
<1>1. /\ y \in MemoryType /\ LikeWork(d, y) /\ LikeFault(d, y) /\ LikeStop(d, y)
      /\ LikeSelf(d, y) /\ y.probe = "probing" /\ y.boundary = e.seq /\ y.core = e.core
      /\ y.points = NoHealth /\ y.done = d.done
    <2>1. y = TrackProbe(d, e) /\ d \in Memory({<<>>})
        BY <1>0, ReplayOrder DEF MemoryType
    <2>2. LET z == TrackProbe(d, e)
          IN /\ z \in Memory({<<>>})
             /\ LikeWork(d, z) /\ LikeFault(d, z) /\ LikeStop(d, z) /\ LikeSelf(d, z)
             /\ z.probe = "probing" /\ z.boundary = e.seq /\ z.core = e.core
             /\ z.points = NoHealth /\ z.done = d.done
        BY <2>1, ProbeTracked
    <2> HIDE DEF y
    <2> QED BY <2>1, <2>2 DEF MemoryType
<1> HIDE DEF y, K
<1>2. Follows(x, K)
    BY <1>0, FollowsProbe DEF LikeWork, LikeFault
<1>3. d.up => Follows(y, K)
    <2>1. d \in HandlerType
        BY <1>0, HandlerMemory
    <2>2. ASSUME d.up
          PROVE  /\ d.status = "faulted" /\ d.code = h.code /\ Follows(d, O)
                 /\ ~Has(O, "sync_fault") => d.fault = d.code
        BY <1>0, <2>2 DEF Same, Good
    <2> QED BY <1>0, <1>1, <2>1, <2>2, FollowsProbe DEF LikeWork, LikeFault
<1>4. /\ Has(K, "sync_fault") <=> Has(O, "sync_fault")
      /\ Has(K, "pause") <=> Has(O, "pause")
      /\ ~Cleared(K)
    <2>1. ~Cleared(O)
        BY <1>0, ConcludedProbed DEF Cleared, Clearing, Has
    <2> QED BY <1>0, <2>1, HasLonger, ClearedLonger DEF Clearing
<1>5. Same(x, y, K)
    BY <1>0, <1>1, <1>4 DEF Same, LikeWork, LikeFault, LikeSelf, LikeStop
<1>6. Sound(K)
    <2>1. /\ h.outcome \in 1..Len(O) /\ O[h.outcome].type = "outcome"
          /\ O[h.outcome].code = h.code /\ O[h.outcome].result = "faulted"
        BY <1>0 DEF Follows, Worked
    <2>2. Probes(K, Len(K))
        BY <1>0, <2>1 DEF Probes
    <2> QED BY <1>0, <2>2, SoundLonger DEF Failing
<1>7. Refused(y, K)
    BY <1>0, <1>1 DEF Refused, Same
<1>8. Pointed(y, g)
    BY <1>1 DEF Pointed, NoHealth
<1>9. Good(y, K, g)
    BY <1>0, <1>1, <1>3, <1>4, <1>6, <1>7, <1>8 DEF Good, Alike, Stops, LikeSelf, LikeStop
<1> QED BY <1>2, <1>5, <1>9 DEF Kept, y, K

\* A probe is concluded.
LEMMA CheckpointKept ==
    ASSUME NEW O, NEW g, NEW d, NEW h, Kept(h, d, O, g), h.probe = "probing",
           NEW e \in OrderType, e.type = "checkpoint", e.boundary = h.boundary,
           e.clears = h.code, ~e.success => e.code # "none",
           e.success => /\ \A p \in Peer : h.points[p] # None /\ h.points[p].core = "kept"
                        /\ \A p, q \in Peer : h.points[p].world = h.points[q].world,
           NEW x \in HandlerType,
           x.probe = (IF e.success THEN "recovered" ELSE "rollback"),
           x.status = (IF e.success THEN "rejected" ELSE h.status),
           x.fault = (IF e.success THEN "none" ELSE e.code),
           (e.success => ~x.emitted) /\ (~e.success => x.emitted = h.emitted),
           x.boundary = h.boundary, x.core = h.core, x.code = h.code, x.outcome = h.outcome,
           LikeStop(h, x), LikeSaid(h, x), x.up = h.up
    PROVE  Kept(x, Replay(d, e), Append(O, e), g)
<1> DEFINE y == Replay(d, e)
           t == TrackCheckpoint(d, e)
           K == Append(O, e)
<1>0. /\ d \in MemoryType /\ Good(d, O, g) /\ Same(h, d, O) /\ Follows(h, O) /\ h \in HandlerType
      /\ O \in Seq(OrderType) /\ Longer(O, K, e) /\ Len(K) = Len(O) + 1 /\ K \in Seq(OrderType)
      /\ Sound(O) /\ Len(O) \in Nat /\ K[Len(K)] = e /\ \A i \in 1..Len(O) : K[i] = O[i]
    BY AppendLonger DEF Kept, Good, Longer
<1>1. /\ t \in MemoryType /\ LikeStop(d, t) /\ LikeSaid(d, t) /\ LikeSelf(d, t)
      /\ t.probe = (IF e.success THEN "recovered" ELSE "rollback")
      /\ t.status = (IF e.success THEN "rejected" ELSE d.status)
      /\ t.fault = (IF e.success THEN "none" ELSE e.code)
      /\ (e.success => ~t.emitted) /\ (~e.success => t.emitted = d.emitted)
      /\ t.boundary = d.boundary /\ t.core = d.core /\ t.code = d.code /\ t.outcome = d.outcome
    <2>1. d \in Memory({<<>>})
        BY <1>0 DEF MemoryType
    <2>2. t = TrackCheckpoint(d, e)
        OBVIOUS
    <2> HIDE DEF t
    <2> QED BY <2>1, <2>2, CheckpointTracked DEF MemoryType
<1>2. y = IF ClearsAnother(d, e) THEN [d EXCEPT !.up = FALSE] ELSE t
    BY <1>0, ReplayOrder
<1>3. LET z == [d EXCEPT !.up = FALSE]
      IN /\ z \in MemoryType /\ z.up = FALSE /\ z.health = d.health
         /\ LikeStop(d, z) /\ LikeSaid(d, z) /\ LikeProbe(d, z)
         /\ LikeWork(d, z) /\ LikeFault(d, z)
    BY <1>0 DEF MemoryType, Memory, LikeStop, LikeSaid, LikeProbe, LikeWork, LikeFault
<1> HIDE DEF y, K, t
<1>4. Follows(x, K)
    BY <1>0, FollowsCheckpoint
<1>5. /\ y \in MemoryType /\ y.health = d.health /\ LikeStop(d, y) /\ LikeSaid(d, y)
      /\ y.boundary = d.boundary /\ y.core = d.core /\ y.code = d.code /\ y.outcome = d.outcome
      /\ y.up => d.up /\ y = t /\ ~ClearsAnother(d, e)
    BY <1>1, <1>2, <1>3 DEF LikeProbe, LikeWork, LikeSelf
<1>6. y.up => Follows(y, K)
    <2>1. d \in HandlerType
        BY <1>0, HandlerMemory
    <2>2. ASSUME y.up PROVE d.probe = "probing" /\ Follows(d, O)
        BY <1>0, <1>5, <2>2 DEF Same, Good
    <2>3. ASSUME d.probe = "probing", Follows(d, O) PROVE Follows(t, K)
        BY <1>0, <1>1, <2>1, <2>3, FollowsCheckpoint
    <2> QED BY <1>5, <2>2, <2>3
<1>7. /\ Has(K, "sync_fault") <=> Has(O, "sync_fault")
      /\ Has(K, "pause") <=> Has(O, "pause")
      /\ Has(K, "requalify") <=> Has(O, "requalify")
      /\ Cleared(K) <=> Cleared(O) \/ e.success
      /\ ~Has(O, "checkpoint") /\ ~Cleared(O)
    <2>1. ~Has(O, "checkpoint")
        BY <1>0 DEF Follows, Guided
    <2>2. ~Cleared(O)
        BY <2>1 DEF Cleared, Clearing, Has
    <2> QED BY <1>0, <2>1, <2>2, HasLonger, ClearedLonger DEF Clearing
<1>8. Same(x, y, K)
    <2>1. ASSUME ~Has(K, "sync_fault") PROVE y.up /\ y.fault = x.fault
        <3>1. d.up /\ d.fault = h.fault /\ h.fault = h.code
            BY <1>0, <1>7, <2>1 DEF Same, Follows, Blames
        <3>2. ~ClearsAnother(d, e)
            BY <3>1 DEF ClearsAnother
        <3> QED BY <1>1, <1>2, <3>1, <3>2 DEF LikeSelf
    <2>2. y.up => y.probe = x.probe /\ y.status = x.status /\ y.emitted = x.emitted
        <3>1. ASSUME y.up PROVE d.status = h.status /\ d.emitted = h.emitted /\ y = t
            BY <1>0, <1>5, <3>1 DEF Same
        <3>2. x.emitted \in BOOLEAN /\ t.emitted \in BOOLEAN
            BY <1>1, MemoryFields DEF HandlerType, MemoryType
        <3>3. y.up => y.probe = x.probe /\ y.status = x.status
            BY <1>1, <3>1
        <3>4. ASSUME y.up, e.success PROVE y.emitted = x.emitted
            <4>1. ~x.emitted /\ ~t.emitted
                BY <1>1, <3>4
            <4>2. x.emitted = FALSE /\ t.emitted = FALSE
                BY <3>2, <4>1
            <4> QED BY <3>1, <3>4, <4>2
        <3>5. ASSUME y.up, ~e.success PROVE y.emitted = x.emitted
            BY <1>1, <3>1, <3>5
        <3> QED BY <3>3, <3>4, <3>5
    <2> QED BY <1>0, <1>5, <2>1, <2>2 DEF Same, LikeStop, LikeSaid
<1>9. Sound(K)
    <2>1. /\ h.boundary \in 1..Len(O) /\ O[h.boundary].type = "requalify"
          /\ O[h.boundary].clears = h.code
        <3>1. h.boundary \in 0..Len(O) /\ h.boundary # 0
            BY <1>0 DEF Follows, Guided
        <3> QED BY <1>0, <3>1 DEF Follows, Guided
    <2>2. Concludes(K, Len(K))
        BY <1>0, <2>1 DEF Concludes
    <2> QED BY <1>0, <1>7, <2>2, SoundLonger DEF Failing
<1>10. Refused(y, K) /\ Pointed(y, g) /\ Stops(y, K)
    BY <1>0, <1>5, <1>7 DEF Good, Refused, Pointed, Stops, LikeSaid, LikeStop
<1>11. Alike(y, K)
    BY <1>0, <1>5, <1>7 DEF Alike, Same, LikeSaid
<1>12. Good(y, K, g)
    BY <1>0, <1>5, <1>6, <1>9, <1>10, <1>11 DEF Good
<1> QED BY <1>4, <1>8, <1>12 DEF Kept, y, K

----------------------------------------------------------------------------
(* Handlers *)
\* O begins with the orders of the journal.
Grown(O) == Len(orders) <= Len(O) /\ \A i \in 1..Len(orders) : O[i] = orders[i]

\* However many of the entries of a handler are on the disk, the journal is sound,
\* and with all of them the memory of the handler agrees with it.
Chained(h) ==
    /\ \A n \in 0..Len(h.wrote) :
          LET j == Extended(h.wrote)[n]
          IN Good(j.memory, j.orders, game) /\ Grown(j.orders)
    /\ Kept(h, Led(h).memory, Led(h).orders, game)
Hears(h) == Heard(h, Led(h).orders)

\* What one entry makes of a journal.
LEMMA ExtendFields ==
    ASSUME NEW j, NEW e
    PROVE  /\ Extend(j, e).memory = Replay(j.memory, e)
           /\ Ordered(e) => Extend(j, e).orders = Append(j.orders, e)
           /\ ~Ordered(e) => Extend(j, e).orders = j.orders
BY DEF Extend

\* Before a handler writes.
LEMMA ChainedFirst ==
    ASSUME NEW h, Kept(h, disk, orders, game), h.wrote = <<>>
    PROVE  Chained(h) /\ Led(h).orders = orders /\ Led(h).memory = disk
<1>1. Len(h.wrote) = 0
    OBVIOUS
<1>2. Extended(h.wrote)[0] = Now
    BY <1>1, ExtendedSteps
<1>3. Led(h) = Now
    BY <1>1, <1>2 DEF Led
<1>4. Now.memory = disk /\ Now.orders = orders
    BY DEF Now
<1>5. Good(disk, orders, game) /\ Grown(orders)
    BY DEF Kept, Good, Grown
<1>6. \A n \in 0..0 : n = 0
    OBVIOUS
<1> HIDE DEF Now
<1> QED BY <1>1, <1>2, <1>3, <1>4, <1>5, <1>6 DEF Chained

\* A handler writes one entry more.
LEMMA ChainedMore ==
    ASSUME NEW h \in HandlerType, Chained(h), NEW e \in EntryType,
           NEW x \in HandlerType, x.wrote = Append(h.wrote, e),
           NEW K, Ordered(e) => K = Append(Led(h).orders, e),
           ~Ordered(e) => K = Led(h).orders,
           Kept(x, Replay(Led(h).memory, e), K, game)
    PROVE  Chained(x) /\ Led(x).orders = K /\ Led(x).memory = Replay(Led(h).memory, e)
<1> DEFINE w == h.wrote
           v == x.wrote
<1>0. w \in Seq(EntryType) /\ v = Append(w, e)
    BY MemoryFields DEF HandlerType
<1>1. /\ Len(v) = Len(w) + 1 /\ Len(w) \in Nat
      /\ \A n \in 0..Len(w) : Extended(v)[n] = Extended(w)[n]
      /\ Extended(v)[Len(v)] = Extend(Extended(w)[Len(w)], e)
    BY <1>0, ExtendedMore
<1>2. Led(x) = Extend(Led(h), e)
    BY <1>1 DEF Led
<1>3. Led(x).orders = K /\ Led(x).memory = Replay(Led(h).memory, e)
    BY <1>2, ExtendFields
<1>4. Good(Led(h).memory, Led(h).orders, game) /\ Grown(Led(h).orders)
    <2>1. Len(w) \in 0..Len(w)
        BY <1>1
    <2> QED BY <2>1 DEF Chained, Led
<1>5. Grown(K)
    <2>1. CASE Ordered(e)
        <3>1. Led(h).orders \in Seq(OrderType) /\ K \in Seq(OrderType)
            BY <1>4 DEF Kept, Good
        <3>2. e \in OrderType
            BY <2>1, MessageKinds DEF EntryType
        <3>3. Longer(Led(h).orders, K, e)
            BY <2>1, <3>1, <3>2, AppendLonger
        <3>4. \A i \in 1..Len(orders) : i \in 1..Len(Led(h).orders)
            BY <1>4, <3>1 DEF Grown
        <3> QED BY <1>4, <3>3, <3>4 DEF Grown, Longer
    <2>2. CASE ~Ordered(e)
        BY <1>4, <2>2
    <2> QED BY <2>1, <2>2
<1>6. Good(Led(x).memory, Led(x).orders, game) /\ Grown(Led(x).orders)
    BY <1>3, <1>5 DEF Kept
<1>7. ASSUME NEW n \in 0..Len(v)
      PROVE  LET j == Extended(v)[n] IN Good(j.memory, j.orders, game) /\ Grown(j.orders)
    <2>1. CASE n = Len(v)
        BY <1>6, <2>1 DEF Led
    <2>2. CASE n # Len(v)
        <3>1. n \in 0..Len(w)
            BY <1>1, <2>2
        <3> QED BY <1>1, <3>1 DEF Chained
    <2> QED BY <2>1, <2>2
<1> QED BY <1>3, <1>7 DEF Chained

\* The entry is an order.
LEMMA ChainedOrder ==
    ASSUME NEW h \in HandlerType, Chained(h), NEW e \in OrderType,
           NEW x \in HandlerType, x.wrote = Append(h.wrote, e),
           Kept(x, Replay(Led(h).memory, e), Append(Led(h).orders, e), game)
    PROVE  Chained(x) /\ Led(x).orders = Append(Led(h).orders, e)
<1>1. Ordered(e) /\ e \in EntryType
    BY OrderKinds DEF EntryType
<1> DEFINE K == Append(Led(h).orders, e)
<1>2. (Ordered(e) => K = Append(Led(h).orders, e)) /\ (~Ordered(e) => K = Led(h).orders)
    BY <1>1
<1>3. Kept(x, Replay(Led(h).memory, e), K, game)
    OBVIOUS
<1> HIDE DEF K
<1>4. Chained(x) /\ Led(x).orders = K
    BY <1>1, <1>2, <1>3, ChainedMore
<1> QED BY <1>4 DEF K

\* The entry is a message of a game.
LEMMA ChainedMessage ==
    ASSUME NEW h \in HandlerType, Chained(h), NEW e \in MessageType,
           NEW x \in HandlerType, x.wrote = Append(h.wrote, e),
           Kept(x, Replay(Led(h).memory, e), Led(h).orders, game)
    PROVE  Chained(x) /\ Led(x).orders = Led(h).orders
<1>1. ~Ordered(e) /\ e \in EntryType
    BY MessageKinds DEF EntryType
<1> DEFINE K == Led(h).orders
<1>2. (Ordered(e) => K = Append(Led(h).orders, e)) /\ (~Ordered(e) => K = Led(h).orders)
    BY <1>1
<1>3. Kept(x, Replay(Led(h).memory, e), K, game)
    OBVIOUS
<1> HIDE DEF K
<1>4. Chained(x) /\ Led(x).orders = K
    BY <1>1, <1>2, <1>3, ChainedMore
<1> QED BY <1>4 DEF K

\* Health that was heard before stays so when an order is written.
LEMMA HearsMore ==
    ASSUME NEW h \in HandlerType, Hears(h), NEW x, x.health = h.health,
           Len(Led(h).orders) \in Nat, Len(Led(x).orders) \in Nat,
           \/ Len(Led(h).orders) < Len(Led(x).orders)
           \/ Len(Led(h).orders) = Len(Led(x).orders) /\ (h.fault # "none" => x.fault # "none")
    PROVE  Hears(x)
<1>1. \A p \in Peer : h.health[p] # None => h.health[p].read \in Nat
    BY MemoryFields DEF HandlerType, HealthType
<1> QED BY <1>1 DEF Hears, Heard

\* What the lemmas about handlers use of Chained.
LEMMA ChainedFields ==
    ASSUME NEW h, Chained(h)
    PROVE  /\ h \in HandlerType /\ Led(h).orders \in Seq(OrderType) /\ Len(Led(h).orders) \in Nat
           /\ NextSeq(h) = Len(Led(h).orders) + 1 /\ NextSeq(h) \in Nat
           /\ Sound(Led(h).orders) /\ Follows(h, Led(h).orders) /\ h.up
           /\ Kept(h, Led(h).memory, Led(h).orders, game)
BY DEF Chained, Kept, Good, NextSeq, Led

\* _emit_*: the outcome, once.
LEMMA EmitOutcomeKept ==
    ASSUME NEW h, Chained(h), NEW result \in Statuses \ {"pending"}, NEW code \in Codes,
           result = "faulted" => code # "none"
    PROVE  LET x == EmitOutcome(h, result, code)
           IN Chained(x) /\ (Hears(h) => Hears(x))
<1> DEFINE e == [type |-> "outcome", seq |-> NextSeq(h), result |-> result, code |-> code]
           t == TrackOutcome(h, e)
           x == Write(t, e)
           O == Led(h).orders
<1>0. /\ h \in HandlerType /\ O \in Seq(OrderType) /\ Len(O) \in Nat
      /\ NextSeq(h) = Len(O) + 1 /\ NextSeq(h) \in Nat
      /\ Kept(h, Led(h).memory, O, game)
    BY ChainedFields
<1>1. CASE h.status # "pending"
    BY <1>1 DEF EmitOutcome
<1>2. CASE h.status = "pending"
    <2>1. /\ e \in OrderType /\ e.type = "outcome" /\ e.seq = Len(O) + 1
          /\ e.result = result /\ e.code = code
        BY <1>0 DEF OrderType
    <2>2. EmitOutcome(h, result, code) = x
        BY <1>2 DEF EmitOutcome
    <2> HIDE DEF e
    <2>3. /\ t \in HandlerType /\ t.wrote = h.wrote
          /\ t.status = e.result /\ t.code = e.code /\ t.outcome = e.seq
          /\ t.fault = (IF e.result = "faulted" THEN e.code ELSE h.fault)
          /\ t.emitted = h.emitted
          /\ LikeProbe(h, t) /\ LikeStop(h, t) /\ LikeSaid(h, t) /\ LikeSelf(h, t)
        BY <1>0, <2>1, OutcomeTracked DEF HandlerType
    <2> HIDE DEF t
    <2>4. /\ x \in HandlerType /\ x.wrote = Append(h.wrote, e)
          /\ LikeWork(t, x) /\ LikeProbe(t, x) /\ LikeFault(t, x) /\ LikeStop(t, x)
          /\ LikeSaid(t, x) /\ LikeSelf(t, x)
        BY <2>1, <2>3, WrittenMemory DEF EntryType
    <2> HIDE DEF x
    <2>5. Kept(x, Replay(Led(h).memory, e), Append(O, e), game)
        <3>1. /\ x.status = e.result /\ x.code = e.code /\ x.outcome = e.seq
              /\ x.fault = (IF e.result = "faulted" THEN e.code ELSE h.fault)
              /\ x.emitted = h.emitted
              /\ LikeProbe(h, x) /\ LikeStop(h, x) /\ LikeSaid(h, x) /\ x.up = h.up
            BY <2>3, <2>4 DEF LikeWork, LikeProbe, LikeFault, LikeStop, LikeSaid, LikeSelf
        <3> HIDE DEF O
        <3> QED BY <1>0, <1>2, <2>1, <2>4, <3>1, OutcomeKept
    <2>7. Chained(x) /\ Led(x).orders = Append(O, e)
        BY <1>0, <2>1, <2>4, <2>5, ChainedOrder
    <2>8. Hears(h) => Hears(x)
        <3>1. Len(Append(O, e)) = Len(O) + 1
            BY <1>0
        <3>2. x.health = h.health
            BY <2>3, <2>4 DEF LikeSelf
        <3> QED BY <1>0, <2>7, <3>1, <3>2, HearsMore
    <2> QED BY <2>2, <2>7, <2>8
<1> QED BY <1>1, <1>2

\* Nothing is written, and what Kept says of the memory is unchanged.
LEMMA ChainedLike ==
    ASSUME NEW h, Chained(h), NEW x \in HandlerType, x.wrote = h.wrote, x.up = h.up,
           LikeWork(h, x), LikeProbe(h, x), LikeFault(h, x), LikeStop(h, x), LikeSaid(h, x)
    PROVE  Chained(x) /\ Led(x) = Led(h)
<1>1. Led(x) = Led(h)
    BY DEF Led
<1>2. Kept(x, Led(h).memory, Led(h).orders, game)
    BY ChainedFields, KeptLike
<1> QED BY <1>1, <1>2 DEF Chained

\* The pause of a faulted session.
LEMMA PausedKept ==
    ASSUME NEW h, Chained(h),
           NEW z \in HandlerType, z.wrote = h.wrote, z.stopping = TRUE, z.stopped = {},
           LikeWork(h, z), LikeProbe(h, z), LikeFault(h, z), LikeSaid(h, z), LikeSelf(h, z),
           NEW x, x = Write(z, [type |-> "pause", seq |-> NextSeq(h)])
    PROVE  /\ Chained(x) /\ x.fault = h.fault /\ x.health = h.health
           /\ Len(Led(x).orders) = Len(Led(h).orders) + 1
<1> DEFINE e == [type |-> "pause", seq |-> NextSeq(h)]
           O == Led(h).orders
<1>0. /\ h \in HandlerType /\ O \in Seq(OrderType) /\ Len(O) \in Nat
      /\ NextSeq(h) = Len(O) + 1 /\ NextSeq(h) \in Nat
      /\ Kept(h, Led(h).memory, O, game)
    BY ChainedFields
<1>1. e \in OrderType /\ e.type = "pause" /\ x = Write(z, e)
    BY <1>0 DEF OrderType
<1> HIDE DEF e
<1>2. /\ x \in HandlerType /\ x.wrote = Append(h.wrote, e)
      /\ LikeWork(z, x) /\ LikeProbe(z, x) /\ LikeFault(z, x) /\ LikeStop(z, x)
      /\ LikeSaid(z, x) /\ LikeSelf(z, x)
    BY <1>1, WrittenMemory DEF EntryType
<1>3. /\ x.stopping = TRUE /\ x.stopped = {} /\ x.up = h.up /\ x.health = h.health
      /\ LikeWork(h, x) /\ LikeProbe(h, x) /\ LikeFault(h, x) /\ LikeSaid(h, x)
    BY <1>2 DEF LikeWork, LikeProbe, LikeFault, LikeStop, LikeSaid, LikeSelf
<1>4. Kept(x, Replay(Led(h).memory, e), Append(O, e), game)
    <2> HIDE DEF O
    <2> QED BY <1>0, <1>1, <1>2, <1>3, PauseKept
<1>5. Chained(x) /\ Led(x).orders = Append(O, e)
    BY <1>0, <1>1, <1>2, <1>4, ChainedOrder
<1>6. Len(Append(O, e)) = Len(O) + 1
    BY <1>0
<1> QED BY <1>3, <1>5, <1>6 DEF LikeFault

\* SynchronizationCoordinator.fault_session.
LEMMA FaultSessionKept ==
    ASSUME NEW h, Chained(h), NEW code \in Codes, code # "none",
           \A p \in Peer : h.health[p] # None => h.health[p].read <= Len(Led(h).orders)
    PROVE  LET x == FaultSession(h, code)
           IN Chained(x) /\ Hears(x)
<1> DEFINE noted == [h EXCEPT !.fault = IF h.fault = "none" THEN code ELSE h.fault]
           e == [type |-> "sync_fault", seq |-> NextSeq(h), code |-> code]
           sent == [noted EXCEPT !.emitted = TRUE]
           told == IF noted.emitted THEN noted ELSE Write(sent, e)
           O == Led(h).orders
<1>0. /\ h \in HandlerType /\ O \in Seq(OrderType) /\ Len(O) \in Nat
      /\ NextSeq(h) = Len(O) + 1 /\ NextSeq(h) \in Nat
      /\ Kept(h, Led(h).memory, O, game) /\ Follows(h, O)
    BY ChainedFields
<1>1. /\ noted \in HandlerType /\ noted.wrote = h.wrote /\ noted.emitted = h.emitted
      /\ noted.fault = (IF h.fault = "none" THEN code ELSE h.fault) /\ noted.fault # "none"
      /\ LikeWork(h, noted) /\ LikeProbe(h, noted) /\ LikeStop(h, noted)
      /\ LikeSaid(h, noted) /\ LikeSelf(h, noted)
    <2> DEFINE f == IF h.fault = "none" THEN code ELSE h.fault
    <2>1. f \in Codes /\ f # "none"
        BY <1>0, MemoryFields DEF HandlerType
    <2> HIDE DEF f
    <2> DEFINE z == [h EXCEPT !.fault = f]
    <2>2. z \in HandlerType
        BY <1>0, <2>1 DEF HandlerType, Memory
    <2>3. /\ z.fault = f /\ z.wrote = h.wrote /\ z.emitted = h.emitted
          /\ LikeWork(h, z) /\ LikeProbe(h, z) /\ LikeStop(h, z)
          /\ LikeSaid(h, z) /\ LikeSelf(h, z)
        BY <1>0 DEF HandlerType, Memory, LikeWork, LikeProbe, LikeStop, LikeSaid, LikeSelf
    <2> QED BY <2>1, <2>2, <2>3 DEF f
<1>2. /\ sent \in HandlerType /\ sent.wrote = h.wrote /\ sent.emitted = TRUE
      /\ sent.fault = noted.fault
      /\ LikeWork(noted, sent) /\ LikeProbe(noted, sent) /\ LikeStop(noted, sent)
      /\ LikeSaid(noted, sent) /\ LikeSelf(noted, sent)
    <2> HIDE DEF noted
    <2> QED BY <1>1 DEF HandlerType, Memory, LikeWork, LikeProbe, LikeStop, LikeSaid, LikeSelf
<1>3. FaultSession(h, code) =
        IF told.stopping THEN told
        ELSE Write([told EXCEPT !.stopping = TRUE], [type |-> "pause", seq |-> NextSeq(told)])
    BY DEF FaultSession
<1> HIDE DEF noted, sent
<1>4. /\ Chained(told) /\ told.fault # "none" /\ told.health = h.health
      /\ Len(O) <= Len(Led(told).orders)
    <2>1. CASE h.emitted
        <3>1. told = noted /\ h.fault # "none"
            BY <1>0, <1>1, <2>1 DEF Follows, Blames
        <3>2. LikeFault(h, noted)
            BY <1>1, <3>1 DEF LikeFault
        <3>3. Chained(noted) /\ Led(noted) = Led(h)
            BY <1>1, <3>2, ChainedLike DEF LikeSelf
        <3> QED BY <1>0, <1>1, <3>1, <3>3 DEF LikeSelf
    <2>2. CASE ~h.emitted
        <3>1. told = Write(sent, e)
            BY <1>1, <2>2
        <3>2. e \in OrderType /\ e.type = "sync_fault" /\ e.code # "none"
            BY <1>0 DEF OrderType
        <3> HIDE DEF e, told
        <3>3. /\ told \in HandlerType /\ told.wrote = Append(h.wrote, e)
              /\ LikeWork(sent, told) /\ LikeProbe(sent, told) /\ LikeFault(sent, told)
              /\ LikeStop(sent, told) /\ LikeSaid(sent, told) /\ LikeSelf(sent, told)
            BY <1>2, <3>1, <3>2, WrittenMemory DEF EntryType
        <3>4. /\ told.fault # "none" /\ told.emitted = TRUE /\ told.up = h.up
              /\ told.health = h.health
              /\ LikeWork(h, told) /\ LikeProbe(h, told) /\ LikeStop(h, told)
              /\ LikeSaid(h, told)
            BY <1>1, <1>2, <3>3 DEF LikeWork, LikeProbe, LikeFault, LikeStop, LikeSaid, LikeSelf
        <3>5. Kept(told, Replay(Led(h).memory, e), Append(O, e), game)
            <4> HIDE DEF O
            <4> QED BY <1>0, <3>2, <3>3, <3>4, SyncFaultKept
        <3>6. Chained(told) /\ Led(told).orders = Append(O, e)
            BY <1>0, <3>2, <3>3, <3>5, ChainedOrder
        <3>7. Len(Append(O, e)) = Len(O) + 1
            BY <1>0
        <3> QED BY <1>0, <3>4, <3>6, <3>7
    <2> QED BY <2>1, <2>2
<1> HIDE DEF told
<1>5. told \in HandlerType /\ Len(Led(told).orders) \in Nat
    BY <1>4, ChainedFields
<1>6. ASSUME NEW x, x.fault # "none", x.health = h.health, Len(Led(x).orders) \in Nat,
             Len(O) <= Len(Led(x).orders)
      PROVE  Hears(x)
    <2>1. \A p \in Peer : h.health[p] # None => h.health[p].read \in Nat
        BY <1>0, MemoryFields DEF HandlerType, HealthType
    <2> QED BY <1>0, <1>6, <2>1 DEF Hears, Heard
<1>7. CASE told.stopping
    BY <1>3, <1>4, <1>5, <1>6, <1>7
<1>8. CASE ~told.stopping
    <2> DEFINE z == [told EXCEPT !.stopping = TRUE]
               x == Write(z, [type |-> "pause", seq |-> NextSeq(told)])
    <2>1. told.stopped = {}
        <3>1. Kept(told, Led(told).memory, Led(told).orders, game)
            BY <1>4, ChainedFields
        <3> QED BY <1>8, <3>1 DEF Kept, Same, Good, Stops
    <2>2. /\ z \in HandlerType /\ z.wrote = told.wrote /\ z.stopping = TRUE /\ z.stopped = {}
          /\ LikeWork(told, z) /\ LikeProbe(told, z) /\ LikeFault(told, z) /\ LikeSaid(told, z)
          /\ LikeSelf(told, z)
        BY <1>5, <2>1
           DEF HandlerType, Memory, LikeWork, LikeProbe, LikeFault, LikeSaid, LikeSelf
    <2>3. FaultSession(h, code) = x
        BY <1>3, <1>8
    <2> HIDE DEF z
    <2>4. /\ Chained(x) /\ x.fault = told.fault /\ x.health = told.health
          /\ Len(Led(x).orders) = Len(Led(told).orders) + 1
        BY <1>4, <2>2, PausedKept
    <2> HIDE DEF x
    <2>5. Hears(x)
        BY <1>0, <1>4, <1>5, <1>6, <2>4
    <2> QED BY <2>3, <2>4, <2>5
<1> QED BY <1>7, <1>8

\* The conclusion of a probe: a checkpoint on which all agree, or not.
LEMMA ConcludedKept ==
    ASSUME NEW h, Chained(h), h.probe = "probing",
           NEW e \in OrderType, e.type = "checkpoint", e.boundary = h.boundary,
           e.clears = h.code, ~e.success => e.code # "none",
           e.success => (\A p \in Peer : h.points[p] # None) /\ Converged(h),
           NEW x, x = TrackCheckpoint(Write(h, e), e)
    PROVE  Chained(x) /\ (Hears(h) => Hears(x))
<1> DEFINE O == Led(h).orders
           w == Write(h, e)
<1>0. /\ h \in HandlerType /\ O \in Seq(OrderType) /\ Len(O) \in Nat
      /\ Kept(h, Led(h).memory, O, game) /\ Follows(h, O) /\ e \in EntryType
    BY ChainedFields DEF EntryType
<1>1. /\ w \in HandlerType /\ w.wrote = Append(h.wrote, e)
      /\ LikeWork(h, w) /\ LikeProbe(h, w) /\ LikeFault(h, w) /\ LikeStop(h, w)
      /\ LikeSaid(h, w) /\ LikeSelf(h, w)
    BY <1>0, WrittenMemory
<1> HIDE DEF w
<1>2. /\ x \in HandlerType /\ x.wrote = w.wrote
      /\ x.probe = (IF e.success THEN "recovered" ELSE "rollback")
      /\ x.status = (IF e.success THEN "rejected" ELSE w.status)
      /\ x.fault = (IF e.success THEN "none" ELSE e.code)
      /\ (e.success => ~x.emitted) /\ (~e.success => x.emitted = w.emitted)
      /\ x.boundary = w.boundary /\ x.core = w.core
      /\ x.code = w.code /\ x.outcome = w.outcome
      /\ LikeStop(w, x) /\ LikeSaid(w, x) /\ LikeSelf(w, x)
    BY <1>1, CheckpointTracked DEF w, HandlerType
<1>3. /\ x.wrote = Append(h.wrote, e)
      /\ x.probe = (IF e.success THEN "recovered" ELSE "rollback")
      /\ x.status = (IF e.success THEN "rejected" ELSE h.status)
      /\ x.fault = (IF e.success THEN "none" ELSE e.code)
      /\ (e.success => ~x.emitted) /\ (~e.success => x.emitted = h.emitted)
      /\ x.boundary = h.boundary /\ x.core = h.core
      /\ x.code = h.code /\ x.outcome = h.outcome
      /\ LikeStop(h, x) /\ LikeSaid(h, x) /\ x.up = h.up /\ x.health = h.health
    BY <1>1, <1>2 DEF LikeWork, LikeProbe, LikeFault, LikeStop, LikeSaid, LikeSelf
<1>4. e.success => /\ \A p \in Peer : h.points[p] # None /\ h.points[p].core = "kept"
                   /\ \A p, q \in Peer : h.points[p].world = h.points[q].world
    BY <1>0 DEF Converged, Follows, Guided
<1>5. Kept(x, Replay(Led(h).memory, e), Append(O, e), game)
    <2> HIDE DEF O
    <2> QED BY <1>0, <1>2, <1>3, <1>4, CheckpointKept
<1>6. Chained(x) /\ Led(x).orders = Append(O, e)
    BY <1>0, <1>2, <1>3, <1>5, ChainedOrder
<1>7. Len(Append(O, e)) = Len(O) + 1
    BY <1>0
<1> QED BY <1>0, <1>3, <1>6, <1>7, HearsMore

\* The deadline of the checkpoint, and one that does not agree.
LEMMA RollbackKept ==
    ASSUME NEW h, Chained(h), NEW code \in Codes, code # "none"
    PROVE  LET x == EmitCheckpoint(h, FALSE, code)
           IN Chained(x) /\ (Hears(h) => Hears(x))
<1> DEFINE e == [type |-> "checkpoint", seq |-> NextSeq(h), boundary |-> h.boundary,
                 success |-> FALSE, code |-> code, clears |-> h.code]
           x == TrackCheckpoint(Write(h, e), e)
<1>1. EmitCheckpoint(h, FALSE, code) = IF h.probe # "probing" THEN h ELSE x
    BY DEF EmitCheckpoint
<1>2. /\ e \in OrderType /\ e.type = "checkpoint" /\ e.boundary = h.boundary
      /\ e.clears = h.code /\ ~e.success /\ e.code # "none"
    BY ChainedFields, MemoryFields DEF HandlerType, OrderType
<1> HIDE DEF e
<1>3. ASSUME h.probe = "probing" PROVE Chained(x) /\ (Hears(h) => Hears(x))
    BY <1>2, <1>3, ConcludedKept
<1> HIDE DEF x
<1>4. CASE h.probe = "probing"
    BY <1>1, <1>3, <1>4
<1>5. CASE h.probe # "probing"
    BY <1>1, <1>5
<1> QED BY <1>4, <1>5

\* ResolveCheckpoint, of a point that may be the last.
LEMMA ResolveCheckpointKept ==
    ASSUME NEW h, Chained(h)
    PROVE  LET x == ResolveCheckpoint(h)
           IN Chained(x) /\ (Hears(h) => Hears(x))
<1>1. CASE \E p \in Peer : h.points[p] = None
    <2>1. ResolveCheckpoint(h) = h
        BY <1>1, Zenon DEF ResolveCheckpoint
    <2> QED BY <2>1
<1>2. CASE (\A p \in Peer : h.points[p] # None) /\ ~Converged(h)
    <2>1. ResolveCheckpoint(h) = EmitCheckpoint(h, FALSE, "mismatch")
        BY <1>2, Zenon DEF ResolveCheckpoint
    <2>2. "mismatch" \in Codes /\ "mismatch" # "none"
        BY DEF Codes
    <2> QED BY <2>1, <2>2, RollbackKept, Zenon
<1>3. CASE (\A p \in Peer : h.points[p] # None) /\ Converged(h)
    <2> DEFINE e == [type |-> "checkpoint", seq |-> NextSeq(h), boundary |-> h.boundary,
                     success |-> TRUE, code |-> "none", clears |-> h.code]
               x == TrackCheckpoint(Write(h, e), e)
    <2>1. ResolveCheckpoint(h) = IF h.probe # "probing" THEN h ELSE x
        BY <1>3, Zenon DEF ResolveCheckpoint, EmitCheckpoint
    <2>2. /\ e \in OrderType /\ e.type = "checkpoint" /\ e.boundary = h.boundary
          /\ e.clears = h.code /\ e.success
        BY ChainedFields, MemoryFields DEF HandlerType, OrderType, Codes
    <2> HIDE DEF e
    <2>3. ASSUME h.probe = "probing" PROVE Chained(x) /\ (Hears(h) => Hears(x))
        BY <1>3, <2>2, <2>3, ConcludedKept
    <2> HIDE DEF x
    <2>4. CASE h.probe = "probing"
        BY <2>1, <2>3, <2>4
    <2>5. CASE h.probe # "probing"
        BY <2>1, <2>5
    <2> QED BY <2>4, <2>5
<1> QED BY <1>1, <1>2, <1>3

\* Resolve, of a completion that may be the last.
LEMMA ResolveKept ==
    ASSUME NEW h, Chained(h)
    PROVE  LET x == Resolve(h)
           IN Chained(x) /\ (Hears(h) => Hears(x))
<1>0. \/ Resolve(h) = h
      \/ Resolve(h) = EmitOutcome(h, "complete", "none")
      \/ Resolve(h) = EmitOutcome(h, "faulted", "unproven")
      \/ Resolve(h) = EmitOutcome(h, "rejected", "none")
      \/ Resolve(h) = EmitOutcome(h, "faulted", "diverged")
    BY DEF Resolve
<1>1. /\ {"complete", "faulted", "rejected"} \subseteq Statuses \ {"pending"}
      /\ {"none", "unproven", "diverged"} \subseteq Codes
    BY DEF Statuses, Codes
<1> QED BY <1>0, <1>1, EmitOutcomeKept

\* A probe, of a fault that qualifies.
LEMMA RequalifyKept ==
    ASSUME host.up, Kept(host, disk, orders, game), host.wrote = <<>>, Eligible(host)
    PROVE  LET e == BoundAction(host)
               x == TrackProbe(Write(host, e), e)
           IN Chained(x) /\ (Hears(host) => Hears(x))
<1> DEFINE h == host
           e == BoundAction(h)
           w == Write(h, e)
           x == TrackProbe(w, e)
           O == orders
<1>0. /\ Chained(h) /\ Led(h).orders = O /\ Led(h).memory = disk
    BY ChainedFirst
<1>1. /\ h \in HandlerType /\ O \in Seq(OrderType) /\ Len(O) \in Nat
      /\ NextSeq(h) = Len(O) + 1 /\ NextSeq(h) \in Nat /\ Follows(h, O)
    BY <1>0, ChainedFields
<1>2. h.status = "faulted" /\ h.fault = h.code
    BY DEF Eligible, Candidate
<1>3. \A p \in Peer : h.done[p] # None /\ ~h.done[p].success /\ h.done[p].empty
                      /\ h.done[p].core = "kept"
    BY DEF Eligible, LateRejection, AllRefused, Done
<1>4. ~Has(O, "requalify")
    <2>1. ASSUME NEW i \in 1..Len(O), O[i].type = "requalify" PROVE FALSE
        <3>1. h.outcome < i /\ i \in DOMAIN orders
            BY <1>1, <2>1 DEF Follows, Worked
        <3> QED BY <2>1, <3>1 DEF Eligible, NoWorkSince
    <2> QED BY <2>1 DEF Has
<1>5. /\ e \in OrderType /\ e.type = "requalify" /\ e.seq = Len(O) + 1 /\ e.at = h.outcome
      /\ e.clears = h.fault /\ e.core = "kept"
    BY <1>1, MemoryFields DEF BoundAction, HandlerType, OrderType
<1> HIDE DEF e
<1>6. /\ w \in HandlerType /\ w.wrote = Append(h.wrote, e)
      /\ LikeWork(h, w) /\ LikeProbe(h, w) /\ LikeFault(h, w) /\ LikeStop(h, w)
      /\ LikeSaid(h, w) /\ LikeSelf(h, w)
    BY <1>1, <1>5, WrittenMemory DEF EntryType
<1> HIDE DEF w
<1>7. /\ x \in HandlerType /\ x.wrote = w.wrote
      /\ x.probe = "probing" /\ x.boundary = e.seq /\ x.core = e.core
      /\ x.points = NoHealth /\ x.done = w.done
      /\ LikeWork(w, x) /\ LikeFault(w, x) /\ LikeStop(w, x) /\ LikeSelf(w, x)
    BY <1>5, <1>6, ProbeTracked DEF HandlerType
<1> HIDE DEF x
<1>8. /\ x.wrote = Append(h.wrote, e) /\ x.done = h.done /\ x.up = h.up /\ x.health = h.health
      /\ LikeWork(h, x) /\ LikeFault(h, x) /\ LikeStop(h, x)
    BY <1>6, <1>7 DEF LikeWork, LikeFault, LikeStop, LikeSaid, LikeSelf
<1> HIDE DEF h
<1>9. Kept(x, Replay(disk, e), Append(O, e), game)
    <2>1. Kept(h, disk, O, game)
        BY <1>0, <1>1, ChainedFields
    <2> HIDE DEF O
    <2> QED BY <1>1, <1>2, <1>3, <1>4, <1>5, <1>7, <1>8, <2>1, ProbeKept
<1>10. Chained(x) /\ Led(x).orders = Append(O, e)
    BY <1>0, <1>1, <1>5, <1>7, <1>8, <1>9, ChainedOrder
<1>11. Len(Append(O, e)) = Len(O) + 1
    BY <1>1
<1>12. Hears(h) => Hears(x)
    BY <1>0, <1>1, <1>8, <1>10, <1>11, HearsMore
<1> QED BY <1>10, <1>12 DEF h, e, w, x

\* The pause of a player.
LEMMA PlayerPauseKept ==
    ASSUME Kept(host, disk, orders, game), host.wrote = <<>>
    PROVE  LET x == Write([host EXCEPT !.stopping = TRUE, !.stopped = {}],
                          [type |-> "pause", seq |-> NextSeq(host)])
           IN Chained(x) /\ (Hears(host) => Hears(x))
<1> DEFINE z == [host EXCEPT !.stopping = TRUE, !.stopped = {}]
           x == Write(z, [type |-> "pause", seq |-> NextSeq(host)])
<1>0. Chained(host) /\ host \in HandlerType /\ Len(Led(host).orders) \in Nat
    BY ChainedFirst, ChainedFields
<1>1. /\ z \in HandlerType /\ z.wrote = host.wrote /\ z.stopping = TRUE /\ z.stopped = {}
      /\ LikeWork(host, z) /\ LikeProbe(host, z) /\ LikeFault(host, z) /\ LikeSaid(host, z)
      /\ LikeSelf(host, z)
    BY <1>0 DEF HandlerType, Memory, LikeWork, LikeProbe, LikeFault, LikeSaid, LikeSelf
<1> HIDE DEF z
<1>2. /\ Chained(x) /\ x.fault = host.fault /\ x.health = host.health
      /\ Len(Led(x).orders) = Len(Led(host).orders) + 1
    BY <1>0, <1>1, PausedKept
<1> HIDE DEF x
<1>3. Hears(host) => Hears(x)
    BY <1>0, <1>2, HearsMore
<1> QED BY <1>2, <1>3 DEF x, z

----------------------------------------------------------------------------
(* A handler ends, or a crash ends it *)
\* What a step of the host leaves.
HostKept ==
    /\ host' \in MemoryType /\ spent' \in 0..Budget
    /\ Good(disk', orders', game) /\ Grown(orders')
    /\ IF host'.up THEN Kept(host', disk', orders', game) /\ Heard(host', orders')
       ELSE host' = Down

\* The memory of a host that does not run, and of a new one.
LEMMA DownTyped == Down \in MemoryType /\ ~Down.up /\ Fresh \in MemoryType /\ Fresh.up
<1>1. Fresh \in MemoryType /\ Fresh.up = TRUE
    BY DEF Fresh, MemoryType, Memory, Codes, Statuses, Probing
<1>2. [Fresh EXCEPT !.up = FALSE] \in MemoryType /\ [Fresh EXCEPT !.up = FALSE].up = FALSE
    <2> HIDE DEF Fresh
    <2> QED BY <1>1 DEF MemoryType, Memory
<1> QED BY <1>1, <1>2 DEF Down

\* The handler ends, or a crash leaves the first n of its entries on the disk.
LEMMA HandleKept ==
    ASSUME spent \in Nat, NEW h, Chained(h), Hears(h), NEW cost \in {0, 1}, Handle(h, cost)
    PROVE  HostKept
<1> USE RecoveryAssumption
<1>0. /\ h \in HandlerType /\ h.wrote \in Seq(EntryType) /\ Len(h.wrote) \in Nat /\ h.up
      /\ Kept(h, Led(h).memory, Led(h).orders, game)
    BY ChainedFields, MemoryFields DEF HandlerType
<1>1. CASE /\ MaySpend(cost) /\ spent' = spent + cost
           /\ host' = [h EXCEPT !.wrote = <<>>] /\ Journal(h, Len(h.wrote))
    <2>1. /\ host' \in MemoryType /\ host'.up = h.up /\ host'.health = h.health
          /\ host'.fault = h.fault
          /\ LikeWork(h, host') /\ LikeProbe(h, host') /\ LikeFault(h, host')
          /\ LikeStop(h, host') /\ LikeSaid(h, host')
        BY <1>0, <1>1, Rested DEF LikeWork, LikeProbe, LikeFault, LikeStop, LikeSaid
    <2>2. disk' = Led(h).memory /\ orders' = Led(h).orders
        BY <1>1 DEF Journal, Led
    <2>3. Len(h.wrote) \in 0..Len(h.wrote)
        BY <1>0
    <2>4. Good(disk', orders', game) /\ Grown(orders')
        BY <2>2, <2>3 DEF Chained, Led
    <2>5. Kept(host', disk', orders', game)
        <3>1. host' \in HandlerType
            BY <2>1, HandlerMemory
        <3> QED BY <1>0, <2>1, <2>2, <3>1, KeptLike
    <2>6. Heard(host', orders')
        BY <2>1, <2>2 DEF Hears, Heard
    <2>7. spent' \in 0..Budget
        BY <1>1 DEF MaySpend
    <2> QED BY <1>0, <2>1, <2>4, <2>5, <2>6, <2>7 DEF HostKept
<1>2. CASE /\ MaySpend(cost + 1) /\ spent' = spent + cost + 1
           /\ \E n \in 1..(Len(h.wrote) - 1) : host' = Down /\ Journal(h, n)
    <2>1. PICK n \in 1..(Len(h.wrote) - 1) : host' = Down /\ Journal(h, n)
        BY <1>2
    <2>2. n \in 0..Len(h.wrote)
        BY <1>0, <2>1
    <2>3. Good(disk', orders', game) /\ Grown(orders')
        BY <2>1, <2>2 DEF Chained, Journal
    <2>4. spent' \in 0..Budget
        BY <1>2 DEF MaySpend
    <2> QED BY <2>1, <2>3, <2>4, DownTyped DEF HostKept
<1> QED BY <1>1, <1>2 DEF Handle

\* What is true of the games stays true when the journal grows.
LEMMA FaultedGrown ==
    ASSUME NEW O, Grown(O), Len(orders) \in Nat, NEW n \in 0..Len(orders)
    PROVE  Faulted(O, n) <=> Faulted(orders, n)
<1>1. \A i \in 1..n : O[i] = orders[i]
    BY DEF Grown
<1>2. \A i \in 1..n : \A j \in (i + 1)..n : j \in 1..n
    OBVIOUS
<1> QED BY <1>1, <1>2 DEF Faulted

\* The same of the messages on their way.
LEMMA SendsGrown ==
    ASSUME NEW O, Grown(O), Len(orders) \in Nat, Len(O) \in Nat, NEW p, NEW e, NEW g,
           e \in MessageType, Sends(p, e, g, orders)
    PROVE  Sends(p, e, g, O)
<1>1. Has(orders, "pause") => Has(O, "pause")
    BY DEF Grown, Has
<1>2. e.type = "health" => e.state.read \in Nat
    BY MessageKinds DEF HealthType
<1> QED BY <1>1, <1>2 DEF Sends, Grown

\* The fields of a game.
LEMMA GameFields ==
    ASSUME NEW n, NEW g \in GameType(n)
    PROVE  /\ g.read \in 0..n /\ g.result \in Results \union {None}
           /\ g.world \in {"old", "new", "odd"} /\ g.core \in {"kept", "changed"}
           /\ g.proposal \in Codes /\ g.operation \in Codes /\ g.residue \in BOOLEAN
           /\ g.probe \in Probing /\ g.edit \in {"none", "before", "since"}
           /\ g.unseen \in BOOLEAN
BY DEF GameType

\* A game stays one when the journal grows.
LEMMA GameMore ==
    ASSUME NEW n \in Nat, NEW k \in Nat, n <= k, NEW g \in GameType(n)
    PROVE  g \in GameType(k)
<1>1. 0..n \subseteq 0..k
    OBVIOUS
<1> QED BY <1>1 DEF GameType

\* A step of the host keeps the invariant.
LEMMA HostStepKept ==
    ASSUME IInv, HostKept, UNCHANGED <<game, kind>>,
           out' \in [Peer -> Seq(MessageType)], \A p \in Peer : Len(out'[p]) <= 2,
           \A p \in Peer : \A i \in 1..Len(out'[p]) : Sends(p, out'[p][i], game[p], orders)
    PROVE  IInv'
<1>0. /\ orders \in Seq(OrderType) /\ Len(orders) \in Nat
      /\ orders' \in Seq(OrderType) /\ Len(orders') \in Nat /\ Grown(orders')
      /\ Len(orders) <= Len(orders')
    BY DEF IInv, Journalled, Good, HostKept, Grown
<1>1. game' \in [Peer -> GameType(Len(orders'))]
    <2>1. \A p \in Peer : game[p] \in GameType(Len(orders'))
        BY <1>0, GameMore DEF IInv, Types
    <2> QED BY <2>1 DEF IInv, Types
<1>2. Types'
    BY <1>1 DEF IInv, Types, HostKept
<1>3. Minds' /\ Journalled'
    BY DEF HostKept, Minds, Journalled
<1>4. Played'
    <2>1. ASSUME NEW p \in Peer
          PROVE  Faulted(orders', game[p].read) <=> Faulted(orders, game[p].read)
        <3>1. game[p].read \in 0..Len(orders)
            BY GameFields DEF IInv, Types
        <3> QED BY <1>0, <3>1, FaultedGrown
    <2>2. ASSUME NEW p \in Peer, NEW i \in 1..Len(out'[p])
          PROVE  Sends(p, out'[p][i], game[p], orders')
        <3>1. out'[p][i] \in MessageType
            OBVIOUS
        <3> QED BY <1>0, <3>1, SendsGrown
    <2> QED BY <2>1, <2>2 DEF IInv, Played
<1> QED BY <1>2, <1>3, <1>4 DEF IInv

----------------------------------------------------------------------------
(* The steps of the host *)
\* The host between two handlers.
LEMMA HostReady ==
    ASSUME IInv, host.up
    PROVE  /\ host \in HandlerType /\ host.wrote = <<>> /\ Kept(host, disk, orders, game)
           /\ Chained(host) /\ Led(host).orders = orders /\ Led(host).memory = disk
           /\ Hears(host) /\ Heard(host, orders)
           /\ orders \in Seq(OrderType) /\ Len(orders) \in Nat
<1>1. host \in HandlerType /\ host.wrote = <<>>
    BY HandlerMemory DEF IInv, Types
<1>2. Kept(host, disk, orders, game) /\ Heard(host, orders)
    BY DEF IInv, Minds
<1>3. Chained(host) /\ Led(host).orders = orders /\ Led(host).memory = disk
    BY <1>1, <1>2, ChainedFirst
<1>4. orders \in Seq(OrderType) /\ Len(orders) \in Nat
    BY <1>2 DEF Kept, Good
<1> QED BY <1>1, <1>2, <1>3, <1>4 DEF Hears

\* A step of the host that reads nothing.
LEMMA HostAloneKept ==
    ASSUME IInv, HostKept, UNCHANGED <<game, out, kind>>
    PROVE  IInv'
<1>1. out' \in [Peer -> Seq(MessageType)] /\ \A p \in Peer : Len(out'[p]) <= 2
    BY DEF IInv, Types
<1>2. \A p \in Peer : \A i \in 1..Len(out'[p]) : Sends(p, out'[p][i], game[p], orders)
    BY DEF IInv, Played
<1> QED BY <1>1, <1>2, HostStepKept

\* The budget is a number.
LEMMA SpentNat == ASSUME IInv PROVE spent \in Nat
BY RecoveryAssumption DEF IInv, Types

\* The deadline of the work or of the probe.
LEMMA ExpireInv == ASSUME IInv, Expire PROVE IInv'
<1>0. Chained(host) /\ Hears(host) /\ spent \in Nat
    BY HostReady, SpentNat DEF Expire
<1>1. /\ "faulted" \in Statuses \ {"pending"} /\ {"late", "overdue"} \subseteq Codes
      /\ "late" # "none" /\ "overdue" # "none"
    BY DEF Statuses, Codes
<1>2. CASE Handle(EmitOutcome(host, "faulted", "late"), 0)
    <2>1. PICK h : h = EmitOutcome(host, "faulted", "late")
        OBVIOUS
    <2>2. Chained(h) /\ Hears(h)
        BY <1>0, <1>1, <2>1, EmitOutcomeKept
    <2>3. HostKept
        BY <1>0, <1>2, <2>1, <2>2, HandleKept
    <2> QED BY <2>3, HostAloneKept DEF Expire
<1>3. CASE Handle(EmitCheckpoint(host, FALSE, "overdue"), 0)
    <2>1. PICK h : h = EmitCheckpoint(host, FALSE, "overdue")
        OBVIOUS
    <2>2. Chained(h) /\ Hears(h)
        BY <1>0, <1>1, <2>1, RollbackKept, Zenon
    <2>3. Handle(h, 0)
        BY <1>3, <2>1, Zenon
    <2>4. HostKept
        BY <1>0, <2>2, <2>3, HandleKept
    <2> QED BY <2>4, HostAloneKept DEF Expire
<1> QED BY <1>2, <1>3 DEF Expire

\* A synchronization fault.
LEMMA SyncFaultInv == ASSUME IInv, SyncFault PROVE IInv'
<1>0. Chained(host) /\ Hears(host) /\ spent \in Nat
    BY HostReady, SpentNat DEF SyncFault
<1>1. PICK h : h = FaultSession(host, "sync")
    OBVIOUS
<1>2. \A p \in Peer : host.health[p] # None => host.health[p].read <= Len(Led(host).orders)
    BY <1>0 DEF Hears, Heard
<1>3. "sync" \in Codes /\ "sync" # "none"
    BY DEF Codes
<1>4. Chained(h) /\ Hears(h)
    BY <1>0, <1>1, <1>2, <1>3, FaultSessionKept
<1>5. HostKept
    BY <1>0, <1>1, <1>4, HandleKept DEF SyncFault
<1> QED BY <1>5, HostAloneKept DEF SyncFault

\* A player stops the clock.
LEMMA PauseInv == ASSUME IInv, Pause PROVE IInv'
<1>0. Hears(host) /\ spent \in Nat /\ Kept(host, disk, orders, game) /\ host.wrote = <<>>
    BY HostReady, SpentNat DEF Pause
<1>1. PICK h : h = Write([host EXCEPT !.stopping = TRUE, !.stopped = {}],
                         [type |-> "pause", seq |-> NextSeq(host)])
    OBVIOUS
<1>2. Chained(h) /\ Hears(h)
    BY <1>0, <1>1, PlayerPauseKept
<1>3. HostKept
    BY <1>0, <1>1, <1>2, HandleKept DEF Pause
<1> QED BY <1>3, HostAloneKept DEF Pause

\* A probe is accepted.
LEMMA RequalifyInv == ASSUME IInv, Requalify PROVE IInv'
<1>0. Hears(host) /\ spent \in Nat /\ Kept(host, disk, orders, game) /\ host.wrote = <<>>
    BY HostReady, SpentNat DEF Requalify
<1>1. PICK h : h = TrackProbe(Write(host, BoundAction(host)), BoundAction(host))
    OBVIOUS
<1>2. Chained(h) /\ Hears(h)
    BY <1>0, <1>1, RequalifyKept DEF Requalify
<1>3. HostKept
    BY <1>0, <1>1, <1>2, HandleKept DEF Requalify
<1> QED BY <1>3, HostAloneKept DEF Requalify

\* The host crashes.
LEMMA HostCrashInv == ASSUME IInv, HostCrash PROVE IInv'
<1>1. Good(disk', orders', game) /\ Grown(orders')
    BY DEF IInv, Journalled, Grown, Good, HostCrash
<1>2. spent' \in 0..Budget
    BY SpentNat, RecoveryAssumption DEF HostCrash, MaySpend
<1>3. HostKept
    BY <1>1, <1>2, DownTyped DEF HostKept, HostCrash
<1> QED BY <1>3, HostAloneKept DEF HostCrash

\* The host is started again from its journal.
LEMMA HostRestartInv == ASSUME IInv, HostRestart PROVE IInv'
<1>1. Good(disk, orders, game) /\ Grown(orders) /\ disk \in HandlerType
    BY HandlerMemory DEF IInv, Journalled, Grown, Good
<1>2. Kept(disk, disk, orders, game)
    BY <1>1 DEF Kept, Good, Same, HostRestart
<1>3. Heard(disk, orders)
    BY <1>1 DEF Good, Heard, NoHealth
<1>4. HostKept
    BY <1>1, <1>2, <1>3 DEF HostKept, HostRestart, IInv, Types, Good
<1> QED BY <1>4, HostAloneKept DEF HostRestart

\* A completion that the host reads, and a checkpoint, and an acknowledgement.
LEMMA DoneRead ==
    ASSUME IInv, host.up, NEW e \in MessageType, e.type = "done", host.done[e.peer] = None,
           NEW x, x = [Write(host, e) EXCEPT !.done[e.peer] = e.state]
    PROVE  Chained(x) /\ Hears(x)
<1> DEFINE w == Write(host, e)
           f == [host.done EXCEPT ![e.peer] = e.state]
<1>0. /\ host \in HandlerType /\ Kept(host, disk, orders, game) /\ Chained(host) /\ Hears(host)
      /\ Led(host).orders = orders /\ Led(host).memory = disk
    BY HostReady
<1>1. /\ w \in HandlerType /\ w.wrote = Append(host.wrote, e) /\ LikeSelf(host, w)
      /\ LikeWork(host, w) /\ LikeProbe(host, w) /\ LikeFault(host, w) /\ LikeStop(host, w)
      /\ LikeSaid(host, w)
    BY <1>0, WrittenMemory DEF EntryType
<1> HIDE DEF w
<1>2. x = [w EXCEPT !.done = f]
    BY <1>1 DEF w, LikeSaid
<1>3. f \in [Peer -> Results \union {None}]
    <2>1. host.done \in [Peer -> Results \union {None}]
        BY <1>0, MemoryFields DEF HandlerType
    <2> QED BY <2>1, MessageKinds
<1>4. x.done = f
    BY <1>1, <1>2 DEF HandlerType, Memory
<1> HIDE DEF f
<1>5. x \in HandlerType
    BY <1>1, <1>2, <1>3 DEF HandlerType, Memory
<1>6. /\ x.wrote = w.wrote /\ x.points = w.points /\ LikeSelf(w, x)
      /\ LikeWork(w, x) /\ LikeProbe(w, x) /\ LikeFault(w, x) /\ LikeStop(w, x)
    BY <1>1, <1>2 DEF HandlerType, Memory, LikeSelf, LikeWork, LikeProbe, LikeFault, LikeStop
<1>7. /\ x.wrote = Append(host.wrote, e) /\ x.points = host.points /\ x.up = host.up
      /\ x.health = host.health /\ x.fault = host.fault
      /\ LikeWork(host, x) /\ LikeProbe(host, x) /\ LikeFault(host, x) /\ LikeStop(host, x)
    BY <1>1, <1>6 DEF LikeSelf, LikeWork, LikeProbe, LikeFault, LikeStop, LikeSaid
<1>8. Kept(x, Replay(disk, e), orders, game)
    BY <1>0, <1>4, <1>5, <1>7, DoneKept DEF f
<1>9. Chained(x) /\ Led(x).orders = orders
    BY <1>0, <1>5, <1>7, <1>8, ChainedMessage
<1> QED BY <1>0, <1>7, <1>9 DEF Hears, Heard

\* A checkpoint of the probe.
LEMMA PointRead ==
    ASSUME IInv, host.up, NEW e \in MessageType, e.type = "point",
           host.points[e.peer] = None, PointOf(e.peer, game[e.peer], e.state),
           NEW x, x = [Write(host, e) EXCEPT !.points[e.peer] = e.state]
    PROVE  Chained(x) /\ Hears(x)
<1> DEFINE w == Write(host, e)
           f == [host.points EXCEPT ![e.peer] = e.state]
<1>0. /\ host \in HandlerType /\ Kept(host, disk, orders, game) /\ Chained(host) /\ Hears(host)
      /\ Led(host).orders = orders /\ Led(host).memory = disk
    BY HostReady
<1>1. /\ w \in HandlerType /\ w.wrote = Append(host.wrote, e) /\ LikeSelf(host, w)
      /\ LikeWork(host, w) /\ LikeProbe(host, w) /\ LikeFault(host, w) /\ LikeStop(host, w)
      /\ LikeSaid(host, w)
    BY <1>0, WrittenMemory DEF EntryType
<1> HIDE DEF w
<1>2. x = [w EXCEPT !.points = f]
    BY <1>1 DEF w, LikeSaid
<1>3. f \in [Peer -> PointType \union {None}]
    <2>1. host.points \in [Peer -> PointType \union {None}]
        BY <1>0, MemoryFields DEF HandlerType
    <2> QED BY <2>1, MessageKinds
<1>4. x.points = f
    BY <1>1, <1>2 DEF HandlerType, Memory
<1> HIDE DEF f
<1>5. x \in HandlerType
    BY <1>1, <1>2, <1>3 DEF HandlerType, Memory
<1>6. /\ x.wrote = w.wrote /\ x.done = w.done /\ LikeSelf(w, x)
      /\ LikeWork(w, x) /\ LikeProbe(w, x) /\ LikeFault(w, x) /\ LikeStop(w, x)
    BY <1>1, <1>2 DEF HandlerType, Memory, LikeSelf, LikeWork, LikeProbe, LikeFault, LikeStop
<1>7. /\ x.wrote = Append(host.wrote, e) /\ x.done = host.done /\ x.up = host.up
      /\ x.health = host.health /\ x.fault = host.fault
      /\ LikeWork(host, x) /\ LikeProbe(host, x) /\ LikeFault(host, x) /\ LikeStop(host, x)
    BY <1>1, <1>6 DEF LikeSelf, LikeWork, LikeProbe, LikeFault, LikeStop, LikeSaid
<1>8. Kept(x, Replay(disk, e), orders, game)
    BY <1>0, <1>4, <1>5, <1>7, PointKept DEF f
<1>9. Chained(x) /\ Led(x).orders = orders
    BY <1>0, <1>5, <1>7, <1>8, ChainedMessage
<1> QED BY <1>0, <1>7, <1>9 DEF Hears, Heard

\* An acknowledgement of the pause.
LEMMA AckRead ==
    ASSUME IInv, host.up, NEW e \in MessageType, e.type = "ack", Has(orders, "pause"),
           NEW x, x = [Write(host, e) EXCEPT !.stopped = @ \union {e.peer}]
    PROVE  Chained(x) /\ Hears(x)
<1> DEFINE w == Write(host, e)
           f == host.stopped \union {e.peer}
<1>0. /\ host \in HandlerType /\ Kept(host, disk, orders, game) /\ Chained(host) /\ Hears(host)
      /\ Led(host).orders = orders /\ Led(host).memory = disk
    BY HostReady
<1>1. /\ w \in HandlerType /\ w.wrote = Append(host.wrote, e) /\ LikeSelf(host, w)
      /\ LikeWork(host, w) /\ LikeProbe(host, w) /\ LikeFault(host, w) /\ LikeStop(host, w)
      /\ LikeSaid(host, w)
    BY <1>0, WrittenMemory DEF EntryType
<1> HIDE DEF w
<1>2. x = [w EXCEPT !.stopped = f]
    BY <1>1 DEF w, LikeStop
<1>3. f \in SUBSET Peer
    <2>1. host.stopped \in SUBSET Peer
        BY <1>0, MemoryFields DEF HandlerType
    <2> QED BY <2>1, MessageKinds
<1>4. x.stopped = f
    BY <1>1, <1>2 DEF HandlerType, Memory
<1> HIDE DEF f
<1>5. x \in HandlerType
    BY <1>1, <1>2, <1>3 DEF HandlerType, Memory
<1>6. /\ x.wrote = w.wrote /\ x.stopping = w.stopping /\ LikeSelf(w, x)
      /\ LikeWork(w, x) /\ LikeProbe(w, x) /\ LikeFault(w, x) /\ LikeSaid(w, x)
    BY <1>1, <1>2 DEF HandlerType, Memory, LikeSelf, LikeWork, LikeProbe, LikeFault, LikeSaid
<1>7. /\ x.wrote = Append(host.wrote, e) /\ x.stopping = host.stopping /\ x.up = host.up
      /\ x.health = host.health /\ x.fault = host.fault
      /\ LikeWork(host, x) /\ LikeProbe(host, x) /\ LikeFault(host, x) /\ LikeSaid(host, x)
    BY <1>1, <1>6 DEF LikeSelf, LikeWork, LikeProbe, LikeFault, LikeStop, LikeSaid
<1>8. Kept(x, Replay(disk, e), orders, game)
    BY <1>0, <1>4, <1>5, <1>7, AckKept DEF f
<1>9. Chained(x) /\ Led(x).orders = orders
    BY <1>0, <1>5, <1>7, <1>8, ChainedMessage
<1> QED BY <1>0, <1>7, <1>9 DEF Hears, Heard

\* A health report that the host reads: a fault that it must not miss is promoted.
LEMMA HealthRead ==
    ASSUME IInv, host.up, NEW e \in MessageType, e.type = "health", e.state.read <= Len(orders),
           NEW heard, heard = [host EXCEPT !.health[e.peer] = e.state],
           NEW x, x = IF Promotes(host, e) THEN FaultSession(heard, e.state.fault) ELSE heard
    PROVE  Chained(x) /\ Hears(x)
<1> DEFINE f == [host.health EXCEPT ![e.peer] = e.state]
<1>0. /\ host \in HandlerType /\ Chained(host) /\ Heard(host, orders)
      /\ Led(host).orders = orders /\ Led(host).memory = disk /\ Len(orders) \in Nat
    BY HostReady
<1>1. heard = [host EXCEPT !.health = f]
    OBVIOUS
<1>2. /\ e.state \in HealthType /\ e.peer \in Peer
      /\ host.health \in [Peer -> HealthType \union {None}]
    BY <1>0, MessageKinds, MemoryFields DEF HandlerType
<1>3. f \in [Peer -> HealthType \union {None}]
    BY <1>2
<1>4. \A p \in Peer : f[p] = IF p = e.peer THEN e.state ELSE host.health[p]
    BY <1>2
<1> HIDE DEF f
<1>5. heard \in HandlerType /\ heard.health = f
    BY <1>0, <1>1, <1>3 DEF HandlerType, Memory
<1>6. /\ heard.wrote = host.wrote /\ heard.up = host.up /\ heard.fault = host.fault
      /\ LikeWork(host, heard) /\ LikeProbe(host, heard) /\ LikeFault(host, heard)
      /\ LikeStop(host, heard) /\ LikeSaid(host, heard)
    BY <1>0, <1>1 DEF HandlerType, Memory, LikeWork, LikeProbe, LikeFault, LikeStop, LikeSaid
<1>7. Chained(heard) /\ Led(heard).orders = orders
    BY <1>0, <1>5, <1>6, ChainedLike
<1>8. \A p \in Peer : heard.health[p] # None => heard.health[p].read <= Len(orders)
    BY <1>0, <1>4, <1>5 DEF Heard
<1>9. CASE Promotes(host, e)
    <2>1. e.state.fault \in Codes /\ e.state.fault # "none"
        BY <1>2, <1>9 DEF Promotes, HealthType
    <2>2. x = FaultSession(heard, e.state.fault)
        BY <1>9
    <2> QED BY <1>7, <1>8, <2>1, <2>2, FaultSessionKept
<1>10. CASE ~Promotes(host, e)
    <2>1. x = heard
        BY <1>10
    <2>2. Heard(heard, orders)
        BY <1>0, <1>4, <1>5, <1>6, <1>8, <1>10 DEF Heard, Promotes
    <2> QED BY <1>7, <2>1, <2>2 DEF Hears
<1> QED BY <1>9, <1>10

\* The messages that remain.
LEMMA TailKept ==
    ASSUME IInv, NEW p \in Peer, out[p] # <<>>, out' = [out EXCEPT ![p] = Tail(@)]
    PROVE  /\ Head(out[p]) \in MessageType /\ Sends(p, Head(out[p]), game[p], orders)
           /\ out' \in [Peer -> Seq(MessageType)] /\ \A q \in Peer : Len(out'[q]) <= 2
           /\ \A q \in Peer : \A i \in 1..Len(out'[q]) : Sends(q, out'[q][i], game[q], orders)
<1>0. /\ out \in [Peer -> Seq(MessageType)] /\ out[p] \in Seq(MessageType)
      /\ \A q \in Peer : Len(out[q]) <= 2
      /\ \A q \in Peer : \A i \in 1..Len(out[q]) : Sends(q, out[q][i], game[q], orders)
    BY DEF IInv, Types, Played
<1>1. /\ Head(out[p]) \in MessageType /\ Head(out[p]) = out[p][1] /\ 1 \in 1..Len(out[p])
      /\ Tail(out[p]) \in Seq(MessageType) /\ Len(Tail(out[p])) = Len(out[p]) - 1
      /\ \A i \in 1..Len(Tail(out[p])) : Tail(out[p])[i] = out[p][i + 1]
                                         /\ i + 1 \in 1..Len(out[p])
    BY <1>0
<1>2. \A q \in Peer : out'[q] = IF q = p THEN Tail(out[p]) ELSE out[q]
    BY <1>0
<1>3. out' \in [Peer -> Seq(MessageType)]
    BY <1>0, <1>1
<1>4. \A q \in Peer : Len(out'[q]) <= 2
    BY <1>0, <1>1, <1>2
<1>5. ASSUME NEW q \in Peer, NEW i \in 1..Len(out'[q])
      PROVE  Sends(q, out'[q][i], game[q], orders)
    <2>1. CASE q = p
        BY <1>0, <1>1, <1>2, <2>1
    <2>2. CASE q # p
        BY <1>0, <1>2, <2>2
    <2> QED BY <2>1, <2>2
<1> QED BY <1>0, <1>1, <1>3, <1>4, <1>5

\* The host reads a message.
LEMMA ReadMessageInv == ASSUME IInv, NEW p \in Peer, ReadMessage(p) PROVE IInv'
<1> DEFINE e == Head(out[p])
           noted == Write(host, e)
           heard == [host EXCEPT !.health[p] = e.state]
<1>0. host.up /\ out[p] # <<>> /\ out' = [out EXCEPT ![p] = Tail(@)]
      /\ UNCHANGED <<game, kind>>
    BY DEF ReadMessage
<1>1. /\ e \in MessageType /\ Sends(p, e, game[p], orders)
      /\ out' \in [Peer -> Seq(MessageType)] /\ \A q \in Peer : Len(out'[q]) <= 2
      /\ \A q \in Peer : \A i \in 1..Len(out'[q]) : Sends(q, out'[q][i], game[q], orders)
    BY <1>0, TailKept
<1>2. e.peer = p /\ e.type \in {"done", "point", "ack", "health"} /\ spent \in Nat
    BY <1>1, MessageKinds, SpentNat DEF Sends
<1>3. Chained(host) /\ Hears(host)
    BY <1>0, HostReady
<1> DEFINE d == [noted EXCEPT !.done[p] = e.state]
           c == [noted EXCEPT !.points[p] = e.state]
           a == [noted EXCEPT !.stopped = @ \union {p}]
<1>4. \E h : Chained(h) /\ Hears(h) /\ Handle(h, 0)
    <2>1. CASE e.type = "done"
        <3>1. Handle(IF host.done[p] # None THEN host ELSE Resolve(d), 0)
            BY <2>1 DEF ReadMessage
        <3>2. CASE host.done[p] # None
            BY <1>3, <3>1, <3>2
        <3>3. CASE host.done[p] = None
            <4>1. Chained(d) /\ Hears(d)
                BY <1>0, <1>1, <1>2, <2>1, <3>3, DoneRead
            <4>2. PICK h : h = Resolve(d)
                OBVIOUS
            <4> HIDE DEF d
            <4>3. Chained(h) /\ Hears(h)
                BY <4>1, <4>2, ResolveKept
            <4> QED BY <3>1, <3>3, <4>2, <4>3
        <3> QED BY <3>2, <3>3
    <2>2. CASE e.type = "point"
        <3>1. Handle(IF host.points[p] # None THEN host ELSE ResolveCheckpoint(c), 0)
            BY <2>2 DEF ReadMessage
        <3>2. CASE host.points[p] # None
            BY <1>3, <3>1, <3>2
        <3>3. CASE host.points[p] = None
            <4>1. Chained(c) /\ Hears(c)
                BY <1>0, <1>1, <1>2, <2>2, <3>3, PointRead DEF Sends
            <4>2. PICK h : h = ResolveCheckpoint(c)
                OBVIOUS
            <4> HIDE DEF c
            <4>3. Chained(h) /\ Hears(h)
                BY <4>1, <4>2, ResolveCheckpointKept
            <4> QED BY <3>1, <3>3, <4>2, <4>3
        <3> QED BY <3>2, <3>3
    <2>3. CASE e.type = "ack"
        <3>1. Handle(a, 0)
            BY <2>3 DEF ReadMessage
        <3>2. Chained(a) /\ Hears(a)
            BY <1>0, <1>1, <1>2, <2>3, AckRead DEF Sends
        <3> QED BY <3>1, <3>2
    <2>4. CASE e.type = "health"
        <3>1. PICK h : h = IF Promotes(host, e) THEN FaultSession(heard, e.state.fault) ELSE heard
            OBVIOUS
        <3>2. Handle(h, 0)
            BY <2>4, <3>1 DEF ReadMessage
        <3>3. heard = [host EXCEPT !.health[e.peer] = e.state] /\ e.state.read <= Len(orders)
            BY <1>1, <1>2, <2>4 DEF Sends
        <3> HIDE DEF heard, e
        <3>4. Chained(h) /\ Hears(h)
            BY <1>0, <1>1, <2>4, <3>1, <3>3, HealthRead
        <3> QED BY <3>2, <3>4
    <2> QED BY <1>2, <2>1, <2>2, <2>3, <2>4
<1>5. HostKept
    BY <1>2, <1>4, HandleKept
<1> QED BY <1>0, <1>1, <1>5, HostStepKept

----------------------------------------------------------------------------
(* The steps of the games *)
\* A checkpoint of g is one of k.
Lasts(p, g, k) == \A s : PointOf(p, g, s) => PointOf(p, k, s)

\* The journal stays good when the checkpoints last.
LEMMA GoodLasts ==
    ASSUME NEW d, NEW O, NEW g, NEW k, Good(d, O, g),
           \A p \in Peer : Lasts(p, g[p], k[p])
    PROVE  Good(d, O, k)
BY DEF Good, Pointed, Lasts

\* The game p becomes g, and may have sent e.
LEMMA GameStepKept ==
    ASSUME IInv, UNCHANGED <<host, disk, orders, kind>>, spent' \in 0..Budget,
           NEW p \in Peer, NEW g \in GameType(Len(orders)), game' = [game EXCEPT ![p] = g],
           Lasts(p, game[p], g), Faulted(orders, g.read) => Fault(g) # "none",
           \/ out' = out
           \/ \E e \in MessageType : Idle(p) /\ Send(p, e) /\ Sends(p, e, g, orders)
    PROVE  IInv'
<1>0. /\ out \in [Peer -> Seq(MessageType)] /\ \A q \in Peer : Len(out[q]) <= 2
      /\ \A q \in Peer : \A i \in 1..Len(out[q]) : Sends(q, out[q][i], game[q], orders)
      /\ game \in [Peer -> GameType(Len(orders))]
    BY DEF IInv, Types, Played
<1>1. /\ game' \in [Peer -> GameType(Len(orders))] /\ game'[p] = g
      /\ \A q \in Peer : q # p => game'[q] = game[q]
    BY <1>0
<1>2. \A q \in Peer : Lasts(q, game[q], game'[q])
    BY <1>1 DEF Lasts
<1>3. Minds' /\ Journalled'
    <2>1. Good(disk, orders, game')
        BY <1>2, GoodLasts DEF IInv, Journalled
    <2> QED BY <2>1 DEF IInv, Minds, Journalled, Kept
<1>4. \A q \in Peer : \A i \in 1..Len(out[q]) : Sends(q, out[q][i], game'[q], orders)
    BY <1>0, <1>2 DEF Sends, Lasts
<1>5. /\ out' \in [Peer -> Seq(MessageType)] /\ \A q \in Peer : Len(out'[q]) <= 2
      /\ \A q \in Peer : \A i \in 1..Len(out'[q]) : Sends(q, out'[q][i], game'[q], orders)
    <2>1. CASE out' = out
        BY <1>0, <1>4, <2>1
    <2>2. CASE \E e \in MessageType : Idle(p) /\ Send(p, e) /\ Sends(p, e, g, orders)
        <3>1. PICK e \in MessageType : Idle(p) /\ Send(p, e) /\ Sends(p, e, g, orders)
            BY <2>2
        <3>2. /\ out[p] \in Seq(MessageType) /\ Len(out[p]) \in Nat /\ Len(out[p]) < 2
              /\ out' = [out EXCEPT ![p] = Append(out[p], e)]
            BY <1>0, <3>1 DEF Idle, Send
        <3>3. /\ Append(out[p], e) \in Seq(MessageType)
              /\ Len(Append(out[p], e)) = Len(out[p]) + 1
              /\ Append(out[p], e)[Len(out[p]) + 1] = e
              /\ \A i \in 1..Len(out[p]) : Append(out[p], e)[i] = out[p][i]
            BY <3>2
        <3>4. /\ out' \in [Peer -> Seq(MessageType)] /\ out'[p] = Append(out[p], e)
              /\ \A q \in Peer : q # p => out'[q] = out[q]
            BY <1>0, <3>2, <3>3
        <3>5. \A q \in Peer : Len(out'[q]) <= 2
            BY <1>0, <3>2, <3>3, <3>4
        <3>6. ASSUME NEW i \in 1..Len(out'[p]) PROVE Sends(p, out'[p][i], game'[p], orders)
            <4>1. i \in 1..Len(out[p]) \/ i = Len(out[p]) + 1
                BY <3>2, <3>3, <3>4
            <4> QED BY <1>1, <1>4, <3>1, <3>3, <3>4, <4>1
        <3> QED BY <1>4, <3>4, <3>5, <3>6
    <2> QED BY <2>1, <2>2
<1>6. \A q \in Peer : Faulted(orders, game'[q].read) => Fault(game'[q]) # "none"
    BY <1>1 DEF IInv, Played
<1>7. Types'
    BY <1>1, <1>5 DEF IInv, Types
<1>8. Played'
    BY <1>5, <1>6 DEF Played
<1> QED BY <1>3, <1>7, <1>8 DEF IInv

\* A game between two steps.
LEMMA GameReady ==
    ASSUME IInv, NEW p \in Peer
    PROVE  /\ game \in [Peer -> GameType(Len(orders))] /\ game[p] \in GameType(Len(orders))
           /\ game[p].read \in 0..Len(orders) /\ Len(orders) \in Nat
           /\ orders \in Seq(OrderType) /\ Coded(orders)
           /\ Faulted(orders, game[p].read) => Fault(game[p]) # "none"
<1>1. game \in [Peer -> GameType(Len(orders))]
    BY DEF IInv, Types
<1> QED BY <1>1, GameFields DEF IInv, Journalled, Good, Sound, Played

\* The engine is done with the work.
LEMMA FinishInv == ASSUME IInv, NEW p \in Peer, Finish(p) PROVE IInv'
<1> DEFINE o == game[p]
<1>0. /\ game \in [Peer -> GameType(Len(orders))] /\ o \in GameType(Len(orders))
      /\ Faulted(orders, o.read) => Fault(o) # "none"
    BY GameReady
<1>1. PICK r \in Results :
        /\ game' = [game EXCEPT ![p].result = r, ![p].core = r.core,
                      ![p].world = IF @ = "old" THEN r.world ELSE @]
        /\ Send(p, [type |-> "done", peer |-> p, state |-> r])
    BY DEF Finish
<1> DEFINE w == IF o.world = "old" THEN r.world ELSE o.world
           g == [o EXCEPT !.result = r, !.core = r.core, !.world = w]
<1>2. r.core \in {"kept", "changed"} /\ r.world \in {"old", "new", "odd"}
    BY DEF Results
<1>3. w \in {"old", "new", "odd"}
    BY <1>0, <1>2, GameFields
<1>4. game' = [game EXCEPT ![p] = g]
    BY <1>0, <1>1
<1> HIDE DEF w
<1>5. g \in GameType(Len(orders)) /\ g.read = o.read /\ Fault(g) = Fault(o)
    BY <1>0, <1>2, <1>3 DEF GameType, Fault
<1>6. o.result = None
    BY DEF Finish
<1> HIDE DEF g, o
<1>7. Lasts(p, o, g)
    BY <1>6 DEF Lasts, PointOf
<1>8. \E e \in MessageType : Idle(p) /\ Send(p, e) /\ Sends(p, e, g, orders)
    <2> DEFINE e == [type |-> "done", peer |-> p, state |-> r]
    <2>1. e \in MessageType /\ e.type = "done" /\ e.peer = p
        BY DEF MessageType
    <2> QED BY <1>1, <2>1 DEF Finish, Sends
<1> QED BY <1>0, <1>4, <1>5, <1>7, <1>8, GameStepKept DEF Finish, IInv, Types, o

\* A local edit: one before the probe, so that no checkpoint of the game is out, or one
\* that is not counted as made before it.
LEMMA StrayInv == ASSUME IInv, NEW p \in Peer, Stray(p) PROVE IInv'
<1> DEFINE o == game[p]
           w == IF o.probe = "none" THEN "before" ELSE IF o.edit = "none" THEN "since" ELSE o.edit
           g == [o EXCEPT !.edit = w, !.unseen = TRUE]
<1>0. /\ game \in [Peer -> GameType(Len(orders))] /\ o \in GameType(Len(orders))
      /\ Faulted(orders, o.read) => Fault(o) # "none"
    BY GameReady
<1>1. game' = [game EXCEPT ![p] = g]
    BY <1>0 DEF Stray
<1>2. /\ w \in {"none", "before", "since"}
      /\ o.probe # "none" /\ w = "before" => o.edit = "before"
    BY <1>0, GameFields
<1> HIDE DEF w
<1>3. /\ g \in GameType(Len(orders)) /\ g.read = o.read /\ g.probe = o.probe /\ g.edit = w
      /\ g.world = o.world /\ g.core = o.core /\ g.result = o.result
      /\ g.proposal = o.proposal /\ g.operation = o.operation
    BY <1>0, <1>2 DEF GameType
<1>4. UNCHANGED <<host, disk, orders, out, kind>>
    BY DEF Stray
<1> HIDE DEF g, o
<1>5. Lasts(p, o, g) /\ Fault(g) = Fault(o)
    BY <1>2, <1>3 DEF Lasts, PointOf, Fault
<1>6. spent' \in 0..Budget
    BY SpentNat, RecoveryAssumption DEF Stray, MaySpend
<1> QED BY <1>0, <1>1, <1>3, <1>4, <1>5, <1>6, GameStepKept DEF o

\* The mod learns of a local edit.
LEMMA CaptureInv == ASSUME IInv, NEW p \in Peer, Capture(p) PROVE IInv'
<1> DEFINE o == game[p]
<1>0. /\ game \in [Peer -> GameType(Len(orders))] /\ o \in GameType(Len(orders))
      /\ Faulted(orders, o.read) => Fault(o) # "none"
    BY GameReady
<1>1. PICK custody \in BOOLEAN, raised \in BOOLEAN :
        game' = [game EXCEPT ![p].unseen = FALSE, ![p].residue = @ \/ custody,
                   ![p].operation = IF raised /\ @ = "none" THEN "residue" ELSE @]
    BY DEF Capture
<1> DEFINE r == o.residue \/ custody
           w == IF raised /\ o.operation = "none" THEN "residue" ELSE o.operation
           g == [o EXCEPT !.unseen = FALSE, !.residue = r, !.operation = w]
<1>2. game' = [game EXCEPT ![p] = g]
    BY <1>0, <1>1
<1>3. w \in Codes /\ (o.operation # "none" => w # "none")
    BY <1>0, GameFields DEF Codes
<1>4. r \in BOOLEAN
    OBVIOUS
<1> HIDE DEF w, r
<1>5. /\ g \in GameType(Len(orders)) /\ g.read = o.read /\ g.probe = o.probe
      /\ g.edit = o.edit /\ g.world = o.world /\ g.core = o.core /\ g.result = o.result
      /\ g.proposal = o.proposal /\ g.operation = w
    BY <1>0, <1>3, <1>4 DEF GameType
<1>6. UNCHANGED <<host, disk, orders, out, kind, spent>>
    BY DEF Capture
<1> HIDE DEF g, o
<1>7. Lasts(p, o, g) /\ (Fault(o) # "none" => Fault(g) # "none")
    BY <1>3, <1>5 DEF Lasts, PointOf, Fault
<1>8. spent' \in 0..Budget
    BY <1>6 DEF IInv, Types
<1> QED BY <1>0, <1>2, <1>5, <1>6, <1>7, <1>8, GameStepKept DEF o

\* A health report.
LEMMA BeatInv == ASSUME IInv, NEW p \in Peer, Beat(p) PROVE IInv'
<1> DEFINE o == game[p]
           e == [type |-> "health", peer |-> p, state |-> Health(o)]
<1>0. /\ game \in [Peer -> GameType(Len(orders))] /\ o \in GameType(Len(orders))
      /\ Faulted(orders, o.read) => Fault(o) # "none" /\ o.read \in 0..Len(orders)
    BY GameReady
<1>1. Fault(o) \in Codes /\ o.residue \in BOOLEAN
    BY <1>0, GameFields DEF Fault
<1>2. Health(o) \in HealthType /\ Health(o).read = o.read
    BY <1>0, <1>1, GameReady DEF Health, HealthType
<1>3. e \in MessageType /\ e.type = "health" /\ e.peer = p /\ e.state.read <= Len(orders)
    BY <1>0, <1>2, GameReady DEF MessageType
<1>4. game' = [game EXCEPT ![p] = o] /\ UNCHANGED <<host, disk, orders, kind, spent>>
    BY <1>0 DEF Beat
<1>5. Idle(p) /\ Send(p, e) /\ Sends(p, e, o, orders)
    BY <1>3 DEF Beat, Idle, Sends
<1> HIDE DEF e
<1>6. Lasts(p, o, o)
    BY DEF Lasts
<1>7. \E x \in MessageType : Idle(p) /\ Send(p, x) /\ Sends(p, x, o, orders)
    BY <1>3, <1>5
<1>8. spent' \in 0..Budget
    BY <1>4 DEF IInv, Types
<1> HIDE DEF o
<1> QED BY <1>0, <1>4, <1>6, <1>7, <1>8, GameStepKept DEF o

\* One order more can fault the session only as a failure does.
LEMMA FaultedNext ==
    ASSUME NEW O, NEW n \in Nat, Faulted(O, n + 1), ~Failing(O[n + 1])
    PROVE  Faulted(O, n) /\ ~Clearing(O[n + 1])
<1>1. PICK i \in 1..(n + 1) : Failing(O[i]) /\ \A j \in (i + 1)..(n + 1) : ~Clearing(O[j])
    BY DEF Faulted
<1>2. i \in 1..n /\ n + 1 \in (i + 1)..(n + 1)
    BY <1>1
<1>3. \A j \in (i + 1)..n : j \in (i + 1)..(n + 1)
    BY <1>2
<1> QED BY <1>1, <1>2, <1>3 DEF Faulted

\* A game reads the next order.
LEMMA ReadOn ==
    ASSUME IInv, UNCHANGED <<host, disk, orders, kind, spent>>,
           NEW p \in Peer, game[p].read < Len(orders),
           NEW e, e = orders[game[p].read + 1],
           NEW g \in GameType(Len(orders)), game' = [game EXCEPT ![p] = g],
           g.read = game[p].read + 1, Lasts(p, game[p], g),
           Failing(e) => Fault(g) # "none",
           ~Failing(e) /\ ~Clearing(e) /\ Fault(game[p]) # "none" => Fault(g) # "none",
           \/ out' = out
           \/ \E m \in MessageType : Idle(p) /\ Send(p, m) /\ Sends(p, m, g, orders)
    PROVE  IInv'
<1>1. /\ game[p].read \in Nat
      /\ Faulted(orders, game[p].read) => Fault(game[p]) # "none"
    BY GameReady
<1>2. Faulted(orders, g.read) => Fault(g) # "none"
    BY <1>1, FaultedNext
<1>3. spent' \in 0..Budget /\ UNCHANGED <<host, disk, orders, kind>>
    BY DEF IInv, Types
<1> QED BY <1>2, <1>3, GameStepKept

\* Before it does.
LEMMA NextOrder ==
    ASSUME IInv, NEW p \in Peer, game[p].read < Len(orders)
    PROVE  LET o == game[p]
               e == orders[o.read + 1]
           IN /\ e \in OrderType /\ (Failing(e) => e.code # "none")
              /\ o.read + 1 \in 1..Len(orders) /\ o.read + 1 \in 0..Len(orders)
              /\ o \in GameType(Len(orders))
<1>1. game[p].read + 1 \in 1..Len(orders) /\ game[p].read + 1 \in 0..Len(orders)
    BY GameReady
<1>2. orders[game[p].read + 1] \in OrderType
    BY <1>1, GameReady
<1> QED BY <1>1, <1>2, GameReady DEF Coded

\* A game begins the probe, or does not.
LEMMA BeginInv ==
    ASSUME IInv, NEW p \in Peer, game[p].read < Len(orders), Idle(p),
           UNCHANGED <<host, disk, orders, kind, spent>>,
           NEW e, e = orders[game[p].read + 1], e.type = "requalify", Begin(p, e)
    PROVE  IInv'
<1> DEFINE o == game[p]
           n == o.read + 1
<1>0. /\ game \in [Peer -> GameType(Len(orders))] /\ o \in GameType(Len(orders))
      /\ n \in 0..Len(orders)
    BY GameReady, NextOrder
<1>1. ~Failing(e) /\ ~Clearing(e)
    BY DEF Failing, Clearing
<1>2. CASE CanBegin(o, e)
    <2> DEFINE g == [o EXCEPT !.probe = "probing", !.read = n]
               m == [type |-> "point", peer |-> p,
                     state |-> [world |-> World(p), core |-> o.core]]
    <2>1. game' = [game EXCEPT ![p] = g] /\ Send(p, m)
        BY <1>0, <1>2 DEF Begin
    <2>2. g \in GameType(Len(orders))
        BY <1>0 DEF GameType, Probing
    <2>3. /\ g.read = n /\ g.probe = "probing" /\ g.world = o.world /\ g.core = o.core
          /\ g.result = o.result /\ g.edit = o.edit
          /\ g.proposal = o.proposal /\ g.operation = o.operation
        BY <1>0 DEF GameType
    <2>4. m.state \in PointType /\ m \in MessageType
        BY <1>0, GameFields DEF PointType, WorldType, World, MessageType
    <2>5. /\ m.peer = p /\ m.type = "point" /\ m.state.core = o.core
          /\ m.state.world.work = o.world /\ m.state.world.own \subseteq {p}
          /\ o.edit = "before" => m.state.world.own = {p}
        BY DEF World
    <2> HIDE DEF g, m
    <2>6. PointOf(p, g, m.state)
        BY <1>2, <2>3, <2>5 DEF PointOf, CanBegin
    <2>7. Sends(p, m, g, orders)
        BY <2>5, <2>6 DEF Sends
    <2>8. Lasts(p, o, g) /\ Fault(g) = Fault(o)
        BY <2>3 DEF Lasts, PointOf, Fault
    <2>9. \E x \in MessageType : Idle(p) /\ Send(p, x) /\ Sends(p, x, g, orders)
        BY <2>1, <2>4, <2>7
    <2> HIDE DEF n
    <2> QED BY <1>1, <2>1, <2>2, <2>3, <2>8, <2>9, ReadOn DEF n
<1>3. CASE ~CanBegin(o, e)
    <2> DEFINE g == [o EXCEPT !.read = n]
    <2>1. game' = [game EXCEPT ![p] = g] /\ out' = out
        BY <1>0, <1>3 DEF Begin
    <2>2. g \in GameType(Len(orders))
        BY <1>0 DEF GameType
    <2>3. /\ g.read = n /\ g.probe = o.probe /\ g.world = o.world /\ g.core = o.core
          /\ g.result = o.result /\ g.edit = o.edit
          /\ g.proposal = o.proposal /\ g.operation = o.operation
        BY <1>0 DEF GameType
    <2> HIDE DEF g
    <2>4. Lasts(p, o, g) /\ Fault(g) = Fault(o)
        BY <2>3 DEF Lasts, PointOf, Fault
    <2> QED BY <1>1, <2>1, <2>2, <2>3, <2>4, ReadOn
<1> QED BY <1>2, <1>3

\* A game learns how the probe ended.
LEMMA ConcludeInv ==
    ASSUME IInv, NEW p \in Peer, game[p].read < Len(orders),
           UNCHANGED <<host, disk, orders, kind, spent>>,
           NEW e, e = orders[game[p].read + 1], e.type = "checkpoint", Conclude(p, e)
    PROVE  IInv'
<1> DEFINE o == game[p]
           n == o.read + 1
           clears == e.success /\ o.probe = "probing" /\ Lane(o) = e.clears
           code == IF e.success THEN "refused" ELSE e.code
           healed == IF kind = "proposal" THEN [o EXCEPT !.proposal = "none"]
                     ELSE [o EXCEPT !.operation = "none"]
           next == IF clears THEN [healed EXCEPT !.probe = "recovered"]
                   ELSE [o EXCEPT !.proposal = code, !.probe = "rollback"]
           g == [next EXCEPT !.read = n]
<1>0. /\ game \in [Peer -> GameType(Len(orders))] /\ o \in GameType(Len(orders))
      /\ n \in 0..Len(orders) /\ e \in OrderType /\ (Failing(e) => e.code # "none")
    BY GameReady, NextOrder
<1>1. /\ healed \in GameType(Len(orders))
      /\ healed.read = o.read /\ healed.probe = o.probe /\ healed.world = o.world
      /\ healed.core = o.core /\ healed.result = o.result /\ healed.edit = o.edit
    BY <1>0 DEF GameType, Codes
<1>2. code \in Codes /\ code # "none"
    BY <1>0, OrderKinds DEF Codes, Failing
<1>3. game' = [game EXCEPT ![p] = g] /\ out' = out
    <2>1. next.read = o.read
        BY <1>0, <1>1 DEF GameType
    <2>2. /\ game' = [game EXCEPT ![p] = [next EXCEPT !.read = @ + 1]]
          /\ out' = out
        BY DEF Conclude
    <2> HIDE DEF next
    <2> QED BY <2>1, <2>2
<1> HIDE DEF code, healed
<1>4. CASE clears
    <2>1. next = [healed EXCEPT !.probe = "recovered"]
        BY <1>4
    <2>2. next \in GameType(Len(orders)) /\ next.probe = "recovered"
          /\ next.world = o.world
          /\ next.core = o.core /\ next.result = o.result /\ next.edit = o.edit
        BY <1>1, <2>1 DEF GameType, Probing
    <2> HIDE DEF next
    <2>3. /\ g \in GameType(Len(orders)) /\ g.read = n /\ g.probe = "recovered"
          /\ g.world = o.world
          /\ g.core = o.core /\ g.result = o.result /\ g.edit = o.edit
        BY <1>0, <2>2 DEF GameType
    <2> HIDE DEF g
    <2>4. Clearing(e) /\ ~Failing(e)
        BY <1>4 DEF Clearing, Failing
    <2>5. Lasts(p, o, g)
        BY <2>3 DEF Lasts, PointOf
    <2> QED BY <1>3, <2>3, <2>4, <2>5, ReadOn
<1>5. CASE ~clears
    <2>1. next = [o EXCEPT !.proposal = code, !.probe = "rollback"]
        BY <1>5
    <2>2. next \in GameType(Len(orders)) /\ next.probe = "rollback"
          /\ next.world = o.world /\ next.proposal = code
          /\ next.core = o.core /\ next.result = o.result /\ next.edit = o.edit
        BY <1>0, <1>2, <2>1 DEF GameType, Probing
    <2> HIDE DEF next
    <2>3. /\ g \in GameType(Len(orders)) /\ g.read = n /\ g.probe = "rollback"
          /\ g.world = o.world /\ g.proposal = code
          /\ g.core = o.core /\ g.result = o.result /\ g.edit = o.edit
        BY <1>0, <2>2 DEF GameType
    <2> HIDE DEF g
    <2>4. Fault(g) # "none"
        BY <1>2, <2>3 DEF Fault
    <2>5. Lasts(p, o, g)
        BY <2>3 DEF Lasts, PointOf
    <2> QED BY <1>3, <2>3, <2>4, <2>5, ReadOn
<1> QED BY <1>4, <1>5

\* A game reads an order.
LEMMA ApplyInv == ASSUME IInv, NEW p \in Peer, Apply(p) PROVE IInv'
<1> DEFINE o == game[p]
           n == o.read + 1
           e == orders[n]
           Step(g) == game' = [game EXCEPT ![p] = [g EXCEPT !.read = @ + 1]]
<1>0. /\ o.read < Len(orders) /\ Idle(p) /\ UNCHANGED <<host, disk, orders, kind, spent>>
      /\ game \in [Peer -> GameType(Len(orders))] /\ o \in GameType(Len(orders))
    BY GameReady DEF Apply
<1>1. /\ e \in OrderType /\ (Failing(e) => e.code # "none") /\ n \in 0..Len(orders)
      /\ n \in 1..Len(orders)
    BY <1>0, NextOrder
<1>2. CASE e.type = "requalify"
    <2>1. Begin(p, e)
        BY <1>2 DEF Apply
    <2> QED BY <1>0, <1>2, <2>1, BeginInv
<1>3. CASE e.type = "checkpoint"
    <2>1. Conclude(p, e)
        BY <1>3 DEF Apply
    <2> QED BY <1>0, <1>3, <2>1, ConcludeInv
    \* The game goes on as q, with another fault at most.
<1>4. ASSUME NEW q \in GameType(Len(orders)), q.read = o.read, q.probe = o.probe,
             q.world = o.world, q.core = o.core, q.result = o.result, q.edit = o.edit,
             Failing(e) => Fault(q) # "none",
             Fault(o) # "none" => Fault(q) # "none", Step(q),
             \/ out' = out
             \/ Send(p, [type |-> "ack", peer |-> p]) /\ e.type = "pause"
      PROVE  IInv'
    <2> DEFINE g == [q EXCEPT !.read = n]
               m == [type |-> "ack", peer |-> p]
    <2>1. game' = [game EXCEPT ![p] = g]
        BY <1>0, <1>4
    <2>2. g \in GameType(Len(orders))
        BY <1>1, <1>4 DEF GameType
    <2>3. /\ g.read = n /\ g.probe = o.probe /\ g.world = o.world /\ g.core = o.core
          /\ g.result = o.result /\ g.edit = o.edit
          /\ g.proposal = q.proposal /\ g.operation = q.operation
        BY <1>4 DEF GameType
    <2> HIDE DEF g
    <2>4. Lasts(p, o, g) /\ Fault(g) = Fault(q)
        BY <2>3 DEF Lasts, PointOf, Fault
    <2>5. \/ out' = out
          \/ \E x \in MessageType : Idle(p) /\ Send(p, x) /\ Sends(p, x, g, orders)
        <3>1. m \in MessageType /\ m.type = "ack" /\ m.peer = p
            BY DEF MessageType
        <3>2. e.type = "pause" => Has(orders, "pause")
            BY <1>1 DEF Has
        <3>3. e.type = "pause" => Sends(p, m, g, orders)
            BY <3>1, <3>2 DEF Sends
        <3> HIDE DEF m
        <3>4. ASSUME Send(p, m), e.type = "pause"
              PROVE  \E x \in MessageType : Idle(p) /\ Send(p, x) /\ Sends(p, x, g, orders)
            BY <1>0, <3>1, <3>3, <3>4
        <3> QED BY <1>4, <3>4 DEF m
    <2> QED BY <1>0, <1>4, <2>1, <2>2, <2>3, <2>4, <2>5, ReadOn
<1>5. CASE e.type = "pause"
    <2>1. Step(o) /\ Send(p, [type |-> "ack", peer |-> p])
        BY <1>5 DEF Apply
    <2>2. ~Failing(e)
        BY <1>5 DEF Failing
    <2> QED BY <1>0, <1>4, <1>5, <2>1, <2>2
<1>6. CASE e.type = "sync_fault"
    <2> DEFINE q == [o EXCEPT !.operation = e.code]
    <2>1. Step(q) /\ out' = out
        BY <1>6 DEF Apply
    <2>2. e.code \in Codes /\ e.code # "none"
        BY <1>1, <1>6, OrderKinds DEF Failing
    <2>3. /\ q \in GameType(Len(orders)) /\ q.read = o.read /\ q.probe = o.probe
          /\ q.world = o.world /\ q.core = o.core /\ q.result = o.result
          /\ q.edit = o.edit /\ q.operation # "none"
        BY <1>0, <2>2 DEF GameType
    <2> HIDE DEF q
    <2>4. Fault(q) # "none"
        BY <2>3 DEF Fault
    <2> QED BY <1>4, <2>1, <2>3, <2>4
<1>7. CASE e.type = "outcome"
    <2>1. CASE e.result # "faulted"
        <3>1. Step(o) /\ out' = out
            BY <1>7, <2>1 DEF Apply
        <3>2. ~Failing(e)
            BY <1>7, <2>1 DEF Failing
        <3> QED BY <1>0, <1>4, <3>1, <3>2
    <2>2. CASE e.result = "faulted"
        <3>1. e.code \in Codes /\ e.code # "none"
            BY <1>1, <1>7, <2>2, OrderKinds DEF Failing
        <3>2. CASE kind = "proposal"
            <4> DEFINE q == [o EXCEPT !.proposal = e.code]
            <4>1. Step(q) /\ out' = out
                BY <1>7, <2>2, <3>2 DEF Apply
            <4>2. /\ q \in GameType(Len(orders)) /\ q.read = o.read /\ q.probe = o.probe
                  /\ q.world = o.world /\ q.core = o.core /\ q.result = o.result
                  /\ q.edit = o.edit /\ q.proposal # "none"
                BY <1>0, <3>1 DEF GameType
            <4> HIDE DEF q
            <4>3. Fault(q) # "none"
                BY <4>2 DEF Fault
            <4> QED BY <1>4, <4>1, <4>2, <4>3
        <3>3. CASE kind # "proposal"
            <4> DEFINE q == [o EXCEPT !.operation = e.code]
            <4>1. Step(q) /\ out' = out
                BY <1>7, <2>2, <3>3 DEF Apply
            <4>2. /\ q \in GameType(Len(orders)) /\ q.read = o.read /\ q.probe = o.probe
                  /\ q.world = o.world /\ q.core = o.core /\ q.result = o.result
                  /\ q.edit = o.edit /\ q.operation # "none"
                BY <1>0, <3>1 DEF GameType
            <4> HIDE DEF q
            <4>3. Fault(q) # "none"
                BY <4>2 DEF Fault
            <4> QED BY <1>4, <4>1, <4>2, <4>3
        <3> QED BY <3>2, <3>3
    <2> QED BY <2>1, <2>2
<1> QED BY <1>1, <1>2, <1>3, <1>5, <1>6, <1>7, OrderKinds

----------------------------------------------------------------------------
(* The specification *)
\* The invariant holds at the start.
LEMMA InitInv == ASSUME Init PROVE IInv
<1>0. /\ host = Fresh /\ disk = Fresh /\ orders = <<>> /\ kind \in Kind /\ spent = 0
      /\ out = [p \in Peer |-> <<>>]
    BY DEF Init
<1>1. /\ host.up /\ host.fault = "none" /\ ~host.emitted /\ host.status = "pending"
      /\ host.outcome = 0 /\ host.done = NoHealth /\ host.boundary = 0 /\ host.probe = "none"
      /\ host.points = NoHealth /\ host.stopped = {} /\ host.health = NoHealth
    BY <1>0 DEF Fresh, NoHealth
<1>2. host \in MemoryType /\ host \in HandlerType /\ disk = host
    BY <1>0, DownTyped, HandlerMemory
<1>3. Len(orders) = 0 /\ 1..Len(orders) = {} /\ orders \in Seq(OrderType)
    BY <1>0
<1>4. \A n \in {0} : ~Faulted(orders, n)
    BY DEF Faulted
<1>5. Follows(host, orders)
    <2>1. ~Cleared(orders) /\ ~Has(orders, "checkpoint")
        BY <1>3 DEF Has, Cleared
    <2>2. Worked(host, orders)
        BY <1>1, <1>3 DEF Worked
    <2>3. Guided(host, orders)
        BY <1>1, <1>3, <2>1 DEF Guided
    <2>4. Blames(host, orders)
        BY <1>1 DEF Blames
    <2> QED BY <2>2, <2>3, <2>4 DEF Follows
<1>6. Sound(orders)
    BY <1>3 DEF Sound, Coded, Probed, Conclusive
<1>7. Journalled
    <2>1. Refused(disk, orders) /\ Alike(disk, orders) /\ Stops(disk, orders)
        BY <1>1, <1>2, <1>3 DEF Refused, Alike, Stops, Has, Cleared
    <2>2. Pointed(disk, game)
        BY <1>1, <1>2 DEF Pointed, NoHealth
    <2> QED BY <1>1, <1>2, <1>3, <1>5, <1>6, <2>1, <2>2 DEF Journalled, Good
<1>8. Minds
    <2>1. Same(host, disk, orders)
        BY <1>1, <1>2 DEF Same
    <2>2. Heard(host, orders)
        BY <1>1 DEF Heard, NoHealth
    <2> QED BY <1>1, <1>2, <1>5, <1>7, <2>1, <2>2 DEF Minds, Kept, Journalled
<1>9. \A p \in Peer : game[p] \in GameType(Len(orders)) /\ game[p].read = 0
    <2> SUFFICES ASSUME NEW p \in Peer
                 PROVE  game[p] \in GameType(Len(orders)) /\ game[p].read = 0
        OBVIOUS
    <2> DEFINE g == [read |-> 0, result |-> None, world |-> "old", core |-> "kept",
                     proposal |-> "none", operation |-> "none", residue |-> FALSE,
                     probe |-> "none", edit |-> "none", unseen |-> FALSE]
    <2>1. game[p] = g
        BY DEF Init
    <2>2. 0 \in 0..Len(orders)
        BY <1>3
    <2>3. g \in GameType(Len(orders)) /\ g.read = 0
        BY <2>2 DEF GameType, Codes, Probing
    <2> HIDE DEF g
    <2> QED BY <2>1, <2>3
<1>10. game \in [Peer -> GameType(Len(orders))]
    <2>1. game = [p \in Peer |-> game[p]]
        BY DEF Init
    <2> QED BY <1>9, <2>1
<1>11. /\ out \in [Peer -> Seq(MessageType)]
       /\ \A p \in Peer : Len(out[p]) = 0
    BY <1>0
<1>12. Types
    BY <1>0, <1>2, <1>10, <1>11, RecoveryAssumption DEF Types
<1>13. Played
    BY <1>4, <1>9, <1>11 DEF Played
<1> QED BY <1>7, <1>8, <1>12, <1>13 DEF IInv

\* It holds when nothing happens.
LEMMA StutterInv == ASSUME IInv, UNCHANGED vars PROVE IInv'
<1> USE DEF vars
<1>1. Types'
    BY DEF IInv, Types
<1>2. Minds' /\ Journalled'
    BY DEF IInv, Minds, Journalled
<1>3. Played'
    BY DEF IInv, Played
<1> QED BY <1>1, <1>2, <1>3 DEF IInv

\* Every step keeps it.
LEMMA NextInv == ASSUME IInv, [Next]_vars PROVE IInv'
<1>1. CASE HostStep
    BY <1>1, ExpireInv, SyncFaultInv, PauseInv, RequalifyInv, HostCrashInv, HostRestartInv
       DEF HostStep
<1>2. ASSUME NEW p \in Peer, ReadMessage(p) \/ GameStep(p) PROVE IInv'
    BY <1>2, ReadMessageInv, FinishInv, StrayInv, CaptureInv, BeatInv, ApplyInv
       DEF GameStep
<1>3. CASE UNCHANGED vars
    BY <1>3, StutterInv
<1> QED BY <1>1, <1>2, <1>3 DEF Next

\* The invariant holds in every state of every behaviour of the program: the host follows
\* its journal, the journal is good, the games have the faults that they have read.
THEOREM Inductive == Spec => []IInv
<1> QED BY InitInv, NextInv, PTL DEF Spec

\* What the memory of a host that does not run is.
LEMMA HostKnown ==
    ASSUME IInv
    PROVE  /\ host \in MemoryType /\ Len(orders) \in Nat /\ orders \in Seq(OrderType)
           /\ host.up => Kept(host, disk, orders, game) /\ Heard(host, orders)
           /\ ~host.up => /\ host.probe = "none" /\ host.boundary = 0 /\ host.outcome = 0
                          /\ ~host.emitted
<1>1. ~host.up => host = Down
    BY DEF IInv, Minds
<1>2. /\ Down.probe = "none" /\ Down.boundary = 0 /\ Down.outcome = 0 /\ ~Down.emitted
    BY DEF Down, Fresh
<1>3. host.up => Kept(host, disk, orders, game) /\ Heard(host, orders)
    BY DEF IInv, Minds
<1> QED BY <1>1, <1>2, <1>3 DEF IInv, Types, Journalled, Good

\* What the invariant gives.
LEMMA InvTypeOK == ASSUME IInv PROVE TypeOK
<1>1. host \in MemoryType
    BY HostKnown
<1>2. /\ host.fault \in Codes /\ host.code \in Codes /\ host.stopped \subseteq Peer
      /\ host.status \in Statuses /\ host.probe \in Probing
    BY <1>1, MemoryFields DEF MemoryType
<1>3. /\ host.outcome \in 0..Len(orders) /\ host.boundary \in 0..Len(orders)
      /\ (host.probe = "none" <=> host.boundary = 0)
      /\ (host.emitted => host.fault # "none")
    <2>1. CASE host.up
        <3>1. Follows(host, orders)
            BY <2>1, HostKnown DEF Kept
        <3>2. host.outcome \in 0..Len(orders)
            BY <3>1, HostKnown DEF Follows, Worked
        <3> QED BY <3>1, <3>2 DEF Follows, Guided, Blames
    <2>2. CASE ~host.up
        BY <2>2, HostKnown
    <2> QED BY <2>1, <2>2
<1>4. ASSUME NEW p \in Peer
      PROVE  /\ game[p].read \in 0..Len(orders) /\ Fault(game[p]) \in Codes
             /\ game[p].world \in {"old", "new", "odd"} /\ Len(out[p]) <= 2
    <2>1. game[p] \in GameType(Len(orders))
        BY GameReady
    <2> QED BY <2>1, GameFields DEF Fault, IInv, Types
<1>5. spent \in 0..Budget
    BY DEF IInv, Types
<1> QED BY <1>2, <1>3, <1>4, <1>5 DEF TypeOK, Statuses, Probing

\* The variables keep their types, and the tracker of a probe its boundary.
THEOREM TypeCorrect == Spec => []TypeOK
<1> QED BY Inductive, InvTypeOK, PTL

\* A recovery was ordered, so the points agree, and they are true of the games.
LEMMA InvWorlds == ASSUME IInv PROVE RecoveredWorldsAgree
<1> SUFFICES ASSUME host.probe = "recovered"
             PROVE  /\ \A p \in Peer : game[p].result # None /\ ~game[p].result.success
                    /\ \A p, q \in Peer : /\ game[p].world = game[q].world
                                          /\ game[p].core = game[q].core
                                          /\ p # q => game[p].edit # "before"
    BY DEF RecoveredWorldsAgree
<1>1. host.up
    BY HostKnown
<1>2. Follows(host, orders) /\ Good(disk, orders, game)
    BY <1>1, HostKnown DEF Kept
<1>3. Cleared(orders)
    BY <1>2 DEF Follows, Guided
<1>4. /\ \A p \in Peer : disk.points[p] # None /\ disk.points[p].core = "kept"
      /\ \A p, q \in Peer : disk.points[p].world = disk.points[q].world
    BY <1>2, <1>3 DEF Good, Alike
<1>5. \A p \in Peer : PointOf(p, game[p], disk.points[p])
    BY <1>2, <1>4 DEF Good, Pointed
<1>6. \A p \in Peer : /\ game[p].result # None /\ ~game[p].result.success
                      /\ game[p].world = disk.points[p].world.work /\ game[p].core = "kept"
    BY <1>4, <1>5 DEF PointOf
<1>7. ASSUME NEW p \in Peer, NEW q \in Peer, p # q PROVE game[p].edit # "before"
    <2>1. /\ disk.points[q].world.own \subseteq {q}
          /\ disk.points[p].world.own = disk.points[q].world.own
          /\ game[p].edit = "before" => disk.points[p].world.own = {p}
        BY <1>4, <1>5 DEF PointOf
    <2> QED BY <1>7, <2>1
<1> QED BY <1>4, <1>6, <1>7

\* observe_checkpoint_outcome: a session is recovered only when every engine refused the
\* work and left the worlds alike; a game may go on with a native edit of its own, but with
\* none that it made before its own checkpoint.
THEOREM RecoversAlike == Spec => []RecoveredWorldsAgree
<1> QED BY Inductive, InvWorlds, PTL

\* The journal is good, and its evidence complete.
LEMMA InvAudit == ASSUME IInv PROVE AuditAccepts
<1> DEFINE O == orders
<1>1. Good(disk, O, game) /\ O \in Seq(OrderType) /\ Len(O) \in Nat /\ DOMAIN O = 1..Len(O)
    BY HostKnown DEF IInv, Journalled
<1>2. Probed(O) /\ Conclusive(O)
    BY <1>1 DEF Good, Sound
<1>3. ASSUME NEW i \in Conclusions
      PROVE  /\ Bound(i) /\ i \in 1..Len(O) /\ O[i].type = "checkpoint"
             /\ O[i].boundary \in 1..Len(O) /\ O[O[i].boundary].type = "requalify"
             /\ O[O[i].boundary].core = "kept"
    <2>1. i \in 1..Len(O) /\ O[i].type = "checkpoint"
        BY <1>1 DEF Conclusions
    <2>2. /\ O[i].boundary \in 1..(i - 1) /\ O[O[i].boundary].type = "requalify"
          /\ O[i].clears = O[O[i].boundary].clears
        BY <1>2, <2>1 DEF Conclusive, Concludes
    <2>3. O[i].boundary \in 1..Len(O)
        BY <2>1, <2>2
    <2>4. Probes(O, O[i].boundary)
        BY <1>2, <2>2, <2>3 DEF Probed
    <2>5. O[O[i].boundary].core = "kept"
        BY <1>1, <2>2, <2>3, OrderKinds
    <2>6. Bound(i)
        BY <2>1, <2>2, <2>4 DEF Bound, Probes
    <2> QED BY <2>1, <2>2, <2>3, <2>5, <2>6
<1>4. ASSUME NEW i \in Recoveries PROVE Verified(i) /\ Requalified(i)
    <2>1. i \in Conclusions /\ Clearing(O[i]) /\ i \in 1..Len(O)
        BY <1>3 DEF Recoveries, Conclusions, Clearing
    <2>2. Cleared(O) /\ Has(O, "requalify")
        BY <1>3, <2>1 DEF Cleared, Has
    <2>3. /\ \A p \in Peer : disk.points[p] # None /\ disk.points[p].core = "kept"
          /\ \A p, q \in Peer : disk.points[p].world = disk.points[q].world
        BY <1>1, <2>2 DEF Good, Alike
    <2>4. \A p \in Peer : disk.done[p] # None /\ ~disk.done[p].success /\ disk.done[p].empty
                          /\ disk.done[p].core = "kept"
        BY <1>1, <2>2 DEF Good, Refused
    <2> QED BY <1>3, <2>1, <2>3, <2>4 DEF Verified, Requalified
<1>5. Cardinality(Recoveries) <= 1
    <2>1. \A i, j \in Recoveries : i = j
        BY <1>2, <1>3 DEF Conclusive, Recoveries
    <2>2. Recoveries = {} \/ \E i : Recoveries = {i}
        BY <2>1
    <2> QED BY <2>2, FS_EmptySet, FS_Singleton
<1>6. disk.up => (disk.probe = "recovered") = (Recoveries # {})
    <2>1. disk.up => (disk.probe = "recovered" <=> Cleared(O))
        BY <1>1 DEF Good, Follows, Guided
    <2>2. Cleared(O) <=> Recoveries # {}
        BY <1>1 DEF Cleared, Clearing, Recoveries, Conclusions
    <2> QED BY <2>1, <2>2
<1> QED BY <1>3, <1>4, <1>5, <1>6 DEF AuditAccepts

\* The offline audit accepts every probe that the host has concluded and every recovery
\* among them, and there is one recovery at most: the journal holds the whole proof.
THEOREM AuditsPass == Spec => []AuditAccepts
<1> QED BY Inductive, InvAudit, PTL

\* The memories agree in every field.
LEMMA InvRestart == ASSUME IInv PROVE RestartRestores
<1> SUFFICES ASSUME host.up, SyncFaults = {}
             PROVE  disk.up /\ [disk EXCEPT !.health = host.health] = host
    BY DEF RestartRestores
<1>1. Kept(host, disk, orders, game) /\ host \in MemoryType /\ disk \in MemoryType
    BY HostKnown DEF Kept, Good
<1>2. ~Has(orders, "sync_fault")
    BY HostKnown DEF Has, SyncFaults
<1>3. /\ disk.up /\ disk.fault = host.fault /\ disk.probe = host.probe
      /\ disk.status = host.status /\ disk.emitted = host.emitted
      /\ disk.done = host.done /\ disk.points = host.points /\ disk.code = host.code
      /\ disk.outcome = host.outcome /\ disk.boundary = host.boundary
      /\ disk.core = host.core /\ disk.stopping = host.stopping
      /\ disk.stopped = host.stopped
    BY <1>1, <1>2 DEF Kept, Same
<1>4. host.wrote = <<>> /\ disk.wrote = <<>> /\ host.up = TRUE /\ disk.up = TRUE
      /\ host.health \in [Peer -> HealthType \union {None}]
    BY <1>1, <1>3, MemoryFields DEF MemoryType
<1> DEFINE x == [disk EXCEPT !.health = host.health]
<1>5. /\ x \in MemoryType /\ x.health = host.health /\ x.wrote = disk.wrote /\ x.up = disk.up
      /\ x.fault = disk.fault /\ x.probe = disk.probe /\ x.status = disk.status
      /\ x.emitted = disk.emitted /\ x.done = disk.done /\ x.points = disk.points
      /\ x.code = disk.code /\ x.outcome = disk.outcome /\ x.boundary = disk.boundary
      /\ x.core = disk.core /\ x.stopping = disk.stopping /\ x.stopped = disk.stopped
    BY <1>1, <1>4 DEF MemoryType, Memory
<1> HIDE DEF x
<1>6. /\ x.up = host.up /\ x.wrote = host.wrote /\ x.fault = host.fault
      /\ x.emitted = host.emitted /\ x.status = host.status /\ x.code = host.code
      /\ x.outcome = host.outcome /\ x.done = host.done /\ x.boundary = host.boundary
      /\ x.probe = host.probe /\ x.core = host.core /\ x.points = host.points
      /\ x.stopping = host.stopping /\ x.stopped = host.stopped /\ x.health = host.health
    BY <1>3, <1>4, <1>5
<1>7. x = host
    BY <1>1, <1>5, <1>6, MemoryEqual DEF MemoryType
<1> QED BY <1>3, <1>7 DEF x

\* _load_audit: a host started again from its journal has the same tracker, probe and
\* fault as the one that crashed, when no synchronization fault was ordered.
THEOREM RestartsRestored == Spec => []RestartRestores
<1> QED BY Inductive, InvRestart, PTL

\* A fault of the host is one of its journal, which every game has read; a fault of a
\* game has been heard, and would have been promoted.
LEMMA InvShared == ASSUME IInv PROVE FaultIsShared
<1> SUFFICES ASSUME Settled, NEW p \in Peer
             PROVE  (host.fault = "none") = (Fault(game[p]) = "none")
    BY DEF FaultIsShared
<1>1. /\ host.up /\ game[p].read = Len(orders)
      /\ Fault(game[p]) # "none" => host.health[p] = Health(game[p])
    BY DEF Settled
<1>2. Follows(host, orders) /\ Heard(host, orders)
    BY <1>1, HostKnown DEF Kept
<1>3. host.fault # "none" => Fault(game[p]) # "none"
    BY <1>1, <1>2, GameReady DEF Follows, Blames
<1>4. Fault(game[p]) # "none" => host.fault # "none"
    <2>1. /\ Health(game[p]).read = Len(orders) /\ Health(game[p]).fault = Fault(game[p])
          /\ Len(orders) \in Nat
        BY <1>1, HostKnown DEF Health
    <2>2. Health(game[p]) # None
        BY DEF Health, None
    <2> QED BY <1>1, <1>2, <2>1, <2>2 DEF Heard
<1> QED BY <1>3, <1>4

\* When nothing is under way the host and every game agree on whether the session is
\* faulted: no game is left behind by a recovery, none goes on in a faulted session.
THEOREM SharesFault == Spec => []FaultIsShared
<1> QED BY Inductive, InvShared, PTL
=============================================================================
