------------------------ MODULE SessionStart_proofs ------------------------
(***************************************************************************)
(* Machine-checked proofs about SessionStart, for any contents of the two  *)
(* games, any scenes to start from, any number of crashes, losses of the   *)
(* connection and plays: its type invariant, that nothing is played before *)
(* the first checkpoint on which both games agreed (PlayAfterAgreement),   *)
(* and that both games start from one world and with one content           *)
(* (StartedTogether).                                                      *)
(*                                                                         *)
(* The argument.  Knows says what a memory of the host may hold of the     *)
(* first n entries of the journal: whose content was attested first, which *)
(* peer reported which world for a checkpoint that is open, whether one    *)
(* was agreed.  One entry more keeps it, and the entry is the same whether *)
(* it is handled live or read again, so the memory that a restart rebuilds *)
(* knows the journal as the lost one did (ReplayKnows): Replay folds       *)
(* Observe over the journal, and the least entry at which the fold would   *)
(* fail to know the journal cannot exist.  Shows says what an entry is     *)
(* evidence of when it is appended, Sends what a message of a game is;     *)
(* games only gain checkpoint barriers, so neither is ever lost.           *)
(***************************************************************************)
EXTENDS SessionStart, WellFoundedInduction, TLAPS

\* What the contents of a scene can be published as, and the types of entries and memories.
Registries(s) == {Registry(S) : S \in SUBSET UNION {s.content[p] : p \in Peers}}
Value(s) == {None} \union Worlds \union Intents \union Registries(s)

EntryType(s) ==
    [type : Intents \union {"rejected", "record", "outcome"}, from : Peers,
     val : Value(s), at : Nat, ok : BOOLEAN]
MessageType(s) == [type : Intents \union {"checkpoint"}, val : Value(s), at : Nat]

\* A checkpoint that the host awaits.
Point == [got : [Peers -> Worlds \union {None}], status : {"pending", "complete", "faulted"}]
Boundaries(n) == UNION {[D -> Point] : D \in SUBSET (1..n)}
Starts == {"disabled", "awaiting-start", "awaiting-resume", "awaiting-checkpoint",
           "complete", "faulted"}
MemoryType(s, n) ==
    [att : [Peers -> Value(s)], ready : BOOLEAN, fault : BOOLEAN, start : Starts,
     at : 0..n, open : Boundaries(n), agreed : BOOLEAN]

\* A game.
Barriers(n) == UNION {[D -> {"pending", "complete", "faulted"}] : D \in SUBSET (1..n)}
GameType(s, n) ==
    [cursor : 0..n, att : [Peers -> Value(s)], ready : BOOLEAN, blamed : BOOLEAN,
     fault : BOOLEAN, init : BOOLEAN,
     start : {"validated", "failed", "none", "committed", "awaiting-checkpoint", "complete"},
     at : 0..n, barrier : Barriers(n), latch : Intents \union {None}, tried : BOOLEAN]

\* Entry k is the first attestation of p.
Attests(L, p, k) == L[k].type = "attest" /\ L[k].from = p
First(L, p, k) == Attests(L, p, k) /\ \A j \in 1..(k - 1) : ~Attests(L, p, j)

\* The first n entries say that both games have the content v, which is not ambiguous.
Alike(L, n, v) ==
    /\ ~Ambiguous(v)
    /\ \A p \in Peers : \E k \in 1..n : First(L, p, k) /\ L[k].val = v

Agreement(L, k) == L[k].type = "outcome" /\ L[k].ok

\* What an entry is by itself.
Fit(s, L, n) ==
    /\ L[n].type \in {"record", "outcome"} => L[n].at \in 1..(n - 1)
    /\ L[n].type = "record" => L[n].val \in Worlds
    /\ L[n].type = "attest" => L[n].val # None

\* What the memory m knows of the first n entries: of the checkpoints agreed and
\* awaited, of the content attested, and of the start it waits for.
Agreed(m, L, n) == m.agreed <=> \E k \in 1..n : Agreement(L, k)
Awaits(m, L) == ~m.agreed => \A j \in DOMAIN m.open : L[j].type \in StartTypes
Reports(L, p, j, v, k) ==
    /\ L[k].type = "record" /\ L[k].from = p
    /\ L[k].at = j /\ L[k].val = v
Reported(m, L, n) ==
    \A j \in DOMAIN m.open : \A p \in Peers : m.open[j].got[p] # None =>
        \E k \in 1..n : Reports(L, p, j, m.open[j].got[p], k)
Attested(m, L, n) ==
    \A p \in Peers :
        /\ m.att[p] = None => \A k \in 1..n : ~Attests(L, p, k)
        /\ m.att[p] # None => \E k \in 1..n : First(L, p, k) /\ L[k].val = m.att[p]
Settled(m) ==
    m.ready => /\ \A p \in Peers : m.att[p] # None
               /\ m.att[Host] = m.att[Client] /\ ~Ambiguous(m.att[Host])
Begun(m, L) == m.at # 0 => L[m.at].type \in StartTypes
Reached(L, n) == \E k \in 1..n : Agreement(L, k) /\ L[L[k].at].type \in StartTypes
Released(s, m, L, n) == s.kind # "open" /\ m.start = "complete" => Reached(L, n)

Knows(s, m, L, n) ==
    /\ m \in MemoryType(s, n)
    /\ Agreed(m, L, n) /\ Awaits(m, L) /\ Reported(m, L, n)
    /\ Attested(m, L, n) /\ Settled(m)
    /\ Begun(m, L) /\ Released(s, m, L, n)

\* The one intent a session of this kind starts with.
StartOf(s) ==
    CASE s.kind = "plan" -> "resume" [] s.kind = "continue" -> "continue" [] OTHER -> "initialise"
Planful(s) == s.kind = "plan" => s.world[Host] = Planned

\* Both games await the checkpoint of a start among the first n entries.
Together(s, L, n, g) ==
    /\ s.world[Host] = s.world[Client]
    /\ \E k \in 1..n : /\ L[k].type \in StartTypes
                       /\ \A p \in Peers : k \in DOMAIN g[p].barrier

\* What an entry of the journal shows.
Shows(s, L, n, g) ==
    /\ Fit(s, L, n)
    /\ L[n].type = "record" =>
          L[n].val = s.world[L[n].from] /\ L[n].at \in DOMAIN g[L[n].from].barrier
    /\ L[n].type \in StartTypes => L[n].type = StartOf(s) /\ Planful(s)
    /\ L[n].type = "initialise" => \E v : Alike(L, n - 1, v)
    /\ Agreement(L, n) => Together(s, L, n - 1, g)
    /\ s.kind # "open" /\ L[n].type = "work" =>
          Reached(L, n - 1)

\* A message of the game of p.
Sends(s, p, i, g) ==
    /\ i.type = "checkpoint" => i.val = s.world[p] /\ i.at \in DOMAIN g[p].barrier
    /\ i.type \in StartTypes => p = Host /\ i.type = StartOf(s) /\ Planful(s)
    /\ i.type = "attest" => i.val # None

\* The types of the variables.
Types ==
    /\ scene \in Scenes /\ IsScene(scene)
    /\ files \in [Peers -> SUBSET UNION {scene.content[p] : p \in Peers}]
    /\ \A p \in Peers : files[p] \subseteq scene.content[p]
    /\ registry \in [Peers -> {None} \union Registries(scene)]
    /\ log \in Seq(EntryType(scene))
    /\ up \in BOOLEAN
    /\ mem \in MemoryType(scene, Len(log))
    /\ out \in [Peers -> Seq(MessageType(scene))]
    /\ game \in [Peers -> GameType(scene, Len(log))]

\* A game shows a start as validated only over the world it is to start from.
Valid(s, p) == s.kind = "continue" \/ (s.kind = "plan" /\ s.world[p] = Planned)

\* The inductive invariant.
Minds == IF up THEN Knows(scene, mem, log, Len(log)) ELSE mem = Fresh
Shown == \A n \in 1..Len(log) : Shows(scene, log, n, game)
Sent == \A p \in Peers : \A i \in 1..Len(out[p]) : Sends(scene, p, out[p][i], game)
Honest == \A p \in Peers : game[p].start = "validated" => Valid(scene, p)

IInv == Types /\ Minds /\ Shown /\ Sent /\ Honest
----------------------------------------------------------------------------
\* The functions over a changing set of boundaries, as one statement about their values.
LEMMA BoundariesMean ==
    ASSUME NEW n, NEW f
    PROVE  f \in Boundaries(n) <=>
             /\ f = [k \in DOMAIN f |-> f[k]] /\ DOMAIN f \subseteq 1..n
             /\ \A k \in DOMAIN f : f[k] \in Point
<1>1. f \in Boundaries(n) <=> \E D \in SUBSET (1..n) : f \in [D -> Point]
    BY DEF Boundaries
<1> QED BY <1>1

\* The same for the barriers of a game.
LEMMA BarriersMean ==
    ASSUME NEW n, NEW f
    PROVE  f \in Barriers(n) <=>
             /\ f = [k \in DOMAIN f |-> f[k]] /\ DOMAIN f \subseteq 1..n
             /\ \A k \in DOMAIN f : f[k] \in {"pending", "complete", "faulted"}
<1>1. f \in Barriers(n) <=>
        \E D \in SUBSET (1..n) : f \in [D -> {"pending", "complete", "faulted"}]
    BY DEF Barriers
<1> QED BY <1>1

\* One checkpoint is set.
LEMMA BoundariesWith ==
    ASSUME NEW n, NEW f \in Boundaries(n), NEW k \in 1..n, NEW x \in Point
    PROVE  With(f, k, x) \in Boundaries(n)
BY BoundariesMean DEF With

\* A longer journal has room for the same checkpoints, and the same memory.
LEMMA BoundariesMore ==
    ASSUME NEW n \in Nat, NEW k \in Nat, k <= n, NEW f \in Boundaries(k)
    PROVE  f \in Boundaries(n)
BY BoundariesMean

\* A memory stays one when the journal grows.
LEMMA MemoryMore ==
    ASSUME NEW s, NEW n \in Nat, NEW k \in Nat, k <= n, NEW m \in MemoryType(s, k)
    PROVE  m \in MemoryType(s, n)
BY BoundariesMore DEF MemoryType

\* The fields of an entry.
LEMMA EntryFields ==
    ASSUME NEW s, NEW L \in Seq(EntryType(s)), NEW n \in 1..Len(L)
    PROVE  /\ L[n] \in EntryType(s)
           /\ L[n].type \in Intents \union {"rejected", "record", "outcome"}
           /\ L[n].from \in Peers /\ L[n].val \in Value(s) /\ L[n].at \in Nat
           /\ L[n].ok \in BOOLEAN
<1>1. L[n] \in EntryType(s)
    OBVIOUS
<1> QED BY <1>1 DEF EntryType

\* An entry that is none of those the host answers.
LEMMA KnowsNext ==
    ASSUME NEW s, NEW L, NEW n \in Nat, n > 0, NEW m, Knows(s, m, L, n - 1)
    PROVE  /\ m \in MemoryType(s, n)
           /\ ~Agreement(L, n) => Agreed(m, L, n)
           /\ Reported(m, L, n)
           /\ L[n].type # "attest" => Attested(m, L, n)
           /\ Released(s, m, L, n)
<1>1. m \in MemoryType(s, n)
    BY MemoryMore DEF Knows
<1>2. 1..(n - 1) \subseteq 1..n /\ 1..n = (1..(n - 1)) \union {n}
    OBVIOUS
<1>3. ~Agreement(L, n) => Agreed(m, L, n)
    BY <1>2 DEF Knows, Agreed
<1>4. Reported(m, L, n)
    BY <1>2 DEF Knows, Reported
<1>5. L[n].type # "attest" => Attested(m, L, n)
    BY <1>2 DEF Knows, Attested, Attests
<1>6. Released(s, m, L, n)
    BY <1>2 DEF Knows, Released, Reached
<1> QED BY <1>1, <1>3, <1>4, <1>5, <1>6

\* A checkpoint is opened (ConsensusTrackers.track_checkpoint).
LEMMA TrackKnows ==
    ASSUME NEW s, NEW L, NEW n \in Nat, n > 0, NEW m, Knows(s, m, L, n),
           m.agreed \/ L[n].type \in StartTypes
    PROVE  Knows(s, Track(m, n), L, n)
<1> DEFINE new == [got |-> [p \in Peers |-> None], status |-> "pending"]
<1>1. CASE n \in DOMAIN m.open
    BY <1>1 DEF Track
<1>2. CASE n \notin DOMAIN m.open
    <2> DEFINE o == With(m.open, n, new)
               t == [m EXCEPT !.open = o]
    <2>1. Track(m, n) = t
        BY <1>2 DEF Track
    <2>2. m \in MemoryType(s, n) /\ new \in Point
        BY DEF Knows, Point
    <2>3. o \in Boundaries(n)
        BY <2>2, BoundariesWith DEF MemoryType
    <2>4. DOMAIN o = DOMAIN m.open \union {n} /\ o[n] = new
          /\ \A k \in DOMAIN m.open : k # n => o[k] = m.open[k]
        BY DEF With
    <2> HIDE DEF o, new
    <2>5. /\ t.open = o /\ t.att = m.att /\ t.ready = m.ready /\ t.start = m.start
          /\ t.at = m.at /\ t.agreed = m.agreed /\ t \in MemoryType(s, n)
        BY <2>2, <2>3 DEF MemoryType
    <2> HIDE DEF t
    <2>6. Awaits(t, L)
        BY <2>4, <2>5 DEF Knows, Awaits
    <2>7. Reported(t, L, n)
        <3>1. \A p \in Peers : new.got[p] = None
            BY DEF new
        <3> QED BY <2>4, <2>5, <1>2, <3>1 DEF Knows, Reported
    <2>8. Agreed(t, L, n) /\ Attested(t, L, n) /\ Settled(t) /\ Begun(t, L)
          /\ Released(s, t, L, n)
        BY <2>5 DEF Knows, Agreed, Attested, Settled, Begun, Released
    <2> QED BY <2>1, <2>5, <2>6, <2>7, <2>8 DEF Knows
<1> QED BY <1>1, <1>2

\* An attestation of content (IndustryContentConsensus.observe).
LEMMA AttestKnows ==
    ASSUME NEW s, NEW L \in Seq(EntryType(s)), NEW n \in 1..Len(L), NEW m,
           Knows(s, m, L, n - 1), Fit(s, L, n), L[n].type = "attest"
    PROVE  Knows(s, ObserveAttest(m, L[n], n), L, n)
<1> DEFINE e == L[n]
           conflict == m.att[e.from] \notin {None, e.val}
           att == IF conflict THEN m.att ELSE [m.att EXCEPT ![e.from] = e.val]
           all == \A p \in Peers : att[p] # None
           wrong == conflict \/ Ambiguous(e.val) \/ (all /\ att[Host] # att[Client])
           ready == ~wrong /\ (m.ready \/ all)
           noted == [m EXCEPT !.att = att, !.ready = ready, !.fault = @ \/ wrong]
<1>0. n \in Nat /\ n > 0 /\ Host \in Peers /\ Client \in Peers
    BY DEF Peers
<1>1. e \in EntryType(s) /\ e.from \in Peers /\ e.val \in Value(s) /\ e.val # None
    BY EntryFields DEF Fit
<1>2. /\ m \in MemoryType(s, n) /\ Agreed(m, L, n) /\ Awaits(m, L) /\ Reported(m, L, n)
      /\ Begun(m, L) /\ Released(s, m, L, n) /\ Settled(m) /\ Attested(m, L, n - 1)
    BY <1>0, KnowsNext DEF Knows, Agreement
<1>3. att \in [Peers -> Value(s)] /\ ready \in BOOLEAN /\ wrong \in BOOLEAN
    BY <1>1, <1>2 DEF MemoryType
<1>4. Attested([m EXCEPT !.att = att], L, n)
    <2> DEFINE t == [m EXCEPT !.att = att]
    <2>1. t.att = att
        BY <1>2 DEF MemoryType
    <2>2. ASSUME NEW p \in Peers
          PROVE  /\ att[p] = None => \A k \in 1..n : ~Attests(L, p, k)
                 /\ att[p] # None => \E k \in 1..n : First(L, p, k) /\ L[k].val = att[p]
        <3>1. m.att \in [Peers -> Value(s)]
            BY <1>2 DEF MemoryType
        <3>2. CASE p # e.from
            <4>1. att[p] = m.att[p] /\ ~Attests(L, p, n)
                BY <1>1, <3>1, <3>2 DEF Attests
            <4>2. 1..n = (1..(n - 1)) \union {n}
                BY <1>0
            <4> HIDE DEF att
            <4> QED BY <4>1, <4>2, <1>2 DEF Attested
        <3>3. CASE p = e.from /\ m.att[p] = None
            <4>1. att[p] = e.val
                BY <1>1, <3>1, <3>3
            <4>2. First(L, p, n)
                BY <1>0, <1>2, <3>3 DEF First, Attests, Attested
            <4> HIDE DEF att
            <4> QED BY <4>1, <4>2, <1>0, <1>1
        <3>4. CASE p = e.from /\ m.att[p] # None
            <4>1. att[p] = m.att[p]
                BY <1>1, <3>1, <3>4
            <4>2. 1..(n - 1) \subseteq 1..n
                BY <1>0
            <4> HIDE DEF att
            <4> QED BY <4>1, <4>2, <1>2, <3>4 DEF Attested
        <3> QED BY <3>2, <3>3, <3>4
    <2> HIDE DEF t, att
    <2> QED BY <2>1, <2>2 DEF Attested, t
<1>5. ready => all /\ att[Host] = att[Client] /\ ~Ambiguous(att[Host])
    <2> SUFFICES ASSUME ready PROVE all /\ att[Host] = att[Client] /\ ~Ambiguous(att[Host])
        OBVIOUS
    <2>1. ~wrong
        OBVIOUS
    <2>2. m.att \in [Peers -> Value(s)] /\ att = [m.att EXCEPT ![e.from] = e.val]
        BY <1>2, <2>1 DEF MemoryType
    <2>3. att[e.from] = e.val
        BY <1>1, <2>2
    <2>4. all
        <3>1. CASE m.ready
            BY <3>1, <1>1, <1>2, <2>2 DEF Settled
        <3> QED BY <3>1
    <2>5. att[Host] = att[Client]
        BY <2>1, <2>4
    <2>6. e.from = Host \/ e.from = Client
        BY <1>1 DEF Peers
    <2> HIDE DEF att, all, ready
    <2> QED BY <2>1, <2>3, <2>4, <2>5, <2>6
<1>6. Knows(s, noted, L, n)
    <2> HIDE DEF att, ready, wrong
    <2>1. /\ noted.att = att /\ noted.ready = ready /\ noted.open = m.open
          /\ noted.start = m.start /\ noted.at = m.at /\ noted.agreed = m.agreed
          /\ noted \in MemoryType(s, n)
        <3>1. (m.fault \/ wrong) \in BOOLEAN
            OBVIOUS
        <3> QED BY <1>2, <1>3, <3>1 DEF MemoryType
    <2>2. [m EXCEPT !.att = att].att = att
        BY <1>2 DEF MemoryType
    <2> HIDE DEF noted
    <2>3. Attested(noted, L, n)
        BY <1>4, <2>1, <2>2 DEF Attested
    <2>4. Settled(noted)
        BY <1>5, <2>1 DEF Settled
    <2>5. Agreed(noted, L, n) /\ Awaits(noted, L) /\ Reported(noted, L, n) /\ Begun(noted, L)
          /\ Released(s, noted, L, n)
        BY <1>2, <2>1 DEF Agreed, Awaits, Reported, Begun, Released
    <2> QED BY <2>1, <2>3, <2>4, <2>5 DEF Knows
<1>7. noted.agreed = m.agreed
    BY <1>2 DEF MemoryType
<1>8. ObserveAttest(m, L[n], n) = IF ready /\ m.agreed THEN Track(noted, n) ELSE noted
    BY DEF ObserveAttest
<1> HIDE DEF noted, ready
<1>9. CASE ready /\ m.agreed
    BY <1>0, <1>6, <1>7, <1>8, <1>9, TrackKnows
<1>10. CASE ~(ready /\ m.agreed)
    BY <1>6, <1>8, <1>10
<1> QED BY <1>9, <1>10

\* A start intent.
LEMMA StartKnows ==
    ASSUME NEW s, s = scene, NEW L \in Seq(EntryType(s)), NEW n \in 1..Len(L), NEW m,
           Knows(s, m, L, n - 1), L[n].type \in StartTypes
    PROVE  Knows(s, ObserveStart(m, n), L, n)
<1>0. n \in Nat /\ n > 0
    OBVIOUS
<1>1. ~Agreement(L, n) /\ L[n].type # "attest"
    BY DEF Agreement, StartTypes
<1>2. Knows(s, m, L, n)
    BY <1>0, <1>1, KnowsNext DEF Knows
<1> DEFINE t == [m EXCEPT !.at = n, !.start = "awaiting-checkpoint"]
<1>3. Knows(s, t, L, n)
    <2>0. m \in MemoryType(s, n) /\ "awaiting-checkpoint" \in Starts /\ n \in 0..n
        BY <1>0, <1>2 DEF Knows, Starts
    <2>1. /\ t.att = m.att /\ t.ready = m.ready /\ t.open = m.open
          /\ t.start = "awaiting-checkpoint" /\ t.at = n /\ t.agreed = m.agreed
          /\ t \in MemoryType(s, n)
        BY <2>0 DEF MemoryType
    <2> HIDE DEF t
    <2> QED BY <2>1, <1>2 DEF Knows, Agreed, Awaits, Reported, Attested, Settled, Begun, Released
<1>4. ObserveStart(m, n) = Track(IF Fenced THEN t ELSE m, n)
    BY DEF ObserveStart
<1> HIDE DEF t
<1> QED BY <1>0, <1>2, <1>3, <1>4, TrackKnows

\* A checkpoint record of a peer.
LEMMA RecordKnows ==
    ASSUME NEW s, NEW L \in Seq(EntryType(s)), NEW n \in 1..Len(L), NEW m,
           Knows(s, m, L, n - 1), Fit(s, L, n), L[n].type = "record"
    PROVE  Knows(s, ObserveRecord(m, L[n]), L, n)
<1>0. n \in Nat /\ n > 0
    OBVIOUS
<1>1. ~Agreement(L, n) /\ L[n].type # "attest"
    BY DEF Agreement
<1>2. Knows(s, m, L, n)
    BY <1>0, <1>1, KnowsNext DEF Knows
<1> DEFINE e == L[n]
           o == [m.open EXCEPT ![e.at].got[e.from] = e.val]
           t == [m EXCEPT !.open = o]
<1>3. e.from \in Peers /\ e.val \in Worlds
    BY EntryFields DEF Fit
<1>4. CASE e.at \notin DOMAIN m.open
    BY <1>2, <1>4 DEF ObserveRecord
<1>5. CASE e.at \in DOMAIN m.open
    <2>1. ObserveRecord(m, e) = t
        BY <1>5 DEF ObserveRecord
    <2>2. m \in MemoryType(s, n) /\ m.open \in Boundaries(n)
        BY <1>2 DEF Knows, MemoryType
    <2>3. \A j \in DOMAIN m.open : m.open[j] \in Point
        BY <2>2, BoundariesMean
    <2>4. /\ DOMAIN o = DOMAIN m.open
          /\ o[e.at] = [m.open[e.at] EXCEPT !.got[e.from] = e.val]
          /\ \A j \in DOMAIN m.open : j # e.at => o[j] = m.open[j]
        BY <1>5
    <2>5. o[e.at] \in Point /\ o[e.at].got[e.from] = e.val
          /\ \A p \in Peers : p # e.from => o[e.at].got[p] = m.open[e.at].got[p]
        BY <1>3, <1>5, <2>3, <2>4 DEF Point
    <2>6. o \in Boundaries(n)
        <3>1. o = [j \in DOMAIN o |-> o[j]]
            OBVIOUS
        <3> HIDE DEF o
        <3> QED BY <3>1, <2>2, <2>3, <2>4, <2>5, BoundariesMean
    <2> HIDE DEF o
    <2>7. /\ t.open = o /\ t.att = m.att /\ t.ready = m.ready /\ t.start = m.start
          /\ t.at = m.at /\ t.agreed = m.agreed /\ t \in MemoryType(s, n)
        BY <2>2, <2>6 DEF MemoryType
    <2> HIDE DEF t
    <2>8. Reported(t, L, n)
        <3>1. ASSUME NEW j \in DOMAIN o, NEW p \in Peers, o[j].got[p] # None
              PROVE  \E k \in 1..n : Reports(L, p, j, o[j].got[p], k)
            <4>1. CASE j = e.at /\ p = e.from
                BY <4>1, <2>5, <1>0 DEF Reports
            <4>2. CASE ~(j = e.at /\ p = e.from)
                <5>1. o[j].got[p] = m.open[j].got[p] /\ j \in DOMAIN m.open
                    BY <4>2, <2>4, <2>5
                <5> QED BY <5>1, <3>1, <1>2 DEF Knows, Reported
            <4> QED BY <4>1, <4>2
        <3> QED BY <3>1, <2>7 DEF Reported
    <2> QED BY <2>1, <2>4, <2>7, <2>8, <1>2
            DEF Knows, Agreed, Awaits, Attested, Settled, Begun, Released
<1> QED BY <1>4, <1>5

\* The verdict on a checkpoint.
LEMMA OutcomeKnows ==
    ASSUME NEW s, NEW L \in Seq(EntryType(s)), NEW n \in 1..Len(L), NEW m,
           Knows(s, m, L, n - 1), Fit(s, L, n), L[n].type = "outcome"
    PROVE  Knows(s, ObserveOutcome(m, L[n]), L, n)
<1>0. n \in Nat /\ n > 0
    OBVIOUS
<1>1. L[n].type # "attest"
    OBVIOUS
<1>2. /\ m \in MemoryType(s, n) /\ Agreed(m, L, n - 1) /\ Awaits(m, L) /\ Reported(m, L, n)
      /\ Begun(m, L) /\ Released(s, m, L, n) /\ Settled(m) /\ Attested(m, L, n)
    BY <1>0, <1>1, KnowsNext DEF Knows
<1> DEFINE e == L[n]
           status == IF e.ok THEN "complete" ELSE "faulted"
           start == IF e.at # m.at THEN m.start ELSE IF e.ok THEN "complete" ELSE "faulted"
           o == [m.open EXCEPT ![e.at].status = status]
           t == ObserveOutcome(m, e)
<1>3. e.ok \in BOOLEAN /\ e.at # 0
    BY EntryFields DEF Fit
<1>4. m.open \in Boundaries(n)
    BY <1>2 DEF MemoryType
<1>5. /\ DOMAIN o = DOMAIN m.open
      /\ \A j \in DOMAIN m.open : o[j].got = m.open[j].got /\ o[j] \in Point
    <2>1. \A j \in DOMAIN m.open : m.open[j] \in Point
        BY <1>4, BoundariesMean
    <2>2. status \in {"complete", "faulted"}
        OBVIOUS
    <2> HIDE DEF status
    <2> QED BY <2>1, <2>2 DEF Point
<1>6. o \in Boundaries(n)
    <2>1. o = [j \in DOMAIN o |-> o[j]]
        OBVIOUS
    <2> HIDE DEF o
    <2> QED BY <2>1, <1>4, <1>5, BoundariesMean
<1>7. t = [m EXCEPT !.open = o, !.agreed = @ \/ e.ok, !.fault = @ \/ ~e.ok, !.start = start]
    BY <1>2 DEF ObserveOutcome, MemoryType
<1>8. start \in Starts
    BY <1>2 DEF MemoryType, Starts
<1> HIDE DEF t, o
<1>9. /\ t.open = o /\ t.att = m.att /\ t.ready = m.ready /\ t.start = start
      /\ t.at = m.at /\ t.agreed = (m.agreed \/ e.ok) /\ t \in MemoryType(s, n)
    BY <1>2, <1>3, <1>6, <1>7, <1>8 DEF MemoryType
<1>10. Agreed(t, L, n)
    <2>1. 1..n = (1..(n - 1)) \union {n}
        BY <1>0
    <2> QED BY <2>1, <1>2, <1>9 DEF Agreed, Agreement
<1>11. Awaits(t, L)
    BY <1>2, <1>3, <1>5, <1>9 DEF Awaits
<1>12. Reported(t, L, n)
    BY <1>2, <1>5, <1>9 DEF Reported
<1>13. Released(s, t, L, n)
    <2>1. CASE e.at = m.at /\ e.ok
        <3>1. Agreement(L, n) /\ L[L[n].at].type \in StartTypes
            BY <2>1, <1>2, <1>3 DEF Agreement, Begun
        <3> QED BY <3>1, <1>0 DEF Released, Reached
    <2>2. CASE ~(e.at = m.at /\ e.ok)
        BY <2>2, <1>2, <1>9 DEF Released
    <2> QED BY <2>1, <2>2
<1>14. Attested(t, L, n) /\ Settled(t) /\ Begun(t, L)
    BY <1>2, <1>9 DEF Attested, Settled, Begun
<1> QED BY <1>9, <1>10, <1>11, <1>12, <1>13, <1>14 DEF Knows, t

\* Every entry, live or read again.
LEMMA ObserveKnows ==
    ASSUME NEW s, s = scene, NEW L \in Seq(EntryType(s)), NEW n \in 1..Len(L), NEW m,
           Knows(s, m, L, n - 1), Fit(s, L, n)
    PROVE  Knows(s, Observe(m, L[n], n), L, n)
<1>1. CASE L[n].type = "attest"
    BY <1>1, AttestKnows DEF Observe, StartTypes
<1>2. CASE L[n].type \in StartTypes
    BY <1>2, StartKnows DEF Observe, StartTypes
<1>3. CASE L[n].type = "outcome"
    BY <1>3, OutcomeKnows DEF Observe, StartTypes
<1>4. CASE L[n].type = "record"
    BY <1>4, RecordKnows DEF Observe, StartTypes
<1>5. CASE L[n].type \notin StartTypes \union {"attest", "outcome", "record"}
    <2>1. Observe(m, L[n], n) = m
        BY <1>5 DEF Observe, StartTypes
    <2>2. n \in Nat /\ n > 0 /\ ~Agreement(L, n) /\ L[n].type # "attest"
        BY <1>5 DEF Agreement
    <2> QED BY <2>1, <2>2, KnowsNext DEF Knows
<1> QED BY <1>1, <1>2, <1>3, <1>4, <1>5
----------------------------------------------------------------------------
\* A new host knows an empty journal.
LEMMA FreshKnows ==
    ASSUME NEW s, s = scene, NEW L
    PROVE  Knows(s, Fresh, L, 0)
<1> DEFINE start == CASE scene.kind = "open" -> "disabled"
                      [] scene.kind = "plan" -> "awaiting-resume"
                      [] OTHER -> "awaiting-start"
           nobody == [p \in Peers |-> None]
           m == [att |-> nobody, ready |-> FALSE, fault |-> FALSE, start |-> start,
                 at |-> 0, open |-> << >>, agreed |-> FALSE]
<1>1. Fresh = m
    BY DEF Fresh
<1>2. start \in Starts \ {"complete"}
    BY DEF Starts
<1>3. << >> \in Boundaries(0)
    <2>1. DOMAIN << >> = {} /\ << >> = [k \in DOMAIN << >> |-> << >>[k]]
        OBVIOUS
    <2> QED BY <2>1, BoundariesMean
<1>4. nobody \in [Peers -> Value(s)] /\ \A p \in Peers : nobody[p] = None
    BY DEF Value
<1>5. DOMAIN << >> = {} /\ 1..0 = {}
    OBVIOUS
<1> HIDE DEF start, nobody
<1>6. /\ m.att = nobody /\ m.ready = FALSE /\ m.start = start /\ m.at = 0
      /\ m.open = << >> /\ m.agreed = FALSE /\ m \in MemoryType(s, 0)
    BY <1>2, <1>3, <1>4 DEF MemoryType
<1> HIDE DEF m
<1>7. Agreed(m, L, 0) /\ Awaits(m, L) /\ Reported(m, L, 0)
    BY <1>5, <1>6 DEF Agreed, Awaits, Reported
<1>8. Attested(m, L, 0) /\ Settled(m) /\ Begun(m, L) /\ Released(s, m, L, 0)
    BY <1>2, <1>4, <1>5, <1>6 DEF Attested, Settled, Begun, Released
<1> QED BY <1>1, <1>6, <1>7, <1>8 DEF Knows

\* A set of numbers that is not empty has a least one.
LEMMA Least ==
    ASSUME NEW T, T \subseteq Nat, T # {}
    PROVE  \E x \in T : \A y \in T : x <= y
<1>1. \E x \in T : \A y \in T : ~(<<y, x>> \in OpToRel(<, Nat))
    BY NatLessThanWellFounded, WFMin
<1>2. PICK x \in T : \A y \in T : ~(<<y, x>> \in OpToRel(<, Nat))
    BY <1>1
<1>3. ASSUME NEW y \in T PROVE x <= y
    <2>1. <<y, x>> \notin {ss \in Nat \X Nat : ss[1] < ss[2]}
        BY <1>2 DEF OpToRel
    <2> QED BY <2>1
<1> QED BY <1>3

\* f gives the memory after each of the first n entries.
Unfolds(f, L, n) ==
    f = [i \in 0..n |-> IF i = 0 THEN Fresh ELSE Observe(f[i - 1], L[i], i)]

\* There is such a function.
LEMMA UnfoldsExists ==
    ASSUME NEW L
    PROVE  \A n \in Nat : \E f : Unfolds(f, L, n)
<1> DEFINE T == {n \in Nat : ~ \E f : Unfolds(f, L, n)}
<1> SUFFICES ASSUME T # {} PROVE FALSE
    OBVIOUS
<1>1. PICK n \in T : \A k \in T : n <= k
    BY Least
<1>2. n # 0
    <2>1. Unfolds([i \in 0..0 |-> Fresh], L, 0)
        BY DEF Unfolds
    <2> QED BY <2>1
<1>3. n - 1 \in Nat /\ n - 1 \notin T /\ n \in Nat
    BY <1>1, <1>2
<1>4. PICK f : Unfolds(f, L, n - 1)
    BY <1>3
<1> DEFINE h == [i \in 0..n |-> IF i = n THEN Observe(f[n - 1], L[n], n) ELSE f[i]]
<1>5. Unfolds(h, L, n)
    <2>1. ASSUME NEW i \in 0..n
          PROVE  h[i] = IF i = 0 THEN Fresh ELSE Observe(h[i - 1], L[i], i)
        <3>1. CASE i = n
            BY <1>2, <1>3, <3>1
        <3>2. CASE i # n
            BY <1>2, <1>3, <1>4, <3>2 DEF Unfolds
        <3> QED BY <3>1, <3>2
    <2> QED BY <2>1 DEF Unfolds
<1> QED BY <1>5

\* A restarted host knows its whole journal.
LEMMA ReplayKnows ==
    ASSUME NEW s, s = scene, NEW L \in Seq(EntryType(s)), \A n \in 1..Len(L) : Fit(s, L, n)
    PROVE  Knows(s, Replay(L), L, Len(L))
<1> DEFINE len == Len(L)
           M == CHOOSE f : Unfolds(f, L, len)
<1>1. len \in Nat /\ Replay(L) = M[len]
    BY DEF Replay, Unfolds
<1>2. Unfolds(M, L, len)
    BY <1>1, UnfoldsExists
<1> HIDE DEF M
<1>3. \A n \in 0..len : M[n] = IF n = 0 THEN Fresh ELSE Observe(M[n - 1], L[n], n)
    BY <1>2 DEF Unfolds
<1> DEFINE T == {n \in 0..len : ~Knows(s, M[n], L, n)}
<1>4. T = {}
    <2> SUFFICES ASSUME T # {} PROVE FALSE
        OBVIOUS
    <2>1. PICK n \in T : \A k \in T : n <= k
        BY Least, T \subseteq Nat
    <2>2. n # 0
        <3>1. Knows(s, M[0], L, 0)
            BY <1>1, <1>3, FreshKnows
        <3> QED BY <3>1
    <2>3. n - 1 \in 0..len /\ n - 1 \notin T /\ n \in 1..Len(L)
        BY <1>1, <2>1, <2>2
    <2>4. Knows(s, M[n - 1], L, n - 1)
        BY <2>3
    <2>5. Knows(s, Observe(M[n - 1], L[n], n), L, n)
        BY <2>3, <2>4, ObserveKnows
    <2> QED BY <1>3, <2>3, <2>5
<1> QED BY <1>1, <1>4
----------------------------------------------------------------------------
\* The first n entries of L and K are the same.
\* Two journals begin with the same n entries, and then show the same.
Same(L, K, n) == \A k \in 1..n : K[k] = L[k]

\* What an entry is by itself.
LEMMA FitSame ==
    ASSUME NEW s, NEW L, NEW K, NEW n \in Nat, Same(L, K, n), NEW k \in 1..n
    PROVE  Fit(s, L, k) <=> Fit(s, K, k)
BY DEF Same, Fit

\* A start was agreed.
LEMMA ReachedSame ==
    ASSUME NEW s, NEW L, NEW K, NEW n \in Nat, Same(L, K, n), NEW i \in 0..n,
           \A k \in 1..n : Fit(s, L, k), Reached(L, i)
    PROVE  Reached(K, i)
<1>1. PICK k \in 1..i : Agreement(L, k) /\ L[L[k].at].type \in StartTypes
    BY DEF Reached
<1>2. k \in 1..n /\ L[k].at \in 1..(k - 1)
    BY <1>1 DEF Fit, Agreement
<1>3. K[k] = L[k] /\ K[L[k].at] = L[L[k].at]
    BY <1>2 DEF Same
<1> QED BY <1>1, <1>3 DEF Reached, Agreement

\* Contents are alike.
LEMMA AlikeSame ==
    ASSUME NEW L, NEW K, NEW n \in Nat, Same(L, K, n), NEW i \in 0..n, NEW v, Alike(L, i, v)
    PROVE  Alike(K, i, v)
<1>1. ASSUME NEW p \in Peers PROVE \E k \in 1..i : First(K, p, k) /\ K[k].val = v
    <2>1. PICK k \in 1..i : First(L, p, k) /\ L[k].val = v
        BY DEF Alike
    <2>2. \A j \in 1..k : K[j] = L[j]
        BY <2>1 DEF Same
    <2>3. First(K, p, k)
        BY <2>1, <2>2 DEF First, Attests
    <2> QED BY <2>1, <2>2, <2>3
<1> QED BY <1>1 DEF Alike

\* Games await more checkpoints.
\* Games gain barriers and lose none.
Grows(g, h) == \A p \in Peers : DOMAIN g[p].barrier \subseteq DOMAIN h[p].barrier

\* So what both games await is awaited later.
LEMMA TogetherMore ==
    ASSUME NEW s, NEW L, NEW K, NEW n \in Nat, Same(L, K, n), NEW i \in 0..n, NEW g, NEW h,
           Grows(g, h), Together(s, L, i, g), NEW j \in Nat, i <= j
    PROVE  Together(s, K, j, h)
BY DEF Together, Same, Grows

\* And an entry shows what it showed.
LEMMA ShowsMore ==
    ASSUME NEW s, NEW L \in Seq(EntryType(s)), NEW K, NEW n \in 0..Len(L), Same(L, K, n),
           NEW g, NEW h, Grows(g, h), \A k \in 1..n : Shows(s, L, k, g)
    PROVE  \A k \in 1..n : Shows(s, K, k, h)
<1> SUFFICES ASSUME NEW k \in 1..n PROVE Shows(s, K, k, h)
    OBVIOUS
<1>1. Shows(s, L, k, g) /\ \A i \in 1..n : Fit(s, L, i)
    BY DEF Shows
<1>2. K[k] = L[k] /\ k - 1 \in 0..n /\ n \in Nat /\ k \in 1..Len(L)
    BY DEF Same
<1>3. L[k].from \in Peers
    BY <1>2, EntryFields
<1>4. Fit(s, K, k)
    BY <1>1, <1>2, FitSame
<1>5. K[k].type = "initialise" => \E v : Alike(K, k - 1, v)
    BY <1>1, <1>2, AlikeSame DEF Shows
<1>6. Agreement(K, k) => Together(s, K, k - 1, h)
    BY <1>1, <1>2, TogetherMore DEF Shows, Agreement
<1>7. s.kind # "open" /\ K[k].type = "work" => Reached(K, k - 1)
    BY <1>1, <1>2, ReachedSame DEF Shows
<1>8. K[k].type = "record" =>
        K[k].val = s.world[K[k].from] /\ K[k].at \in DOMAIN h[K[k].from].barrier
    BY <1>1, <1>2, <1>3 DEF Shows, Grows
<1> QED BY <1>1, <1>2, <1>4, <1>5, <1>6, <1>7, <1>8 DEF Shows

\* A memory knows the same of the same entries.
LEMMA KnowsSame ==
    ASSUME NEW s, NEW L, NEW K, NEW n \in Nat, Same(L, K, n),
           \A k \in 1..n : Fit(s, L, k), NEW m, Knows(s, m, L, n)
    PROVE  Knows(s, m, K, n)
<1>1. m \in MemoryType(s, n) /\ m.open \in Boundaries(n) /\ m.at \in 0..n
    BY DEF Knows, MemoryType
<1>2. DOMAIN m.open \subseteq 1..n
    BY <1>1, BoundariesMean
<1>3. Agreed(m, K, n) /\ Awaits(m, K)
    BY <1>2 DEF Knows, Agreed, Awaits, Agreement, Same
<1>4. Reported(m, K, n)
    BY DEF Knows, Reported, Reports, Same
<1>5. Attested(m, K, n)
    <2> SUFFICES ASSUME NEW p \in Peers
                 PROVE  /\ m.att[p] = None => \A k \in 1..n : ~Attests(K, p, k)
                        /\ m.att[p] # None =>
                             \E k \in 1..n : First(K, p, k) /\ K[k].val = m.att[p]
        BY DEF Attested
    <2>1. m.att[p] = None => \A k \in 1..n : ~Attests(K, p, k)
        BY DEF Knows, Attested, Attests, Same
    <2>2. ASSUME m.att[p] # None
          PROVE  \E k \in 1..n : First(K, p, k) /\ K[k].val = m.att[p]
        <3>1. PICK k \in 1..n : First(L, p, k) /\ L[k].val = m.att[p]
            BY <2>2 DEF Knows, Attested
        <3>2. \A j \in 1..k : K[j] = L[j]
            BY <3>1 DEF Same
        <3> QED BY <3>1, <3>2 DEF First, Attests
    <2> QED BY <2>1, <2>2
<1>6. Begun(m, K)
    BY <1>1 DEF Knows, Begun, Same
<1>7. Released(s, m, K, n)
    <2>1. n \in 0..n
        OBVIOUS
    <2> QED BY <2>1, ReachedSame DEF Knows, Released
<1> QED BY <1>1, <1>3, <1>4, <1>5, <1>6, <1>7 DEF Knows

\* The journal with one more entry, and the memory that has observed it.
\* One entry is appended: all that a step of the host needs.
LEMMA AppendKnows ==
    ASSUME NEW s, s = scene, NEW L \in Seq(EntryType(s)), NEW g,
           \A n \in 1..Len(L) : Shows(s, L, n, g),
           NEW m, Knows(s, m, L, Len(L)), NEW e \in EntryType(s),
           Fit(s, Append(L, e), Len(L) + 1)
    PROVE  /\ Append(L, e) \in Seq(EntryType(s)) /\ Len(Append(L, e)) = Len(L) + 1
           /\ Same(L, Append(L, e), Len(L)) /\ Append(L, e)[Len(L) + 1] = e
           /\ \A n \in 1..Len(L) : Shows(s, Append(L, e), n, g)
           /\ Knows(s, m, Append(L, e), Len(L))
           /\ Knows(s, Observe(m, e, Len(L) + 1), Append(L, e), Len(L) + 1)
<1> DEFINE K == Append(L, e)
           n == Len(L)
<1>1. K \in Seq(EntryType(s)) /\ Len(K) = n + 1 /\ n \in Nat /\ K[n + 1] = e
      /\ Same(L, K, n)
    BY DEF Same
<1> HIDE DEF K
<1>2. \A k \in 1..n : Shows(s, K, k, g)
    <2>1. Grows(g, g) /\ n \in 0..Len(L) /\ \A k \in 1..n : Shows(s, L, k, g)
        BY DEF Grows
    <2> HIDE DEF n
    <2> QED BY <1>1, <2>1, ShowsMore
<1>3. Knows(s, m, K, n)
    BY <1>1, KnowsSame DEF Shows
<1>4. n + 1 \in 1..Len(K) /\ (n + 1) - 1 = n
    BY <1>1
<1>5. Knows(s, Observe(m, K[n + 1], n + 1), K, n + 1)
    <2> DEFINE i == n + 1
    <2>1. i \in 1..Len(K) /\ Knows(s, m, K, i - 1) /\ Fit(s, K, i)
        BY <1>3, <1>4 DEF K
    <2> HIDE DEF i
    <2>2. Knows(s, Observe(m, K[i], i), K, i)
        BY <1>1, <2>1, ObserveKnows
    <2> QED BY <2>2 DEF i
<1> QED BY <1>1, <1>2, <1>3, <1>5 DEF K
----------------------------------------------------------------------------
\* A game stays one when the journal grows.
LEMMA GameMore ==
    ASSUME NEW s, NEW n \in Nat, NEW k \in Nat, k <= n, NEW g \in GameType(s, k)
    PROVE  g \in GameType(s, n)
<1>1. g.barrier \in Barriers(n)
    BY BarriersMean DEF GameType
<1> QED BY <1>1 DEF GameType

\* The memory of a new host.
LEMMA FreshTyped ==
    ASSUME NEW n \in Nat
    PROVE  Fresh \in MemoryType(scene, n)
BY FreshKnows, MemoryMore DEF Knows

\* Steps that leave the journal and the memory of the host alone.
\* A step of a game leaves the host alone.
LEMMA HostSame ==
    ASSUME IInv, UNCHANGED <<scene, files, registry, host>>,
           game' \in [Peers -> GameType(scene, Len(log))], Grows(game, game'),
           \A p \in Peers : game'[p].start = "validated" => game[p].start = "validated",
           out' \in [Peers -> Seq(MessageType(scene))],
           \A p \in Peers : \A i \in 1..Len(out'[p]) :
              Sends(scene, p, out'[p][i], game) \/ Sends(scene, p, out'[p][i], game')
    PROVE  IInv'
<1>1. Types'
    BY DEF IInv, Types, host
<1>2. Minds'
    BY DEF IInv, Minds, Fresh, host
<1>3. Shown'
    <2>1. Len(log) \in 0..Len(log) /\ Same(log, log, Len(log)) /\ log \in Seq(EntryType(scene))
        BY DEF Same, IInv, Types
    <2> DEFINE n == Len(log)
    <2>2. n \in 0..Len(log) /\ Same(log, log, n) /\ \A k \in 1..n : Shows(scene, log, k, game)
        BY <2>1 DEF IInv, Shown
    <2> HIDE DEF n
    <2>3. \A k \in 1..n : Shows(scene, log, k, game')
        BY <2>1, <2>2, ShowsMore
    <2> QED BY <2>3 DEF Shown, host, n
<1>4. Sent'
    <2> SUFFICES ASSUME NEW p \in Peers, NEW i \in 1..Len(out'[p])
                 PROVE  Sends(scene, p, out'[p][i], game')
        BY DEF Sent
    <2> QED BY DEF Sends, Grows
<1>5. Honest'
    BY DEF IInv, Honest
<1> QED BY <1>1, <1>2, <1>3, <1>4, <1>5 DEF IInv

\* A step that leaves games and messages alone.
LEMMA GamesSame ==
    ASSUME IInv, UNCHANGED <<scene, game, out>>
    PROVE  Sent' /\ Honest'
BY DEF IInv, Sent, Honest

\* The sidecar's files.
LEMMA WriteKept ==
    ASSUME IInv, NEW p \in Peers, WriteArtifact(p)
    PROVE  IInv'
<1>1. PICK a \in scene.content[p] \ files[p] :
        files' = [files EXCEPT ![p] = @ \union {a}]
    BY DEF WriteArtifact
<1>2. /\ files' \in [Peers -> SUBSET UNION {scene.content[q] : q \in Peers}]
      /\ \A q \in Peers : files'[q] \subseteq scene.content[q]
    <2>1. a \in UNION {scene.content[q] : q \in Peers}
        BY <1>1
    <2>2. files \in [Peers -> SUBSET UNION {scene.content[q] : q \in Peers}]
          /\ \A q \in Peers : files[q] \subseteq scene.content[q]
        BY DEF IInv, Types
    <2> QED BY <1>1, <2>1, <2>2
<1>3. UNCHANGED <<scene, registry, log, up, mem, link, out, game, used>>
    BY DEF WriteArtifact, host
<1>4. Types'
    BY <1>2, <1>3 DEF IInv, Types
<1>5. Minds' /\ Shown'
    BY <1>3 DEF IInv, Minds, Shown, Fresh
<1> QED BY <1>3, <1>4, <1>5, GamesSame DEF IInv

\* The registry is published to the game.
LEMMA PublishKept ==
    ASSUME IInv, NEW p \in Peers, Publish(p)
    PROVE  IInv'
<1>1. UNCHANGED <<scene, files, log, up, mem, link, out, game, used>>
      /\ registry' = [registry EXCEPT ![p] = Registry(files[p])]
    BY DEF Publish, host
<1>2. Registry(files[p]) \in Registries(scene)
    <2>1. files[p] \in SUBSET UNION {scene.content[q] : q \in Peers}
        BY DEF IInv, Types
    <2> QED BY <2>1 DEF Registries
<1>3. Types'
    BY <1>1, <1>2 DEF IInv, Types
<1>4. Minds' /\ Shown'
    BY <1>1 DEF IInv, Minds, Shown, Fresh
<1> QED BY <1>1, <1>3, <1>4, GamesSame DEF IInv

\* The host dies.
LEMMA CrashKept ==
    ASSUME IInv, HostCrash
    PROVE  IInv'
<1>1. UNCHANGED <<scene, files, registry, log, out, game>> /\ up' = FALSE /\ mem' = Fresh
    BY DEF HostCrash, disk
<1>2. Fresh \in MemoryType(scene, Len(log)) /\ Fresh' = Fresh
    <2>1. Len(log) \in Nat
        BY DEF IInv, Types
    <2>2. Fresh' = Fresh
        BY <1>1 DEF Fresh
    <2> QED BY <2>1, <2>2, FreshTyped
<1>3. Types'
    BY <1>1, <1>2 DEF IInv, Types
<1>4. Minds' /\ Shown'
    BY <1>1, <1>2 DEF IInv, Minds, Shown
<1> QED BY <1>1, <1>3, <1>4, GamesSame DEF IInv

\* The host starts again from its journal.
LEMMA RestartKept ==
    ASSUME IInv, HostRestart
    PROVE  IInv'
<1>1. UNCHANGED <<scene, files, registry, log, out, game>> /\ up' = TRUE /\ mem' = Replay(log)
    BY DEF HostRestart, disk
<1>2. Knows(scene, Replay(log), log, Len(log))
    BY ReplayKnows DEF IInv, Types, Shown, Shows
<1>3. Types'
    BY <1>1, <1>2 DEF IInv, Types, Knows
<1>4. Minds' /\ Shown'
    BY <1>1, <1>2 DEF IInv, Minds, Shown
<1> QED BY <1>1, <1>3, <1>4, GamesSame DEF IInv

\* The connection of the client comes and goes.
LEMMA LinkKept ==
    ASSUME IInv, LinkDown \/ LinkUp
    PROVE  IInv'
<1>1. UNCHANGED <<scene, files, registry, log, up, mem, out, game>>
    BY DEF LinkDown, LinkUp, disk, host
<1>2. Types' /\ Minds' /\ Shown'
    BY <1>1 DEF IInv, Types, Minds, Shown, Fresh
<1> QED BY <1>1, <1>2, GamesSame DEF IInv
----------------------------------------------------------------------------
\* The fields of a game.
LEMMA GameFields ==
    ASSUME NEW s, NEW n, NEW g \in GameType(s, n)
    PROVE  /\ g.cursor \in 0..n /\ g.att \in [Peers -> Value(s)] /\ g.barrier \in Barriers(n)
           /\ g.at \in 0..n /\ g.latch \in Intents \union {None}
BY DEF GameType

\* A barrier is set in a game.
LEMMA BarriersWith ==
    ASSUME NEW n, NEW f \in Barriers(n), NEW k \in 1..n,
           NEW x \in {"pending", "complete", "faulted"}
    PROVE  /\ With(f, k, x) \in Barriers(n) /\ k \in DOMAIN With(f, k, x)
           /\ DOMAIN f \subseteq DOMAIN With(f, k, x)
BY BarriersMean DEF With

\* What applying an entry may make of a game.
\* What applying an entry may do to a game.
Applied(s, n, g, h) ==
    /\ h \in GameType(s, n)
    /\ DOMAIN g.barrier \subseteq DOMAIN h.barrier
    /\ h.start = "validated" => g.start = "validated"

\* A game applies an attestation.
LEMMA ApplyAttestFits ==
    ASSUME NEW s, NEW n, NEW g \in GameType(s, n), NEW e \in EntryType(s)
    PROVE  Applied(s, n, g, ApplyAttest(g, e))
<1> DEFINE att == [g.att EXCEPT ![e.from] = e.val]
<1>1. att \in [Peers -> Value(s)]
    BY GameFields DEF EntryType
<1> HIDE DEF att
<1>2. \A b \in BOOLEAN, c \in BOOLEAN, d \in BOOLEAN :
        /\ Applied(s, n, g, [g EXCEPT !.blamed = b, !.fault = c])
        /\ Applied(s, n, g, [g EXCEPT !.att = att, !.blamed = b, !.fault = c])
        /\ Applied(s, n, g, [g EXCEPT !.att = att, !.ready = b])
        /\ Applied(s, n, g, [g EXCEPT !.att = att, !.ready = b, !.blamed = c])
    BY <1>1 DEF Applied, GameType
<1> QED BY <1>2 DEF ApplyAttest, att

\* A game applies a start.
LEMMA ApplyStartFits ==
    ASSUME NEW n, NEW g \in GameType(scene, n), NEW e, NEW k \in 0..n, NEW p
    PROVE  Applied(scene, n, g, ApplyStart(p, g, e, k))
<1>1. /\ Applied(scene, n, g, [g EXCEPT !.init = TRUE])
      /\ Applied(scene, n, g, g)
      /\ Applied(scene, n, g, [g EXCEPT !.start = "committed", !.at = k])
      /\ Applied(scene, n, g, [g EXCEPT !.start = "awaiting-checkpoint", !.at = k])
      /\ Applied(scene, n, g, [g EXCEPT !.start = "failed"])
    BY DEF Applied, GameType
<1> QED BY <1>1 DEF ApplyStart

\* A game applies a verdict.
LEMMA ApplyOutcomeFits ==
    ASSUME NEW n, NEW g \in GameType(scene, n), NEW e, e.at \in 1..n, NEW p
    PROVE  Applied(scene, n, g, ApplyOutcome(p, g, e))
<1> DEFINE held == e.at \in DOMAIN g.barrier
           good == e.ok /\ held /\ e.val = scene.world[p]
           x == IF good THEN "complete" ELSE "faulted"
           b == With(g.barrier, e.at, x)
           start == IF g.start = "awaiting-checkpoint" /\ g.at = e.at /\ good
                    THEN "complete" ELSE g.start
           fault == g.fault \/ ~good
           h == [g EXCEPT !.barrier = b, !.fault = fault, !.start = start]
<1>1. b \in Barriers(n) /\ DOMAIN g.barrier \subseteq DOMAIN b
    BY BarriersWith, GameFields
<1>2. fault \in BOOLEAN /\ start \in {"complete", g.start}
    BY DEF GameType
<1>3. ApplyOutcome(p, g, e) = g \/ ApplyOutcome(p, g, e) = h
    BY DEF ApplyOutcome, GameType
<1> HIDE DEF b, fault, start
<1>4. Applied(scene, n, g, h) /\ Applied(scene, n, g, g)
    BY <1>1, <1>2 DEF Applied, GameType
<1> QED BY <1>3, <1>4

\* A game applies the next entry.
LEMMA ApplyKept ==
    ASSUME IInv, NEW p \in Peers, Apply(p)
    PROVE  IInv'
<1> DEFINE g == game[p]
           n == g.cursor + 1
           e == log[n]
           type == IF e.type = "rejected" THEN e.val ELSE e.type
           after == CASE e.type = "attest"     -> ApplyAttest(g, e)
                      [] e.type \in StartTypes -> ApplyStart(p, g, e, n)
                      [] e.type = "outcome"    -> ApplyOutcome(p, g, e)
                      [] OTHER                 -> g
           sends == Exports(g, after, e)
           latch == IF e.from = p /\ type = g.latch THEN None ELSE after.latch
           barrier == IF sends THEN With(after.barrier, n, "pending") ELSE after.barrier
           h == [after EXCEPT !.cursor = n, !.latch = latch, !.barrier = barrier]
           message == [type |-> "checkpoint", val |-> scene.world[p], at |-> n]
<1>0. Types /\ log \in Seq(EntryType(scene)) /\ g \in GameType(scene, Len(log))
    BY DEF IInv, Types
<1>1. n \in 1..Len(log) /\ Len(log) \in Nat
    BY <1>0, GameFields DEF Apply
<1>2. e \in EntryType(scene) /\ (e.type = "outcome" => e.at \in 1..Len(log))
    <2>1. Fit(scene, log, n) /\ e \in EntryType(scene)
        BY <1>0, <1>1 DEF IInv, Shown, Shows
    <2>2. e.type = "outcome" => e.at \in 1..(n - 1)
        BY <2>1 DEF Fit
    <2> QED BY <1>1, <2>1, <2>2
<1>3. Applied(scene, Len(log), g, after)
    <2>1. Applied(scene, Len(log), g, g)
        BY <1>0 DEF Applied
    <2> QED BY <1>0, <1>1, <1>2, <2>1, ApplyAttestFits, ApplyStartFits, ApplyOutcomeFits
            DEF StartTypes
<1>4. /\ game' = [game EXCEPT ![p] = h]
      /\ out' = IF sends THEN [out EXCEPT ![p] = Append(@, message)] ELSE out
      /\ UNCHANGED <<scene, files, registry, host>>
    <2>1. after \in GameType(scene, Len(log))
        BY <1>3 DEF Applied
    <2>2. h = [after EXCEPT !.cursor = n,
                  !.latch = IF e.from = p /\ type = g.latch THEN None ELSE @,
                  !.barrier = IF sends THEN With(@, n, "pending") ELSE @]
        <3> HIDE DEF after, sends, type
        <3> QED BY <2>1 DEF GameType
    <2> QED BY <2>2 DEF Apply, disk
<1> HIDE DEF after
<1>5. latch \in Intents \union {None}
    BY <1>3, GameFields DEF Applied
<1>6. barrier \in Barriers(Len(log)) /\ DOMAIN after.barrier \subseteq DOMAIN barrier
      /\ (sends => n \in DOMAIN barrier)
    BY <1>1, <1>3, BarriersWith, GameFields DEF Applied
<1> HIDE DEF latch, barrier, sends
<1>7. Applied(scene, Len(log), g, h) /\ h.barrier = barrier
    <2>1. n \in 0..Len(log) /\ after \in GameType(scene, Len(log))
        BY <1>1, <1>3 DEF Applied
    <2>2. h.barrier = barrier /\ h.start = after.start /\ h \in GameType(scene, Len(log))
        BY <2>1, <1>5, <1>6 DEF GameType
    <2> QED BY <2>2, <1>3, <1>6 DEF Applied
<1> HIDE DEF h
<1>8. /\ game' \in [Peers -> GameType(scene, Len(log))] /\ Grows(game, game')
      /\ \A q \in Peers : game'[q].start = "validated" => game[q].start = "validated"
      /\ game'[p] = h
    BY <1>0, <1>4, <1>7 DEF Types, Applied, Grows
<1>9. out \in [Peers -> Seq(MessageType(scene))]
    BY <1>0 DEF Types
<1>10. message \in MessageType(scene) /\ (sends => Sends(scene, p, message, game'))
    <2>1. scene.world[p] \in Worlds
        BY <1>0 DEF Types, IsScene
    <2>2. message \in MessageType(scene)
        BY <1>1, <2>1 DEF MessageType, Value
    <2>3. sends => n \in DOMAIN game'[p].barrier
        BY <1>6, <1>7, <1>8
    <2> QED BY <2>2, <2>3 DEF Sends, StartTypes
<1> HIDE DEF message
<1>11. out' \in [Peers -> Seq(MessageType(scene))]
    BY <1>4, <1>9, <1>10
<1>12. ASSUME NEW q \in Peers, NEW i \in 1..Len(out'[q])
       PROVE  Sends(scene, q, out'[q][i], game) \/ Sends(scene, q, out'[q][i], game')
    <2>1. out'[q] = out[q] \/ (q = p /\ sends /\ out'[q] = Append(out[q], message))
        BY <1>4, <1>9
    <2>2. out'[q][i] = message \/ (i \in 1..Len(out[q]) /\ out'[q][i] = out[q][i])
        BY <1>9, <1>10, <2>1
    <2>3. CASE i \in 1..Len(out[q]) /\ out'[q][i] = out[q][i]
        BY <2>3 DEF IInv, Sent
    <2>4. CASE out'[q] = out[q]
        BY <2>4 DEF IInv, Sent
    <2> QED BY <2>1, <2>2, <2>3, <2>4, <1>10
<1> QED BY <1>4, <1>8, <1>11, <1>12, HostSame

\* A game files an intent.
LEMMA EmitsKept ==
    ASSUME IInv, NEW p \in Peers, NEW type \in Intents, NEW val \in Value(scene),
           Emits(p, type, val), UNCHANGED <<scene, disk, host, link>>,
           \A g : Sends(scene, p, [type |-> type, val |-> val, at |-> 0], g)
    PROVE  IInv'
<1> DEFINE message == [type |-> type, val |-> val, at |-> 0]
           tried == game[p].tried \/ type \in {"resume", "continue"}
           h == [game[p] EXCEPT !.latch = type, !.tried = tried]
<1>0. out \in [Peers -> Seq(MessageType(scene))]
      /\ game \in [Peers -> GameType(scene, Len(log))]
    BY DEF IInv, Types
<1>1. message \in MessageType(scene)
    BY DEF MessageType
<1>2. out' = [out EXCEPT ![p] = Append(@, message)] /\ game' = [game EXCEPT ![p] = h]
    BY <1>0 DEF Emits
<1>3. h \in GameType(scene, Len(log)) /\ h.barrier = game[p].barrier
      /\ h.start = game[p].start
    <2>1. tried \in BOOLEAN /\ game[p] \in GameType(scene, Len(log))
        BY <1>0 DEF GameType
    <2> HIDE DEF tried
    <2> QED BY <2>1 DEF GameType
<1> HIDE DEF h, message
<1>4. /\ game' \in [Peers -> GameType(scene, Len(log))] /\ Grows(game, game')
      /\ \A q \in Peers : game'[q].start = "validated" => game[q].start = "validated"
    BY <1>0, <1>2, <1>3 DEF Grows
<1>5. out' \in [Peers -> Seq(MessageType(scene))]
    BY <1>0, <1>1, <1>2
<1>6. ASSUME NEW q \in Peers, NEW i \in 1..Len(out'[q])
      PROVE  Sends(scene, q, out'[q][i], game) \/ Sends(scene, q, out'[q][i], game')
    <2>1. out'[q] = out[q] \/ (q = p /\ out'[q] = Append(out[q], message))
        BY <1>0, <1>2
    <2>2. (q = p /\ out'[q][i] = message) \/ (i \in 1..Len(out[q]) /\ out'[q][i] = out[q][i])
        BY <1>0, <1>1, <2>1
    <2>3. CASE i \in 1..Len(out[q]) /\ out'[q][i] = out[q][i]
        BY <2>3 DEF IInv, Sent
    <2> QED BY <2>2, <2>3 DEF message
<1>7. UNCHANGED <<scene, files, registry, host>>
    BY DEF disk
<1> QED BY <1>4, <1>5, <1>6, <1>7, HostSame

\* Attestations, work and emergency pauses are filed.
LEMMA SubmitsKept ==
    ASSUME IInv, NEW p \in Peers, Attest(p) \/ SubmitWork(p) \/ SubmitPause(p)
    PROVE  IInv'
<1>1. CASE Attest(p)
    <2>1. registry[p] # None /\ registry[p] \in Value(scene)
        BY <1>1 DEF IInv, Types, Value, Attest, MayAttest
    <2>2. \A g : Sends(scene, p, [type |-> "attest", val |-> registry[p], at |-> 0], g)
        BY <2>1 DEF Sends, StartTypes
    <2> QED BY <1>1, <2>1, <2>2, EmitsKept DEF Attest, Intents
<1>2. CASE SubmitWork(p) \/ SubmitPause(p)
    <2>1. PICK type \in {"work", "pause"} : Emits(p, type, None)
        BY <1>2 DEF SubmitWork, SubmitPause
    <2>2. \A g : Sends(scene, p, [type |-> type, val |-> None, at |-> 0], g)
        BY <2>1 DEF Sends, StartTypes
    <2>3. UNCHANGED <<scene, disk, host, link>> /\ type \in Intents /\ None \in Value(scene)
        BY <1>2, <2>1 DEF SubmitWork, SubmitPause, Intents, Value
    <2> QED BY <2>1, <2>2, <2>3, EmitsKept
<1> QED BY <1>1, <1>2

\* The start is filed, by the host's game.
LEMMA StartKept ==
    ASSUME IInv, SubmitStart
    PROVE  IInv'
<1> DEFINE type == StartAction(game[Host])
           val == scene.world[Host]
<1>0. Host \in Peers /\ IsScene(scene) /\ Honest
    BY DEF Peers, IInv, Types
<1>1. type = StartOf(scene) /\ Planful(scene)
    <2>1. type # None
        BY DEF SubmitStart, MayStart
    <2>2. scene.kind = "plan" => game[Host].start = "validated"
        BY <2>1 DEF StartAction
    <2>3. Planful(scene)
        BY <1>0, <2>2 DEF Honest, Valid, Planful
    <2> QED BY <2>1, <2>3 DEF StartAction, StartOf
<1>2. type \in Intents /\ val \in Value(scene)
    BY <1>0, <1>1 DEF StartOf, Intents, StartTypes, IsScene, Value
<1>3. \A g : Sends(scene, Host, [type |-> type, val |-> val, at |-> 0], g)
    <2>1. type # "checkpoint" /\ type # "attest"
        BY <1>1 DEF StartOf
    <2> HIDE DEF type
    <2> QED BY <1>1, <2>1 DEF Sends
<1>4. Emits(Host, type, val) /\ UNCHANGED <<scene, disk, host, link>>
    BY DEF SubmitStart
<1> HIDE DEF type, val
<1> QED BY <1>0, <1>2, <1>3, <1>4, EmitsKept
----------------------------------------------------------------------------
\* The host appends one entry, as the memory it has and its games allow.
LEMMA OneMore ==
    ASSUME IInv, NEW e \in EntryType(scene), log' = Append(log, e),
           Shows(scene, log', Len(log) + 1, game),
           up, UNCHANGED <<scene, files, registry, up, game>>,
           mem' = Observe(mem, e, Len(log) + 1),
           out' \in [Peers -> Seq(MessageType(scene))],
           \A p \in Peers : \A i \in 1..Len(out'[p]) : Sends(scene, p, out'[p][i], game)
    PROVE  IInv'
<1> DEFINE n == Len(log) + 1
<1>0. /\ Types /\ log \in Seq(EntryType(scene)) /\ Len(log) \in Nat /\ n \in Nat
      /\ Knows(scene, mem, log, Len(log))
      /\ \A k \in 1..Len(log) : Shows(scene, log, k, game)
    BY DEF IInv, Types, Minds, Shown
<1>1. /\ log' \in Seq(EntryType(scene)) /\ Len(log') = n
      /\ \A k \in 1..Len(log) : Shows(scene, log', k, game)
      /\ Knows(scene, mem', log', n)
    <2> DEFINE K == Append(log, e)
    <2>1. Fit(scene, K, Len(log) + 1)
        BY DEF Shows
    <2>2. /\ K \in Seq(EntryType(scene)) /\ Len(K) = Len(log) + 1
          /\ \A k \in 1..Len(log) : Shows(scene, K, k, game)
          /\ Knows(scene, Observe(mem, e, Len(log) + 1), K, Len(log) + 1)
        BY <1>0, <2>1, AppendKnows
    <2> HIDE DEF K
    <2>3. log' = K /\ mem' = Observe(mem, e, Len(log) + 1)
        BY DEF K
    <2> QED BY <2>2, <2>3
<1>2. Types'
    <2>1. game \in [Peers -> GameType(scene, n)]
        <3>1. Len(log) <= n /\ \A q \in Peers : game[q] \in GameType(scene, Len(log))
            BY <1>0 DEF Types
        <3>2. \A q \in Peers : game[q] \in GameType(scene, n)
            BY <1>0, <3>1, GameMore
        <3> QED BY <1>0, <3>2 DEF Types
    <2>2. mem' \in MemoryType(scene, n)
        BY <1>1 DEF Knows
    <2> QED BY <1>0, <1>1, <2>1, <2>2 DEF Types
<1>3. Minds'
    BY <1>1 DEF Minds
<1>4. Shown'
    <2>1. 1..n = (1..Len(log)) \union {n}
        BY <1>0
    <2>2. \A k \in 1..n : Shows(scene, log', k, game)
        BY <1>1, <2>1
    <2> QED BY <1>1, <2>2 DEF Shown
<1>5. Sent' /\ Honest'
    BY DEF IInv, Sent, Honest
<1> QED BY <1>2, <1>3, <1>4, <1>5 DEF IInv

\* The host takes a message.
\* The message it works on was sent by the game it names.
LEMMA TakenKept ==
    ASSUME IInv, NEW p \in Peers, out[p] # << >>, Taken(p)
    PROVE  /\ out' \in [Peers -> Seq(MessageType(scene))]
           /\ \A q \in Peers : \A i \in 1..Len(out'[q]) : Sends(scene, q, out'[q][i], game)
           /\ Head(out[p]) \in MessageType(scene) /\ Sends(scene, p, Head(out[p]), game)
<1>1. out \in [Peers -> Seq(MessageType(scene))]
    BY DEF IInv, Types
<1>2. out' = [out EXCEPT ![p] = Tail(@)]
    BY DEF Taken
<1>3. /\ Tail(out[p]) \in Seq(MessageType(scene)) /\ Len(Tail(out[p])) = Len(out[p]) - 1
      /\ \A i \in 1..Len(Tail(out[p])) :
           i + 1 \in 1..Len(out[p]) /\ Tail(out[p])[i] = out[p][i + 1]
      /\ Head(out[p]) = out[p][1] /\ 1 \in 1..Len(out[p])
    BY <1>1
<1>4. ASSUME NEW q \in Peers, NEW i \in 1..Len(out'[q])
      PROVE  Sends(scene, q, out'[q][i], game)
    <2>1. CASE q = p
        BY <1>1, <1>2, <1>3, <2>1 DEF IInv, Sent
    <2>2. CASE q # p
        BY <1>1, <1>2, <2>2 DEF IInv, Sent
    <2> QED BY <2>1, <2>2
<1>5. out'[p] \in Seq(MessageType(scene)) /\ out' \in [Peers -> Seq(MessageType(scene))]
    BY <1>1, <1>2, <1>3
<1>6. Sends(scene, p, out[p][1], game) /\ out[p][1] \in MessageType(scene)
    BY <1>1, <1>3 DEF IInv, Sent
<1> QED BY <1>3, <1>4, <1>5, <1>6

\* CommitHost._commit: the fence of the session start.
LEMMA OrderKept ==
    ASSUME IInv, NEW p \in Peers, OrderIntent(p)
    PROVE  IInv'
<1> DEFINE i == Head(out[p])
           n == Len(log) + 1
<1>0. /\ Types /\ log \in Seq(EntryType(scene)) /\ Len(log) \in Nat /\ up /\ out[p] # << >>
      /\ Knows(scene, mem, log, Len(log)) /\ i.type # "checkpoint" /\ Taken(p)
      /\ UNCHANGED <<scene, files, registry, up, game>>
      /\ \A k \in 1..Len(log) : Fit(scene, log, k)
    BY DEF IInv, Types, Minds, Shown, Shows, OrderIntent, Reachable, disk
<1>1. /\ out' \in [Peers -> Seq(MessageType(scene))]
      /\ \A q \in Peers : \A k \in 1..Len(out'[q]) : Sends(scene, q, out'[q][k], game)
      /\ i \in MessageType(scene) /\ Sends(scene, p, i, game)
    BY <1>0, TakenKept
<1>2. i.type \in Intents /\ i.val \in Value(scene)
    BY <1>0, <1>1 DEF MessageType
<1> HIDE DEF i
<1>3. CASE Admits(p, i.type)
    <2> DEFINE e == Entry(i.type, p, i.val)
    <2>1. log' = Append(log, e) /\ mem' = Observe(mem, e, Len(log) + 1)
        BY <1>3 DEF OrderIntent, Append1, i
    <2>2. /\ e \in EntryType(scene) /\ e.type = i.type /\ e.val = i.val /\ e.from = p
        <3>1. e = [type |-> i.type, from |-> p, val |-> i.val, at |-> 0, ok |-> TRUE]
            BY DEF Entry
        <3> HIDE DEF e
        <3> QED BY <1>2, <3>1 DEF EntryType
    <2> HIDE DEF e
    <2>3. log'[n] = e /\ Same(log, log', Len(log))
        BY <1>0, <2>1, <2>2 DEF Same
    <2>4. i.type \notin {"record", "outcome", "rejected"}
        BY <1>2 DEF Intents, StartTypes
    <2>5. Fit(scene, log', n) /\ ~Agreement(log', n)
        BY <1>1, <2>2, <2>3, <2>4 DEF Fit, Sends, Agreement
    <2>6. log'[n].type \in StartTypes => log'[n].type = StartOf(scene) /\ Planful(scene)
        BY <1>1, <2>2, <2>3 DEF Sends
    <2>7. ASSUME i.type = "initialise" PROVE \E v : Alike(log', n - 1, v)
        <3>1. mem.ready
            BY <1>3, <2>7 DEF Admits
        <3>2. /\ \A q \in Peers : mem.att[q] # None
              /\ mem.att[Host] = mem.att[Client] /\ ~Ambiguous(mem.att[Host])
            BY <1>0, <3>1 DEF Knows, Settled
        <3>3. \A q \in Peers : mem.att[q] = mem.att[Host]
            BY <3>2 DEF Peers
        <3>4. Alike(log, Len(log), mem.att[Host])
            BY <1>0, <3>2, <3>3 DEF Knows, Attested, Alike
        <3>5. Alike(log', Len(log), mem.att[Host])
            <4>1. Len(log) \in 0..Len(log)
                BY <1>0
            <4> QED BY <1>0, <2>3, <3>4, <4>1, AlikeSame
        <3>6. n - 1 = Len(log)
            BY <1>0
        <3> QED BY <3>5, <3>6
    <2>8. ASSUME scene.kind # "open", i.type = "work" PROVE Reached(log', n - 1)
        <3>1. mem.start = "complete"
            BY <1>3, <2>8 DEF Admits, InFence, StartTypes
        <3>2. Reached(log, Len(log))
            BY <1>0, <2>8, <3>1 DEF Knows, Released
        <3>3. Len(log) \in 0..Len(log) /\ n - 1 = Len(log)
            BY <1>0
        <3>4. Reached(log', Len(log))
            BY <1>0, <2>3, <3>2, <3>3, ReachedSame
        <3> QED BY <3>3, <3>4
    <2>9. Shows(scene, log', n, game)
        BY <2>2, <2>3, <2>4, <2>5, <2>6, <2>7, <2>8 DEF Shows
    <2> QED BY <1>0, <1>1, <2>1, <2>2, <2>9, OneMore
<1>4. CASE ~Admits(p, i.type)
    <2> DEFINE e == Entry("rejected", p, i.type)
    <2>1. log' = Append(log, e) /\ mem' = Observe(mem, e, Len(log) + 1)
        BY <1>4 DEF OrderIntent, Append1, i
    <2>2. e \in EntryType(scene) /\ e.type = "rejected"
        <3>1. e = [type |-> "rejected", from |-> p, val |-> i.type, at |-> 0, ok |-> TRUE]
            BY DEF Entry
        <3> HIDE DEF e
        <3> QED BY <1>2, <3>1 DEF EntryType, Value
    <2> HIDE DEF e
    <2>3. log'[n] = e
        BY <1>0, <2>1, <2>2
    <2>4. Shows(scene, log', n, game)
        BY <2>2, <2>3 DEF Shows, Fit, Agreement, StartTypes
    <2> QED BY <1>0, <1>1, <2>1, <2>2, <2>4, OneMore
<1> QED BY <1>3, <1>4

\* A checkpoint that is pending is one of the journal.
LEMMA PendingKnown ==
    ASSUME NEW s, NEW L, NEW n \in Nat, NEW m, Knows(s, m, L, n), NEW k \in Pending(m)
    PROVE  k \in 1..n /\ k \in DOMAIN m.open
<1>1. m.open \in Boundaries(n)
    BY DEF Knows, MemoryType
<1> QED BY <1>1, BoundariesMean DEF Pending

\* The deadline of a checkpoint.
LEMMA ExpireKept ==
    ASSUME IInv, ExpireCheckpoint
    PROVE  IInv'
<1>0. /\ log \in Seq(EntryType(scene)) /\ Len(log) \in Nat /\ up
      /\ Knows(scene, mem, log, Len(log))
      /\ UNCHANGED <<scene, files, registry, up, out, game>>
    BY DEF IInv, Types, Minds, ExpireCheckpoint, disk
<1>1. PICK k \in Pending(mem) :
        Append1([Entry("outcome", Host, None) EXCEPT !.at = k, !.ok = FALSE])
    BY DEF ExpireCheckpoint
<1> DEFINE e == [Entry("outcome", Host, None) EXCEPT !.at = k, !.ok = FALSE]
           n == Len(log) + 1
<1>2. k \in 1..Len(log)
    BY <1>0, PendingKnown
<1>3. log' = Append(log, e) /\ mem' = Observe(mem, e, Len(log) + 1)
    BY <1>1 DEF Append1
<1>4. e \in EntryType(scene) /\ e.type = "outcome" /\ e.at = k /\ e.ok = FALSE
    <2>1. Host \in Peers /\ None \in Value(scene) /\ k \in Nat
        BY <1>2 DEF Peers, Value
    <2>2. Entry("outcome", Host, None) \in EntryType(scene) /\ Entry("outcome", Host, None).type = "outcome"
        BY <2>1 DEF Entry, EntryType
    <2> QED BY <2>1, <2>2 DEF EntryType
<1> HIDE DEF e
<1>5. log'[n] = e /\ k \in 1..(n - 1)
    BY <1>0, <1>2, <1>3, <1>4
<1>6. Shows(scene, log', n, game)
    BY <1>4, <1>5 DEF Shows, Fit, Agreement, StartTypes
<1>7. out' \in [Peers -> Seq(MessageType(scene))]
      /\ \A p \in Peers : \A i \in 1..Len(out'[p]) : Sends(scene, p, out'[p][i], game)
    BY <1>0 DEF IInv, Types, Sent
<1> QED BY <1>0, <1>3, <1>4, <1>6, <1>7, OneMore

\* A checkpoint that both games have sent for the same boundary, and that says the
\* same, is one of worlds that are alike.
\* Two records that agree were sent from equal worlds, by games that both await the
\* checkpoint.
LEMMA AgreedTogether ==
    ASSUME NEW s, IsScene(s), NEW L \in Seq(EntryType(s)), NEW g, NEW m,
           \A k \in 1..Len(L) : Shows(s, L, k, g), Knows(s, m, L, Len(L)),
           NEW c \in DOMAIN m.open, \A p \in Peers : m.open[c].got[p] # None,
           Verdict(m, c)
    PROVE  Together(s, L, Len(L), g)
<1>0. Len(L) \in Nat /\ Host \in Peers /\ Client \in Peers
    BY DEF Peers
<1>1. CASE m.agreed
    <2>1. PICK k \in 1..Len(L) : Agreement(L, k)
        BY <1>1 DEF Knows, Agreed
    <2>2. Together(s, L, k - 1, g)
        BY <2>1 DEF Shows
    <2>3. k - 1 \in 0..Len(L) /\ k - 1 <= Len(L) /\ Same(L, L, Len(L)) /\ Grows(g, g)
        BY <1>0, <2>1 DEF Same, Grows
    <2> QED BY <1>0, <2>2, <2>3, TogetherMore
<1>2. CASE ~m.agreed
    <2>1. L[c].type \in StartTypes
        BY <1>2 DEF Knows, Awaits
    <2>2. c \in 1..Len(L)
        BY <1>0, BoundariesMean DEF Knows, MemoryType
    <2>3. ASSUME NEW p \in Peers
          PROVE  m.open[c].got[p] = s.world[p] /\ c \in DOMAIN g[p].barrier
        <3>1. PICK k \in 1..Len(L) : Reports(L, p, c, m.open[c].got[p], k)
            BY DEF Knows, Reported
        <3>2. Shows(s, L, k, g)
            OBVIOUS
        <3> QED BY <3>1, <3>2 DEF Reports, Shows
    <2>4. s.world[Host] = s.world[Client]
        BY <1>0, <2>3 DEF Verdict
    <2> QED BY <2>1, <2>2, <2>3, <2>4 DEF Together
<1> QED BY <1>1, <1>2

\* A checkpoint record is journalled, and the last one decides.
LEMMA TakeKept ==
    ASSUME IInv, NEW p \in Peers, TakeCheckpoint(p)
    PROVE  IInv'
<1> DEFINE c == Head(out[p])
           e == [Entry("record", p, c.val) EXCEPT !.at = c.at]
           after == ObserveRecord(mem, e)
           ok == Verdict(after, c.at)
           result == [Entry("outcome", Host, c.val) EXCEPT !.at = c.at, !.ok = ok]
           whole == /\ c.at \in Pending(after)
                    /\ \A q \in Peers : after.open[c.at].got[q] # None
           n == Len(log) + 1
           K == Append(log, e)
<1>0. /\ Types /\ log \in Seq(EntryType(scene)) /\ Len(log) \in Nat /\ up /\ out[p] # << >>
      /\ Knows(scene, mem, log, Len(log)) /\ c.type = "checkpoint" /\ Taken(p)
      /\ UNCHANGED <<scene, files, registry, up, game>>
      /\ \A k \in 1..Len(log) : Shows(scene, log, k, game)
    <2>1. up /\ out[p] # << >> /\ c.type = "checkpoint" /\ Taken(p)
          /\ UNCHANGED <<scene, files, registry, up, game>>
        BY DEF TakeCheckpoint, Reachable, disk
    <2> QED BY <2>1 DEF IInv, Types, Minds, Shown
<1>1. /\ out' \in [Peers -> Seq(MessageType(scene))]
      /\ \A q \in Peers : \A k \in 1..Len(out'[q]) : Sends(scene, q, out'[q][k], game)
      /\ c \in MessageType(scene) /\ Sends(scene, p, c, game)
    BY <1>0, TakenKept
<1>2. /\ c.val = scene.world[p] /\ c.at \in DOMAIN game[p].barrier
      /\ c.val \in Worlds /\ c.val \in Value(scene) /\ c.at \in 1..Len(log) /\ c.at \in Nat
    <2>1. c.val = scene.world[p] /\ c.at \in DOMAIN game[p].barrier
        BY <1>0, <1>1 DEF Sends
    <2>2. scene.world[p] \in Worlds
        BY <1>0 DEF Types, IsScene
    <2>3. game[p].barrier \in Barriers(Len(log))
        BY <1>0 DEF Types, GameType
    <2>4. c.at \in 1..Len(log)
        BY <2>1, <2>3, BarriersMean
    <2> QED BY <1>0, <2>1, <2>2, <2>4 DEF Value
<1>3. /\ log' = log \o (IF whole THEN <<e, result>> ELSE <<e>>)
      /\ mem' = IF whole THEN ObserveOutcome(after, result) ELSE after
    BY DEF TakeCheckpoint
<1> HIDE DEF c
<1>4. e \in EntryType(scene) /\ e.type = "record" /\ e.from = p /\ e.val = c.val /\ e.at = c.at
    <2>1. Entry("record", p, c.val) \in EntryType(scene) /\ Entry("record", p, c.val).type = "record" /\ Entry("record", p, c.val).from = p /\ Entry("record", p, c.val).val = c.val
        BY <1>2 DEF Entry, EntryType
    <2> QED BY <1>2, <2>1 DEF EntryType
<1> HIDE DEF e
<1>5. Observe(mem, e, n) = after
    BY <1>4 DEF Observe, StartTypes
<1>6. K[n] = e /\ Same(log, K, Len(log)) /\ n - 1 = Len(log)
    BY <1>0, <1>4 DEF Same
<1>7. Shows(scene, K, n, game)
    BY <1>2, <1>4, <1>6 DEF Shows, Fit, Agreement, StartTypes
<1>8. /\ K \in Seq(EntryType(scene)) /\ Len(K) = n
      /\ \A k \in 1..Len(log) : Shows(scene, K, k, game)
      /\ Knows(scene, after, K, n)
    <2>1. Fit(scene, Append(log, e), Len(log) + 1)
        BY <1>7 DEF Shows
    <2> HIDE DEF after
    <2> QED BY <1>0, <1>4, <1>5, <2>1, AppendKnows
<1>9. CASE ~whole
    <2>1. log' = Append(log, e) /\ mem' = Observe(mem, e, Len(log) + 1)
        <3>1. log' = log \o <<e>> /\ mem' = after
            BY <1>3, <1>9
        <3>2. log \o <<e>> = Append(log, e)
            BY <1>0, <1>4
        <3> HIDE DEF after
        <3> QED BY <1>5, <3>1, <3>2
    <2> QED BY <1>0, <1>1, <1>4, <1>7, <2>1, OneMore
<1>10. CASE whole
    <2>1. log' = Append(K, result) /\ mem' = ObserveOutcome(after, result)
        <3>1. log' = log \o <<e, result>> /\ mem' = ObserveOutcome(after, result)
            BY <1>3, <1>10
        <3> HIDE DEF result, after
        <3>2. log \o <<e, result>> = Append(Append(log, e), result)
            BY <1>0, <1>4
        <3> QED BY <3>1, <3>2
    <2>2. ok \in BOOLEAN
        BY DEF Verdict
    <2>3. \A k \in 1..Len(K) : Shows(scene, K, k, game)
        <3>1. 1..n = (1..Len(log)) \union {n}
            BY <1>0
        <3> QED BY <3>1, <1>7, <1>8
    <2>4. ok => Together(scene, K, n, game)
        <3>1. c.at \in DOMAIN after.open
            BY <1>10 DEF Pending
        <3>2. IsScene(scene) /\ Knows(scene, after, K, Len(K))
            BY <1>0, <1>8 DEF Types
        <3> HIDE DEF K
        <3>3. ok => Together(scene, K, Len(K), game)
            BY <1>8, <1>10, <2>3, <3>1, <3>2, AgreedTogether
        <3> QED BY <3>3, <1>8
    <2> HIDE DEF after, ok
    <2>5. /\ result \in EntryType(scene) /\ result.type = "outcome" /\ result.at = c.at
          /\ result.ok = ok
        <3>1. Host \in Peers
            BY DEF Peers
        <3>2. Entry("outcome", Host, c.val) \in EntryType(scene) /\ Entry("outcome", Host, c.val).type = "outcome"
            BY <1>2, <3>1 DEF Entry, EntryType
        <3> QED BY <1>2, <2>2, <3>2 DEF EntryType
    <2> HIDE DEF result, K
    <2>6. Observe(after, result, n + 1) = ObserveOutcome(after, result)
        BY <2>5 DEF Observe, StartTypes
    <2>7. log'[n + 1] = result /\ Same(K, log', n) /\ c.at \in 1..n /\ n \in Nat
        BY <1>0, <1>2, <1>8, <2>1, <2>5 DEF Same
    <2>8. Fit(scene, log', n + 1)
        BY <2>5, <2>7 DEF Fit
    <2>9. /\ log' \in Seq(EntryType(scene)) /\ Len(log') = n + 1
          /\ \A k \in 1..n : Shows(scene, log', k, game)
          /\ Knows(scene, mem', log', n + 1)
        <3>1. Len(K) = n /\ K \in Seq(EntryType(scene)) /\ Knows(scene, after, K, Len(K))
            BY <1>8
        <3>2. Fit(scene, Append(K, result), Len(K) + 1)
            BY <2>1, <2>8, <3>1
        <3>3. /\ Append(K, result) \in Seq(EntryType(scene)) /\ Len(Append(K, result)) = Len(K) + 1
              /\ \A k \in 1..Len(K) : Shows(scene, Append(K, result), k, game)
              /\ Knows(scene, Observe(after, result, Len(K) + 1), Append(K, result), Len(K) + 1)
            BY <2>3, <2>5, <3>1, <3>2, AppendKnows
        <3> QED BY <2>1, <2>6, <3>1, <3>3
    <2>10. Shows(scene, log', n + 1, game)
        <3>1. Agreement(log', n + 1) => Together(scene, log', n, game)
            <4>1. n \in 0..n /\ n <= n /\ Grows(game, game)
                BY <2>7 DEF Grows
            <4>2. Agreement(log', n + 1) => ok
                BY <2>5, <2>7 DEF Agreement
            <4> QED BY <2>4, <2>7, <4>1, <4>2, TogetherMore
        <3>2. (n + 1) - 1 = n
            BY <2>7
        <3> QED BY <2>5, <2>7, <2>8, <3>1, <3>2 DEF Shows, StartTypes
    <2>11. Types'
        <3>1. game \in [Peers -> GameType(scene, n + 1)]
            <4>1. n + 1 \in Nat /\ Len(log) <= n + 1
                BY <1>0
            <4>2. \A q \in Peers : game[q] \in GameType(scene, Len(log))
                BY <1>0 DEF Types
            <4>3. \A q \in Peers : game[q] \in GameType(scene, n + 1)
                BY <1>0, <4>1, <4>2, GameMore
            <4> QED BY <1>0, <4>3 DEF Types
        <3>2. mem' \in MemoryType(scene, n + 1)
            BY <2>9 DEF Knows
        <3> QED BY <1>0, <1>1, <2>9, <3>1, <3>2 DEF Types
    <2>12. Minds'
        BY <1>0, <2>9 DEF Minds
    <2>13. Shown'
        <3>1. 1..(n + 1) = (1..n) \union {n + 1}
            BY <2>7
        <3>2. \A k \in 1..(n + 1) : Shows(scene, log', k, game)
            BY <2>9, <2>10, <3>1
        <3> QED BY <1>0, <2>9, <3>2 DEF Shown
    <2>14. Sent' /\ Honest'
        BY <1>0, <1>1 DEF IInv, Sent, Honest
    <2> QED BY <2>11, <2>12, <2>13, <2>14 DEF IInv
<1> QED BY <1>9, <1>10
----------------------------------------------------------------------------
\* The invariant holds at the start.
LEMMA InitInv == Init => IInv
<1> SUFFICES ASSUME Init PROVE IInv
    OBVIOUS
<1>1. IsScene(scene) /\ scene \in Scenes
    BY ScenesAssumption DEF Init
<1>2. << >> \in Barriers(0) /\ DOMAIN << >> = {} /\ Len(<< >>) = 0 /\ 1..0 = {}
    <2>1. DOMAIN << >> = {} /\ << >> = [k \in DOMAIN << >> |-> << >>[k]] /\ Len(<< >>) = 0
        OBVIOUS
    <2>2. << >> \in Barriers(0)
        BY <2>1, BarriersMean
    <2>3. 1..0 = {}
        OBVIOUS
    <2> QED BY <2>1, <2>2, <2>3
<1>3. ASSUME NEW p \in Peers
      PROVE  /\ Loaded(p) \in GameType(scene, 0)
             /\ Loaded(p).start = "validated" => Valid(scene, p)
    <2> DEFINE valid == \/ scene.kind = "continue"
                        \/ scene.kind = "plan" /\ scene.world[p] = Planned
               start == CASE valid -> "validated" [] scene.kind = "plan" -> "failed"
                          [] OTHER -> "none"
               att == [q \in Peers |-> None]
               g == [cursor |-> 0, att |-> att, ready |-> FALSE, blamed |-> FALSE,
                     fault |-> FALSE, init |-> valid, start |-> start, at |-> 0,
                     barrier |-> << >>, latch |-> None, tried |-> FALSE]
    <2>1. Loaded(p) = g
        BY DEF Loaded
    <2>2. valid \in BOOLEAN /\ start \in {"validated", "failed", "none"}
          /\ att \in [Peers -> Value(scene)] /\ (start = "validated" => Valid(scene, p))
        BY DEF Value, Valid
    <2> HIDE DEF valid, start, att
    <2>3. g \in GameType(scene, 0) /\ g.start = start
        BY <1>2, <2>2 DEF GameType
    <2> QED BY <2>1, <2>2, <2>3
<1>4. Types
    <2>1. mem \in MemoryType(scene, 0)
        BY FreshTyped DEF Init
    <2>2. game \in [Peers -> GameType(scene, 0)]
        BY <1>3 DEF Init
    <2>3. /\ log \in Seq(EntryType(scene)) /\ Len(log) = 0
          /\ out \in [Peers -> Seq(MessageType(scene))]
        BY <1>2 DEF Init
    <2>4. /\ files \in [Peers -> SUBSET UNION {scene.content[q] : q \in Peers}]
          /\ \A q \in Peers : files[q] \subseteq scene.content[q]
          /\ registry \in [Peers -> {None} \union Registries(scene)]
          /\ up \in BOOLEAN
        BY DEF Init
    <2> QED BY <1>1, <2>1, <2>2, <2>3, <2>4 DEF Types
<1>5. Minds
    <2>1. Knows(scene, Fresh, log, 0)
        BY FreshKnows
    <2> QED BY <1>2, <2>1 DEF Init, Minds
<1>6. Shown /\ Sent /\ Honest
    BY <1>2, <1>3 DEF Init, Shown, Sent, Honest
<1> QED BY <1>4, <1>5, <1>6 DEF IInv

\* And every step keeps it.
LEMMA NextInv == IInv /\ [Next]_vars => IInv'
<1> SUFFICES ASSUME IInv, [Next]_vars PROVE IInv'
    OBVIOUS
<1>1. CASE UNCHANGED vars
    BY <1>1 DEF vars, disk, host, IInv, Types, Minds, Shown, Sent, Honest, Fresh
<1>2. CASE \E p \in Peers : WriteArtifact(p) \/ Publish(p)
    BY <1>2, WriteKept, PublishKept
<1>3. CASE \E p \in Peers : OrderIntent(p) \/ TakeCheckpoint(p)
    BY <1>3, OrderKept, TakeKept
<1>4. CASE ExpireCheckpoint
    BY <1>4, ExpireKept
<1>5. CASE HostCrash \/ HostRestart \/ LinkDown \/ LinkUp
    BY <1>5, CrashKept, RestartKept, LinkKept
<1>6. CASE \E p \in Peers : Apply(p) \/ Attest(p) \/ SubmitWork(p) \/ SubmitPause(p)
    BY <1>6, ApplyKept, SubmitsKept
<1>7. CASE SubmitStart
    BY <1>7, StartKept
<1> QED BY <1>1, <1>2, <1>3, <1>4, <1>5, <1>6, <1>7 DEF Next

\* The invariant behind every theorem here: memory, journal, messages and games of a
\* session that starts, at every crash point.
THEOREM Inductive == Spec => []IInv
BY InitInv, NextInv, PTL DEF Spec

\* It gives the type invariant.
LEMMA InvType == IInv => TypeOK
<1> SUFFICES ASSUME IInv PROVE TypeOK
    OBVIOUS
<1>1. Types /\ log \in Seq(EntryType(scene)) /\ Len(log) \in Nat
    BY DEF IInv, Types
<1>2. ASSUME NEW n \in 1..Len(log)
      PROVE  /\ log[n].type \in Intents \union {"rejected", "record", "outcome"}
             /\ log[n].type \in {"record", "outcome"} => log[n].at \in 1..(n - 1)
    <2>1. log[n].type \in Intents \union {"rejected", "record", "outcome"}
        BY <1>1, EntryFields
    <2> QED BY <2>1 DEF IInv, Shown, Shows, Fit
<1>3. mem.at \in 0..Len(log) /\ mem.start \in Starts /\ DOMAIN mem.open \subseteq 1..Len(log)
    <2>1. mem.at \in 0..Len(log) /\ mem.start \in Starts /\ mem.open \in Boundaries(Len(log))
        BY <1>1 DEF Types, MemoryType
    <2> QED BY <2>1, BoundariesMean
<1>4. ASSUME NEW p \in Peers
      PROVE  /\ game[p].cursor \in 0..Len(log)
             /\ DOMAIN game[p].barrier \subseteq 1..Len(log)
             /\ game[p].latch \in Intents \union {None}
    <2>1. game[p] \in GameType(scene, Len(log))
        BY <1>1 DEF Types
    <2> QED BY <2>1, GameFields, BarriersMean
<1> QED BY <1>1, <1>2, <1>3, <1>4 DEF TypeOK, Types, Starts

\* Every variable has its type: TypeOK.
THEOREM TypeCorrect == Spec => []TypeOK
BY Inductive, InvType, PTL

\* No entry of play comes before the agreement.
LEMMA InvPlay == IInv => PlayAfterAgreement
<1> SUFFICES ASSUME IInv, Fenced, NEW n \in 1..Len(log), log[n].type = "work"
             PROVE  \E k \in 1..(n - 1) :
                       /\ log[k].type = "outcome" /\ log[k].ok
                       /\ log[log[k].at].type \in StartTypes
    BY DEF PlayAfterAgreement
<1>1. Reached(log, n - 1)
    BY DEF IInv, Shown, Shows, Fenced
<1> QED BY <1>1 DEF Reached, Agreement

\* In a fenced session no ordered work precedes the agreed checkpoint of its start,
\* whatever crashes (the gate at the top of CommitHost._commit): PlayAfterAgreement.
THEOREM PlaysAfterAgreement == Spec => []PlayAfterAgreement
BY Inductive, InvPlay, PTL

\* Whoever started did so together with the other.
LEMMA InvStarted == IInv => StartedTogether
<1> SUFFICES ASSUME IInv, mem.agreed
             PROVE  /\ scene.world[Host] = scene.world[Client]
                    /\ scene.kind = "plan" => scene.world[Host] = Planned
                    /\ scene.kind \in {"open", "fresh"} =>
                          /\ mem.att[Host] = mem.att[Client]
                          /\ ~Ambiguous(mem.att[Host])
                    /\ \E n \in 1..Len(log) :
                          /\ log[n].type \in StartTypes
                          /\ \A p \in Peers : n \in DOMAIN game[p].barrier
    BY DEF StartedTogether
<1>0. Len(log) \in Nat /\ Host \in Peers /\ Client \in Peers
    BY DEF IInv, Types, Peers
<1>1. Knows(scene, mem, log, Len(log))
    <2>1. mem # Fresh
        BY DEF Fresh
    <2> QED BY <2>1 DEF IInv, Minds
<1>2. PICK a \in 1..Len(log) : Agreement(log, a)
    BY <1>1 DEF Knows, Agreed
<1>3. Together(scene, log, a - 1, game)
    BY <1>2 DEF IInv, Shown, Shows
<1>4. PICK k \in 1..(a - 1) : /\ log[k].type \in StartTypes
                              /\ \A p \in Peers : k \in DOMAIN game[p].barrier
    BY <1>3 DEF Together
<1>5. k \in 1..Len(log) /\ Shows(scene, log, k, game)
    BY <1>0, <1>2, <1>4 DEF IInv, Shown
<1>6. log[k].type = StartOf(scene) /\ Planful(scene)
    BY <1>4, <1>5 DEF Shows
<1>7. ASSUME scene.kind \in {"open", "fresh"}
      PROVE  mem.att[Host] = mem.att[Client] /\ ~Ambiguous(mem.att[Host])
    <2>1. log[k].type = "initialise"
        BY <1>6, <1>7 DEF StartOf
    <2>2. PICK v : Alike(log, k - 1, v)
        BY <1>5, <2>1 DEF Shows
    <2>3. ASSUME NEW p \in Peers PROVE mem.att[p] = v
        <3>1. PICK i \in 1..(k - 1) : First(log, p, i) /\ log[i].val = v
            BY <2>2 DEF Alike
        <3>2. i \in 1..Len(log)
            BY <1>0, <1>5, <3>1
        <3>3. mem.att[p] # None
            BY <1>1, <3>1, <3>2 DEF Knows, Attested, First
        <3>4. PICK j \in 1..Len(log) : First(log, p, j) /\ log[j].val = mem.att[p]
            BY <1>1, <3>3 DEF Knows, Attested
        <3>5. i = j
            BY <3>1, <3>2, <3>4 DEF First
        <3> QED BY <3>1, <3>4, <3>5
    <2> QED BY <1>0, <2>2, <2>3 DEF Alike
<1> QED BY <1>3, <1>4, <1>5, <1>6, <1>7 DEF Together, Planful

\* Games that started did so from one world, with contents that were attested alike
\* (industry_content.py, restore_session.py): StartedTogether.
THEOREM StartsTogether == Spec => []StartedTogether
BY Inductive, InvStarted, PTL
============================================================================
