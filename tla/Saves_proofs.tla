---------------------------- MODULE Saves_proofs ----------------------------
(***************************************************************************)
(* Machine-checked proofs about the saves of a session: the save points    *)
(* that are taken while it runs (RestorePoints), and the transfer of the   *)
(* save it starts from (SaveSync).                                         *)
(*                                                                         *)
(* RestorePoints, for any number of players, of preparations, crashes and  *)
(* faults: the receipts of a boundary follow its one outcome with no work  *)
(* in between (PlanFollows), and the saves of a boundary that every game   *)
(* has a receipt for are of one world (RestorePointsAgree).                *)
(*                                                                         *)
(* The argument.  What a handler writes fits the journal before it, also   *)
(* when a crash keeps only the first of its entries: a boundary is opened  *)
(* only when no other is pending, and has one outcome (Sound).  While      *)
(* nothing but receipts follows the outcome of a request, the boundary is  *)
(* owned (OwnedBy).  A game is told that a boundary is READY only when     *)
(* every game was heard, paused and at one instant, past the outcome;      *)
(* while the boundary is owned the games stay there (Steady), but for a    *)
(* late resume of the engine, which is remembered (Moved), so they stand   *)
(* there still or one of them ran on (Frozen).  A save is taken then, and  *)
(* a receipt is ordered only while the boundary is owned: the two agree,   *)
(* in their instants too unless a game ran on.                             *)
(***************************************************************************)
EXTENDS RestorePoints, SaveSync, SequenceTheorems, FiniteSetTheorems,
        WellFoundedInduction, TLAPS

\* Entries have fields of their own, so no set of them is named.
IsSeq(s) == \E S : s \in Seq(S)
Begins(s, t) == Len(s) <= Len(t) /\ \A i \in 1..Len(s) : t[i] = s[i]

\* The domain of a sequence.
LEMMA SeqLen ==
  ASSUME NEW s, IsSeq(s)
  PROVE  Len(s) \in Nat /\ DOMAIN s = 1..Len(s)
BY DEF IsSeq

\* One entry more.
LEMMA SeqAppend ==
  ASSUME NEW s, IsSeq(s), NEW e
  PROVE  /\ IsSeq(Append(s, e)) /\ Len(Append(s, e)) = Len(s) + 1
         /\ Append(s, e)[Len(s) + 1] = e
         /\ \A i \in 1..Len(s) : Append(s, e)[i] = s[i]
<1>1. PICK S : s \in Seq(S)
  BY DEF IsSeq
<1> DEFINE T == S \union {e}
<1>2. s \in Seq(T) /\ e \in T
  BY <1>1, SeqMonotonic
<1> HIDE DEF T
<1>3. Append(s, e) \in Seq(T)
  BY <1>2
<1> QED BY <1>2, <1>3 DEF IsSeq

\* One sequence after the other.
LEMMA SeqJoin ==
  ASSUME NEW s, IsSeq(s), NEW t, IsSeq(t)
  PROVE  /\ IsSeq(s \o t) /\ Len(s \o t) = Len(s) + Len(t)
         /\ \A i \in 1..Len(s) : (s \o t)[i] = s[i]
         /\ \A i \in 1..Len(t) : (s \o t)[Len(s) + i] = t[i]
<1>1. PICK S, U : s \in Seq(S) /\ t \in Seq(U)
  BY DEF IsSeq
<1> DEFINE T == S \union U
<1>2. s \in Seq(T) /\ t \in Seq(T)
  BY <1>1, SeqMonotonic
<1> HIDE DEF T
<1>3. s \o t \in Seq(T)
  BY <1>2
<1> QED BY <1>2, <1>3 DEF IsSeq

\* The first n entries.
LEMMA SeqPart ==
  ASSUME NEW s, IsSeq(s), NEW n \in 0..Len(s)
  PROVE  /\ IsSeq(SubSeq(s, 1, n)) /\ Len(SubSeq(s, 1, n)) = n
         /\ \A i \in 1..n : SubSeq(s, 1, n)[i] = s[i]
<1>1. PICK S : s \in Seq(S)
  BY DEF IsSeq
<1>2. SubSeq(s, 1, n) \in Seq(S)
  BY <1>1
<1> QED BY <1>1, <1>2 DEF IsSeq

\* The greatest of some numbers up to n.
LEMMA Greatest ==
  ASSUME NEW n \in Nat, NEW S \in SUBSET (1..n), S # {}
  PROVE  Max(S) \in S /\ \A x \in S : x <= Max(S)
<1> DEFINE T == {n - x : x \in S}
<1>1. T \subseteq Nat /\ T # {}
  <2>1. \A x \in S : n - x \in Nat
    OBVIOUS
  <2> QED BY <2>1
<1>2. \E x \in T : \A y \in T : ~(<<y, x>> \in OpToRel(<, Nat))
  BY <1>1, NatLessThanWellFounded, WFMin
<1>3. PICK x \in T : \A y \in T : ~(<<y, x>> \in OpToRel(<, Nat))
  BY <1>2
<1>4. ASSUME NEW y \in T PROVE x <= y
  <2>1. <<y, x>> \notin {ss \in Nat \X Nat : ss[1] < ss[2]}
    BY <1>3 DEF OpToRel
  <2> QED BY <1>1, <2>1
<1>5. PICK m \in S : x = n - m
  BY <1>3
<1>6. \A y \in S : m >= y
  <2> SUFFICES ASSUME NEW y \in S PROVE m >= y
    OBVIOUS
  <2>1. x <= n - y
    BY <1>4
  <2> QED BY <1>5, <2>1
<1>7. \E k \in S : \A y \in S : k >= y
  BY <1>5, <1>6
<1> DEFINE P(k) == k \in S /\ \A y \in S : k >= y
<1>8. P(CHOOSE k : P(k))
  <2> HIDE DEF P
  <2>1. \E k : P(k)
    BY <1>7 DEF P
  <2> QED BY <2>1, Zenon
<1>9. Max(S) = CHOOSE k : P(k)
  BY DEF Max, P
<1> QED BY <1>8, <1>9
-----------------------------------------------------------------------------
(* The journal.                                                            *)

Loose == {"cancel", "clock", "release", "probe", "fault"}
Openers == {"work", "prepare", "request"}

Opens(L, b) == L[b].type \in {"work", "request"}
Ends(L, i, b) ==
  \/ L[i].type = "outcome" /\ L[i].boundary = b
  \/ L[i].type = "cancel" /\ L[b].type = "request" /\ L[b].prep = L[i].prep
SettledBy(L, b, n) == \E i \in b + 1 .. n : Ends(L, i, b)
Won(L, o, b) == L[o].type = "outcome" /\ L[o].boundary = b /\ L[o].success

\* The receipts of a boundary follow its outcome, with no work in between, and all tell
\* of the gameplay up to the boundary.
Works(L, b) == {k \in 1..b : L[k].type = "work"}
Attests(L, i) ==
  /\ \E o \in 1 .. i - 1 : /\ Won(L, o, L[i].boundary)
                          /\ \A j \in o .. i : L[j].type \notin WorkTypes
  /\ L[i].boundary \in 1 .. i - 1
  /\ L[i].save.boundary = L[i].boundary /\ L[i].save.works = Works(L, L[i].boundary)

\* What is true of entry i when it is ordered.
Fit(L, i) ==
  /\ L[i].type \in Loose \union Openers \union {"outcome", "receipt"}
  /\ L[i].type \in Openers => \A b \in 1 .. i - 1 : Opens(L, b) => SettledBy(L, b, i - 1)
  /\ L[i].type = "outcome" =>
       /\ L[i].boundary \in 1 .. i - 1 /\ Opens(L, L[i].boundary)
       /\ ~SettledBy(L, L[i].boundary, i - 1)
  /\ L[i].type = "receipt" => Attests(L, i)

\* Whether an entry fits depends on the entries up to it.
LEMMA FitKept ==
  ASSUME NEW L, NEW M, NEW i \in Nat \ {0}, \A j \in 1..i : M[j] = L[j], Fit(L, i)
  PROVE  Fit(M, i)
<1>1. \A j \in 1..i : M[j] = L[j]
  OBVIOUS
<1>2. i \in Nat /\ M[i] = L[i] /\ \A b \in 1 .. i - 1 : b \in 1..i /\ M[b] = L[b]
  BY <1>1
<1>3. \A b \in 1 .. i - 1 : Opens(M, b) <=> Opens(L, b)
  BY <1>2 DEF Opens
<1>4. ASSUME NEW b \in 1 .. i - 1
      PROVE  SettledBy(M, b, i - 1) <=> SettledBy(L, b, i - 1)
  <2>1. \A j \in b + 1 .. i - 1 : j \in 1 .. i - 1
    OBVIOUS
  <2>2. \A j \in b + 1 .. i - 1 : Ends(M, j, b) <=> Ends(L, j, b)
    BY <1>2, <2>1 DEF Ends
  <2> QED BY <2>2 DEF SettledBy
<1>5. ASSUME NEW o \in 1 .. i - 1, Won(L, o, L[i].boundary),
             \A j \in o .. i : L[j].type \notin WorkTypes
      PROVE  Won(M, o, M[i].boundary) /\ \A j \in o .. i : M[j].type \notin WorkTypes
  <2>1. M[o] = L[o]
    BY <1>2
  <2>2. Won(M, o, M[i].boundary)
    BY <1>5, <1>2, <2>1 DEF Won
  <2>3. \A j \in o .. i : M[j] = L[j]
    BY <1>1
  <2> QED BY <1>5, <2>2, <2>3
<1>6. M[i].type \in Loose \union Openers \union {"outcome", "receipt"}
  BY <1>2 DEF Fit
<1>7. ASSUME M[i].type \in Openers
      PROVE  \A b \in 1 .. i - 1 : Opens(M, b) => SettledBy(M, b, i - 1)
  BY <1>2, <1>3, <1>4, <1>7 DEF Fit
<1>8. ASSUME M[i].type = "outcome"
      PROVE  /\ M[i].boundary \in 1 .. i - 1 /\ Opens(M, M[i].boundary)
             /\ ~SettledBy(M, M[i].boundary, i - 1)
  BY <1>2, <1>3, <1>4, <1>8 DEF Fit
<1>9. ASSUME M[i].type = "receipt"
      PROVE  Attests(M, i)
  <2> DEFINE b == L[i].boundary
  <2>1. Attests(L, i)
    BY <1>2, <1>9 DEF Fit
  <2>2. \E o \in 1 .. i - 1 : /\ Won(M, o, M[i].boundary)
                              /\ \A j \in o .. i : M[j].type \notin WorkTypes
    <3>1. PICK o \in 1 .. i - 1 : /\ Won(L, o, L[i].boundary)
                                  /\ \A j \in o .. i : L[j].type \notin WorkTypes
      BY <2>1 DEF Attests
    <3> QED BY <1>5, <3>1
  <2>3. b \in 1 .. i - 1 /\ \A k \in 1..b : M[k] = L[k]
    BY <1>1, <2>1 DEF Attests
  <2>4. Works(M, b) = Works(L, b)
    BY <2>3 DEF Works
  <2>5. M[i].boundary = b /\ M[i].save = L[i].save
    BY <1>2
  <2> HIDE DEF b
  <2>6. M[i].save.boundary = b /\ M[i].save.works = Works(M, b)
    BY <2>1, <2>4, <2>5 DEF Attests, b
  <2> QED BY <2>2, <2>3, <2>5, <2>6 DEF Attests
<1> QED BY <1>6, <1>7, <1>8, <1>9 DEF Fit

Sound(L) == IsSeq(L) /\ \A i \in 1..Len(L) : Fit(L, i)

\* A boundary has one outcome.
LEMMA OneOutcome ==
  ASSUME NEW L, Sound(L), NEW i \in 1..Len(L), NEW j \in 1..Len(L),
         L[i].type = "outcome", L[j].type = "outcome", L[i].boundary = L[j].boundary
  PROVE  i = j
<1>1. Len(L) \in Nat /\ i \in Nat /\ j \in Nat
  BY SeqLen DEF Sound
<1>2. ASSUME NEW k \in 1..Len(L), NEW m \in 1..Len(L), L[k].type = "outcome",
             L[m].type = "outcome", L[k].boundary = L[m].boundary, k < m
      PROVE  FALSE
  <2>1. L[k].boundary \in 1 .. k - 1 /\ ~SettledBy(L, L[m].boundary, m - 1)
    BY <1>2 DEF Sound, Fit
  <2>2. Ends(L, k, L[m].boundary)
    BY <1>2 DEF Ends
  <2>3. k \in L[m].boundary + 1 .. m - 1
    BY <1>1, <1>2, <2>1
  <2> QED BY <2>1, <2>2, <2>3 DEF SettledBy
<1>3. i < j \/ j < i \/ i = j
  BY <1>1
<1> QED BY <1>2, <1>3
-----------------------------------------------------------------------------
(* What a handler does to the memory of the host.                          *)

IsHost(h) ==
  h = [up |-> h.up, wrote |-> h.wrote, fault |-> h.fault, prep |-> h.prep,
       sched |-> h.sched, health |-> h.health]

Failed(e) == e.type = "outcome" /\ ~e.success

\* The handler that is running has written fitting entries, and knows its faults.
Chained(h) ==
  /\ IsHost(h) /\ h.up /\ h.health = host.health /\ IsSeq(h.wrote)
  /\ Sound(Log(h))
  /\ host.fault => h.fault
  /\ \A i \in 1..Len(h.wrote) : /\ Failed(h.wrote[i]) => h.fault
                                /\ h.wrote[i].type # "receipt"

Alike(g, h) == g.up = h.up /\ g.health = h.health /\ g.wrote = h.wrote /\ g.fault = h.fault

\* The preparation and the scheduler are no part of Chained.
LEMMA ChainedAlike ==
  ASSUME NEW h, Chained(h), NEW g, IsHost(g), Alike(g, h)
  PROVE  Chained(g)
<1>1. Log(g) = Log(h)
  BY DEF Log, Alike
<1> QED BY <1>1 DEF Chained, Alike

\* The journal as the handler sees it, with an entry more.
LEMMA LogMore ==
  ASSUME IsSeq(log), NEW h, IsSeq(h.wrote), NEW g, NEW e, g.wrote = Append(h.wrote, e)
  PROVE  /\ Log(g) = Append(Log(h), e) /\ IsSeq(Log(h))
         /\ Len(Log(h)) = Len(log) + Len(h.wrote)
<1>1. Log(g) = log \o Append(h.wrote, e)
  BY DEF Log
<1>2. PICK S, T : log \in Seq(S) /\ h.wrote \in Seq(T)
  BY DEF IsSeq
<1> DEFINE U == (S \union T) \union {e}
<1>3. log \in Seq(U) /\ h.wrote \in Seq(U) /\ e \in U
  BY <1>2, SeqMonotonic
<1> HIDE DEF U
<1>4. log \o Append(h.wrote, e) = Append(log \o h.wrote, e)
  BY <1>3
<1> QED BY <1>1, <1>4, SeqJoin DEF Log

\* One entry more.
LEMMA PutChained ==
  ASSUME IsSeq(log), NEW h, Chained(h), NEW e, Fit(Append(Log(h), e), Tip(h) + 1),
         e.type # "receipt"
  PROVE  Chained(Write(h, e)) /\ Write(h, e).wrote = Append(h.wrote, e)
<1> DEFINE P == Observe(h.prep, e, Tip(h) + 1, FALSE)
           F == h.fault \/ Faults(e)
           g == Write(h, e)
<1>1. g = [h EXCEPT !.wrote = Append(h.wrote, e), !.fault = F, !.prep = P]
  BY Zenon DEF Write
<1> HIDE DEF P, g
<1>2. /\ g.up = h.up /\ g.wrote = Append(h.wrote, e) /\ g.fault = F
      /\ g.health = h.health /\ IsHost(g)
  <2>1. IsHost(h)
    BY DEF Chained
  <2>2. DOMAIN h = {"up", "wrote", "fault", "prep", "sched", "health"}
    BY <2>1 DEF IsHost
  <2> QED BY <1>1, <2>1, <2>2 DEF IsHost
<1>3. /\ Log(g) = Append(Log(h), e) /\ IsSeq(Log(h)) /\ IsSeq(h.wrote)
      /\ Tip(h) = Len(Log(h))
  BY <1>2, LogMore DEF Chained, Tip
<1>4. /\ IsSeq(Log(g)) /\ Len(Log(g)) = Tip(h) + 1 /\ Tip(h) \in Nat
      /\ \A i \in 1..Len(Log(h)) : Log(g)[i] = Log(h)[i]
  BY <1>3, SeqAppend, SeqLen
<1>6. \A i \in 1..Len(Log(h)) : Fit(Log(g), i)
  <2> SUFFICES ASSUME NEW i \in 1..Len(Log(h)) PROVE Fit(Log(g), i)
    OBVIOUS
  <2>1. Fit(Log(h), i) /\ i \in Nat \ {0} /\ \A j \in 1..i : j \in 1..Len(Log(h))
    BY <1>3, <1>4 DEF Chained, Sound
  <2>2. \A j \in 1..i : Log(g)[j] = Log(h)[j]
    BY <1>4, <2>1
  <2> QED BY <2>1, <2>2, FitKept
<1>7. Sound(Log(g))
  BY <1>3, <1>4, <1>6 DEF Sound
<1>8. \A i \in 1..Len(g.wrote) : /\ Failed(g.wrote[i]) => g.fault
                                 /\ g.wrote[i].type # "receipt"
  <2> SUFFICES ASSUME NEW i \in 1..Len(g.wrote)
               PROVE  (Failed(g.wrote[i]) => g.fault) /\ g.wrote[i].type # "receipt"
    OBVIOUS
  <2>1. /\ Len(g.wrote) = Len(h.wrote) + 1 /\ Len(h.wrote) \in Nat
        /\ g.wrote[Len(h.wrote) + 1] = e
        /\ \A k \in 1..Len(h.wrote) : g.wrote[k] = h.wrote[k]
    BY <1>2, <1>3, SeqAppend, SeqLen
  <2>2. CASE i \in 1..Len(h.wrote)
    BY <1>2, <2>1, <2>2 DEF Chained
  <2>3. CASE i = Len(h.wrote) + 1
    BY <1>2, <2>1, <2>3 DEF Failed, Faults
  <2> QED BY <2>1, <2>2, <2>3
<1>9. IsSeq(g.wrote)
  BY <1>2, <1>3, SeqAppend
<1> QED BY <1>2, <1>7, <1>8, <1>9 DEF Chained, g

\* What the answers of the host hold.
LEMMA Answers == \A h : Yes(h).host = h /\ No(h).host = h /\ Yes(h).ok /\ ~No(h).ok
BY DEF Yes, No

\* An entry that opens no boundary always fits.
LEMMA PutLoose ==
  ASSUME IsSeq(log), NEW h, Chained(h), NEW e, e.type \in Loose
  PROVE  Chained(Write(h, e))
<1> DEFINE L == Append(Log(h), e)
<1>1. IsSeq(Log(h)) /\ Tip(h) = Len(Log(h))
  BY SeqJoin DEF Chained, Log, Tip
<1>2. L[Tip(h) + 1] = e
  BY <1>1, SeqAppend
<1> HIDE DEF L
<1>3. Fit(L, Tip(h) + 1)
  BY <1>2 DEF Fit, Loose, Openers
<1> QED BY <1>3, PutChained DEF L, Loose

\* Work, a preparation or a request fits when no boundary is open.
LEMMA PutOpener ==
  ASSUME IsSeq(log), NEW h, Chained(h), NEW e, e.type \in Openers, Boundaries(h) = {}
  PROVE  Chained(Write(h, e))
<1> DEFINE L == Append(Log(h), e)
           n == Len(Log(h))
<1>1. IsSeq(Log(h)) /\ Tip(h) = n /\ n \in Nat /\ DOMAIN Log(h) = 1..n
  BY SeqJoin, SeqLen DEF Chained, Log, Tip
<1>2. L[n + 1] = e /\ \A i \in 1..n : L[i] = Log(h)[i]
  BY <1>1, SeqAppend
<1> HIDE DEF L, n
<1>3. ASSUME NEW b \in 1..n, Opens(L, b)
      PROVE  SettledBy(L, b, n)
  <2>1. Log(h)[b].type \in {"work", "request"}
    BY <1>2, <1>3 DEF Opens
  <2>2. b \in Of(h, {"work", "request"})
    BY <1>1, <2>1 DEF Of
  <2>3. Settled(h, b)
    BY <2>2 DEF Boundaries
  <2>4. PICK i \in b + 1 .. n :
          \/ Log(h)[i].type = "outcome" /\ Log(h)[i].boundary = b
          \/ /\ Log(h)[i].type = "cancel" /\ Log(h)[b].type = "request"
             /\ Log(h)[b].prep = Log(h)[i].prep
    BY <2>3 DEF Settled, n
  <2>5. L[i] = Log(h)[i] /\ L[b] = Log(h)[b]
    BY <1>1, <1>2
  <2>6. Ends(L, i, b)
    BY <2>4, <2>5 DEF Ends
  <2> QED BY <2>6 DEF SettledBy
<1>4. (n + 1) - 1 = n
  BY <1>1
<1>5. \A b \in 1 .. (n + 1) - 1 : Opens(L, b) => SettledBy(L, b, (n + 1) - 1)
  BY <1>3, <1>4
<1>6. Fit(L, n + 1)
  BY <1>2, <1>5 DEF Fit, Openers
<1> QED BY <1>1, <1>6, PutChained DEF L, Openers

\* A clock entry may come at any time.
LEMMA ClockChained ==
  ASSUME IsSeq(log), NEW h, Chained(h), NEW speed, NEW by, NEW fresh
  PROVE  Chained(PutClock(h, speed, by, fresh).host)
<1> DEFINE e == [type |-> "clock", speed |-> speed, by |-> by,
                 target |-> IF fresh THEN Max({game[p].at : p \in Peer}) ELSE 0]
<1>1. e.type \in Loose
  BY DEF Loose
<1>2. \/ PutClock(h, speed, by, fresh) = No(h)
      \/ PutClock(h, speed, by, fresh) = Yes(Write(h, e))
  BY Zenon DEF PutClock
<1> HIDE DEF e
<1> QED BY <1>1, <1>2, Answers, PutLoose

\* To retire a preparation orders nothing.
LEMMA RetireChained ==
  ASSUME NEW h, Chained(h)
  PROVE  Chained(Retire(h))
<1> DEFINE q == IF h.prep.status \notin Pending THEN Nobody ELSE h.prep
           g == Retire(h)
<1>1. g = [h EXCEPT !.prep = q]
  BY DEF Retire
<1> HIDE DEF q, g
<1>2. IsHost(h) /\ DOMAIN h = {"up", "wrote", "fault", "prep", "sched", "health"}
  BY DEF Chained, IsHost
<1>3. IsHost(g) /\ Alike(g, h)
  BY <1>1, <1>2 DEF IsHost, Alike
<1> QED BY <1>3, ChainedAlike DEF g

\* An assignment to a field of the preparation, or of the scheduler.
LEMMA FieldChained ==
  ASSUME NEW h, Chained(h), NEW f, NEW q
  PROVE  /\ Chained([h EXCEPT !.prep[f] = q]) /\ Chained([h EXCEPT !.sched[f] = q])
         /\ [h EXCEPT !.prep[f] = q].wrote = h.wrote
<1>1. IsHost(h) /\ DOMAIN h = {"up", "wrote", "fault", "prep", "sched", "health"}
  BY DEF Chained, IsHost
<1> DEFINE g == [h EXCEPT !.prep[f] = q]
           k == [h EXCEPT !.sched[f] = q]
<1>2. IsHost(g) /\ Alike(g, h) /\ IsHost(k) /\ Alike(k, h)
  BY <1>1 DEF IsHost, Alike
<1>3. g.wrote = h.wrote
  BY <1>2 DEF Alike
<1> QED BY <1>2, <1>3, ChainedAlike

\* Nor does a scheduler that becomes idle.
LEMMA IdleChained ==
  ASSUME NEW h, Chained(h)
  PROVE  Chained(Idle(h))
<1> DEFINE a == [h EXCEPT !.sched["seq"] = 0]
           b == [a EXCEPT !.sched["resume"] = 0]
           c == [b EXCEPT !.sched["seen"] = FALSE]
<1>1. Idle(h) = c
  BY DEF Idle
<1> HIDE DEF c
<1>2. Chained(a)
  BY FieldChained
<1> HIDE DEF a
<1>3. Chained(b)
  BY <1>2, FieldChained
<1> HIDE DEF b
<1>4. Chained(c)
  <2>1. \A q : Chained([b EXCEPT !.sched["seen"] = q])
    BY <1>3, FieldChained
  <2> QED BY <2>1, Zenon DEF c
<1> QED BY <1>1, <1>4

\* Nor a status that changes.
LEMMA StatusChained ==
  ASSUME NEW h, Chained(h), NEW status
  PROVE  Chained([h EXCEPT !.prep.status = status])
BY FieldChained

\* A cancellation may come at any time.
LEMMA CancelChained ==
  ASSUME IsSeq(log), NEW h, Chained(h), NEW seq, NEW why
  PROVE  Chained(PutCancel(h, seq, why).host)
<1> DEFINE e == [type |-> "cancel", prep |-> seq, why |-> why]
<1>1. e.type \in Loose
  BY DEF Loose
<1>2. \/ PutCancel(h, seq, why) = No(h)
      \/ PutCancel(h, seq, why) = Yes(Write(h, e))
      \/ PutCancel(h, seq, why) = Yes(Write(Retire(h), e))
  BY Zenon DEF PutCancel
<1> HIDE DEF e
<1>3. Chained(Write(h, e)) /\ Chained(Write(Retire(h), e))
  BY <1>1, PutLoose, RetireChained
<1> QED BY <1>2, <1>3, Answers

\* So may the clock request of the scheduler.
LEMMA ResumeChained ==
  ASSUME IsSeq(log), NEW h, Chained(h), NEW fresh
  PROVE  Chained(ResumeAsBefore(h, fresh))
<1>1. \/ ResumeAsBefore(h, fresh) = h
      \/ ResumeAsBefore(h, fresh) = PutClock(h, h.sched.resume, "recovery", fresh).host
  BY Zenon DEF ResumeAsBefore
<1> QED BY <1>1, ClockChained

\* The preemption for gameplay: a cancellation and a clock.
LEMMA PreemptChained ==
  ASSUME IsSeq(log), NEW h, Chained(h), NEW fresh
  PROVE  Chained(Preempt(h, fresh))
<1> DEFINE seq == IF h.sched.seq # 0 THEN h.sched.seq ELSE h.prep.seq
           c == PutCancel([h EXCEPT !.prep.status = "superseded"], seq, "gameplay")
<1>1. Chained(c.host)
  BY StatusChained, CancelChained
<1>2. Preempt(h, fresh) = Idle(ResumeAsBefore(Retire(c.host), fresh))
  BY Zenon DEF Preempt
<1> HIDE DEF c
<1> QED BY <1>1, <1>2, RetireChained, ResumeChained, IdleChained

\* So the fence writes only what fits, whatever it answers.
LEMMA FenceChained ==
  ASSUME IsSeq(log), NEW h, Chained(h), NEW fresh
  PROVE  Chained(Fence(h, fresh).host)
<1>1. \/ Fence(h, fresh) = Yes(h) \/ Fence(h, fresh) = No(h)
      \/ Fence(h, fresh) = Yes(Preempt(h, fresh)) \/ Fence(h, fresh) = Yes(Retire(h))
  BY Zenon DEF Fence
<1> QED BY <1>1, Answers, PreemptChained, RetireChained

\* So does the end of the scheduler.
LEMMA SchedulerChained ==
  ASSUME IsSeq(log), NEW h, Chained(h), NEW fresh
  PROVE  Chained(SchedulerResume(h, fresh))
<1> DEFINE drains == /\ h.prep.status = "draining"
                     /\ h.prep.resume = h.sched.resume
           fence == IF drains THEN Yes(h) ELSE Fence(h, fresh)
           g == [fence.host EXCEPT !.sched.resume = h.sched.resume]
<1>1. Chained(fence.host)
  BY Answers, FenceChained
<1>2. \/ SchedulerResume(h, fresh) = Idle(h)
      \/ SchedulerResume(h, fresh) = Idle(ResumeAsBefore(g, fresh))
  BY Zenon DEF SchedulerResume
<1>3. Chained(g)
  <2> DEFINE f == fence.host
  <2> HIDE DEF fence
  <2>1. IsHost(f) /\ DOMAIN f = {"up", "wrote", "fault", "prep", "sched", "health"}
    BY <1>1 DEF Chained, IsHost
  <2>2. IsHost(g) /\ Alike(g, f)
    BY <2>1 DEF IsHost, Alike
  <2> QED BY <1>1, <2>2, ChainedAlike
<1> HIDE DEF g
<1> QED BY <1>2, <1>3, ResumeChained, IdleChained

\* Handlers of the preparation.
LEMMA RoundsChained ==
  ASSUME IsSeq(log), NEW h, Chained(h), NEW fresh
  PROVE  Chained(ResumeRounds(h, fresh))
<1> DEFINE s == Max({1, h.prep.resume})
           g == [h EXCEPT !.prep.status = "draining", !.prep.resume = s]
<1>1. Chained(g)
  <2> DEFINE a == [h EXCEPT !.prep["status"] = "draining"]
  <2>1. g = [a EXCEPT !.prep["resume"] = s]
    OBVIOUS
  <2> HIDE DEF g
  <2>2. Chained(a)
    BY FieldChained
  <2> HIDE DEF a
  <2> QED BY <2>1, <2>2, FieldChained
<1>2. ResumeRounds(h, fresh) = PutClock(g, s, "recovery", fresh).host
  BY Zenon DEF ResumeRounds
<1> HIDE DEF g, s
<1> QED BY <1>1, <1>2, ClockChained

\* The pause, and the second one after a skew.
LEMMA PauseChained ==
  ASSUME IsSeq(log), NEW h, Chained(h), NEW fresh
  PROVE  Chained(BeginPause(h, fresh))
<1> DEFINE g == [h EXCEPT !.prep.status = "pausing"]
<1>1. Chained(g)
  BY StatusChained
<1>2. BeginPause(h, fresh) = g \/ BeginPause(h, fresh) = PutClock(g, 0, "recovery", fresh).host
  BY Zenon DEF BeginPause
<1> HIDE DEF g
<1> QED BY <1>1, <1>2, ClockChained

\* The second pause, at the instant of the game that is ahead.
LEMMA ResynchronizeChained ==
  ASSUME IsSeq(log), NEW h, Chained(h)
  PROVE  Chained(Resynchronize(h))
<1> DEFINE g == [h EXCEPT !.prep.status = "pausing", !.prep.boundary = 0]
<1>1. Chained(g)
  <2> DEFINE a == [h EXCEPT !.prep["status"] = "pausing"]
  <2>1. g = [a EXCEPT !.prep["boundary"] = 0]
    OBVIOUS
  <2> HIDE DEF g
  <2>2. Chained(a)
    BY FieldChained
  <2> HIDE DEF a
  <2> QED BY <2>1, <2>2, FieldChained
<1> HIDE DEF g
<1>2. \A fresh : Chained(PutClock(g, 0, "recovery", fresh).host)
  BY <1>1, ClockChained
<1>3. Resynchronize(h) = PutClock(g, 0, "recovery", TRUE).host
  BY Zenon DEF Resynchronize, g
<1> QED BY <1>2, <1>3, Zenon
-----------------------------------------------------------------------------
(* The journal after a handler.                                            *)

HostOK ==
  /\ IsHost(host) /\ host.wrote = <<>> /\ DOMAIN host.health = Peer
  /\ ~host.up => \A p \in Peer : host.health[p] = Silent
  /\ host.up => \A i \in 1..Len(log) : Failed(log[i]) => host.fault

Deaf == \A p \in Peer : host.health[p] = Silent

Grows ==
  /\ Sound(log') /\ Begins(log, log') /\ HostOK'
  /\ \A i \in Len(log) + 1 .. Len(log') : log'[i].type # "receipt"
  /\ host'.health = host.health \/ Deaf'

\* A host that knows nothing.
LEMMA FreshOK ==
  /\ IsHost(Fresh) /\ Fresh.wrote = <<>> /\ DOMAIN Fresh.health = Peer
  /\ DOMAIN Fresh = {"up", "wrote", "fault", "prep", "sched", "health"}
  /\ Fresh.up /\ ~Fresh.fault /\ \A p \in Peer : Fresh.health[p] = Silent
BY DEF Fresh, IsHost

\* Between two handlers the journal is all that was written.
LEMMA LogNow ==
  ASSUME IsSeq(log), NEW h, h.wrote = <<>>
  PROVE  Log(h) = log /\ Tip(h) = Len(log)
<1>1. PICK S : log \in Seq(S)
  BY DEF IsSeq
<1>2. log \o <<>> = log
  BY <1>1
<1> QED BY <1>1, <1>2 DEF Log, Tip

\* A handler begins with nothing written.
LEMMA HostChained ==
  ASSUME Sound(log), HostOK, host.up
  PROVE  Chained(host)
<1>1. Log(host) = log
  BY LogNow DEF HostOK, Sound
<1>2. IsSeq(<<>>) /\ Len(<<>>) = 0
  BY DEF IsSeq
<1> QED BY <1>1, <1>2 DEF Chained, HostOK

\* A handler ends, or crashes after some of its appends.
LEMMA HandlerEnded ==
  ASSUME Sound(log), HostOK, host.up, NEW h, Chained(h), NEW n \in 0..Len(h.wrote),
         host' = IF n < Len(h.wrote) THEN [Fresh EXCEPT !.up = FALSE]
                                     ELSE [h EXCEPT !.wrote = <<>>],
         log' = log \o SubSeq(h.wrote, 1, n)
  PROVE  Grows
<1> DEFINE w == SubSeq(h.wrote, 1, n)
           m == Len(log)
<1>1. /\ IsSeq(log) /\ IsSeq(h.wrote) /\ m \in Nat /\ Len(h.wrote) \in Nat
      /\ IsSeq(w) /\ Len(w) = n /\ \A i \in 1..n : w[i] = h.wrote[i]
  BY SeqLen, SeqPart DEF Sound, Chained
<1>2. /\ IsSeq(log') /\ Len(log') = m + n
      /\ \A i \in 1..m : log'[i] = log[i]
      /\ \A i \in 1..n : log'[m + i] = w[i]
  BY <1>1, SeqJoin
<1>3. /\ Len(Log(h)) = m + Len(h.wrote)
      /\ \A i \in 1..m : Log(h)[i] = log[i]
      /\ \A i \in 1..Len(h.wrote) : Log(h)[m + i] = h.wrote[i]
  BY <1>1, SeqJoin DEF Log
<1> HIDE DEF w
<1>4. ASSUME NEW i \in 1 .. m + n
      PROVE  log'[i] = Log(h)[i]
  <2>1. CASE i \in 1..m
    BY <1>2, <1>3, <2>1
  <2>2. CASE i \notin 1..m
    <3>1. i - m \in 1..n /\ i = m + (i - m) /\ i - m \in 1..Len(h.wrote)
      BY <1>1, <2>2
    <3> QED BY <1>1, <1>2, <1>3, <3>1
  <2> QED BY <2>1, <2>2
<1>5. Sound(log')
  <2> SUFFICES ASSUME NEW i \in 1..Len(log') PROVE Fit(log', i)
    BY <1>2 DEF Sound
  <2>1. i \in 1..Len(Log(h)) /\ i \in Nat \ {0} /\ \A j \in 1..i : j \in 1 .. m + n
    BY <1>1, <1>2, <1>3
  <2>2. Fit(Log(h), i) /\ \A j \in 1..i : log'[j] = Log(h)[j]
    BY <1>4, <2>1 DEF Chained, Sound
  <2> QED BY <2>1, <2>2, FitKept
<1>6. Begins(log, log')
  BY <1>1, <1>2 DEF Begins
<1>7. \A i \in m + 1 .. Len(log') : log'[i].type # "receipt"
  <2> SUFFICES ASSUME NEW i \in m + 1 .. m + n PROVE log'[i].type # "receipt"
    BY <1>2
  <2>0. m \in Nat /\ n \in Nat /\ n <= Len(h.wrote) /\ i \in m + 1 .. m + n
    BY <1>1
  <2>1. i - m \in 1..n /\ i = m + (i - m) /\ i - m \in 1..Len(h.wrote)
    <3> HIDE DEF m
    <3> QED BY <1>1, <2>0
  <2>2. log'[i] = h.wrote[i - m]
    BY <1>1, <1>2, <2>1
  <2> QED BY <2>1, <2>2 DEF Chained
<1>8. CASE n < Len(h.wrote)
  <2>1. host' = [Fresh EXCEPT !.up = FALSE]
    BY <1>8
  <2>2. IsHost(host') /\ host'.wrote = <<>> /\ ~host'.up /\ host'.health = Fresh.health
    BY <2>1, FreshOK DEF IsHost
  <2>3. HostOK' /\ Deaf'
    BY <2>2, FreshOK DEF HostOK, Deaf
  <2> QED BY <1>5, <1>6, <1>7, <2>3 DEF Grows
<1>9. CASE ~(n < Len(h.wrote))
  <2>1. host' = [h EXCEPT !.wrote = <<>>] /\ n = Len(h.wrote)
    BY <1>1, <1>9
  <2>2. IsHost(h) /\ DOMAIN h = {"up", "wrote", "fault", "prep", "sched", "health"}
    BY DEF Chained, IsHost
  <2>3. /\ IsHost(host') /\ host'.wrote = <<>> /\ host'.up = h.up
        /\ host'.health = host.health /\ host'.fault = h.fault
    BY <2>1, <2>2 DEF IsHost, Chained
  <2>4. ASSUME NEW i \in 1..Len(log'), Failed(log'[i])
        PROVE  host'.fault
    <3>1. CASE i \in 1..m
      <4>1. Failed(log[i]) /\ host.up
        BY <1>2, <2>4, <3>1
      <4> QED BY <2>3, <3>1, <4>1 DEF HostOK, Chained
    <3>2. CASE i \notin 1..m
      <4>1. i - m \in 1..n /\ i = m + (i - m)
        BY <1>1, <1>2, <3>2
      <4>2. log'[i] = h.wrote[i - m] /\ i - m \in 1..Len(h.wrote)
        BY <1>1, <1>2, <2>1, <4>1
      <4> QED BY <2>3, <2>4, <4>2 DEF Chained
    <3> QED BY <3>1, <3>2
  <2>5. HostOK'
    BY <2>3, <2>4 DEF HostOK, Chained
  <2> QED BY <1>5, <1>6, <1>7, <2>3, <2>5 DEF Grows
<1> QED BY <1>8, <1>9

\* So the journal is longer by entries that fit, or is as it was.
LEMMA HandleGrows ==
  ASSUME Sound(log), HostOK, host.up, NEW next, Chained(next), NEW cost, HandlerEnds(next, cost)
  PROVE  Grows
<1>1. PICK n \in 0..Len(next.wrote) :
        /\ host' = IF n < Len(next.wrote) THEN [Fresh EXCEPT !.up = FALSE]
                                          ELSE [next EXCEPT !.wrote = <<>>]
        /\ log' = log \o SubSeq(next.wrote, 1, n)
  BY DEF HandlerEnds
<1> QED BY <1>1, HandlerEnded

\* The same of a request of a player.
LEMMA StruckGrows ==
  ASSUME Sound(log), HostOK, host.up, NEW next, Chained(next), NEW cost, Struck(next, cost)
  PROVE  Grows
<1>1. PICK n \in 0..Len(next.wrote) :
        /\ host' = IF n < Len(next.wrote) THEN [Fresh EXCEPT !.up = FALSE]
                                          ELSE [next EXCEPT !.wrote = <<>>]
        /\ log' = log \o SubSeq(next.wrote, 1, n)
  BY DEF Struck
<1> QED BY <1>1, HandlerEnded

\* The requests of players.
LEMMA PlayerWorkGrows ==
  ASSUME Sound(log), HostOK, NEW fresh, PlayerWork(fresh)
  PROVE  Grows
<1> DEFINE e == [type |-> "work"]
           f == Fence(host, fresh)
           Do(h) == IF h.fault \/ Boundaries(h) # {} THEN No(h) ELSE Yes(Write(h, e))
           next == Commit(Do, fresh)
<1>1. host.up /\ Struck(next, IF fresh THEN 0 ELSE 1)
  BY Zenon DEF PlayerWork, Asked
<1>2. \/ next = host \/ next = No(f.host).host
      \/ Boundaries(f.host) = {} /\ next = Yes(Write(f.host, e)).host
  BY Zenon DEF Commit
<1>3. Chained(host) /\ Chained(f.host)
  BY <1>1, HostChained, FenceChained DEF Sound
<1>4. e.type \in Openers
  BY DEF Openers
<1> HIDE DEF e, f, next
<1>5. Chained(next)
  BY <1>2, <1>3, <1>4, Answers, PutOpener DEF Sound
<1> QED BY <1>1, <1>5, StruckGrows

\* A clock of a player.
LEMMA PlayerClockGrows ==
  ASSUME Sound(log), HostOK, NEW speed, NEW fresh, PlayerClock(speed, fresh)
  PROVE  Grows
<1> DEFINE f == Fence(host, fresh)
           Do(h) == PutClock(h, speed, "player", fresh)
           next == Commit(Do, fresh)
<1>1. host.up /\ Struck(next, IF fresh THEN 0 ELSE 1)
  BY Zenon DEF PlayerClock, Asked
<1>2. next = host \/ next = PutClock(f.host, speed, "player", fresh).host
  BY Zenon DEF Commit
<1>3. Chained(host) /\ Chained(f.host)
  BY <1>1, HostChained, FenceChained DEF Sound
<1> HIDE DEF f, next
<1>5. Chained(next)
  BY <1>2, <1>3, ClockChained DEF Sound
<1> QED BY <1>1, <1>5, StruckGrows

\* A preparation is refused while a boundary is pending.
LEMMA PrepareChained ==
  ASSUME IsSeq(log), NEW h, Chained(h), NEW auto
  PROVE  Chained(PutPrepare(h, auto).host)
<1> DEFINE e == [type |-> "prepare", auto |-> auto, resume |-> ResumeSpeed(h)]
<1>1. e.type \in Openers
  BY DEF Openers
<1>2. \/ PutPrepare(h, auto) = No(h)
      \/ Boundaries(h) = {} /\ PutPrepare(h, auto) = Yes(Write(h, e))
  BY Zenon DEF PutPrepare
<1> HIDE DEF e
<1> QED BY <1>1, <1>2, Answers, PutOpener

\* The preparation of a player.
LEMMA PlayerPrepareGrows ==
  ASSUME Sound(log), HostOK, PlayerPrepare
  PROVE  Grows
<1> DEFINE f == Fence(host, TRUE)
           Do(h) == PutPrepare(h, FALSE)
           next == Commit(Do, TRUE)
<1>1. host.up /\ Struck(next, 0)
  BY Zenon DEF PlayerPrepare, Asked
<1>2. next = host \/ next = PutPrepare(f.host, FALSE).host
  BY Zenon DEF Commit
<1>3. Chained(host) /\ \A fresh : Chained(Fence(host, fresh).host)
  BY <1>1, HostChained, FenceChained DEF Sound
<1>4. Chained(f.host)
  BY <1>3, Zenon
<1> HIDE DEF f, next
<1>5. \A auto : Chained(PutPrepare(f.host, auto).host)
  BY <1>4, PrepareChained DEF Sound
<1>6. Chained(next)
  BY <1>2, <1>3, <1>5, Zenon
<1> QED BY <1>1, <1>6, StruckGrows

\* The preparation of the scheduler.
LEMMA ScheduleGrows ==
  ASSUME Sound(log), HostOK, Schedule
  PROVE  Grows
<1> DEFINE f == Fence(host, TRUE)
           Do(h) == PutPrepare(h, TRUE)
           ordered == Commit(Do, TRUE)
           next == [ordered EXCEPT !.sched.seq = Tip(ordered), !.sched.resume = Speed(host)]
           a == [ordered EXCEPT !.sched["seq"] = Tip(ordered)]
<1>1. host.up /\ HandlerEnds(next, 0)
  BY Zenon DEF Schedule
<1>2. ordered = host \/ ordered = PutPrepare(f.host, TRUE).host
  BY Zenon DEF Commit
<1>3. Chained(host) /\ \A fresh : Chained(Fence(host, fresh).host)
  BY <1>1, HostChained, FenceChained DEF Sound
<1>4. Chained(f.host)
  BY <1>3, Zenon
<1> HIDE DEF f, ordered
<1>5. \A auto : Chained(PutPrepare(f.host, auto).host)
  BY <1>4, PrepareChained DEF Sound
<1>6. Chained(ordered)
  BY <1>2, <1>3, <1>5, Zenon
<1>7. next = [a EXCEPT !.sched["resume"] = Speed(host)]
  OBVIOUS
<1>8. Chained(a)
  BY <1>6, FieldChained
<1> HIDE DEF a, next
<1>9. Chained(next)
  BY <1>7, <1>8, FieldChained
<1> QED BY <1>1, <1>9, HandleGrows

\* The maintenance of the preparation.
LEMMA BecomesGrows ==
  ASSUME Sound(log), HostOK, NEW status, Becomes(status)
  PROVE  Grows
<1>1. host.up /\ HandlerEnds([host EXCEPT !.prep.status = status], 0)
  BY DEF Becomes
<1> QED BY <1>1, HostChained, StatusChained, HandleGrows

\* The drain.
LEMMA DrainGrows ==
  ASSUME Sound(log), HostOK, NEW fresh, Drain(fresh)
  PROVE  Grows
<1> DEFINE cost == IF fresh THEN 0 ELSE 1
<1>1. /\ host.up
      /\ \/ HandlerEnds([host EXCEPT !.prep.target = 0], 0)
         \/ HandlerEnds(ResumeRounds(host, fresh), cost)
         \/ HandlerEnds(BeginPause(host, fresh), cost)
  BY DEF Drain, In
<1>2. Chained(host)
  BY <1>1, HostChained
<1>3. Chained([host EXCEPT !.prep.target = 0])
  BY <1>2, FieldChained
<1> HIDE DEF cost
<1>4. Chained(ResumeRounds(host, fresh)) /\ Chained(BeginPause(host, fresh))
  BY <1>2, RoundsChained, PauseChained DEF Sound
<1> QED BY <1>1, <1>3, <1>4, HandleGrows

\* Without pending work no boundary is pending.
LEMMA NothingPending ==
  ASSUME Sound(log), HostOK, PendingWork(host) = 0
  PROVE  Boundaries(host) = {}
<1>1. Log(host) = log /\ DOMAIN log = 1..Len(log) /\ Len(log) \in Nat
  BY LogNow, SeqLen DEF HostOK, Sound
<1>2. IsFiniteSet(1..Len(log))
  BY <1>1, FS_Interval
<1> DEFINE R == {i \in Of(host, {"release"}) : ~Read(i)}
           C == {i \in Of(host, {"clock"}) : ~Read(i)}
           B == Boundaries(host)
<1>3. R \subseteq 1..Len(log) /\ C \subseteq 1..Len(log) /\ B \subseteq 1..Len(log)
  BY <1>1 DEF Of, Boundaries
<1>4. IsFiniteSet(R) /\ IsFiniteSet(C) /\ IsFiniteSet(B)
  BY <1>2, <1>3, FS_Subset
<1>5. Cardinality(R) \in Nat /\ Cardinality(C) \in Nat /\ Cardinality(B) \in Nat
  BY <1>4, FS_CardinalityType
<1>6. Rounds(host) \in Nat
  BY <1>5 DEF Rounds
<1>7. Rounds(host) + Cardinality(B) + Cardinality(C) = 0
  BY DEF PendingWork
<1> HIDE DEF B, C
<1>8. Cardinality(B) = 0
  BY <1>5, <1>6, <1>7
<1>9. B = {}
  BY <1>4, <1>8, FS_EmptySet
<1> QED BY <1>9 DEF B

\* A sample of the vehicles may come at any time.
LEMMA ProbeChained ==
  ASSUME IsSeq(log), NEW h, Chained(h)
  PROVE  Chained(PutProbe(h))
<1> DEFINE g == [h EXCEPT !.prep.probe = 0]
           e == [type |-> "probe"]
<1>1. Chained(g) /\ e.type \in Loose
  BY FieldChained DEF Loose
<1>2. PutProbe(h) = Write(g, e)
  BY Zenon DEF PutProbe
<1> HIDE DEF g, e
<1> QED BY <1>1, <1>2, PutLoose

\* The request of a checkpoint opens a boundary, when none is pending.
LEMMA RequestChained ==
  ASSUME IsSeq(log), NEW h, Chained(h), Boundaries(h) = {}
  PROVE  Chained(PutRequest(h))
<1> DEFINE e == [type |-> "request", prep |-> h.prep.seq, proof |-> h.prep.proof]
<1>1. e.type \in Openers
  BY DEF Openers
<1>2. PutRequest(h) = Write(h, e)
  BY Zenon DEF PutRequest
<1> HIDE DEF e
<1> QED BY <1>1, <1>2, PutOpener

\* The samples and the request.
LEMMA PhaseGrows ==
  ASSUME Sound(log), HostOK, host.up, Quiescent(host), Phase
  PROVE  Grows
<1> DEFINE taken == [host EXCEPT !.prep.samples = @ + 1, !.prep.proof = host.prep.probe]
           drained == [host EXCEPT !.prep.status = "draining",
                                   !.prep.target = Releases(host) + 1,
                                   !.prep.resume = Max({1, @}), !.prep.resumed = FALSE,
                                   !.prep.probe = 0, !.prep.samples = 0, !.prep.proof = 0]
<1>1. \/ HandlerEnds(PutRequest(host), 0) \/ HandlerEnds(PutProbe(host), 0)
      \/ HandlerEnds(PutRequest(taken), 0) \/ HandlerEnds(PutProbe(taken), 0)
      \/ HandlerEnds(drained, 0)
  BY Zenon DEF Phase
<1>2. Chained(host) /\ Boundaries(host) = {} /\ IsSeq(log)
  BY HostChained, NothingPending DEF Quiescent, Sound
<1>3. Chained(taken) /\ Boundaries(taken) = {}
  <2> DEFINE a == [host EXCEPT !.prep["samples"] = host.prep.samples + 1]
  <2>1. taken = [a EXCEPT !.prep["proof"] = host.prep.probe]
    OBVIOUS
  <2> HIDE DEF taken
  <2>2. Chained(a) /\ a.wrote = host.wrote
    BY <1>2, FieldChained
  <2> HIDE DEF a
  <2>3. Chained(taken) /\ taken.wrote = a.wrote
    <3> DEFINE q == host.prep.probe
    <3> HIDE DEF q
    <3>1. \A f : Chained([a EXCEPT !.prep[f] = q]) /\ [a EXCEPT !.prep[f] = q].wrote = a.wrote
      BY <2>2, FieldChained
    <3>2. taken = [a EXCEPT !.prep["proof"] = q]
      BY <2>1 DEF q
    <3> QED BY <3>1, <3>2
  <2>4. Log(taken) = Log(host)
    BY <2>2, <2>3 DEF Log
  <2>5. Boundaries(taken) = Boundaries(host)
    BY <2>4 DEF Boundaries, Of, Settled
  <2> QED BY <1>2, <2>3, <2>5
<1>4. Chained(drained)
  <2> DEFINE a == [host EXCEPT !.prep["status"] = "draining"]
             b == [a EXCEPT !.prep["target"] = Releases(host) + 1]
             c == [b EXCEPT !.prep["resume"] = Max({1, host.prep.resume})]
             d == [c EXCEPT !.prep["resumed"] = FALSE]
             e == [d EXCEPT !.prep["probe"] = 0]
             f == [e EXCEPT !.prep["samples"] = 0]
  <2>1. drained = [f EXCEPT !.prep["proof"] = 0]
    OBVIOUS
  <2> HIDE DEF drained
  <2>2. Chained(a)
    BY <1>2, FieldChained
  <2> HIDE DEF a
  <2>3. Chained(b)
    BY <2>2, FieldChained
  <2> HIDE DEF b
  <2>4. Chained(c)
    BY <2>3, FieldChained
  <2> HIDE DEF c
  <2>5. \A q : Chained([c EXCEPT !.prep["resumed"] = q])
    BY <2>4, FieldChained
  <2>6. Chained(d)
    BY <2>5, Zenon
  <2> HIDE DEF d
  <2>7. Chained(e)
    BY <2>6, FieldChained
  <2> HIDE DEF e
  <2>8. Chained(f)
    BY <2>7, FieldChained
  <2> HIDE DEF f
  <2> QED BY <2>1, <2>8, FieldChained
<1> HIDE DEF taken, drained
<1>5. /\ Chained(PutRequest(host)) /\ Chained(PutProbe(host))
      /\ Chained(PutRequest(taken)) /\ Chained(PutProbe(taken))
  BY <1>2, <1>3, ProbeChained, RequestChained
<1> QED BY <1>1, <1>4, <1>5, HandleGrows

\* The pause.
LEMMA PausingGrows ==
  ASSUME Sound(log), HostOK, NEW fresh, Pausing(fresh)
  PROVE  Grows
<1> DEFINE cost == IF fresh THEN 0 ELSE 1
<1>1. /\ host.up
      /\ \/ HandlerEnds(ResumeRounds(host, fresh), cost)
         \/ HandlerEnds(Resynchronize(host), 0)
         \/ Quiescent(host) /\ Phase
  BY Zenon DEF Pausing, In
<1> HIDE DEF cost
<1>2. Chained(ResumeRounds(host, fresh)) /\ Chained(Resynchronize(host))
  BY <1>1, HostChained, RoundsChained, ResynchronizeChained DEF Sound
<1> QED BY <1>1, <1>2, HandleGrows, PhaseGrows

\* What comes after the checkpoint.
LEMMA ConvergedGrows ==
  ASSUME Sound(log), HostOK, Converged
  PROVE  Grows
<1>1. host.up /\ (Becomes("ready") \/ HandlerEnds(Resynchronize(host), 0))
  BY Zenon DEF Converged, In
<1>2. Chained(Resynchronize(host))
  BY <1>1, HostChained, ResynchronizeChained DEF Sound
<1> QED BY <1>1, <1>2, HandleGrows, BecomesGrows

\* The schedule.
LEMMA SeeReceiptsGrows ==
  ASSUME Sound(log), HostOK, SeeReceipts
  PROVE  Grows
<1> DEFINE g == [host EXCEPT !.sched.seen = TRUE]
<1>1. host.up /\ HandlerEnds(g, 0)
  BY Zenon DEF SeeReceipts
<1>2. \A q : Chained([host EXCEPT !.sched["seen"] = q])
  BY <1>1, HostChained, FieldChained
<1>3. g = [host EXCEPT !.sched["seen"] = TRUE]
  OBVIOUS
<1>4. Chained(g)
  <2> HIDE DEF g
  <2> QED BY <1>2, <1>3, Zenon
<1> QED BY <1>1, <1>4, HandleGrows

\* The scheduler ends, past the fence.
LEMMA FinishGrows ==
  ASSUME Sound(log), HostOK, NEW fresh, Finish(fresh)
  PROVE  Grows
<1> DEFINE g == [host EXCEPT !.sched.last = Newest(host), !.sched.seq = 0]
           a == [host EXCEPT !.sched["last"] = Newest(host)]
           cost == IF fresh THEN 0 ELSE 1
<1>1. host.up /\ HandlerEnds(SchedulerResume(g, fresh), cost)
  BY Zenon DEF Finish
<1>2. g = [a EXCEPT !.sched["seq"] = 0]
  OBVIOUS
<1> HIDE DEF g, cost
<1>3. Chained(a)
  BY <1>1, HostChained, FieldChained
<1> HIDE DEF a
<1>4. Chained(g)
  BY <1>2, <1>3, FieldChained
<1>5. Chained(SchedulerResume(g, fresh))
  BY <1>4, SchedulerChained DEF Sound
<1> QED BY <1>1, <1>5, HandleGrows

\* The scheduler cancels.
LEMMA CancelGrows ==
  ASSUME Sound(log), HostOK, NEW why, NEW fresh, Cancel(why, fresh)
  PROVE  Grows
<1> DEFINE c == PutCancel(host, host.sched.seq, why)
           cost == IF fresh THEN 0 ELSE 1
<1>1. host.up /\ HandlerEnds(SchedulerResume(c.host, fresh), cost)
  BY Zenon DEF Cancel
<1>2. Chained(c.host)
  BY <1>1, HostChained, CancelChained DEF Sound
<1> HIDE DEF c, cost
<1>3. Chained(SchedulerResume(c.host, fresh))
  BY <1>2, SchedulerChained DEF Sound
<1> QED BY <1>1, <1>3, HandleGrows

\* The rest of the host.
LEMMA OutcomeGrows ==
  ASSUME Sound(log), HostOK, NEW success, Outcome(success)
  PROVE  Grows
<1> DEFINE n == Len(log)
           E(b) == [type |-> "outcome", boundary |-> b, success |-> success]
<1>1. /\ host.up
      /\ \E b \in Boundaries(host) : HandlerEnds(Write(host, E(b)), IF success THEN 0 ELSE 1)
  BY Zenon DEF Outcome
<1>2. PICK b \in Boundaries(host) : HandlerEnds(Write(host, E(b)), IF success THEN 0 ELSE 1)
  BY <1>1
<1> DEFINE L == Append(log, E(b))
<1>3. Log(host) = log /\ Tip(host) = n /\ n \in Nat /\ DOMAIN log = 1..n
  BY LogNow, SeqLen DEF HostOK, Sound
<1>4. /\ b \in 1..n /\ log[b].type \in {"work", "request"} /\ ~Settled(host, b)
  BY <1>3 DEF Boundaries, Of
<1>5. L[n + 1] = E(b) /\ \A i \in 1..n : L[i] = log[i]
  BY SeqAppend DEF Sound
<1> HIDE DEF L
<1>6. ~SettledBy(L, b, n)
  <2> SUFFICES ASSUME NEW i \in b + 1 .. n, Ends(L, i, b) PROVE FALSE
    BY DEF SettledBy
  <2>1. L[i] = log[i] /\ L[b] = log[b]
    BY <1>3, <1>4, <1>5
  <2>2. \/ log[i].type = "outcome" /\ log[i].boundary = b
        \/ log[i].type = "cancel" /\ log[b].type = "request" /\ log[b].prep = log[i].prep
    BY <2>1 DEF Ends
  <2> QED BY <1>3, <1>4, <2>2 DEF Settled
<1>7. L[n + 1].type = "outcome" /\ L[n + 1].boundary = b
  BY <1>5
<1>8. (n + 1) - 1 = n /\ L[b] = log[b]
  BY <1>3, <1>4, <1>5
<1>9. Fit(L, n + 1)
  BY <1>4, <1>6, <1>7, <1>8 DEF Fit, Openers, Opens
<1>10. Chained(host) /\ E(b).type # "receipt"
  BY <1>1, HostChained
<1> HIDE DEF E
<1>11. Chained(Write(host, E(b)))
  BY <1>3, <1>9, <1>10, PutChained DEF L, Sound
<1> QED BY <1>1, <1>2, <1>11, HandleGrows

\* A station release.
LEMMA ReleaseGrows ==
  ASSUME Sound(log), HostOK, Release
  PROVE  Grows
<1> DEFINE e == [type |-> "release"]
<1>1. host.up /\ HandlerEnds(Write(host, e), 0) /\ e.type \in Loose
  BY DEF Release, Loose
<1> HIDE DEF e
<1> QED BY <1>1, HostChained, PutLoose, HandleGrows DEF Sound

\* A fault.
LEMMA SessionFaultGrows ==
  ASSUME Sound(log), HostOK, SessionFault
  PROVE  Grows
<1> DEFINE e == [type |-> "fault"]
<1>1. host.up /\ HandlerEnds(Write(host, e), 1) /\ e.type \in Loose
  BY DEF SessionFault, Loose
<1> HIDE DEF e
<1> QED BY <1>1, HostChained, PutLoose, HandleGrows DEF Sound

\* A crash forgets what was heard.
LEMMA CrashGrows ==
  ASSUME Sound(log), HostOK, Crash
  PROVE  Grows
<1>1. host' = [Fresh EXCEPT !.up = FALSE] /\ log' = log
  BY DEF Crash
<1>2. IsHost(host') /\ host'.wrote = <<>> /\ ~host'.up /\ host'.health = Fresh.health
  BY <1>1, FreshOK DEF IsHost
<1>3. HostOK' /\ Deaf'
  BY <1>2, FreshOK DEF HostOK, Deaf
<1>4. Len(log) \in Nat
  BY SeqLen DEF Sound
<1> QED BY <1>1, <1>3, <1>4 DEF Grows, Begins

\* The fault of the journal survives a restart.
LEMMA RestartGrows ==
  ASSUME Sound(log), HostOK, HostRestart
  PROVE  Grows
<1> DEFINE f == Replayed.fault
           g == [Fresh EXCEPT !.prep = Replayed.prep, !.fault = f]
           a == [g EXCEPT !.sched.last = Newest(g)]
           b == [g EXCEPT !.sched =
                   [seq |-> g.prep.seq, resume |-> g.prep.resume,
                    seen |-> g.prep.boundary \in Restorable(g), last |-> Newest(g)]]
<1>1. host' = Adopted(g) /\ log' = log
  BY Zenon DEF HostRestart
<1>2. \A i \in DOMAIN log : Faults(log[i]) => f
  BY Zenon DEF Replayed
<1>3. /\ IsHost(g) /\ g.wrote = <<>> /\ g.up /\ g.health = Fresh.health /\ g.fault = f
      /\ DOMAIN g = {"up", "wrote", "fault", "prep", "sched", "health"}
  <2> DEFINE q == Replayed.prep
  <2> HIDE DEF f, q
  <2>1. g = [Fresh EXCEPT !.prep = q, !.fault = f]
    BY Zenon DEF q
  <2> HIDE DEF g
  <2> QED BY <2>1, FreshOK DEF IsHost
<1>4. host' = a \/ host' = b
  BY <1>1, Zenon DEF Adopted
<1> HIDE DEF g, f
<1>5. /\ IsHost(host') /\ host'.wrote = <<>> /\ host'.health = Fresh.health
      /\ host'.fault = f
  <2> DEFINE q == [seq |-> g.prep.seq, resume |-> g.prep.resume,
                   seen |-> g.prep.boundary \in Restorable(g), last |-> Newest(g)]
             l == Newest(g)
  <2> HIDE DEF q, l
  <2>1. host' = [g EXCEPT !.sched.last = l] \/ host' = [g EXCEPT !.sched = q]
    BY <1>4, Zenon DEF q, l
  <2> QED BY <1>3, <2>1 DEF IsHost
<1>6. Len(log) \in Nat /\ DOMAIN log = 1..Len(log)
  BY SeqLen DEF Sound
<1>7. \A i \in 1..Len(log) : Failed(log[i]) => f
  BY <1>2, <1>6 DEF Failed, Faults
<1>8. HostOK' /\ Deaf'
  BY <1>1, <1>5, <1>7, FreshOK DEF HostOK, Deaf
<1> QED BY <1>1, <1>6, <1>8 DEF Grows, Begins

\* A step is one of the host, which games and players only see in the journal, or one of
\* a game.
LEMMA StepKinds ==
  ASSUME Sound(log), HostOK, PointsNext
  PROVE  \/ Grows /\ UNCHANGED <<game, seen>>
         \/ \E p \in Peer : \/ Beat(p) \/ Publish(p) \/ Submit(p) \/ Apply(p) \/ Advance(p)
                            \/ Arrive(p) \/ LateResume(p) \/ Save(p)
<1> DEFINE Done == Grows /\ UNCHANGED <<game, seen>>
<1>1. ASSUME Players PROVE Done
  <2>1. PICK fresh \in BOOLEAN :
          PlayerPrepare \/ PlayerWork(fresh)
          \/ \E speed \in 0..1 \ {Speed(host)} : PlayerClock(speed, fresh)
    BY <1>1 DEF Players
  <2>2. CASE PlayerPrepare
    BY <2>2, PlayerPrepareGrows DEF PlayerPrepare, Stays
  <2>3. CASE PlayerWork(fresh)
    BY <2>3, PlayerWorkGrows DEF PlayerWork, Stays
  <2>4. ASSUME NEW speed, PlayerClock(speed, fresh) PROVE Done
    <3>1. UNCHANGED <<game, seen>>
      BY <2>4, Zenon DEF PlayerClock, Stays
    <3> QED BY <2>4, <3>1, PlayerClockGrows
  <2> QED BY <2>1, <2>2, <2>3, <2>4
<1>2. ASSUME Maintain PROVE Done
  <2>1. PICK fresh \in BOOLEAN : Drain(fresh) \/ Pausing(fresh)
    BY <1>2 DEF Maintain
  <2>2. UNCHANGED <<game, seen>>
    BY <2>1 DEF Drain, Pausing, Stays
  <2> QED BY <2>1, <2>2, DrainGrows, PausingGrows
<1>3. ASSUME Scheduler PROVE Done
  <2>1. PICK fresh \in BOOLEAN : Finish(fresh) \/ CancelFailed(fresh) \/ Timeout(fresh)
    BY <1>3 DEF Scheduler
  <2>2. CASE Finish(fresh)
    BY <2>2, FinishGrows DEF Finish, Stays
  <2>3. ASSUME NEW why, Cancel(why, fresh) PROVE Done
    BY <2>3, CancelGrows DEF Cancel, Stays
  <2> QED BY <2>1, <2>2, <2>3 DEF CancelFailed, Timeout
<1>4. ASSUME NEW status, Becomes(status) PROVE Done
  BY <1>4, BecomesGrows DEF Becomes, Stays
<1>5. ASSUME PreparationFaulted \/ DrainTimeout \/ PhaseFailed PROVE Done
  BY <1>4, <1>5 DEF PreparationFaulted, DrainTimeout, PhaseFailed
<1>6. ASSUME Converged PROVE Done
  <2>1. UNCHANGED <<game, seen>>
    BY <1>6 DEF Converged, Becomes, Stays
  <2> QED BY <1>6, <2>1, ConvergedGrows
<1>7. ASSUME Schedule PROVE Done
  BY <1>7, ScheduleGrows DEF Schedule, Stays
<1>8. ASSUME SeeReceipts PROVE Done
  BY <1>8, SeeReceiptsGrows DEF SeeReceipts, Stays
<1>9. ASSUME Release PROVE Done
  BY <1>9, ReleaseGrows DEF Release
<1>10. ASSUME SessionFault PROVE Done
  BY <1>10, SessionFaultGrows DEF SessionFault, Stays
<1>11. ASSUME HostRestart PROVE Done
  BY <1>11, RestartGrows DEF HostRestart, Stays
<1>12. ASSUME Crash PROVE Done
  BY <1>12, CrashGrows DEF Crash, Stays
<1>13. ASSUME \E success \in BOOLEAN : Outcome(success) PROVE Done
  <2>1. PICK success \in BOOLEAN : Outcome(success)
    BY <1>13
  <2> QED BY <2>1, OutcomeGrows DEF Outcome, Stays
<1> HIDE DEF Done
<1>14. \/ Players \/ Maintain \/ Scheduler \/ Games
       \/ PreparationFaulted \/ DrainTimeout \/ PhaseFailed \/ Converged
       \/ Schedule \/ SeeReceipts \/ Release \/ SessionFault \/ HostRestart \/ Crash
       \/ \E success \in BOOLEAN : Outcome(success)
  BY DEF PointsNext
<1>15. Games \/ Done
  BY <1>1, <1>2, <1>3, <1>5, <1>6, <1>7, <1>8, <1>9, <1>10, <1>11, <1>12, <1>13, <1>14
<1> QED BY <1>15 DEF Done, Games
-----------------------------------------------------------------------------
(* The games.                                                              *)

\* Boundary b is a request, o its outcome, and only receipts were ordered since.
OwnedBy(L, b, o) ==
  /\ o \in 1..Len(L) /\ b \in 1 .. o - 1
  /\ L[b].type = "request" /\ Won(L, o, b)
  /\ \A i \in o + 1 .. Len(L) : L[i].type = "receipt"

IsGame(g) ==
  /\ DOMAIN g = {"read", "speed", "at", "bound", "filed", "file", "late", "prep"}
  /\ DOMAIN g.prep = {"seq", "boundary", "ready"}

\* What a game knows of the first g.read entries of L.
Knows(g, L) ==
  /\ g.read \in 0..Len(L)
  /\ g.prep.boundary # 0 => g.prep.boundary \in 1..g.read /\ L[g.prep.boundary].type = "request"
  /\ \A b \in 1..g.read :
       /\ L[b].type = "request"
       /\ \A i \in b + 1 .. g.read : L[i].type \notin {"prepare", "request"}
       => /\ g.prep.boundary = b
          /\ \A o \in b + 1 .. g.read :
               Won(L, o, b) /\ (\A i \in o + 1 .. g.read : L[i].type \notin {"outcome", "cancel"})
               => g.prep.ready

\* A game ran on after it had read that boundary b was agreed.
Moved(b) == \E p \in Peer : b \in game[p].late

\* Every game has read the outcome o, is paused, and if none ran on stands at one instant.
Frozen(b, o) ==
  \A p \in Peer : /\ game[p].read >= o /\ game[p].speed = 0
                  /\ Moved(b) \/ \A q \in Peer : game[p].at = game[q].at

GameOK == DOMAIN game = Peer /\ \A p \in Peer : IsGame(game[p]) /\ Knows(game[p], log)

HealthOK ==
  \A p \in Peer :
    /\ host.health[p].read \in Nat /\ host.health[p].read <= game[p].read
    /\ \A b, o : OwnedBy(log, b, o) /\ host.health[p].read >= o /\ host.health[p].speed = 0
                   => /\ game[p].speed = 0
                      /\ b \in game[p].late \/ game[p].at = host.health[p].at

HasOutcome(b) == \E o \in 1..Len(log) : Won(log, o, b)

SeenOK ==
  /\ DOMAIN seen = Peer
  /\ \A p \in Peer : seen[p] # 0 =>
       HasOutcome(seen[p]) /\ \A o : OwnedBy(log, seen[p], o) => Frozen(seen[p], o)

FileFits(g) ==
  /\ g.file.boundary \in 1..Len(log) /\ log[g.file.boundary].type = "request"
  /\ HasOutcome(g.file.boundary)
  /\ g.file = [boundary |-> g.file.boundary, works |-> g.file.works, at |-> g.file.at]
  /\ \A o : OwnedBy(log, g.file.boundary, o) =>
       /\ Frozen(g.file.boundary, o) /\ g.file.works = Works(log, g.file.boundary)
       /\ Moved(g.file.boundary) \/ g.file.at = g.at

FileOK == \A p \in Peer : game[p].file # Nothing => FileFits(game[p])

Reported(i) ==
  /\ log[i].save = [boundary |-> log[i].save.boundary, works |-> log[i].save.works,
                    at |-> log[i].save.at]
  /\ \A o : OwnedBy(log, log[i].boundary, o) =>
       /\ Frozen(log[i].boundary, o)
       /\ Moved(log[i].boundary) \/ \A p \in Peer : log[i].save.at = game[p].at
  /\ \A j \in 1 .. i - 1 :
       log[j].type = "receipt" /\ log[j].boundary = log[i].boundary =>
         Moved(log[i].boundary) \/ log[j].save.at = log[i].save.at

ReceiptOK == \A i \in 1..Len(log) : log[i].type = "receipt" => Reported(i)

PointsInv ==
  /\ Sound(log) /\ HostOK
  /\ GameOK /\ HealthOK /\ SeenOK /\ FileOK /\ ReceiptOK

\* What is owned in a longer journal was owned in the shorter one that has its outcome.
LEMMA OwnedThen ==
  ASSUME NEW L, NEW M, Len(L) \in Nat, Len(M) \in Nat, Begins(L, M),
         NEW b, NEW o, OwnedBy(M, b, o), o \in 1..Len(L)
  PROVE  OwnedBy(L, b, o)
<1>1. \A i \in 1..Len(L) : M[i] = L[i]
  BY DEF Begins
<1>2. b \in 1..Len(L) /\ o \in 1..Len(L) /\ b \in 1 .. o - 1
  BY DEF OwnedBy
<1>3. M[b] = L[b] /\ M[o] = L[o]
  BY <1>1, <1>2
<1>4. \A i \in o + 1 .. Len(L) : i \in 1..Len(L) /\ i \in o + 1 .. Len(M)
  BY <1>2 DEF Begins
<1>5. \A i \in o + 1 .. Len(L) : L[i].type = "receipt"
  BY <1>1, <1>4 DEF OwnedBy
<1> QED BY <1>2, <1>3, <1>5 DEF OwnedBy, Won

\* What had an outcome when the journal was shorter is owned by that outcome.
LEMMA OwnedBefore ==
  ASSUME Sound(log), Sound(log'), Begins(log, log'), NEW b, HasOutcome(b), NEW o,
         OwnedBy(log', b, o)
  PROVE  OwnedBy(log, b, o)
<1>1. Len(log) \in Nat /\ Len(log') \in Nat
  BY SeqLen DEF Sound
<1>2. PICK x \in 1..Len(log) : Won(log, x, b)
  BY DEF HasOutcome
<1>3. log'[x] = log[x] /\ x \in 1..Len(log')
  BY <1>1, <1>2 DEF Begins
<1>4. log'[x].type = "outcome" /\ log'[x].boundary = b
  BY <1>2, <1>3 DEF Won
<1>5. o \in 1..Len(log') /\ log'[o].type = "outcome" /\ log'[o].boundary = b
  BY DEF OwnedBy, Won
<1> DEFINE L == log'
<1>6. Sound(L) /\ x \in 1..Len(L) /\ o \in 1..Len(L)
  BY <1>3, <1>5
<1>7. L[x].type = "outcome" /\ L[o].type = "outcome" /\ L[x].boundary = L[o].boundary
  BY <1>4, <1>5
<1> HIDE DEF L
<1>8. x = o
  BY <1>6, <1>7, OneOutcome
<1> QED BY <1>1, <1>2, <1>8, OwnedThen

\* An outcome stays in the journal.
LEMMA OutcomeKept ==
  ASSUME Sound(log), Sound(log'), Begins(log, log'), NEW b, HasOutcome(b)
  PROVE  HasOutcome(b)'
<1>1. Len(log) \in Nat /\ Len(log') \in Nat
  BY SeqLen DEF Sound
<1>2. PICK x \in 1..Len(log) : Won(log, x, b)
  BY DEF HasOutcome
<1>3. log'[x] = log[x] /\ x \in 1..Len(log')
  BY <1>1, <1>2 DEF Begins
<1> QED BY <1>2, <1>3 DEF HasOutcome, Won

\* So does the gameplay before a boundary.
LEMMA WorksKept ==
  ASSUME Begins(log, log'), NEW b \in 1..Len(log), Len(log) \in Nat
  PROVE  Works(log', b) = Works(log, b)
<1>1. \A k \in 1..b : k \in 1..Len(log)
  OBVIOUS
<1>2. \A k \in 1..b : log'[k] = log[k]
  BY <1>1 DEF Begins
<1> QED BY <1>2 DEF Works

\* What a game knows of the entries it has read.
LEMMA KnowsKept ==
  ASSUME NEW L, NEW M, Len(L) \in Nat, Len(M) \in Nat, Begins(L, M), NEW g, Knows(g, L)
  PROVE  Knows(g, M)
<1>1. g.read \in 0..Len(L) /\ g.read \in 0..Len(M)
  BY DEF Knows, Begins
<1>2. \A i \in 1..g.read : M[i] = L[i]
  BY <1>1 DEF Begins
<1>3. g.prep.boundary # 0 => g.prep.boundary \in 1..g.read /\ M[g.prep.boundary].type = "request"
  BY <1>2 DEF Knows
<1>4. ASSUME NEW b \in 1..g.read, M[b].type = "request",
             \A i \in b + 1 .. g.read : M[i].type \notin {"prepare", "request"}
      PROVE  /\ g.prep.boundary = b
             /\ \A o \in b + 1 .. g.read :
                  Won(M, o, b)
                  /\ (\A i \in o + 1 .. g.read : M[i].type \notin {"outcome", "cancel"})
                  => g.prep.ready
  <2>1. \A i \in b + 1 .. g.read : i \in 1..g.read
    BY <1>1
  <2>2. L[b].type = "request"
    BY <1>2, <1>4
  <2>3. \A i \in b + 1 .. g.read : L[i].type \notin {"prepare", "request"}
    BY <1>2, <1>4, <2>1
  <2>4. /\ g.prep.boundary = b
        /\ \A o \in b + 1 .. g.read :
             Won(L, o, b)
             /\ (\A i \in o + 1 .. g.read : L[i].type \notin {"outcome", "cancel"})
             => g.prep.ready
    BY <2>2, <2>3 DEF Knows
  <2>5. ASSUME NEW o \in b + 1 .. g.read, Won(M, o, b),
               \A i \in o + 1 .. g.read : M[i].type \notin {"outcome", "cancel"}
        PROVE  g.prep.ready
    <3>1. \A i \in o + 1 .. g.read : i \in 1..g.read
      BY <1>1
    <3>2. \A i \in o + 1 .. g.read : L[i].type \notin {"outcome", "cancel"}
      BY <1>2, <2>5, <3>1
    <3>3. Won(L, o, b)
      BY <1>2, <2>1, <2>5 DEF Won
    <3> QED BY <2>4, <3>2, <3>3
  <2> QED BY <2>4, <2>5
<1> QED BY <1>1, <1>3, <1>4 DEF Knows

\* What is known of the games stays true when the journal grows by what fits, receipts
\* that are known to fit among it, and the games stay where they are.
Same(g, h) ==
  /\ IsGame(g) /\ g.read = h.read /\ g.speed = h.speed /\ g.at = h.at
  /\ g.prep = h.prep /\ g.file = h.file /\ g.late = h.late

LEMMA LongerKeeps ==
  ASSUME PointsInv, Sound(log'), Begins(log, log'), HostOK', host'.health = host.health \/ Deaf',
         seen' = seen, DOMAIN game' = Peer, \A q \in Peer : Same(game'[q], game[q]),
         \A i \in Len(log) + 1 .. Len(log') : log'[i].type = "receipt" => Reported(i)'
  PROVE  PointsInv'
<1>1. /\ Sound(log) /\ Len(log) \in Nat /\ Len(log') \in Nat
  BY SeqLen DEF PointsInv, Sound
<1>2. \A q \in Peer : /\ game'[q].read = game[q].read /\ game'[q].speed = game[q].speed
                      /\ game'[q].at = game[q].at /\ game'[q].prep = game[q].prep
                      /\ game'[q].file = game[q].file /\ game'[q].late = game[q].late
                      /\ IsGame(game'[q])
  BY DEF Same
<1>3. GameOK'
  <2>1. \A q \in Peer : Knows(game[q], log')
    BY <1>1, KnowsKept DEF PointsInv, GameOK
  <2>2. \A q \in Peer : Knows(game'[q], log')
    BY <1>2, <2>1 DEF Knows
  <2> QED BY <1>2, <2>2 DEF GameOK
<1>4. \A b : /\ Moved(b) => Moved(b)'
            /\ \A o : Frozen(b, o) => Frozen(b, o)'
  BY <1>2 DEF Moved, Frozen
<1>5. SeenOK'
  BY <1>1, <1>4, OwnedBefore, OutcomeKept DEF PointsInv, SeenOK
<1>6. FileOK'
  <2> SUFFICES ASSUME NEW p \in Peer, game'[p].file # Nothing
               PROVE  FileFits(game[p])'
    BY DEF FileOK
  <2>1. PICK b, g : g = game[p] /\ b = g.file.boundary
    OBVIOUS
  <2>2. /\ b \in 1..Len(log) /\ log[b].type = "request" /\ HasOutcome(b)
        /\ \A o : OwnedBy(log, b, o) =>
             /\ Frozen(b, o) /\ g.file.works = Works(log, b)
             /\ Moved(b) \/ g.file.at = g.at
        /\ g.file = [boundary |-> b, works |-> g.file.works, at |-> g.file.at]
    BY <1>2, <2>1 DEF PointsInv, FileOK, FileFits
  <2>3. game'[p].file = g.file /\ game'[p].at = g.at
    BY <1>2, <2>1
  <2>4. b \in 1..Len(log') /\ log'[b].type = "request" /\ HasOutcome(b)'
    BY <1>1, <2>2, OutcomeKept DEF Begins
  <2>5. Works(log', b) = Works(log, b)
    BY <1>1, <2>2, WorksKept
  <2>6. \A o : OwnedBy(log', b, o) => OwnedBy(log, b, o)
    BY <1>1, <2>2, OwnedBefore
  <2>7. FileFits(g)'
    BY <1>4, <2>1, <2>2, <2>4, <2>5, <2>6 DEF FileFits
  <2> QED BY <2>3, <2>7 DEF FileFits
<1>7. ReceiptOK'
  <2> SUFFICES ASSUME NEW i \in 1..Len(log'), log'[i].type = "receipt"
               PROVE  Reported(i)'
    BY DEF ReceiptOK
  <2>0. CASE i \notin 1..Len(log)
    BY <1>1, <2>0
  <2>1. CASE i \in 1..Len(log)
    <3>1. log'[i] = log[i]
      BY <1>1, <2>1 DEF Begins
    <3>2. PICK b : b = log[i].boundary
      OBVIOUS
    <3>3. HasOutcome(b)
      <4>1. Attests(log, i)
        BY <1>1, <2>1, <3>1 DEF Sound, Fit
      <4>2. PICK o \in 1 .. i - 1 : Won(log, o, b)
        BY <3>2, <4>1 DEF Attests
      <4>3. o \in 1..Len(log)
        BY <1>1, <2>1
      <4> QED BY <4>2, <4>3 DEF HasOutcome
    <3>4. \A o : OwnedBy(log', b, o) => OwnedBy(log, b, o)
      BY <1>1, <3>3, OwnedBefore
    <3>5. /\ log[i].save = [boundary |-> log[i].save.boundary, works |-> log[i].save.works,
                            at |-> log[i].save.at]
          /\ \A o : OwnedBy(log, b, o) =>
               /\ Frozen(b, o)
               /\ Moved(b) \/ \A p \in Peer : log[i].save.at = game[p].at
          /\ \A j \in 1 .. i - 1 : log[j].type = "receipt" /\ log[j].boundary = b =>
               Moved(b) \/ log[j].save.at = log[i].save.at
      BY <2>1, <3>1, <3>2 DEF PointsInv, ReceiptOK, Reported
    <3>6. \A j \in 1 .. i - 1 : log'[j] = log[j]
      BY <1>1, <2>1 DEF Begins
    <3> QED BY <1>2, <1>4, <3>1, <3>2, <3>4, <3>5, <3>6 DEF Reported
  <2> QED BY <2>0, <2>1
<1>8. HealthOK'
  <2>1. ASSUME NEW p \in Peer, host'.health = host.health
        PROVE  /\ host'.health[p].read \in Nat /\ host'.health[p].read <= game'[p].read
               /\ \A b, o : OwnedBy(log', b, o) /\ host'.health[p].read >= o
                              /\ host'.health[p].speed = 0
                   => /\ game'[p].speed = 0
                      /\ b \in game'[p].late \/ game'[p].at = host'.health[p].at
    <3>1. host.health[p].read \in Nat /\ host.health[p].read <= game[p].read
      BY DEF PointsInv, HealthOK
    <3>2. game[p].read \in 0..Len(log)
      BY DEF PointsInv, GameOK, Knows
    <3>3. ASSUME NEW b, NEW o, OwnedBy(log', b, o), host.health[p].read >= o
          PROVE  OwnedBy(log, b, o)
      <4>1. o \in 1..Len(log')
        BY <3>3 DEF OwnedBy
      <4>2. o \in 1..Len(log)
        BY <1>1, <3>1, <3>2, <3>3, <4>1
      <4> QED BY <1>1, <3>3, <4>2, OwnedThen
    <3> QED BY <1>2, <2>1, <3>1, <3>3 DEF PointsInv, HealthOK
  <2>2. ASSUME NEW p \in Peer, Deaf'
        PROVE  /\ host'.health[p].read \in Nat /\ host'.health[p].read <= game'[p].read
               /\ \A b, o : OwnedBy(log', b, o) /\ host'.health[p].read >= o
                              /\ host'.health[p].speed = 0
                   => /\ game'[p].speed = 0
                      /\ b \in game'[p].late \/ game'[p].at = host'.health[p].at
    <3>1. host'.health[p].read = 0
      BY <2>2 DEF Deaf, Silent
    <3>2. game[p].read \in 0..Len(log)
      BY DEF PointsInv, GameOK, Knows
    <3>3. \A b, o : OwnedBy(log', b, o) => o \in Nat /\ o > 0
      BY <1>1 DEF OwnedBy
    <3> QED BY <1>1, <1>2, <3>1, <3>2, <3>3
  <2> QED BY <2>1, <2>2 DEF HealthOK
<1> QED BY <1>3, <1>5, <1>6, <1>7, <1>8 DEF PointsInv

\* A step of the host alone, which orders no receipt.
LEMMA GrowsKeeps ==
  ASSUME PointsInv, Grows, UNCHANGED <<game, seen>>
  PROVE  PointsInv'
<1>1. DOMAIN game' = Peer /\ \A q \in Peer : Same(game'[q], game[q])
  BY DEF PointsInv, GameOK, Same
<1> QED BY <1>1, LongerKeeps DEF Grows

\* Between a request and its outcome nothing was opened, and since the outcome nothing
\* was ordered but receipts: a game that has read it is ready, and has no other work.
LEMMA OwnedReady ==
  ASSUME Sound(log), NEW g, Knows(g, log), NEW b, NEW o, OwnedBy(log, b, o), g.read >= o
  PROVE  /\ g.prep.boundary = b /\ g.prep.ready
         /\ Works(log, g.read) = Works(log, b)
<1>1. Len(log) \in Nat /\ g.read \in 0..Len(log)
  BY SeqLen DEF Sound, Knows
<1>2. /\ o \in 1..Len(log) /\ b \in 1 .. o - 1 /\ log[b].type = "request" /\ Won(log, o, b)
      /\ \A i \in o + 1 .. Len(log) : log[i].type = "receipt"
  BY DEF OwnedBy
<1>3. ~SettledBy(log, b, o - 1)
  BY <1>2 DEF Sound, Fit, Won
<1>4. ASSUME NEW i \in b + 1 .. g.read
      PROVE  log[i].type \notin Openers
  <2>1. CASE i < o
    <3>1. i \in 1..Len(log) /\ b \in 1 .. i - 1 /\ Opens(log, b)
      BY <1>1, <1>2, <2>1 DEF Opens
    <3>2. ~SettledBy(log, b, i - 1)
      <4>1. \A j \in b + 1 .. i - 1 : j \in b + 1 .. o - 1
        BY <1>1, <1>2, <2>1
      <4> QED BY <1>3, <4>1 DEF SettledBy
    <3> QED BY <3>1, <3>2 DEF Sound, Fit
  <2>2. CASE i = o
    BY <1>2, <2>2 DEF Won, Openers
  <2>3. CASE i > o
    <3>1. i \in o + 1 .. Len(log)
      BY <1>1, <1>2, <2>3
    <3> QED BY <1>2, <3>1 DEF Openers
  <2> QED BY <1>1, <1>2, <2>1, <2>2, <2>3
<1>5. b \in 1..g.read /\ \A i \in b + 1 .. g.read : log[i].type \notin {"prepare", "request"}
  BY <1>1, <1>2, <1>4 DEF Openers
<1>6. o \in b + 1 .. g.read
  BY <1>1, <1>2
<1>7. \A i \in o + 1 .. g.read : log[i].type \notin {"outcome", "cancel"}
  <2>1. \A i \in o + 1 .. g.read : i \in o + 1 .. Len(log)
    BY <1>1
  <2> QED BY <1>2, <2>1
<1>8. g.prep.boundary = b /\ g.prep.ready
  BY <1>2, <1>5, <1>6, <1>7 DEF Knows
<1>9. Works(log, g.read) = Works(log, b)
  <2>1. ASSUME NEW k \in 1..g.read, log[k].type = "work"
        PROVE  k \in 1..b
    <3>1. k \notin b + 1 .. g.read
      BY <1>4, <2>1 DEF Openers
    <3> QED BY <1>1, <1>2, <3>1
  <2>2. \A k \in 1..b : k \in 1..g.read
    BY <1>1, <1>5
  <2> QED BY <2>1, <2>2 DEF Works
<1> QED BY <1>8, <1>9

\* A game that has read the outcome of a boundary which is still owned, and is paused,
\* stays where it is, but for a late resume.
Steady ==
  /\ log' = log
  /\ \A q \in Peer :
       /\ game'[q].read >= game[q].read /\ \A b : b \in game[q].late => b \in game'[q].late
       /\ \A b, o : OwnedBy(log, b, o) /\ game[q].read >= o /\ game[q].speed = 0
                      => /\ game'[q].speed = 0
                         /\ b \in game'[q].late \/ game'[q].at = game[q].at

\* A step after which the journal is as it was.
LEMMA SteadyKeeps ==
  ASSUME PointsInv, Steady, GameOK'
  PROVE  /\ \A b, o : OwnedBy(log, b, o) /\ Frozen(b, o) => Frozen(b, o)'
         /\ ReceiptOK'
         /\ \A q \in Peer : game[q].file # Nothing /\ game'[q].file = game[q].file
                              => FileFits(game[q])'
         /\ seen' = seen => SeenOK'
         /\ (\A q \in Peer : \/ host'.health[q] = host.health[q]
                             \/ host'.health[q] = Sample(game'[q])) => HealthOK'
<1>1. log' = log /\ Sound(log) /\ Len(log) \in Nat
  BY SeqLen DEF Steady, PointsInv, Sound
<1>2. \A q \in Peer : game[q].read \in Nat /\ game'[q].read \in Nat
  BY <1>1 DEF PointsInv, GameOK, Knows
<1>8. \A b : Moved(b) => Moved(b)'
  BY DEF Steady, Moved
<1>3. ASSUME NEW b, NEW o, OwnedBy(log, b, o), Frozen(b, o)
      PROVE  Frozen(b, o)' /\ (Moved(b)' \/ \A q \in Peer : game'[q].at = game[q].at)
  <2>1. o \in Nat
    BY <1>1, <1>3 DEF OwnedBy
  <2>2. \A q \in Peer : game'[q].read >= o /\ game'[q].speed = 0
    BY <1>2, <1>3, <2>1 DEF Steady, Frozen
  <2>3. ASSUME ~Moved(b)', NEW q \in Peer PROVE game'[q].at = game[q].at
    BY <1>3, <2>3 DEF Steady, Frozen, Moved
  <2> QED BY <1>3, <1>8, <2>2, <2>3 DEF Frozen
<1>4. ReceiptOK'
  BY <1>1, <1>3, <1>8 DEF PointsInv, ReceiptOK, Reported
<1>5. ASSUME NEW q \in Peer, game[q].file # Nothing, game'[q].file = game[q].file
      PROVE  FileFits(game[q])'
  <2>1. PICK b : b = game[q].file.boundary
    OBVIOUS
  <2>2. /\ b \in 1..Len(log) /\ log[b].type = "request" /\ HasOutcome(b)
        /\ \A o : OwnedBy(log, b, o) =>
             /\ Frozen(b, o) /\ game[q].file.works = Works(log, b)
             /\ Moved(b) \/ game[q].file.at = game[q].at
        /\ game[q].file = [boundary |-> b, works |-> game[q].file.works, at |-> game[q].file.at]
    BY <1>5, <2>1 DEF PointsInv, FileOK, FileFits
  <2>3. HasOutcome(b)'
    BY <1>1, <2>2 DEF HasOutcome
  <2> QED BY <1>1, <1>3, <1>5, <1>8, <2>1, <2>2, <2>3 DEF FileFits
<1>6. ASSUME seen' = seen PROVE SeenOK'
  <2>1. \A b : HasOutcome(b) => HasOutcome(b)'
    BY <1>1 DEF HasOutcome
  <2> QED BY <1>1, <1>3, <1>6, <2>1 DEF PointsInv, SeenOK
<1>7. ASSUME \A q \in Peer : \/ host'.health[q] = host.health[q]
                             \/ host'.health[q] = Sample(game'[q])
      PROVE  HealthOK'
  <2> SUFFICES ASSUME NEW q \in Peer
               PROVE  /\ host'.health[q].read \in Nat
                      /\ host'.health[q].read <= game'[q].read
                      /\ \A b, o : OwnedBy(log, b, o) /\ host'.health[q].read >= o
                                     /\ host'.health[q].speed = 0
                           => /\ game'[q].speed = 0
                              /\ b \in game'[q].late \/ game'[q].at = host'.health[q].at
    BY <1>1 DEF HealthOK
  <2>1. CASE host'.health[q] = Sample(game'[q])
    BY <1>2, <2>1 DEF Sample
  <2>2. CASE host'.health[q] = host.health[q]
    <3>1. /\ host.health[q].read \in Nat /\ host.health[q].read <= game[q].read
          /\ \A b, o : OwnedBy(log, b, o) /\ host.health[q].read >= o
                         /\ host.health[q].speed = 0
               => /\ game[q].speed = 0
                  /\ b \in game[q].late \/ game[q].at = host.health[q].at
      BY DEF PointsInv, HealthOK
    <3>2. \A b, o : OwnedBy(log, b, o) /\ host.health[q].read >= o => o \in Nat /\ game[q].read >= o
      BY <1>1, <1>2, <3>1 DEF OwnedBy
    <3>3. game'[q].read >= game[q].read
      BY DEF Steady
    <3> QED BY <1>2, <2>2, <3>1, <3>2, <3>3 DEF Steady
  <2> QED BY <1>7, <2>1, <2>2
<1> QED BY <1>3, <1>4, <1>5, <1>6, <1>7

\* The clock of a world runs: the world was not paused.
LEMMA AdvanceKeeps ==
  ASSUME PointsInv, NEW p \in Peer, Advance(p)
  PROVE  PointsInv'
<1>1. /\ game[p].speed > 0 /\ game' = [game EXCEPT ![p].at = @ + 1]
      /\ UNCHANGED <<host, log, arrived, seen, count>>
  BY DEF Advance
<1>2. \A q \in Peer : /\ IsGame(game[q]) /\ Knows(game[q], log)
                      /\ q # p => game'[q] = game[q]
  BY <1>1 DEF PointsInv, GameOK
<1>3. /\ IsGame(game'[p]) /\ DOMAIN game' = Peer
      /\ game'[p].read = game[p].read /\ game'[p].prep = game[p].prep
      /\ game'[p].file = game[p].file /\ game'[p].late = game[p].late
  BY <1>1 DEF PointsInv, GameOK, IsGame
<1>4. GameOK'
  BY <1>1, <1>2, <1>3 DEF GameOK, Knows
<1>5. Steady
  BY <1>1, <1>2, <1>3 DEF Steady, Knows
<1>6. /\ \A q \in Peer : game'[q].file = game[q].file
      /\ Sound(log)' /\ HostOK'
  BY <1>1, <1>2, <1>3 DEF PointsInv, HostOK
<1> QED BY <1>1, <1>4, <1>5, <1>6, SteadyKeeps DEF PointsInv, FileOK

\* A late resume: the game had not read the outcome, or it is known to have moved.
LEMMA LateResumeKeeps ==
  ASSUME PointsInv, NEW p \in Peer, LateResume(p)
  PROVE  PointsInv'
<1> DEFINE L == IF game[p].prep.ready THEN game[p].late \union {game[p].prep.boundary}
                ELSE game[p].late
<1>1. /\ game' = [game EXCEPT ![p].at = @ + 1, ![p].late = L]
      /\ game[p].speed = 0 /\ UNCHANGED <<host, log, arrived, seen>>
  BY DEF LateResume
<1>2. \A q \in Peer : /\ IsGame(game[q]) /\ Knows(game[q], log)
                      /\ q # p => game'[q] = game[q]
  BY <1>1 DEF PointsInv, GameOK
<1>3. /\ IsGame(game'[p]) /\ DOMAIN game' = Peer
      /\ game'[p].read = game[p].read /\ game'[p].prep = game[p].prep
      /\ game'[p].file = game[p].file /\ game'[p].speed = 0 /\ game'[p].late = L
  BY <1>1 DEF PointsInv, GameOK, IsGame
<1>4. GameOK'
  <2> HIDE DEF L
  <2>1. Knows(game'[p], log)
    BY <1>2, <1>3 DEF Knows
  <2> QED BY <1>1, <1>2, <1>3, <2>1 DEF GameOK
<1>5. Steady
  <2>1. \A b, o : OwnedBy(log, b, o) /\ game[p].read >= o =>
                    game[p].prep.ready /\ game[p].prep.boundary = b
    BY <1>2, OwnedReady DEF PointsInv
  <2>2. \A b : b \in game[p].late => b \in L
    OBVIOUS
  <2>3. \A b, o : OwnedBy(log, b, o) /\ game[p].read >= o => b \in L
    BY <2>1
  <2> HIDE DEF L
  <2> QED BY <1>1, <1>2, <1>3, <2>2, <2>3 DEF Steady, Knows
<1>6. /\ \A q \in Peer : game'[q].file = game[q].file
      /\ Sound(log)' /\ HostOK'
  BY <1>1, <1>2, <1>3 DEF PointsInv, HostOK
<1> QED BY <1>1, <1>4, <1>5, <1>6, SteadyKeeps DEF PointsInv, FileOK

\* A step that leaves journal and games alone.
LEMMA IdleKeeps ==
  ASSUME PointsInv, UNCHANGED <<log, game>>, HostOK',
         \A q \in Peer : \/ host'.health[q] = host.health[q]
                         \/ host'.health[q] = Sample(game[q]),
         SeenOK'
  PROVE  PointsInv'
<1>1. \A q \in Peer : Knows(game[q], log)
  BY DEF PointsInv, GameOK
<1>2. Steady
  BY <1>1 DEF Steady, Knows
<1>3. GameOK' /\ Sound(log)'
  BY DEF PointsInv, GameOK
<1>4. \A q \in Peer : game'[q].file = game[q].file /\ game'[q] = game[q]
  OBVIOUS
<1> QED BY <1>2, <1>3, <1>4, SteadyKeeps DEF PointsInv, FileOK

\* A heartbeat says where the world is.
LEMMA BeatKeeps ==
  ASSUME PointsInv, NEW p \in Peer, Beat(p)
  PROVE  PointsInv'
<1>1. /\ host.up /\ host' = [host EXCEPT !.health[p] = Sample(game[p])]
      /\ UNCHANGED <<log, game, seen>>
  BY DEF Beat, Stays
<1>2. /\ IsHost(host) /\ DOMAIN host.health = Peer
      /\ DOMAIN host = {"up", "wrote", "fault", "prep", "sched", "health"}
  BY DEF PointsInv, HostOK, IsHost
<1>3. /\ IsHost(host') /\ host'.up = host.up /\ host'.wrote = host.wrote
      /\ host'.fault = host.fault /\ DOMAIN host'.health = Peer
      /\ host'.health[p] = Sample(game[p])
      /\ \A q \in Peer : q # p => host'.health[q] = host.health[q]
  BY <1>1, <1>2 DEF IsHost
<1>4. HostOK'
  BY <1>1, <1>3 DEF PointsInv, HostOK
<1>5. SeenOK'
  BY <1>1 DEF PointsInv, SeenOK, HasOutcome, Frozen, Moved
<1> QED BY <1>1, <1>3, <1>4, <1>5, IdleKeeps

\* A vehicle waits.
LEMMA ArriveKeeps ==
  ASSUME PointsInv, NEW p \in Peer, Arrive(p)
  PROVE  PointsInv'
<1>1. UNCHANGED <<host, log, game, seen>>
  BY DEF Arrive
<1>2. HostOK' /\ SeenOK'
  BY <1>1 DEF PointsInv, HostOK, SeenOK, HasOutcome, Frozen, Moved
<1> QED BY <1>1, <1>2, IdleKeeps

\* What a READY boundary means in the journal.
LEMMA ReadyOwns ==
  ASSUME PointsInv, NEW receipt, host.up, Ready(host, receipt)
  PROVE  LET b == Agreed(host)
             o == OutcomeOf(host, b)
         IN /\ o \in 1..Len(log) /\ b \in 1 .. o - 1 /\ Won(log, o, b)
            /\ \A i \in o + 1 .. Len(log) : log[i].type = "receipt"
<1> DEFINE b == Agreed(host)
           o == OutcomeOf(host, b)
           n == Len(log)
           ok == {i \in Of(host, {"outcome"}) : Log(host)[i].success}
           S == {i \in Of(host, {"outcome"}) : Log(host)[i].boundary = b /\ Log(host)[i].success}
<1>1. /\ Sound(log) /\ Log(host) = log /\ n \in Nat /\ DOMAIN log = 1..n
      /\ \A i \in 1..n : Fit(log, i)
  BY LogNow, SeqLen DEF PointsInv, HostOK, Sound
<1>2. b > 0 /\ ~host.fault /\ PendingWork(host) = 0 /\ ~WorkSince(host, b)
  BY DEF Ready
<1>3. Boundaries(host) = {}
  BY <1>2, NothingPending DEF PointsInv
<1>4. ok \subseteq 1..n /\ ok # {} /\ b = log[Max(ok)].boundary
  BY <1>1, <1>2 DEF Agreed, Of
<1>5. Max(ok) \in ok /\ \A x \in ok : x <= Max(ok)
  <2> HIDE DEF ok
  <2> QED BY <1>1, <1>4, Greatest
<1>6. Max(ok) \in S
  BY <1>1, <1>4, <1>5
<1>7. S \subseteq 1..n /\ o = Max(S)
  <2>1. S \subseteq 1..n
    BY <1>1 DEF Of
  <2>2. o = Latest(S)
    BY Zenon DEF OutcomeOf
  <2> QED BY <1>6, <2>1, <2>2 DEF Latest
<1>8. o \in S
  <2> HIDE DEF S
  <2> QED BY <1>1, <1>6, <1>7, Greatest
<1>9. o \in 1..n /\ log[o].type = "outcome" /\ log[o].boundary = b /\ log[o].success
  BY <1>1, <1>8 DEF Of
<1>10. o = Max(ok)
  <2>1. Max(ok) \in 1..n /\ log[Max(ok)].type = "outcome" /\ log[Max(ok)].boundary = b
    BY <1>1, <1>4, <1>5 DEF Of
  <2> HIDE DEF ok, o, b
  <2> QED BY <1>1, <1>9, <2>1, OneOutcome
<1>11. b \in 1 .. o - 1 /\ Won(log, o, b)
  BY <1>1, <1>9 DEF Fit, Won
<1>12. ASSUME NEW i \in o + 1 .. n
       PROVE  log[i].type \notin WorkTypes /\ log[i].type # "outcome"
  <2>1. i \in 1..n /\ i > o
    BY <1>1, <1>9
  <2>2. log[i].type \notin WorkTypes
    BY <1>1, <1>2, <2>1 DEF WorkSince, Of
  <2>3. ASSUME log[i].type = "outcome" PROVE FALSE
    <3>1. log[i].success
      BY <1>2, <2>1, <2>3 DEF PointsInv, HostOK, Failed
    <3>2. i \in ok
      BY <1>1, <2>1, <2>3, <3>1 DEF Of
    <3> HIDE DEF ok, o
    <3> QED BY <1>1, <1>5, <1>9, <1>10, <2>1, <3>2
  <2> QED BY <2>2, <2>3
<1>13. ASSUME NEW i \in o + 1 .. n, log[i].type = "request"
       PROVE  FALSE
  <2>1. i \in 1..n
    BY <1>1, <1>9
  <2>2. Settled(host, i)
    BY <1>1, <1>3, <1>13, <2>1 DEF Boundaries, Of
  <2>3. PICK j \in i + 1 .. n : log[j].type \in {"outcome", "cancel"}
    BY <1>1, <2>2 DEF Settled
  <2>4. j \in o + 1 .. n
    BY <1>1, <1>9, <2>1
  <2> QED BY <1>12, <2>3, <2>4 DEF WorkTypes
<1>14. \A i \in o + 1 .. n : log[i].type = "receipt"
  <2> SUFFICES ASSUME NEW i \in o + 1 .. n PROVE log[i].type = "receipt"
    OBVIOUS
  <2>1. i \in 1..n
    BY <1>1, <1>9
  <2> QED BY <1>1, <1>12, <1>13, <2>1 DEF Fit, Loose, Openers, WorkTypes
<1> QED BY <1>9, <1>11, <1>14

\* A boundary is told READY when every game was heard, paused, at one instant, past the
\* outcome: so they stand there still.
LEMMA PublishKeeps ==
  ASSUME PointsInv, NEW p \in Peer, Publish(p)
  PROVE  PointsInv'
<1>1. /\ seen' = [seen EXCEPT ![p] = Published] /\ UNCHANGED <<host, log, game>>
  BY DEF Publish
<1>2. HostOK'
  BY <1>1 DEF PointsInv, HostOK
<1>3. Published # 0 => HasOutcome(Published) /\ \A o : OwnedBy(log, Published, o) => Frozen(Published, o)
  <2> SUFFICES ASSUME Published # 0
               PROVE  HasOutcome(Published) /\ \A o : OwnedBy(log, Published, o) => Frozen(Published, o)
    OBVIOUS
  <2> DEFINE b == Agreed(host)
             x == OutcomeOf(host, b)
  <2>1. host.prep.status = "ready" /\ Ready(host, FALSE) /\ Published = b
    BY Zenon DEF Published
  <2>2. Quiet(host, x)
    BY <2>1 DEF Ready
  <2>3. host.up
    <3>1. CASE Peer = {}
      BY <3>1
    <3>2. CASE Peer # {}
      BY <2>2, <3>2 DEF PointsInv, HostOK, Quiet, Heard
    <3> QED BY <3>1, <3>2
  <2>4. /\ x \in 1..Len(log) /\ b \in 1 .. x - 1 /\ Won(log, x, b)
    <3>1. \A r : Ready(host, r) => x \in 1..Len(log) /\ b \in 1 .. x - 1 /\ Won(log, x, b)
      BY <2>3, ReadyOwns
    <3> QED BY <2>1, <3>1, Zenon
  <2> HIDE DEF b, x
  <2>5. HasOutcome(b)
    BY <2>4 DEF HasOutcome
  <2>6. ASSUME NEW o, OwnedBy(log, b, o)
        PROVE  Frozen(b, o)
    <3>1. o = x
      BY <2>4, <2>6, OneOutcome DEF PointsInv, OwnedBy, Won
    <3>2. ASSUME NEW q \in Peer
          PROVE  /\ host.health[q].read >= o /\ host.health[q].speed = 0
                 /\ host.health[q].read \in Nat /\ o \in Nat
                 /\ host.health[q].read <= game[q].read
                 /\ game[q].speed = 0
                 /\ b \in game[q].late \/ game[q].at = host.health[q].at
      <4>1. host.health[q].read >= o /\ host.health[q].speed = 0
        BY <2>2, <3>1 DEF Quiet
      <4>2. o \in Nat
        BY <3>1, <2>4
      <4> QED BY <2>6, <4>1, <4>2 DEF PointsInv, HealthOK
    <3>3. \A q, r \in Peer : host.health[q].at = host.health[r].at
      BY <2>2 DEF Quiet, Skewed
    <3>4. \A q \in Peer : game[q].read \in Nat
      BY DEF PointsInv, GameOK, Knows
    <3>5. ASSUME NEW q \in Peer
          PROVE  game[q].read >= o /\ game[q].speed = 0
      BY <3>2, <3>4
    <3>6. Moved(b) \/ \A q, r \in Peer : game[q].at = game[r].at
      BY <3>2, <3>3 DEF Moved
    <3> QED BY <3>5, <3>6 DEF Frozen
  <2> QED BY <2>1, <2>5, <2>6
<1>4. SeenOK'
  <2>1. DOMAIN seen' = Peer /\ seen'[p] = Published
    BY <1>1 DEF PointsInv, SeenOK
  <2> SUFFICES ASSUME NEW q \in Peer, seen'[q] # 0
               PROVE  /\ HasOutcome(seen[q])'
                      /\ \A o : OwnedBy(log', seen'[q], o) => Frozen(seen[q], o)'
    BY <2>1 DEF SeenOK
  <2>2. PICK b : b = seen'[q]
    OBVIOUS
  <2>3. HasOutcome(b) /\ \A o : OwnedBy(log, b, o) => Frozen(b, o)
    BY <1>1, <1>3, <2>1, <2>2 DEF PointsInv, SeenOK
  <2>4. HasOutcome(b)' /\ \A o : OwnedBy(log', b, o) => Frozen(b, o)'
    BY <1>1, <2>3 DEF HasOutcome, Frozen, Moved
  <2> QED BY <2>2, <2>4 DEF HasOutcome, Frozen, Moved
<1> QED BY <1>1, <1>2, <1>4, IdleKeeps

\* A save of that boundary is of the gameplay up to it, at that instant.
LEMMA SaveKeeps ==
  ASSUME PointsInv, NEW p \in Peer, Save(p)
  PROVE  PointsInv'
<1> DEFINE f == [boundary |-> seen[p], works |-> Gameplay(game[p].read), at |-> game[p].at]
<1>1. /\ seen[p] # 0 /\ game[p].prep.boundary = seen[p]
      /\ game' = [game EXCEPT ![p].filed = FALSE, ![p].file = f]
      /\ UNCHANGED <<host, log, arrived, seen, count>>
  BY DEF Save
<1>2. \A q \in Peer : /\ IsGame(game[q]) /\ Knows(game[q], log)
                      /\ q # p => game'[q] = game[q]
  BY <1>1 DEF PointsInv, GameOK
<1>3. /\ IsGame(game'[p]) /\ DOMAIN game' = Peer
      /\ game'[p].read = game[p].read /\ game'[p].prep = game[p].prep
      /\ game'[p].speed = game[p].speed /\ game'[p].at = game[p].at
      /\ game'[p].late = game[p].late /\ game'[p].file = f
  <2> HIDE DEF f
  <2> QED BY <1>1 DEF PointsInv, GameOK, IsGame
<1>4. GameOK'
  BY <1>1, <1>2, <1>3 DEF GameOK, Knows
<1>5. Steady
  BY <1>1, <1>2, <1>3 DEF Steady, Knows
<1>6. Sound(log)' /\ HostOK'
  BY <1>1 DEF PointsInv, HostOK
<1>7. FileFits(game[p])'
  <2>1. PICK b : b = seen[p]
    OBVIOUS
  <2>2. b \in 1..game[p].read /\ log[b].type = "request" /\ game[p].read \in 0..Len(log)
    BY <1>1, <1>2, <2>1 DEF Knows
  <2>3. HasOutcome(b) /\ \A o : OwnedBy(log, b, o) => Frozen(b, o)
    BY <1>1, <2>1 DEF PointsInv, SeenOK
  <2>4. HasOutcome(b)'
    BY <1>1, <2>3 DEF HasOutcome
  <2>5. \A o : OwnedBy(log, b, o) /\ Frozen(b, o) => Frozen(b, o)'
    BY <1>4, <1>5, SteadyKeeps
  <2>6. \A o : OwnedBy(log, b, o) => Works(log, game[p].read) = Works(log, b)
    BY <1>2, <2>3, OwnedReady DEF PointsInv, Frozen
  <2>7. Gameplay(game[p].read) = Works(log, game[p].read)
    BY DEF Gameplay, Works
  <2>8. /\ f.boundary = b /\ f.works = Works(log, game[p].read) /\ f.at = game[p].at
        /\ f = [boundary |-> f.boundary, works |-> f.works, at |-> f.at]
    BY <2>1, <2>7
  <2>9. Len(log) \in Nat
    BY SeqLen DEF PointsInv, Sound
  <2>10. b \in 1..Len(log)
    BY <2>2, <2>9
  <2> HIDE DEF f
  <2>11. /\ game'[p].file.boundary = b /\ game'[p].file.at = game'[p].at
         /\ game'[p].file.works = Works(log, game[p].read)
         /\ game'[p].file = [boundary |-> game'[p].file.boundary,
                             works |-> game'[p].file.works, at |-> game'[p].file.at]
    BY <1>3, <2>8
  <2> QED BY <1>1, <2>2, <2>3, <2>4, <2>5, <2>6, <2>10, <2>11 DEF FileFits
<1>8. FileOK'
  <2> SUFFICES ASSUME NEW q \in Peer, game'[q].file # Nothing PROVE FileFits(game[q])'
    BY DEF FileOK
  <2>1. CASE q = p
    BY <1>7, <2>1
  <2>2. CASE q # p
    BY <1>2, <1>4, <1>5, <2>2, SteadyKeeps
  <2> QED BY <2>1, <2>2
<1>9. ReceiptOK' /\ SeenOK' /\ HealthOK'
  BY <1>1, <1>4, <1>5, SteadyKeeps
<1> QED BY <1>4, <1>6, <1>8, <1>9 DEF PointsInv

\* The game reads the next entry.
LEMMA LocalKnows ==
  ASSUME NEW L, Len(L) \in Nat, NEW g, Knows(g, L), DOMAIN g.prep = {"seq", "boundary", "ready"},
         NEW n, n = g.read + 1, n \in 1..Len(L), NEW h,
         h.read = n, h.prep = Local(g.prep, L[n], n)
  PROVE  Knows(h, L) /\ DOMAIN h.prep = {"seq", "boundary", "ready"}
<1> DEFINE e == L[n]
<1>1. g.read \in Nat /\ n \in Nat /\ \A i : i \in 1..n <=> i \in 1..g.read \/ i = n
  BY DEF Knows
<1>2. \A b : \A i : i \in b + 1 .. g.read => i \in b + 1 .. n
  BY <1>1
<1>3. CASE e.type = "prepare"
  <2>1. h.prep = [seq |-> n, boundary |-> 0, ready |-> FALSE]
    BY <1>3, Zenon DEF Local
  <2>2. h.prep.boundary = 0 /\ DOMAIN h.prep = {"seq", "boundary", "ready"}
    BY <2>1
  <2>3. \A b \in 1..n : L[b].type = "request" => n \in b + 1 .. n
    BY <1>1, <1>3
  <2> QED BY <1>1, <1>3, <2>2, <2>3 DEF Knows
<1>4. CASE e.type = "request"
  <2>1. h.prep = [seq |-> e.prep, boundary |-> n, ready |-> FALSE]
    BY <1>4 DEF Local
  <2>2. h.prep.boundary = n /\ DOMAIN h.prep = {"seq", "boundary", "ready"}
    BY <2>1
  <2>3. \A b \in 1..n : b # n => n \in b + 1 .. n
    BY <1>1
  <2>4. \A o : o \notin n + 1 .. n
    BY <1>1
  <2> QED BY <1>1, <1>4, <2>2, <2>3, <2>4 DEF Knows
<1>5. CASE e.type = "outcome" /\ e.boundary = g.prep.boundary
  <2>1. h.prep = [g.prep EXCEPT !.ready = e.success]
    BY <1>5 DEF Local
  <2>2. /\ h.prep.boundary = g.prep.boundary /\ h.prep.ready = e.success
        /\ DOMAIN h.prep = {"seq", "boundary", "ready"}
    BY <2>1
  <2>3. ASSUME NEW b \in 1..n, L[b].type = "request",
               \A i \in b + 1 .. n : L[i].type \notin {"prepare", "request"}
        PROVE  /\ h.prep.boundary = b
               /\ \A o \in b + 1 .. n :
                    Won(L, o, b) /\ (\A i \in o + 1 .. n : L[i].type \notin {"outcome", "cancel"})
                    => h.prep.ready
    <3>1. b \in 1..g.read
      BY <1>1, <1>5, <2>3
    <3>2. g.prep.boundary = b
      BY <1>2, <2>3, <3>1 DEF Knows
    <3>3. \A o \in b + 1 .. n : o = n \/ n \in o + 1 .. n
      BY <1>1, <3>1
    <3> QED BY <1>5, <2>2, <3>2, <3>3 DEF Won
  <2> QED BY <1>1, <2>2, <2>3 DEF Knows
<1>6. CASE /\ e.type \notin {"prepare", "request"}
           /\ ~(e.type = "outcome" /\ e.boundary = g.prep.boundary)
  <2>1. (h.prep = [g.prep EXCEPT !.ready = FALSE] /\ e.type = "cancel") \/ h.prep = g.prep
    BY <1>6, Zenon DEF Local
  <2>2. /\ h.prep.boundary = g.prep.boundary /\ DOMAIN h.prep = {"seq", "boundary", "ready"}
        /\ e.type # "cancel" => h.prep.ready = g.prep.ready
    BY <2>1
  <2>3. ASSUME NEW b \in 1..n, L[b].type = "request",
               \A i \in b + 1 .. n : L[i].type \notin {"prepare", "request"}
        PROVE  /\ h.prep.boundary = b
               /\ \A o \in b + 1 .. n :
                    Won(L, o, b) /\ (\A i \in o + 1 .. n : L[i].type \notin {"outcome", "cancel"})
                    => h.prep.ready
    <3>1. b \in 1..g.read
      BY <1>1, <1>6, <2>3
    <3>2. /\ g.prep.boundary = b
          /\ \A o \in b + 1 .. g.read :
               Won(L, o, b)
               /\ (\A i \in o + 1 .. g.read : L[i].type \notin {"outcome", "cancel"})
               => g.prep.ready
      BY <1>2, <2>3, <3>1 DEF Knows
    <3>3. ASSUME NEW o \in b + 1 .. n, Won(L, o, b),
                 \A i \in o + 1 .. n : L[i].type \notin {"outcome", "cancel"}
          PROVE  h.prep.ready
      <4>1. o # n
        BY <1>6, <3>2, <3>3 DEF Won
      <4>2. o \in b + 1 .. g.read /\ n \in o + 1 .. n
        BY <1>1, <3>1, <3>3, <4>1
      <4>3. \A i \in o + 1 .. g.read : i \in o + 1 .. n
        BY <1>1
      <4> QED BY <2>2, <3>2, <3>3, <4>2, <4>3
    <3> QED BY <2>2, <3>2, <3>3
  <2> QED BY <1>1, <2>2, <2>3 DEF Knows
<1> QED BY <1>3, <1>4, <1>5, <1>6

\* A receipt moves no world, and nothing else follows an outcome that is owned.
LEMMA ApplyKeeps ==
  ASSUME PointsInv, NEW p \in Peer, Apply(p)
  PROVE  PointsInv'
<1> DEFINE n == game[p].read + 1
           e == log[n]
           moved == [game[p] EXCEPT !.read = n, !.prep = Local(@, e, n)]
           next == CASE e.type = "clock" ->
                          [moved EXCEPT !.speed = e.speed, !.at = Max({@, e.target})]
                     [] e.type = "release" -> [moved EXCEPT !.bound = TRUE]
                     [] OTHER -> moved
           l == Local(game[p].prep, e, n)
<1>1. /\ game[p].read < Len(log) /\ game' = [game EXCEPT ![p] = next]
      /\ host' = IF host.up THEN [host EXCEPT !.health[p] = Sample(next)] ELSE host
      /\ UNCHANGED <<log, arrived, seen, count>>
  BY Zenon DEF Apply
<1>2. \A q \in Peer : /\ IsGame(game[q]) /\ Knows(game[q], log)
                      /\ q # p => game'[q] = game[q]
  BY <1>1 DEF PointsInv, GameOK
<1>3. /\ Len(log) \in Nat /\ game[p].read \in Nat /\ n \in 1..Len(log)
      /\ DOMAIN game' = Peer /\ game'[p] = next
  BY <1>1, <1>2, SeqLen DEF PointsInv, GameOK, Sound, Knows
<1>4. /\ IsGame(moved) \/ DOMAIN l # {"seq", "boundary", "ready"}
      /\ moved.read = n /\ moved.prep = l /\ moved.file = game[p].file
      /\ moved.speed = game[p].speed /\ moved.at = game[p].at
      /\ moved.late = game[p].late
  <2> HIDE DEF l, n
  <2>1. moved = [game[p] EXCEPT !.read = n, !.prep = l]
    BY Zenon DEF l
  <2> HIDE DEF moved
  <2> QED BY <1>2, <2>1 DEF IsGame
<1>5. Knows(moved, log) /\ DOMAIN l = {"seq", "boundary", "ready"}
  <2>1. PICK h, g, k : h = moved /\ g = game[p] /\ k = n
    BY Zenon
  <2>2. h.read = k /\ h.prep = Local(g.prep, log[k], k)
    BY <1>4, <2>1
  <2>3. k = g.read + 1 /\ k \in 1..Len(log)
    BY <1>3, <2>1
  <2>4. Knows(g, log) /\ DOMAIN g.prep = {"seq", "boundary", "ready"}
    BY <1>2, <2>1 DEF IsGame
  <2>5. h = moved /\ h.prep = l
    BY <1>4, <2>1
  <2> HIDE DEF moved, l, n
  <2>6. Knows(h, log) /\ DOMAIN h.prep = {"seq", "boundary", "ready"}
    BY <1>3, <2>2, <2>3, <2>4, LocalKnows
  <2> QED BY <2>5, <2>6
<1>6. IsGame(moved)
  BY <1>4, <1>5
<1> HIDE DEF moved, l
<1>7. /\ IsGame(next) /\ next.read = n /\ next.prep = moved.prep /\ next.file = game[p].file
      /\ next.late = game[p].late
      /\ e.type # "clock" => next.speed = game[p].speed /\ next.at = game[p].at
  <2>1. CASE e.type = "clock"
    <3> DEFINE t == Max({moved.at, e.target})
    <3> HIDE DEF t
    <3>1. next = [moved EXCEPT !.speed = e.speed, !.at = t]
      BY <2>1, Zenon DEF t
    <3> HIDE DEF next
    <3> QED BY <1>4, <1>6, <2>1, <3>1 DEF IsGame
  <2>2. CASE e.type = "release"
    <3>1. next = [moved EXCEPT !.bound = TRUE]
      BY <2>2
    <3> HIDE DEF next
    <3> QED BY <1>4, <1>6, <3>1 DEF IsGame
  <2>3. CASE e.type # "clock" /\ e.type # "release"
    <3>1. next = moved
      BY <2>3
    <3> QED BY <1>4, <1>6, <3>1
  <2> QED BY <2>1, <2>2, <2>3
<1> HIDE DEF next
<1>8. Knows(next, log)
  BY <1>4, <1>5, <1>7 DEF Knows
<1>9. GameOK'
  BY <1>1, <1>2, <1>3, <1>7, <1>8 DEF GameOK
<1>10. Steady
  <2>1. ASSUME NEW b, NEW o, OwnedBy(log, b, o), game[p].read >= o
        PROVE  e.type = "receipt"
    <3>1. n \in o + 1 .. Len(log)
      BY <1>3, <2>1 DEF OwnedBy
    <3> QED BY <2>1, <3>1 DEF OwnedBy
  <2>2. game'[p].read >= game[p].read
    BY <1>3, <1>7
  <2>3. \A q \in Peer : q # p => game'[q].read >= game[q].read
    BY <1>2 DEF Knows
  <2> QED BY <1>1, <1>2, <1>3, <1>7, <2>1, <2>2, <2>3 DEF Steady
<1>11. \A q \in Peer : host'.health[q] = host.health[q] \/ host'.health[q] = Sample(game'[q])
  BY <1>1, <1>3 DEF PointsInv, HostOK, IsHost
<1>12. HostOK'
  <2>1. CASE ~host.up
    BY <1>1, <2>1 DEF PointsInv, HostOK
  <2>2. CASE host.up
    <3>1. host' = [host EXCEPT !.health[p] = Sample(next)]
      BY <1>1, <2>2
    <3>2. /\ IsHost(host) /\ DOMAIN host.health = Peer
          /\ DOMAIN host = {"up", "wrote", "fault", "prep", "sched", "health"}
      BY DEF PointsInv, HostOK, IsHost
    <3>3. /\ IsHost(host') /\ host'.up = host.up /\ host'.wrote = host.wrote
          /\ host'.fault = host.fault /\ DOMAIN host'.health = Peer
      BY <3>1, <3>2 DEF IsHost
    <3> QED BY <1>1, <2>2, <3>3 DEF PointsInv, HostOK
  <2> QED BY <2>1, <2>2
<1>13. \A q \in Peer : game'[q].file = game[q].file
  BY <1>2, <1>3, <1>7
<1>14. Sound(log)'
  BY <1>1 DEF PointsInv
<1>15. FileOK'
  <2> SUFFICES ASSUME NEW q \in Peer, game'[q].file # Nothing PROVE FileFits(game[q])'
    BY DEF FileOK
  <2> QED BY <1>9, <1>10, <1>13, SteadyKeeps
<1>16. ReceiptOK' /\ SeenOK' /\ HealthOK'
  BY <1>1, <1>9, <1>10, <1>11, SteadyKeeps
<1> QED BY <1>9, <1>12, <1>14, <1>15, <1>16 DEF PointsInv

\* A handler that orders one entry cannot crash between two appends.
LEMMA OneEntry ==
  ASSUME IsSeq(log), HostOK, host.up, NEW e, NEW cost, HandlerEnds(Write(host, e), cost)
  PROVE  /\ log' = Append(log, e)
         /\ IsHost(host') /\ host'.up /\ host'.wrote = <<>> /\ host'.health = host.health
         /\ host'.fault = (host.fault \/ Faults(e))
<1> DEFINE P == Observe(host.prep, e, Tip(host) + 1, FALSE)
           F == host.fault \/ Faults(e)
           g == Write(host, e)
<1>1. g = [host EXCEPT !.wrote = Append(host.wrote, e), !.fault = F, !.prep = P]
  BY Zenon DEF Write
<1>2. PICK n \in 0..Len(g.wrote) :
        /\ n < Len(g.wrote) => n > 0
        /\ host' = IF n < Len(g.wrote) THEN [Fresh EXCEPT !.up = FALSE]
                                       ELSE [g EXCEPT !.wrote = <<>>]
        /\ log' = log \o SubSeq(g.wrote, 1, n)
  BY DEF HandlerEnds
<1> HIDE DEF P, g
<1>3. /\ IsHost(host) /\ host.wrote = <<>>
      /\ DOMAIN host = {"up", "wrote", "fault", "prep", "sched", "health"}
  BY DEF HostOK, IsHost
<1>4. /\ g.up = host.up /\ g.wrote = Append(host.wrote, e) /\ g.fault = F
      /\ g.health = host.health /\ IsHost(g)
      /\ DOMAIN g = {"up", "wrote", "fault", "prep", "sched", "health"}
  BY <1>1, <1>3 DEF IsHost
<1>5. n = 1 /\ SubSeq(g.wrote, 1, n) = <<e>> /\ ~(n < Len(g.wrote))
  <2>1. g.wrote = <<e>> /\ Len(<<e>>) = 1 /\ SubSeq(<<e>>, 1, 1) = <<e>>
    <3>1. <<e>> \in Seq({e}) /\ Len(<<e>>) = 1 /\ Append(<<>>, e) = <<e>>
      OBVIOUS
    <3>2. SubSeq(<<e>>, 1, 1) = <<e>>
      <4>0. IsSeq(<<e>>)
        BY <3>1 DEF IsSeq
      <4>1. 1 \in 0..Len(<<e>>)
        BY <3>1
      <4> DEFINE t == SubSeq(<<e>>, 1, 1)
      <4>2. Len(t) = 1 /\ \A i \in 1..1 : t[i] = <<e>>[i]
        BY <4>0, <4>1, SeqPart
      <4>3. t \in Seq({e})
        BY <3>1
      <4> HIDE DEF t
      <4>4. t = <<e>>
        BY <3>1, <4>2, <4>3, SeqEqual
      <4> QED BY <4>4 DEF t
    <3> QED BY <1>3, <1>4, <3>1, <3>2
  <2>2. n \in 0..1 /\ (n < 1 => n > 0)
    BY <1>2, <2>1
  <2> QED BY <2>1, <2>2
<1>6. PICK S : log \in Seq(S)
  BY DEF IsSeq
<1>7. log' = Append(log, e)
  <2> DEFINE T == S \union {e}
  <2>1. log \in Seq(T) /\ e \in T
    BY <1>6, SeqMonotonic
  <2> HIDE DEF T
  <2>2. log \o <<e>> = Append(log, e)
    BY <2>1
  <2> QED BY <1>2, <1>5, <2>2
<1>8. host' = [g EXCEPT !.wrote = <<>>]
  BY <1>2, <1>5
<1> HIDE DEF F
<1>9. /\ IsHost(host') /\ host'.up /\ host'.wrote = <<>> /\ host'.health = host.health
      /\ host'.fault = F
  BY <1>4, <1>8 DEF IsHost
<1> QED BY <1>7, <1>9 DEF F

\* A save of the boundary that is owned agrees with the receipts there are.
LEMMA SubmitKeeps ==
  ASSUME PointsInv, NEW p \in Peer, Submit(p)
  PROVE  PointsInv'
<1> DEFINE f == game[p].file
           b == Agreed(host)
           o == OutcomeOf(host, b)
           r == [type |-> "receipt", boundary |-> b, peer |-> p, save |-> f]
           m == Len(log)
<1>1. /\ host.up /\ f # Nothing /\ game' = [game EXCEPT ![p].filed = TRUE] /\ seen' = seen
      /\ \/ Accepts(host, f) /\ HandlerEnds(Write(host, r), 0)
         \/ UNCHANGED <<host, log>>
  BY DEF Submit
<1>2. DOMAIN game' = Peer /\ \A q \in Peer : Same(game'[q], game[q])
  BY <1>1 DEF PointsInv, GameOK, Same, IsGame
<1>3. Sound(log) /\ IsSeq(log) /\ m \in Nat
  BY SeqLen DEF PointsInv, Sound
<1>4. CASE UNCHANGED <<host, log>>
  <2>1. /\ Sound(log)' /\ Begins(log, log') /\ HostOK'
        /\ \A i \in Len(log) + 1 .. Len(log') : FALSE
    BY <1>3, <1>4 DEF PointsInv, Begins, HostOK
  <2> QED BY <1>1, <1>2, <1>4, <2>1, LongerKeeps
<1>5. CASE Accepts(host, f) /\ HandlerEnds(Write(host, r), 0)
  <2>1. f.boundary = b
    BY <1>5 DEF Accepts
  <2>2. /\ o \in 1..m /\ b \in 1 .. o - 1 /\ Won(log, o, b)
        /\ \A i \in o + 1 .. m : log[i].type = "receipt"
    <3>1. \A x : Ready(host, x) => /\ o \in 1..m /\ b \in 1 .. o - 1 /\ Won(log, o, b)
                                   /\ \A i \in o + 1 .. m : log[i].type = "receipt"
      BY <1>1, ReadyOwns
    <3>2. Ready(host, TRUE)
      BY <1>5 DEF Accepts
    <3> QED BY <3>1, <3>2, Zenon
  <2>3. /\ log' = Append(log, r) /\ IsHost(host') /\ host'.up /\ host'.wrote = <<>>
        /\ host'.health = host.health /\ host'.fault = (host.fault \/ Faults(r))
    <3> HIDE DEF r
    <3> QED BY <1>1, <1>3, <1>5, OneEntry DEF PointsInv
  <2>4. r.type = "receipt" /\ r.boundary = b /\ r.save = f
    OBVIOUS
  <2>5. /\ log[b].type = "request" /\ HasOutcome(b)
        /\ f = [boundary |-> b, works |-> f.works, at |-> f.at]
        /\ \A x : OwnedBy(log, b, x) =>
             /\ Frozen(b, x) /\ f.works = Works(log, b)
             /\ Moved(b) \/ f.at = game[p].at
    BY <1>1, <2>1 DEF PointsInv, FileOK, FileFits
  <2>6. \A q \in Peer : game'[q].at = game[q].at
    BY <1>2 DEF Same
  <2> HIDE DEF f, b, o, r
  <2>7. OwnedBy(log, b, o)
    BY <1>3, <2>2, <2>5 DEF OwnedBy
  <2>8. Frozen(b, o) /\ f.works = Works(log, b) /\ (Moved(b) \/ f.at = game[p].at)
    BY <2>5, <2>7
  <2>9. /\ IsSeq(log') /\ Len(log') = m + 1 /\ log'[m + 1] = r
        /\ \A i \in 1..m : log'[i] = log[i]
    BY <1>3, <2>3, SeqAppend
  <2>10. Begins(log, log')
    BY <1>3, <2>9 DEF Begins
  <2>11. HostOK'
    <3>1. ASSUME NEW i \in 1..Len(log'), Failed(log'[i]) PROVE host'.fault
      <4>1. CASE i \in 1..m
        BY <1>1, <2>3, <2>9, <3>1, <4>1 DEF PointsInv, HostOK
      <4>2. CASE i = m + 1
        BY <2>4, <2>9, <3>1, <4>2 DEF Failed
      <4> QED BY <1>3, <2>9, <4>1, <4>2
    <3>2. ~host'.up => \A q \in Peer : host'.health[q] = Silent
      BY <2>3
    <3> QED BY <2>3, <3>1, <3>2 DEF PointsInv, HostOK
  <2>12. Attests(log', m + 1)
    <3>1. o \in 1..m /\ log'[o] = log[o] /\ b \in 1..m
      BY <1>3, <2>2, <2>9
    <3>2. Won(log', o, b)
      BY <2>2, <3>1 DEF Won
    <3>3. \A j \in o .. m + 1 : log'[j].type \notin WorkTypes
      <4>1. \A j \in o .. m + 1 : j = o \/ j \in o + 1 .. m \/ j = m + 1
        BY <1>3, <2>2
      <4>2. \A j \in o + 1 .. m : j \in 1..m
        BY <1>3, <2>2
      <4>3. \A j \in o + 1 .. m : log'[j].type = "receipt"
        BY <2>2, <2>9, <4>2
      <4> QED BY <2>4, <2>9, <3>2, <4>1, <4>3 DEF WorkTypes, Won
    <3>4. Works(log', b) = Works(log, b)
      BY <1>3, <2>10, <3>1, WorksKept
    <3>6. f.boundary = b
      BY <2>5
    <3>7. /\ (m + 1) - 1 = m /\ o \in 1..m
      BY <1>3, <2>2
    <3> QED BY <2>4, <2>8, <2>9, <3>1, <3>2, <3>3, <3>4, <3>6, <3>7 DEF Attests
  <2>13. Sound(log')
    <3> SUFFICES ASSUME NEW i \in 1..Len(log') PROVE Fit(log', i)
      BY <2>9 DEF Sound
    <3>1. CASE i \in 1..m
      <4>1. Fit(log, i) /\ i \in Nat \ {0} /\ \A j \in 1..i : j \in 1..m
        BY <1>3, <3>1 DEF Sound
      <4> QED BY <2>9, <4>1, FitKept
    <3>2. CASE i = m + 1
      BY <2>4, <2>9, <2>12, <3>2 DEF Fit, Openers, Loose
    <3> QED BY <1>3, <2>9, <3>1, <3>2
  <2>16. PICK k, c : k = m + 1 /\ c = b
    OBVIOUS
  <2>14. Reported(k)'
    <3>1. \A x : OwnedBy(log', c, x) => OwnedBy(log, c, x)
      BY <1>3, <2>5, <2>10, <2>13, <2>16, OwnedBefore
    <3>2. Moved(c) <=> Moved(c)'
      BY <1>2 DEF Moved, Same
    <3>3. \A x : Frozen(c, x) => Frozen(c, x)'
      BY <1>2, <3>2 DEF Frozen, Same
    <3>4. ASSUME NEW x, OwnedBy(log', c, x)
          PROVE  Frozen(c, x)' /\ (Moved(c)' \/ \A q \in Peer : f.at = game'[q].at)
      <4>1. Frozen(c, x) /\ (Moved(c) \/ f.at = game[p].at)
        BY <2>5, <2>16, <3>1, <3>4
      <4>2. Moved(c) \/ \A q \in Peer : game[p].at = game[q].at
        BY <4>1 DEF Frozen
      <4> QED BY <2>6, <3>2, <3>3, <4>1, <4>2
    <3>5. ASSUME NEW j \in 1..m, log'[j].type = "receipt", log'[j].boundary = c, ~Moved(c)'
          PROVE  log'[j].save.at = f.at
      <4>1. log'[j] = log[j]
        BY <2>9
      <4>2. Reported(j)
        BY <1>3, <3>5, <4>1 DEF PointsInv, ReceiptOK
      <4>3. log[j].save.at = game[p].at
        BY <2>7, <2>16, <3>2, <3>5, <4>1, <4>2 DEF Reported
      <4> QED BY <2>8, <2>16, <3>2, <3>5, <4>1, <4>3
    <3>6. /\ log'[k].boundary = c /\ log'[k].save = f
          /\ f = [boundary |-> f.boundary, works |-> f.works, at |-> f.at]
      BY <2>4, <2>5, <2>9, <2>16
    <3>7. \A j \in 1 .. k - 1 : j \in 1..m
      BY <1>3, <2>16
    <3> QED BY <2>16, <3>4, <3>5, <3>6, <3>7 DEF Reported
  <2>15. \A i \in Len(log) + 1 .. Len(log') : i = k
    BY <1>3, <2>9, <2>16
  <2> QED BY <1>1, <1>2, <2>3, <2>10, <2>11, <2>13, <2>14, <2>15, LongerKeeps
<1> QED BY <1>1, <1>4, <1>5
-----------------------------------------------------------------------------
(* The theorems.                                                           *)

\* The journal of a session that has started.
LEMMA InitPoints ==
  ASSUME PointsInit
  PROVE  PointsInv
<1>1. /\ host = Fresh /\ log = Started /\ seen = [p \in Peer |-> 0]
      /\ DOMAIN game = Peer
  BY DEF PointsInit
<1>2. \A p \in Peer : /\ IsGame(game[p]) /\ game[p].read = 2 /\ game[p].file = Nothing
                      /\ game[p].prep.boundary = 0
  BY DEF PointsInit, IsGame
<1>3. /\ IsSeq(log) /\ Len(log) = 2 /\ log[1].type = "work"
      /\ log[2].type = "outcome" /\ log[2].boundary = 1 /\ log[2].success
  <2> DEFINE x == [type |-> "work"]
             y == [type |-> "outcome", boundary |-> 1, success |-> TRUE]
  <2>1. x.type = "work" /\ y.type = "outcome" /\ y.boundary = 1 /\ y.success
    OBVIOUS
  <2>2. log = <<x, y>>
    BY <1>1 DEF Started
  <2> HIDE DEF x, y
  <2>3. <<x, y>> \in Seq({x, y})
    OBVIOUS
  <2> QED BY <2>1, <2>2, <2>3 DEF IsSeq
<1>4. \A i \in 1..Len(log) : i = 1 \/ i = 2
  BY <1>3
<1>5. Sound(log)
  <2>1. Fit(log, 1)
    BY <1>3 DEF Fit, Openers, Loose
  <2>2. Opens(log, 1) /\ ~SettledBy(log, 1, 2 - 1) /\ 1 \in 1 .. 2 - 1
    BY <1>3 DEF Opens, SettledBy
  <2>3. Fit(log, 2)
    BY <1>3, <2>2 DEF Fit, Openers, Loose
  <2> QED BY <1>3, <1>4, <2>1, <2>3 DEF Sound
<1>6. HostOK
  BY <1>1, <1>3, <1>4, FreshOK DEF HostOK, Failed
<1>7. \A b \in 1..Len(log) : log[b].type \notin {"request", "receipt"}
  BY <1>3, <1>4
<1>8. \A b, o : ~OwnedBy(log, b, o)
  BY <1>3, <1>4, <1>7 DEF OwnedBy
<1>9. GameOK
  <2>1. \A p \in Peer : Knows(game[p], log)
    BY <1>2, <1>3, <1>7 DEF Knows
  <2> QED BY <1>1, <1>2, <2>1 DEF GameOK
<1>10. HealthOK
  BY <1>1, <1>2, <1>8, FreshOK DEF HealthOK, Silent
<1> QED BY <1>1, <1>2, <1>5, <1>6, <1>7, <1>9, <1>10 DEF PointsInv, SeenOK, FileOK, ReceiptOK

\* Every step keeps it.
LEMMA StepPoints ==
  ASSUME PointsInv, [PointsNext]_pointVars
  PROVE  PointsInv'
<1>1. CASE UNCHANGED pointVars
  <2>1. UNCHANGED <<host, log, game, seen>>
    BY <1>1 DEF pointVars
  <2>2. HostOK' /\ SeenOK'
    BY <2>1 DEF PointsInv, HostOK, SeenOK, HasOutcome, Frozen, Moved
  <2> QED BY <2>1, <2>2, IdleKeeps
<1>2. CASE PointsNext
  BY <1>2, StepKinds, GrowsKeeps, BeatKeeps, PublishKeeps, SubmitKeeps, ApplyKeeps,
     AdvanceKeeps, ArriveKeeps, LateResumeKeeps, SaveKeeps DEF PointsInv
<1> QED BY <1>1, <1>2

\* The inductive invariant of the restore points: what the journal, the memory of the host,
\* the games, their files and the receipts say of each other.
THEOREM PointsInductive == PointsSpec => []PointsInv
<1>1. PointsInit => PointsInv
  BY InitPoints
<1>2. PointsInv /\ [PointsNext]_pointVars => PointsInv'
  BY StepPoints
<1> QED BY <1>1, <1>2, PTL DEF PointsSpec

\* What the offline planner asks of a restore point (restore.py:164-189): the receipts of a
\* boundary follow its one outcome, with no work in between.
THEOREM PlansFollow == PointsSpec => []PlanFollows
<1>1. PointsInv => PlanFollows
  <2> SUFFICES ASSUME PointsInv, NEW b \in Points
               PROVE  \E o \in Entries :
                        /\ Won(log, o, b)
                        /\ \A i \in Entries : log[i].type = "receipt" /\ log[i].boundary = b =>
                             i > o /\ \A j \in o..i : log[j].type \notin WorkTypes
    BY DEF PlanFollows, Won, WorkTypes
  <2>1. Sound(log) /\ Len(log) \in Nat
    BY SeqLen DEF PointsInv, Sound
  <2>2. ASSUME NEW i \in Entries, log[i].type = "receipt", log[i].boundary = b
        PROVE  \E o \in Entries : /\ Won(log, o, b) /\ i > o
                                  /\ \A j \in o..i : log[j].type \notin WorkTypes
    <3>1. Attests(log, i)
      BY <2>1, <2>2 DEF Sound, Fit, Entries
    <3>2. PICK o \in 1 .. i - 1 : /\ Won(log, o, b)
                                  /\ \A j \in o .. i : log[j].type \notin WorkTypes
      BY <2>2, <3>1 DEF Attests
    <3> QED BY <2>1, <3>2 DEF Entries
  <2>3. PICK i \in Entries : log[i].type = "receipt" /\ log[i].boundary = b
    BY DEF Points, Received
  <2>4. PICK o \in Entries : Won(log, o, b)
    BY <2>2, <2>3
  <2>5. \A x \in Entries : Won(log, x, b) => x = o
    BY <2>1, <2>4, OneOutcome DEF Won, Entries
  <2>6. \A k \in Entries : log[k].type = "receipt" /\ log[k].boundary = b =>
          k > o /\ \A j \in o..k : log[j].type \notin WorkTypes
    BY <2>2, <2>5
  <2> QED BY <2>4, <2>6
<1> QED BY <1>1, PointsInductive, PTL

\* What validate_receipt of the coordinator is for (anchor.py): the saves of a restore point
\* are of one world, the gameplay up to the boundary, at one instant unless a game ran on
\* after it had read that the boundary was agreed, which nothing in the code then notices.
THEOREM PointsAgree == PointsSpec => []RestorePointsAgree
<1>1. PointsInv => RestorePointsAgree
  <2> SUFFICES ASSUME PointsInv, NEW b \in Points
               PROVE  \A s, t \in Saves(b) : /\ s.boundary = b /\ s.works = Gameplay(b)
                                             /\ s.at = t.at \/ Moved(b)
    BY DEF RestorePointsAgree, Moved
  <2>1. Sound(log) /\ Len(log) \in Nat
    BY SeqLen DEF PointsInv, Sound
  <2> DEFINE Told(i) == i \in Entries /\ log[i].type = "receipt" /\ log[i].boundary = b
  <2>2. \A i : Told(i) => Attests(log, i) /\ Reported(i) /\ i \in Nat
    BY <2>1 DEF PointsInv, ReceiptOK, Sound, Fit, Entries
  <2>3. ASSUME NEW i, NEW j, Told(i), Told(j), i < j
        PROVE  Moved(b) \/ log[i].save.at = log[j].save.at
    <3>1. i \in 1 .. j - 1 /\ Reported(j)
      BY <2>1, <2>2, <2>3 DEF Entries
    <3> QED BY <2>3, <3>1 DEF Reported
  <2>4. \A i, j : Told(i) /\ Told(j) => Moved(b) \/ log[i].save.at = log[j].save.at
    <3> SUFFICES ASSUME NEW i, NEW j, Told(i), Told(j)
                 PROVE  Moved(b) \/ log[i].save.at = log[j].save.at
      OBVIOUS
    <3>1. i < j \/ j < i \/ i = j
      BY <2>2
    <3> QED BY <2>3, <3>1
  <2>5. \A i : Told(i) => log[i].save.boundary = b /\ log[i].save.works = Gameplay(b)
    BY <2>2 DEF Attests, Works, Gameplay
  <2>6. \A s : s \in Saves(b) <=> \E j : Told(j) /\ s = log[j].save
    BY DEF Saves
  <2> QED BY <2>4, <2>5, <2>6
<1> QED BY <1>1, PointsInductive, PTL
-----------------------------------------------------------------------------
(***************************************************************************)
(* SaveSync, for any number of attempts,                                   *)
(* slots, downloads, rewrites and failures: its type invariant, that a     *)
(* .sav on the receivers' disk is a whole save of the host, but for one    *)
(* that a rollback could not unlink (VisibleSaveIsWhole), and              *)
(* that the host counts no download that was not installed and leaks no    *)
(* slot (CountedIsInstalled).                                              *)
(*                                                                         *)
(* The argument.  A file the host's game rewrote holds a chunk newer than  *)
(* any before it, so a stat that is the same at both ends of the hashing   *)
(* was the same throughout, and what is served is one save set (Hashed).   *)
(* Each file on the receivers' disk was created by an attempt that has not *)
(* taken it back, or could not.  What is still to be taken back has a name *)
(* that no other attempt has such a file of: the metadata are renamed      *)
(* first and unlinked last, so that they stand for the whole set (Owned).  *)
(* Slots and counters are counted with the handlers that hold them         *)
(* (Slots).                                                                *)
(***************************************************************************)

\* The chunks of a save set.
NoneNewer(s, n) == \A r \in DOMAIN s : \A i \in DOMAIN s[r] : s[r][i] <= n

\* A file of the set was written after every file of the other one.
Later(s, t) ==
    \E r \in DOMAIN s : \E i \in DOMAIN s[r] :
        \A q \in DOMAIN t : \A j \in DOMAIN t[q] : t[q][j] < s[r][i]

\* While the host hashes, what it hashed is what it began with, or the end of the
\* hashing will tell; what it serves is a save set of one moment.
Hashed ==
    /\ DOMAIN server = {"phase", "before", "manifest", "active", "started", "successful"}
    /\ source \in moments /\ NoneNewer(source, edits)
    /\ \A r \in DOMAIN source : source[r] # <<>>
    /\ \A m \in moments : DOMAIN m = DOMAIN source
    /\ server.phase = "hashing" =>
         /\ server.before \in SaveSets /\ DOMAIN server.before = DOMAIN source
         /\ DOMAIN server.manifest \subseteq DOMAIN source
         /\ server.manifest = [r \in DOMAIN server.manifest |-> server.manifest[r]]
         /\ \/ /\ server.before = source
               /\ \A r \in DOMAIN server.manifest : server.manifest[r] = source[r]
            \/ Later(source, server.before)
    /\ server.phase = "listening" => server.manifest \in moments

\* The files an attempt created and has not taken back, or could not.
Holds(a) == client[a].created \cup client[a].kept

\* So is what is on its way to a receiver, and what it receives.
Delivered ==
    /\ \A a \in Attempt : Serving(a) => server.phase = "listening"
    /\ \A a \in Attempt : handler[a].phase = "sending" =>
          handler[a].left \subseteq DOMAIN server.manifest
    /\ \A a \in Attempt : \A i \in DOMAIN wire[a] :
          wire[a][i].kind = "manifest" => wire[a][i].manifest \in moments
    /\ \A a \in Attempt :
          client[a].phase \in {"files", "choosing", "renaming", "undoing", "receipt", "done"}
          \/ Holds(a) # {}
          => client[a].manifest \in moments

Mine(a, f) ==
    /\ f.bundle = client[a].manifest /\ f.suffix = client[a].suffix
    /\ f.role \in Holds(a) /\ f.bytes = client[a].manifest[f.role]

\* What is to be taken back begins with the metadata and ends with the .sav, it is on the
\* disk, no other attempt has such a file of that name, and there is no file but what an
\* attempt holds.
Owned ==
    /\ \A a \in Attempt :
          /\ client[a].created \subseteq DOMAIN client[a].manifest
          /\ client[a].created # {} => "metadata" \in client[a].created
          /\ "save" \in client[a].created => client[a].created = DOMAIN client[a].manifest
          /\ client[a].phase \in {"idle", "manifest", "files", "choosing"} => Holds(a) = {}
          /\ client[a].phase = "renaming" =>
                client[a].left = DOMAIN client[a].manifest \ client[a].created
          /\ \A role \in client[a].created :
                File(client[a].manifest, client[a].suffix, role, client[a].manifest[role])
                    \in disk
    /\ \A a, b \in Attempt :
          /\ client[a].created # {} /\ client[b].created # {}
          /\ client[a].manifest = client[b].manifest /\ client[a].suffix = client[b].suffix
          => a = b
    /\ \A f \in disk : \E a \in Attempt : Mine(a, f)

\* Every slot is held by a handler that serves, every download counted as successful was
\* received by an attempt whose handler is through, and was started.
Held     == {a \in Attempt : Serving(a)}
Through  == {a \in Attempt : client[a].phase = "done" /\ ~ Serving(a)}
Underway == {a \in Attempt : handler[a].phase \in {"sending", "receipt"}}

Slots ==
    /\ \A a \in Attempt : back[a] # <<>> => client[a].phase = "done"
    /\ \A a \in Attempt : client[a].phase = "idle" => handler[a].phase = "none"
    /\ server.active = Cardinality(Held)
    /\ server.successful <= Cardinality(Through)
    /\ server.successful + Cardinality(Underway) <= server.started

IInv == Hashed /\ Delivered /\ Owned /\ Slots

----------------------------------------------------------------------------
(* Constants and the orders of roles                                       *)

LEMMA Bounds ==
    /\ MaxEdit \in Nat /\ MaxTrouble \in Nat /\ IsFiniteSet(Attempt) /\ LastSuffix \in Nat
    /\ 1 <= LastSuffix /\ Junk \in Nat
<1>1. MaxEdit \in Nat /\ MaxTrouble \in Nat /\ IsFiniteSet(Attempt)
  BY SaveSyncAssumption
<1>2. Cardinality(Attempt) \in Nat
  BY <1>1, FS_CardinalityType
<1> QED BY <1>1, <1>2 DEF LastSuffix, Junk

LEMMA Limited ==
    ASSUME NEW l \in Limits
    PROVE  l.slots \in Nat /\ l.downloads \in Nat
<1>1. l \in [slots : Nat \ {0}, downloads : Nat \ {0}]
  BY SaveSyncAssumption
<1> QED BY <1>1

LEMMA Places ==
    /\ Place(SendOrder, "save") = 1 /\ Place(SendOrder, "metadata") = 2
    /\ Place(SendOrder, "preview") = 3
    /\ Place(InstallOrder, "metadata") = 1 /\ Place(InstallOrder, "preview") = 2
    /\ Place(InstallOrder, "save") = 3
<1>1. \A i \in 1 .. 3 : i = 1 \/ i = 2 \/ i = 3
  OBVIOUS
<1> QED BY <1>1 DEF Place, SendOrder, InstallOrder

\* The metadata come first and the .sav last.
LEMMA Firsts ==
    ASSUME NEW roles \in SUBSET Role, roles # {}
    PROVE  /\ First(SendOrder, roles) \in roles /\ First(InstallOrder, roles) \in roles
           /\ First(InstallOrder, roles) = "save" => roles = {"save"}
           /\ "metadata" \in roles => First(InstallOrder, roles) = "metadata"
           /\ NextUnlink(roles) \in roles
           /\ "save" \in roles => NextUnlink(roles) = "save"
           /\ NextUnlink(roles) = "metadata" => roles = {"metadata"}
<1>0. \A r \in roles : r = "save" \/ r = "metadata" \/ r = "preview"
  BY DEF Role
<1>1. \E r \in roles : \A q \in roles : Place(SendOrder, r) <= Place(SendOrder, q)
  BY <1>0, Places
<1>2. \E r \in roles : \A q \in roles : Place(InstallOrder, r) <= Place(InstallOrder, q)
  BY <1>0, Places
<1>3. \E r \in roles : \A q \in roles : Place(InstallOrder, q) <= Place(InstallOrder, r)
  BY <1>0, Places
<1>4. /\ First(SendOrder, roles) \in roles
      /\ \A q \in roles : Place(SendOrder, First(SendOrder, roles)) <= Place(SendOrder, q)
  BY <1>1 DEF First
<1>5. /\ First(InstallOrder, roles) \in roles
      /\ \A q \in roles : Place(InstallOrder, First(InstallOrder, roles)) <= Place(InstallOrder, q)
  BY <1>2 DEF First
<1>6. /\ NextUnlink(roles) \in roles
      /\ \A q \in roles : Place(InstallOrder, q) <= Place(InstallOrder, NextUnlink(roles))
  BY <1>3 DEF NextUnlink
<1>7. First(InstallOrder, roles) = "save" => roles = {"save"}
  BY <1>0, <1>5, Places
<1>8. "metadata" \in roles => First(InstallOrder, roles) = "metadata"
  BY <1>0, <1>5, Places
<1>9. "save" \in roles => NextUnlink(roles) = "save"
  BY <1>0, <1>6, Places
<1>10. NextUnlink(roles) = "metadata" => roles = {"metadata"}
  BY <1>0, <1>6, Places
<1> QED BY <1>4, <1>5, <1>6, <1>7, <1>8, <1>9, <1>10

LEMMA SetFacts ==
    ASSUME NEW s \in SaveSets
    PROVE  /\ DOMAIN s \subseteq Role /\ "save" \in DOMAIN s /\ "metadata" \in DOMAIN s
           /\ s \in [DOMAIN s -> Chunks] /\ \A r \in DOMAIN s : s[r] \in Chunks
BY DEF SaveSets, Required, Role

----------------------------------------------------------------------------
(* What a step changes                                                     *)

\* A handler that fails: its slot is returned.
Failing(a) ==
    /\ Serving(a) /\ Fail(a) /\ source' = source /\ moments' = moments /\ limits' = limits
    /\ client' = client /\ back' = back /\ disk' = disk /\ edits' = edits

\* A request, a chunk, the end of a file or of the files: the handler goes on.
Streaming(a) ==
    \/ handler[a].phase = "request" /\ ~ server.started >= limits.downloads /\ Request(a)
    \/ SendChunk(a)
    \/ FileSent(a) /\ handler[a].sent = server.manifest[First(SendOrder, handler[a].left)]
    \/ SendEnd(a)

\* What an attempt does to itself and to the bytes that wait for it.
Working(a) ==
    \/ ReadManifest(a) \/ ReadChunk(a) \/ ReadEnd(a) \/ HostLeft(a) \/ Choose(a)
    \/ Rename(a) \/ InstallFails(a) \/ Installed(a) \/ Unlink(a) \/ UnlinkFails(a)
    \/ SendReceipt(a) \/ ClientCrash(a)

LEMMA Steps ==
    ASSUME [Next]_vars
    PROVE  \/ UNCHANGED vars
           \/ \E role \in DOMAIN source : Rewrite(role)
           \/ StartHost \/ HashFile \/ FinishManifest \/ HostCrash
           \/ \E a \in Attempt : \/ Failing(a) \/ Streaming(a) \/ CountDownload(a)
                                 \/ Connect(a) \/ Working(a)
<1>1. ASSUME NEW a \in Attempt, Handle(a) \/ HandlerError(a)
      PROVE  Failing(a) \/ Streaming(a) \/ CountDownload(a)
  <2>1. CASE Request(a)
    <3>1. CASE server.started >= limits.downloads
      BY <2>1, <3>1 DEF Request, Failing, Serving, hostDisk, budget
    <3>2. CASE ~ server.started >= limits.downloads
      BY <2>1, <3>2 DEF Request, Streaming
    <3> QED BY <3>1, <3>2
  <2>2. CASE SendChunk(a) \/ SendEnd(a)
    BY <2>2 DEF Streaming
  <2>3. CASE FileSent(a)
    <3>1. CASE handler[a].sent # server.manifest[First(SendOrder, handler[a].left)]
      BY <2>3, <3>1 DEF FileSent, Failing, Serving, hostDisk, budget
    <3>2. CASE handler[a].sent = server.manifest[First(SendOrder, handler[a].left)]
      BY <2>3, <3>2 DEF FileSent, Streaming
    <3> QED BY <3>1, <3>2
  <2>4. CASE CountDownload(a)
    BY <2>4
  <2>5. CASE PeerLeft(a)
    BY <2>5 DEF PeerLeft, Failing, hostDisk, budget
  <2>6. CASE HandlerError(a)
    BY <2>6 DEF HandlerError, Failing, hostDisk
  <2> QED BY <1>1, <2>1, <2>2, <2>3, <2>4, <2>5, <2>6 DEF Handle
<1>2. ASSUME NEW a \in Attempt, Receive(a) \/ InstallFails(a) \/ UnlinkFails(a) \/ ClientCrash(a)
      PROVE  Connect(a) \/ Working(a)
  BY <1>2 DEF Receive, Working
<1> QED BY <1>1, <1>2 DEF Next

----------------------------------------------------------------------------
(* What the host serves is one save set                                    *)

LEMMA Elements ==
    ASSUME NEW S, NEW s \in Seq(S), NEW i \in DOMAIN s
    PROVE  s[i] \in S
OBVIOUS

LEMMA SourceFacts ==
    ASSUME TypeOK, Hashed
    PROVE  /\ source \in SaveSets /\ edits \in Nat /\ edits + 1 \in Nat
           /\ \A r \in DOMAIN source : /\ source[r] \in Seq(0 .. MaxEdit) /\ source[r] # <<>>
                                       /\ \A i \in DOMAIN source[r] :
                                            source[r][i] \in Nat /\ source[r][i] <= edits
<1>1. source \in SaveSets /\ edits \in Nat
  BY Bounds DEF TypeOK
<1>2. \A r \in DOMAIN source : source[r] \in Seq(0 .. MaxEdit)
  BY <1>1, SetFacts DEF Chunks
<1>3. ASSUME NEW r \in DOMAIN source, NEW i \in DOMAIN source[r]
      PROVE  source[r][i] \in 0 .. MaxEdit
  BY <1>2, Elements
<1> QED BY <1>1, <1>2, <1>3, Bounds DEF Hashed, NoneNewer

\* A rewrite leaves a chunk that is newer than all.
LEMMA RewriteFacts ==
    ASSUME TypeOK, Hashed, NEW role \in DOMAIN source, Rewrite(role)
    PROVE  /\ edits' = edits + 1 /\ edits < MaxEdit /\ server' = server
           /\ moments' = moments \union {source'}
           /\ source' \in SaveSets /\ DOMAIN source' = DOMAIN source
           /\ NoneNewer(source', edits') /\ \A r \in DOMAIN source' : source'[r] # <<>>
           /\ \E i \in DOMAIN source'[role] : source'[role][i] = edits + 1
<1>1. /\ edits' = edits + 1 /\ edits < MaxEdit /\ server' = server
      /\ moments' = moments \union {source'}
  BY DEF Rewrite
<1>2. PICK new \in {[i \in DOMAIN source[role] |-> edits + 1], Append(source[role], edits + 1)} :
          source' = [source EXCEPT ![role] = new]
  BY DEF Rewrite
<1>3. source[role] \in Seq(0 .. MaxEdit) /\ source[role] # <<>>
      /\ edits + 1 \in 0 .. MaxEdit /\ edits \in Nat
      /\ \A i \in DOMAIN source[role] : source[role][i] \in Nat /\ source[role][i] <= edits
  BY <1>1, SourceFacts, Bounds
<1>4. /\ new \in Seq(0 .. MaxEdit) /\ new # <<>>
      /\ \A i \in DOMAIN new : new[i] <= edits + 1
      /\ \E i \in DOMAIN new : new[i] = edits + 1
  <2>0. Len(source[role]) \in Nat /\ Len(source[role]) # 0
        /\ DOMAIN source[role] = 1 .. Len(source[role])
    BY <1>3
  <2>1. CASE new = Append(source[role], edits + 1)
    <3>1. /\ new \in Seq(0 .. MaxEdit) /\ DOMAIN new = 1 .. Len(source[role]) + 1
          /\ new[Len(source[role]) + 1] = edits + 1
          /\ \A i \in DOMAIN source[role] : new[i] = source[role][i]
      BY <1>3, <2>0, <2>1
    <3>2. \A i \in 1 .. Len(source[role]) + 1 :
              i \in 1 .. Len(source[role]) \/ i = Len(source[role]) + 1
      BY <2>0
    <3>3. Len(source[role]) + 1 \in 1 .. Len(source[role]) + 1
      BY <2>0
    <3>4. ASSUME NEW i \in DOMAIN new
          PROVE  new[i] <= edits + 1
      <4>1. CASE i \in DOMAIN source[role]
        <5>1. new[i] = source[role][i] /\ source[role][i] \in Nat /\ source[role][i] <= edits
          BY <1>3, <3>1, <4>1
        <5> QED BY <1>3, <5>1
      <4>2. CASE i = Len(source[role]) + 1
        BY <1>3, <3>1, <4>2
      <4>3. i \in DOMAIN source[role] \/ i = Len(source[role]) + 1
        BY <2>0, <3>1, <3>2, <3>4
      <4> QED BY <4>1, <4>2, <4>3
    <3> QED BY <3>1, <3>3, <3>4
  <2>2. CASE new = [i \in DOMAIN source[role] |-> edits + 1]
    <3>1. new = [i \in 1 .. Len(source[role]) |-> edits + 1]
      BY <2>0, <2>2
    <3>2. new \in Seq(0 .. MaxEdit) /\ DOMAIN new = 1 .. Len(source[role])
          /\ \A i \in DOMAIN new : new[i] = edits + 1
      BY <1>3, <2>0, <3>1
    <3>3. 1 \in 1 .. Len(source[role])
      BY <2>0
    <3> QED BY <1>3, <3>2, <3>3
  <2> QED BY <2>1, <2>2
<1>5. source \in SaveSets
  BY SourceFacts
<1>6. DOMAIN source' = DOMAIN source
      /\ \A r \in DOMAIN source : source'[r] = IF r = role THEN new ELSE source[r]
  BY <1>2, <1>5
<1>7. source' \in SaveSets
  BY <1>2, <1>4, <1>5 DEF SaveSets, Chunks
<1>8. NoneNewer(source', edits')
  <2> SUFFICES ASSUME NEW r \in DOMAIN source', NEW i \in DOMAIN source'[r]
               PROVE  source'[r][i] <= edits'
    BY DEF NoneNewer
  <2>1. CASE r = role
    BY <1>1, <1>4, <1>6, <2>1
  <2>2. CASE r # role
    <3>1. source'[r] = source[r] /\ r \in DOMAIN source
      BY <1>6, <2>2
    <3>2. source[r][i] \in Nat /\ source[r][i] <= edits
      BY <3>1, SourceFacts
    <3> QED BY <1>1, <1>3, <3>1, <3>2
  <2> QED BY <2>1, <2>2
<1>9. \A r \in DOMAIN source' : source'[r] # <<>>
  BY <1>4, <1>6, SourceFacts
<1> QED BY <1>1, <1>4, <1>6, <1>7, <1>8, <1>9

LEMMA HashedStep ==
    ASSUME TypeOK, Hashed, [Next]_vars
    PROVE  Hashed'
<1>0. DOMAIN server = {"phase", "before", "manifest", "active", "started", "successful"}
  BY DEF Hashed
\* Neither the save set nor the hashing changes.
<1>1. ASSUME source' = source, moments' = moments, edits' = edits,
             DOMAIN server' = DOMAIN server, server'.phase = server.phase,
             server'.before = server.before, server'.manifest = server.manifest
      PROVE  Hashed'
  BY <1>1 DEF Hashed
<1>2. ASSUME source' = source, moments' = moments, edits' = edits, server' = ServerDown
      PROVE  Hashed'
  <2>1. DOMAIN server' = {"phase", "before", "manifest", "active", "started", "successful"}
        /\ server'.phase = "down"
    BY <1>2 DEF ServerDown
  <2> QED BY <1>2, <2>1 DEF Hashed
<1>3. CASE UNCHANGED vars
  BY <1>1, <1>3 DEF vars
<1>4. ASSUME NEW role \in DOMAIN source, Rewrite(role)
      PROVE  Hashed'
  <2>1. /\ edits' = edits + 1 /\ server' = server /\ moments' = moments \union {source'}
        /\ DOMAIN source' = DOMAIN source /\ (\A m \in moments' : DOMAIN m = DOMAIN source')
        /\ NoneNewer(source', edits') /\ \A r \in DOMAIN source' : source'[r] # <<>>
        /\ \E i \in DOMAIN source'[role] : source'[role][i] = edits + 1
    BY <1>4, RewriteFacts DEF Hashed
  <2>2. ASSUME server.phase = "hashing"
        PROVE  Later(source', server.before)
    <3>1. ASSUME NEW q \in DOMAIN server.before, NEW j \in DOMAIN server.before[q]
          PROVE  server.before[q][j] < edits + 1
      <4>1. CASE server.before = source
        BY <3>1, <4>1, SourceFacts
      <4>2. CASE Later(source, server.before)
        <5>1. PICK r \in DOMAIN source : \E i \in DOMAIN source[r] :
                  server.before[q][j] < source[r][i]
          BY <3>1, <4>2 DEF Later
        <5>2. PICK i \in DOMAIN source[r] : server.before[q][j] < source[r][i]
          BY <5>1
        <5>3. source[r][i] \in Nat /\ source[r][i] <= edits /\ edits \in Nat
          BY SourceFacts
        <5>4. server.before[q][j] \in Nat
          <6>1. server.before \in SaveSets
            BY <2>2 DEF Hashed
          <6>2. server.before[q] \in Seq(0 .. MaxEdit)
            BY <6>1, SetFacts DEF Chunks
          <6>3. server.before[q][j] \in 0 .. MaxEdit
            BY <3>1, <6>2, Elements
          <6> QED BY <6>3
        <5> QED BY <5>2, <5>3, <5>4
      <4> QED BY <2>2, <4>1, <4>2 DEF Hashed
    <3>2. PICK i \in DOMAIN source'[role] : source'[role][i] = edits + 1
      BY <2>1
    <3> QED BY <2>1, <3>1, <3>2 DEF Later
  <2>3. server.phase = "hashing" =>
          /\ server.before \in SaveSets /\ DOMAIN server.before = DOMAIN source
          /\ DOMAIN server.manifest \subseteq DOMAIN source
          /\ server.manifest = [r \in DOMAIN server.manifest |-> server.manifest[r]]
    BY DEF Hashed
  <2>4. server.phase = "listening" => server.manifest \in moments'
    BY <2>1 DEF Hashed
  <2>5. source' \in moments'
    BY <2>1
  <2> QED BY <1>0, <2>1, <2>2, <2>3, <2>4, <2>5 DEF Hashed
<1>5. CASE StartHost
  <2>1. server' = [ServerDown EXCEPT !.phase = "hashing", !.before = source]
        /\ source' = source /\ moments' = moments /\ edits' = edits
    BY <1>5 DEF StartHost, hostDisk, budget
  <2>2. /\ DOMAIN server' = {"phase", "before", "manifest", "active", "started", "successful"}
        /\ server'.phase = "hashing" /\ server'.before = source /\ server'.manifest = NoSet
    BY <2>1 DEF ServerDown
  <2>3. DOMAIN NoSet = {} /\ NoSet = [r \in DOMAIN NoSet |-> NoSet[r]]
    BY DEF NoSet
  <2>4. source \in SaveSets
    BY DEF TypeOK
  <2> QED BY <2>1, <2>2, <2>3, <2>4 DEF Hashed
<1>6. CASE HashFile
  <2> DEFINE left == DOMAIN source \ DOMAIN server.manifest
  <2> DEFINE role == First(SendOrder, left)
  <2>1. server.phase = "hashing" /\ DOMAIN server.manifest # DOMAIN source
        /\ source' = source /\ moments' = moments /\ edits' = edits
    BY <1>6 DEF HashFile, hostDisk, budget
  <2>2. left \in SUBSET Role /\ left # {}
    BY <2>1, SourceFacts, SetFacts DEF Hashed
  <2>3. role \in left
    BY <2>2, Firsts
  <2> HIDE DEF role
  <2> DEFINE m == [r \in DOMAIN server.manifest \cup {role} |->
                     IF r = role THEN source[role] ELSE server.manifest[r]]
  <2>4. server' = [server EXCEPT !.manifest = m]
    BY <1>6 DEF HashFile, role
  <2>5. /\ DOMAIN server' = DOMAIN server /\ server'.phase = server.phase
        /\ server'.before = server.before /\ server'.manifest = m
    BY <1>0, <2>4
  <2>6. DOMAIN m \subseteq DOMAIN source /\ m = [r \in DOMAIN m |-> m[r]]
    BY <2>1, <2>3 DEF Hashed
  <2>7. (\A r \in DOMAIN server.manifest : server.manifest[r] = source[r])
        => \A r \in DOMAIN m : m[r] = source[r]
    OBVIOUS
  <2> HIDE DEF m
  <2> QED BY <2>1, <2>5, <2>6, <2>7 DEF Hashed
<1>7. CASE FinishManifest
  <2>1. server.phase = "hashing" /\ DOMAIN server.manifest = DOMAIN source
        /\ source' = source /\ moments' = moments /\ edits' = edits
    BY <1>7 DEF FinishManifest, hostDisk, budget
  <2>2. CASE ~ Unchanged(server.before)
    BY <1>2, <1>7, <2>1, <2>2 DEF FinishManifest
  <2>3. CASE Unchanged(server.before)
    <3>1. server.before = source
      BY <2>3 DEF Unchanged
    <3>2. ~ Later(source, source)
      <4> SUFFICES ASSUME Later(source, source)
                   PROVE  FALSE
        OBVIOUS
      <4>1. PICK r \in DOMAIN source : \E i \in DOMAIN source[r] : source[r][i] < source[r][i]
        BY DEF Later
      <4> QED BY <4>1, SourceFacts
    <3>3. \A r \in DOMAIN source : server.manifest[r] = source[r]
      BY <2>1, <3>1, <3>2 DEF Hashed
    <3>4. server.manifest = [r \in DOMAIN source |-> source[r]]
      BY <2>1, <3>3 DEF Hashed
    <3>5. server.manifest = source
      BY <3>4, SourceFacts, SetFacts
    <3>6. server' = [server EXCEPT !.phase = "listening"]
      BY <1>7, <2>3 DEF FinishManifest
    <3>7. DOMAIN server' = DOMAIN server /\ server'.phase = "listening"
          /\ server'.manifest = server.manifest
      BY <1>0, <3>6
    <3> QED BY <2>1, <3>5, <3>7 DEF Hashed
  <2> QED BY <2>2, <2>3
<1>8. CASE HostCrash
  BY <1>2, <1>8 DEF HostCrash, hostDisk
<1>9. ASSUME NEW a \in Attempt, Failing(a) \/ Streaming(a) \/ CountDownload(a) \/ Connect(a) \/ Working(a)
      PROVE  Hashed'
  <2>1. source' = source /\ moments' = moments /\ edits' = edits
    BY <1>9 DEF Failing, Streaming, CountDownload, Connect, Working, Request, SendChunk, FileSent,
       SendEnd, ReadManifest, ReadChunk, ReadEnd, HostLeft, Choose, Rename, InstallFails,
       Installed, Unlink, UnlinkFails, SendReceipt, ClientCrash, hostDisk, budget
  <2>2. \/ server' = server
        \/ server' = [server EXCEPT !.active = @ - 1]
        \/ server' = [server EXCEPT !.active = @ + 1]
        \/ server' = [server EXCEPT !.started = @ + 1]
        \/ server' = [server EXCEPT !.successful = @ + 1, !.active = @ - 1]
    BY <1>9 DEF Failing, Streaming, CountDownload, Connect, Working, Request, SendChunk, FileSent,
       SendEnd, ReadManifest, ReadChunk, ReadEnd, HostLeft, Choose, Rename, InstallFails,
       Installed, Unlink, UnlinkFails, SendReceipt, ClientCrash, hostDisk, budget, Fail, Accept
  <2>3. /\ DOMAIN server' = DOMAIN server /\ server'.phase = server.phase
        /\ server'.before = server.before /\ server'.manifest = server.manifest
    BY <1>0, <2>2
  <2> QED BY <1>1, <2>1, <2>3
<1> QED BY <1>3, <1>4, <1>5, <1>6, <1>7, <1>8, <1>9, Steps

----------------------------------------------------------------------------
(* What a receiver holds is a save set the host served                     *)

\* What the steps of the host's process, of a handler and of a receiver leave alone.
LEMMA HostKeeps ==
    ASSUME UNCHANGED vars \/ StartHost \/ HashFile \/ FinishManifest \/ HostCrash
    PROVE  /\ UNCHANGED <<limits, source, moments, client, back, disk, edits>>
           /\ ~ HostCrash => UNCHANGED <<wire, handler, trouble>>
BY DEF vars, StartHost, HashFile, FinishManifest, HostCrash, hostDisk, budget

LEMMA HandlerKeeps ==
    ASSUME NEW a \in Attempt,
           Failing(a) \/ Streaming(a) \/ CountDownload(a) \/ Connect(a)
    PROVE  UNCHANGED <<limits, source, moments, disk, edits>>
BY DEF Failing, Streaming, CountDownload, Connect, Request, SendChunk, FileSent, SendEnd,
   hostDisk, budget

LEMMA ReceiverKeeps ==
    ASSUME NEW a \in Attempt, Working(a)
    PROVE  /\ UNCHANGED <<limits, source, moments, server, handler, edits>>
           /\ wire' = wire \/ (wire[a] # <<>> /\ Take(a))
<1>1. CASE ReadManifest(a) \/ ReadChunk(a) \/ ReadEnd(a) \/ HostLeft(a) \/ Choose(a)
  BY <1>1 DEF ReadManifest, ReadChunk, ReadEnd, HostLeft, Choose, hostDisk, budget
<1>2. CASE Rename(a) \/ InstallFails(a) \/ Installed(a) \/ Unlink(a) \/ UnlinkFails(a)
           \/ SendReceipt(a) \/ ClientCrash(a)
  BY <1>2 DEF Rename, InstallFails, Installed, Unlink, UnlinkFails, SendReceipt, ClientCrash, hostDisk, budget
<1> QED BY <1>1, <1>2 DEF Working

\* Moments are only added.
LEMMA MomentsGrow ==
    ASSUME [Next]_vars
    PROVE  moments \subseteq moments'
BY Steps, HostKeeps, HandlerKeeps, ReceiverKeeps DEF Rewrite

\* The frames of an attempt after a step: those it had, fewer, or one more.
LEMMA PutFacts ==
    ASSUME NEW a \in Attempt, NEW f, NEW S, wire \in [Attempt -> Seq(S)], f \in S,
           wire' = Put(a, f)
    PROVE  \A b \in Attempt : \A i \in DOMAIN wire'[b] :
               wire'[b][i] = f \/ (i \in DOMAIN wire[b] /\ wire'[b][i] = wire[b][i])
<1>1. CASE Ended(a)
  BY <1>1 DEF Put
<1>2. CASE ~ Ended(a)
  <2>1. wire' = [wire EXCEPT ![a] = Append(@, f)]
    BY <1>2 DEF Put
  <2> SUFFICES ASSUME NEW b \in Attempt, NEW i \in DOMAIN wire'[b]
               PROVE  wire'[b][i] = f \/ (i \in DOMAIN wire[b] /\ wire'[b][i] = wire[b][i])
    OBVIOUS
  <2>2. CASE a = b
    <3>1. wire'[b] = Append(wire[b], f) /\ wire[b] \in Seq(S)
      BY <2>1, <2>2
    <3> QED BY <3>1
  <2>3. CASE a # b
    BY <2>1, <2>3
  <2> QED BY <2>2, <2>3
<1> QED BY <1>1, <1>2

LEMMA TakeFacts ==
    ASSUME NEW a \in Attempt, NEW S, wire \in [Attempt -> Seq(S)], wire[a] # <<>>, Take(a)
    PROVE  /\ 1 \in DOMAIN wire[a]
           /\ \A b \in Attempt : \A i \in DOMAIN wire'[b] :
                \E j \in DOMAIN wire[b] : wire'[b][i] = wire[b][j]
<1>0. wire' = [wire EXCEPT ![a] = Tail(@)] /\ wire[a] \in Seq(S)
  BY DEF Take
<1>1. 1 \in DOMAIN wire[a]
  BY <1>0
<1> SUFFICES ASSUME NEW b \in Attempt, NEW i \in DOMAIN wire'[b]
             PROVE  \E j \in DOMAIN wire[b] : wire'[b][i] = wire[b][j]
  BY <1>1
<1>2. CASE a = b
  <2>1. wire'[b] = Tail(wire[b]) /\ wire[b] \in Seq(S) /\ wire[b] # <<>>
    BY <1>0, <1>2
  <2>2. i + 1 \in DOMAIN wire[b] /\ wire'[b][i] = wire[b][i + 1]
    BY <2>1
  <2> QED BY <2>2
<1>3. CASE a # b
  BY <1>0, <1>3
<1> QED BY <1>2, <1>3

\* The fields of an attempt, and what an action of its own makes of them.
Receiving == {"files", "choosing", "renaming", "undoing", "receipt", "done"}

LEMMA GiveFacts ==
    ASSUME TypeOK, NEW a \in Attempt, NEW phase, Give(a, phase)
    PROVE  /\ \A b \in Attempt \ {a} : client'[b] = client[b]
           /\ client'[a].phase = phase /\ client'[a].manifest = client[a].manifest
           /\ client'[a].left = client[a].left /\ client'[a].suffix = client[a].suffix
           /\ client'[a].created = client[a].created /\ client'[a].kept = client[a].kept
<1>1. client \in [Attempt -> ClientType]
  BY DEF TypeOK
<1> QED BY <1>1 DEF Give, ClientType

\* What an attempt works on was given to it by a manifest, and stays.
LEMMA WorkFacts ==
    ASSUME TypeOK, NEW a \in Attempt, Working(a)
    PROVE  /\ \A b \in Attempt \ {a} : client'[b] = client[b]
           /\ ReadManifest(a) \/ /\ client'[a].manifest = client[a].manifest
                                 /\ client'[a].phase \in Receiving => client[a].phase \in Receiving
                                 /\ Holds(a)' # {} =>
                                      client[a].phase \in Receiving \/ Holds(a) # {}
<1>0. client \in [Attempt -> ClientType] /\ client[a] \in ClientType
  BY DEF TypeOK
<1>1. CASE ReadManifest(a)
  BY <1>0, <1>1 DEF ReadManifest, Give
<1>2. CASE ReadChunk(a)
  <2>1. client[a].phase = "files"
    BY <1>2 DEF ReadChunk
  <2>2. \/ \E got : client' = [client EXCEPT ![a].got = got]
        \/ \E left : client' = [client EXCEPT ![a].got = <<>>, ![a].left = left]
        \/ client' = [client EXCEPT ![a].phase = "failed"]
    BY <1>2 DEF ReadChunk, Give
  <2> QED BY <1>0, <2>1, <2>2 DEF ClientType, Receiving, Holds
<1>3. CASE ReadEnd(a) \/ HostLeft(a) \/ Installed(a) \/ SendReceipt(a) \/ InstallFails(a)
           \/ ClientCrash(a)
  <2>1. PICK phase : /\ Give(a, phase)
                     /\ phase \in Receiving => client[a].phase \in Receiving
    BY <1>3 DEF ReadEnd, HostLeft, Installed, SendReceipt, InstallFails, Undo, ClientCrash,
                Receiving
  <2> QED BY <2>1, GiveFacts DEF Holds
<1>4. CASE Choose(a)
  <2>1. client[a].phase = "choosing"
    BY <1>4 DEF Choose
  <2>2. \/ Give(a, "receipt")
        \/ client' = [client EXCEPT ![a].phase = "renaming", ![a].left = DOMAIN client[a].manifest]
        \/ client' = [client EXCEPT ![a].suffix = @ + 1]
    BY <1>4 DEF Choose
  <2>3. CASE Give(a, "receipt")
    BY <2>1, <2>3, GiveFacts DEF Receiving, Holds
  <2>4. CASE client' = [client EXCEPT ![a].phase = "renaming",
                                      ![a].left = DOMAIN client[a].manifest]
    BY <1>0, <2>1, <2>4 DEF ClientType, Receiving, Holds
  <2>5. CASE client' = [client EXCEPT ![a].suffix = @ + 1]
    BY <1>0, <2>1, <2>5 DEF ClientType, Receiving, Holds
  <2> QED BY <2>2, <2>3, <2>4, <2>5
<1>5. CASE Rename(a)
  <2>1. client[a].phase = "renaming"
    BY <1>5 DEF Rename
  <2>2. \/ Give(a, "undoing")
        \/ \E role : client' = [client EXCEPT ![a].left = @ \ {role},
                                              ![a].created = @ \cup {role}]
    BY <1>5 DEF Rename, Undo
  <2>3. CASE Give(a, "undoing")
    BY <2>1, <2>3, GiveFacts DEF Receiving, Holds
  <2>4. CASE \E role : client' = [client EXCEPT ![a].left = @ \ {role},
                                              ![a].created = @ \cup {role}]
    BY <1>0, <2>1, <2>4 DEF ClientType, Receiving, Holds
  <2> QED BY <2>2, <2>3, <2>4
<1>6. CASE Unlink(a)
  <2>1. client[a].phase = "undoing"
    BY <1>6 DEF Unlink
  <2>2. \/ Give(a, "failed")
        \/ \E role : client' = [client EXCEPT ![a].created = @ \ {role}]
    BY <1>6 DEF Unlink
  <2> QED BY <1>0, <2>1, <2>2 DEF Give, ClientType, Receiving, Holds
<1>7. CASE UnlinkFails(a)
  <2>1. client[a].phase = "undoing"
    BY <1>7 DEF UnlinkFails
  <2>2. \E role : client' = [client EXCEPT ![a].created = @ \ {role}, ![a].kept = @ \cup {role}]
    BY <1>7 DEF UnlinkFails
  <2> QED BY <1>0, <2>1, <2>2 DEF ClientType, Receiving, Holds
<1> QED BY <1>1, <1>2, <1>3, <1>4, <1>5, <1>6, <1>7 DEF Working

LEMMA FrameFacts ==
    ASSUME TypeOK, Hashed
    PROVE  /\ \A kind \in {"error", "end"} : Frame(kind) \in Frames /\ Frame(kind).kind = kind
           /\ \A n \in 0 .. MaxEdit : Bytes(n) \in Frames /\ Bytes(n).kind = "bytes"
           /\ server.phase = "listening" =>
                /\ ManifestFrame(server.manifest) \in Frames
                /\ ManifestFrame(server.manifest).manifest \in moments
BY DEF Frames, Frame, Bytes, ManifestFrame, TypeOK, Hashed

\* A chunk that is read is a chunk of the host's file.
LEMMA ChunkSent ==
    ASSUME TypeOK, Hashed, Delivered, NEW a \in Attempt, SendChunk(a)
    PROVE  /\ First(SendOrder, handler[a].left) \in handler[a].left
           /\ source[First(SendOrder, handler[a].left)][Len(handler[a].sent) + 1] \in 0 .. MaxEdit
<1>1. /\ handler[a].phase = "sending" /\ handler[a].left # {} /\ handler[a].left \subseteq Role
      /\ handler[a].sent \in Seq(0 .. MaxEdit)
      /\ Len(handler[a].sent) < Len(source[First(SendOrder, handler[a].left)])
  BY DEF SendChunk, TypeOK, HandlerType, Chunks
<1> DEFINE role == First(SendOrder, handler[a].left)
<1>2. role \in handler[a].left
  BY <1>1, Firsts
<1>3. DOMAIN server.manifest = DOMAIN source
  BY <1>1 DEF Delivered, Hashed, Serving
<1>4. role \in DOMAIN source
  BY <1>1, <1>2, <1>3 DEF Delivered
<1> HIDE DEF role
<1>5. source[role] \in Seq(0 .. MaxEdit)
  BY <1>4, SourceFacts
<1>6. Len(handler[a].sent) + 1 \in DOMAIN source[role]
  BY <1>1, <1>5 DEF role
<1>7. source[role][Len(handler[a].sent) + 1] \in 0 .. MaxEdit
  BY <1>5, <1>6, Elements
<1> QED BY <1>2, <1>7 DEF role

\* What a handler streams, it puts on the wire.
LEMMA StreamFacts ==
    ASSUME TypeOK, Hashed, Delivered, NEW a \in Attempt, Streaming(a)
    PROVE  /\ Serving(a) /\ client' = client /\ moments' = moments
           /\ handler'[a].phase \in {"sending", "receipt"}
           /\ \A b \in Attempt \ {a} : handler'[b] = handler[b]
           /\ \/ /\ handler[a].phase = "request" /\ wire' = Put(a, ManifestFrame(server.manifest))
                 /\ server' = [server EXCEPT !.started = @ + 1]
              \/ /\ handler[a].phase = "sending" /\ server' = server
                 /\ \/ wire' = wire \/ wire' = Put(a, Frame("end"))
                    \/ \E n \in 0 .. MaxEdit : wire' = Put(a, Bytes(n))
<1>0. handler \in [Attempt -> HandlerType] /\ handler[a] \in HandlerType /\ source \in SaveSets
  BY DEF TypeOK
<1>1. CASE handler[a].phase = "request" /\ ~ server.started >= limits.downloads /\ Request(a)
  <2>1. /\ server' = [server EXCEPT !.started = @ + 1]
        /\ wire' = Put(a, ManifestFrame(server.manifest))
        /\ handler' = [handler EXCEPT ![a].phase = "sending", ![a].left = DOMAIN server.manifest]
        /\ client' = client /\ moments' = moments
    BY <1>1 DEF Request, hostDisk
  <2> QED BY <1>0, <1>1, <2>1 DEF HandlerType, Serving
<1>2. CASE SendChunk(a)
  <2> DEFINE role == First(SendOrder, handler[a].left)
  <2> DEFINE file == source[role]
  <2> DEFINE n == file[Len(handler[a].sent) + 1]
  <2>1. /\ handler[a].phase = "sending" /\ handler[a].left # {}
        /\ Len(handler[a].sent) < Len(file) /\ wire' = Put(a, Bytes(n))
        /\ handler' = [handler EXCEPT ![a].sent = Append(@, n)]
        /\ client' = client /\ moments' = moments /\ server' = server
    BY <1>2 DEF SendChunk, hostDisk
  <2>2. n \in 0 .. MaxEdit
    BY <1>0, <1>2, <2>1, ChunkSent
  <2> HIDE DEF n
  <2> QED BY <1>0, <2>1, <2>2 DEF HandlerType, Serving
<1>3. CASE FileSent(a) /\ handler[a].sent = server.manifest[First(SendOrder, handler[a].left)]
  <2>1. handler[a].phase = "sending" /\ client' = client /\ moments' = moments
        /\ server' = server /\ wire' = wire
    BY <1>3 DEF FileSent, hostDisk
  <2>2. \E role : handler' = [handler EXCEPT ![a].left = @ \ {role}, ![a].sent = <<>>]
    BY <1>3 DEF FileSent
  <2> QED BY <1>0, <2>1, <2>2 DEF HandlerType, Serving
<1>4. CASE SendEnd(a)
  <2>1. /\ handler[a].phase = "sending" /\ wire' = Put(a, Frame("end")) /\ server' = server
        /\ handler' = [handler EXCEPT ![a].phase = "receipt"]
        /\ client' = client /\ moments' = moments
    BY <1>4 DEF SendEnd, hostDisk
  <2> QED BY <1>0, <2>1 DEF HandlerType, Serving
<1> QED BY <1>1, <1>2, <1>3, <1>4 DEF Streaming

\* What a step of an attempt or of its handler leaves of the others' handlers, and
\* of the host's server.
LEMMA DeliveredStep ==
    ASSUME TypeOK, Hashed, Delivered, [Next]_vars
    PROVE  Delivered'
<1>0. /\ handler \in [Attempt -> HandlerType] /\ client \in [Attempt -> ClientType]
      /\ wire \in [Attempt -> Seq(Frames)]
      /\ DOMAIN server = {"phase", "before", "manifest", "active", "started", "successful"}
      /\ moments \subseteq moments'
  BY MomentsGrow DEF TypeOK, Hashed
\* The three parts are kept one by one.
<1>1. ASSUME server'.phase = server.phase, server'.manifest = server.manifest,
             \A a \in Attempt : handler'[a] = handler[a],
             \A a \in Attempt : client'[a] = client[a],
             \A b \in Attempt : \A i \in DOMAIN wire'[b] :
                 \E j \in DOMAIN wire[b] : wire'[b][i] = wire[b][j]
      PROVE  Delivered'
  BY <1>0, <1>1 DEF Delivered, Serving, Holds
<1>2. CASE UNCHANGED vars
  BY <1>1, <1>2 DEF vars
<1>3. ASSUME NEW role \in DOMAIN source, Rewrite(role)
      PROVE  Delivered'
  BY <1>1, <1>3 DEF Rewrite
<1>4. CASE StartHost \/ HashFile \/ FinishManifest
  <2>1. handler' = handler /\ client' = client /\ wire' = wire /\ server.phase # "listening"
    BY <1>4 DEF StartHost, HashFile, FinishManifest
  <2>2. \A a \in Attempt : ~ Serving(a)
    BY <2>1 DEF Delivered
  <2> QED BY <1>0, <2>1, <2>2 DEF Delivered, Serving, Holds
<1>5. CASE HostCrash
  <2>1. handler' = [a \in Attempt |->
          IF handler[a].phase \in {"none", "closed"} THEN handler[a]
          ELSE [handler[a] EXCEPT !.phase = "broken"]]
        /\ client' = client
    BY <1>5 DEF HostCrash
  <2>2. \A a \in Attempt : handler'[a].phase \in {"none", "closed", "broken"}
    BY <1>0, <2>1 DEF HandlerType
  <2>3. \A a \in Attempt : wire'[a] = wire[a] \/ wire'[a] = <<>>
    BY <1>0, <1>5 DEF HostCrash
  <2>4. \A a \in Attempt : \A i \in DOMAIN wire'[a] :
            i \in DOMAIN wire[a] /\ wire'[a][i] = wire[a][i]
    BY <2>3
  <2> QED BY <1>0, <2>1, <2>2, <2>4 DEF Delivered, Serving, Holds
<1>6. ASSUME NEW a \in Attempt, Failing(a)
      PROVE  Delivered'
  <2>1. /\ wire' = Put(a, Frame("error")) /\ client' = client
        /\ handler' = [handler EXCEPT ![a].phase = "closed"]
        /\ server' = [server EXCEPT !.active = @ - 1]
    BY <1>6 DEF Failing, Fail
  <2>2. server'.phase = server.phase /\ server'.manifest = server.manifest
    BY <1>0, <2>1
  <2>3. handler'[a].phase = "closed" /\ \A b \in Attempt \ {a} : handler'[b] = handler[b]
    BY <1>0, <2>1 DEF HandlerType
  <2>4. \A b \in Attempt : \A i \in DOMAIN wire'[b] :
            wire'[b][i] = Frame("error") \/ (i \in DOMAIN wire[b] /\ wire'[b][i] = wire[b][i])
    BY <1>0, <2>1, PutFacts, FrameFacts
  <2>5. Frame("error").kind # "manifest"
    BY DEF Frame
  <2>6. \A b \in Attempt : Serving(b)' => Serving(b)
    BY <2>3 DEF Serving
  <2>7. \A b \in Attempt : handler'[b].phase = "sending" =>
            handler[b].phase = "sending" /\ handler'[b].left = handler[b].left
    BY <2>3
  <2>8. \A b \in Attempt : \A i \in DOMAIN wire'[b] :
            wire'[b][i].kind = "manifest" => wire'[b][i].manifest \in moments'
    BY <1>0, <2>4, <2>5 DEF Delivered
  <2>9. \A b \in Attempt : Serving(b)' => server'.phase = "listening"
    BY <2>2, <2>6 DEF Delivered
  <2>10. \A b \in Attempt : handler'[b].phase = "sending" =>
            handler'[b].left \subseteq DOMAIN server'.manifest
    BY <2>2, <2>7 DEF Delivered
  <2> QED BY <1>0, <2>1, <2>8, <2>9, <2>10 DEF Delivered, Holds
<1>7. ASSUME NEW a \in Attempt, Streaming(a)
      PROVE  Delivered'
  <2>0. Serving(a) /\ server.phase = "listening"
    BY <1>7, StreamFacts DEF Delivered
  <2>1. \E f \in Frames : /\ f.kind = "manifest" => f.manifest \in moments
                          /\ wire' = wire \/ wire' = Put(a, f)
    BY <1>7, <2>0, StreamFacts, FrameFacts
  <2>2. PICK f \in Frames : /\ f.kind = "manifest" => f.manifest \in moments
                            /\ wire' = wire \/ wire' = Put(a, f)
    BY <2>1
  <2>3. \A b \in Attempt : \A i \in DOMAIN wire'[b] :
            wire'[b][i] = f \/ (i \in DOMAIN wire[b] /\ wire'[b][i] = wire[b][i])
    <3>1. CASE wire' = wire
      BY <3>1
    <3>2. CASE wire' = Put(a, f)
      BY <1>0, <3>2, PutFacts
    <3> QED BY <2>2, <3>1, <3>2
  <2>4. server'.phase = server.phase /\ server'.manifest = server.manifest /\ client' = client
    BY <1>0, <1>7, StreamFacts
  <2>5. /\ handler'[a].phase \in {"sending", "receipt"}
        /\ \A b \in Attempt \ {a} : handler'[b] = handler[b]
    BY <1>7, StreamFacts
  <2>6. handler'[a].phase = "sending" => handler'[a].left \subseteq DOMAIN server.manifest
    <3>1. CASE handler[a].phase = "request" /\ Request(a) /\ ~ server.started >= limits.downloads
      BY <1>0, <3>1 DEF Request, HandlerType
    <3>2. CASE SendChunk(a)
      BY <1>0, <3>2 DEF SendChunk, HandlerType, Delivered
    <3>3. CASE FileSent(a) /\ handler[a].sent = server.manifest[First(SendOrder, handler[a].left)]
      <4>1. \E role : handler' = [handler EXCEPT ![a].left = @ \ {role}, ![a].sent = <<>>]
        BY <3>3 DEF FileSent
      <4>2. handler'[a].left \subseteq handler[a].left /\ handler[a].phase = "sending"
        BY <1>0, <3>3, <4>1 DEF HandlerType, FileSent
      <4> QED BY <4>2 DEF Delivered
    <3>4. CASE SendEnd(a)
      BY <1>0, <3>4 DEF SendEnd, HandlerType
    <3> QED BY <1>7, <3>1, <3>2, <3>3, <3>4 DEF Streaming
  <2> QED BY <1>0, <2>0, <2>2, <2>3, <2>4, <2>5, <2>6 DEF Delivered, Serving, Holds
<1>8. ASSUME NEW a \in Attempt, CountDownload(a)
      PROVE  Delivered'
  <2>1. /\ wire' = wire /\ client' = client
        /\ handler' = [handler EXCEPT ![a].phase = "closed"]
        /\ server' = [server EXCEPT !.successful = @ + 1, !.active = @ - 1]
    BY <1>8 DEF CountDownload
  <2>2. server'.phase = server.phase /\ server'.manifest = server.manifest
    BY <1>0, <2>1
  <2>3. handler'[a].phase = "closed" /\ \A b \in Attempt \ {a} : handler'[b] = handler[b]
    BY <1>0, <2>1 DEF HandlerType
  <2> QED BY <1>0, <2>1, <2>2, <2>3 DEF Delivered, Serving, Holds
<1>9. ASSUME NEW a \in Attempt, Connect(a)
      PROVE  Delivered'
  <2>1. /\ \A b \in Attempt \ {a} : client'[b] = client[b]
        /\ client'[a].phase \in {"manifest", "failed"}
        /\ client'[a].created = client[a].created /\ client'[a].manifest = client[a].manifest
        /\ client'[a].kept = client[a].kept
    <3>1. PICK phase \in {"manifest", "failed"} : Give(a, phase)
      BY <1>9 DEF Connect
    <3> QED BY <3>1, GiveFacts
  <2>2. \/ /\ server' = server /\ handler' = handler /\ wire' = wire
        \/ /\ server.phase = "listening" /\ server' = [server EXCEPT !.active = @ + 1]
           /\ handler' = [handler EXCEPT ![a].phase = "request"] /\ wire' = wire
        \/ /\ server' = server /\ handler' = [handler EXCEPT ![a].phase = "closed"]
           /\ wire' = [wire EXCEPT ![a] = <<Frame("error")>>]
    BY <1>9 DEF Connect, Accept
  <2>3. /\ server'.phase = server.phase /\ server'.manifest = server.manifest
        /\ \A b \in Attempt \ {a} : handler'[b] = handler[b]
        /\ \/ handler'[a] = handler[a] \/ handler'[a].phase = "closed"
           \/ handler'[a].phase = "request" /\ server.phase = "listening"
    BY <1>0, <2>2 DEF HandlerType
  <2>4. \A b \in Attempt : \A i \in DOMAIN wire'[b] :
            wire'[b][i].kind = "error" \/ (i \in DOMAIN wire[b] /\ wire'[b][i] = wire[b][i])
    <3>1. \A i \in DOMAIN <<Frame("error")>> : <<Frame("error")>>[i].kind = "error"
      BY DEF Frame
    <3> HIDE DEF Frame
    <3> QED BY <1>0, <2>2, <3>1
  <2>5. \A b \in Attempt : Serving(b)' => server'.phase = "listening"
    BY <2>3 DEF Delivered, Serving, Holds
  <2>6. \A b \in Attempt : handler'[b].phase = "sending" =>
            handler'[b].left \subseteq DOMAIN server'.manifest
    BY <2>3 DEF Delivered
  <2>7. \A b \in Attempt : \A i \in DOMAIN wire'[b] :
            wire'[b][i].kind = "manifest" => wire'[b][i].manifest \in moments'
    BY <1>0, <2>4 DEF Delivered
  <2> QED BY <1>0, <2>1, <2>5, <2>6, <2>7 DEF Delivered, Holds
<1>10. ASSUME NEW a \in Attempt, Working(a)
       PROVE  Delivered'
  <2>1. server' = server /\ handler' = handler
    BY <1>10 DEF Working, ReadManifest, ReadChunk, ReadEnd, HostLeft, Choose, Rename,
       InstallFails, Installed, Unlink, UnlinkFails, SendReceipt, ClientCrash
  <2>2. wire' = wire \/ (wire[a] # <<>> /\ Take(a))
    BY <1>10 DEF Working, ReadManifest, ReadChunk, ReadEnd, HostLeft, Choose, Rename,
       InstallFails, Installed, Unlink, UnlinkFails, SendReceipt, ClientCrash
  <2>3. \A b \in Attempt : \A i \in DOMAIN wire'[b] :
            \E j \in DOMAIN wire[b] : wire'[b][i] = wire[b][j]
    BY <1>0, <2>2, TakeFacts
  <2>4. \A b \in Attempt : \A i \in DOMAIN wire'[b] :
            wire'[b][i].kind = "manifest" => wire'[b][i].manifest \in moments'
    BY <1>0, <2>3 DEF Delivered
  <2>5. \A b \in Attempt \ {a} : client'[b] = client[b]
    BY <1>10, WorkFacts
  <2>6. CASE ReadManifest(a)
    <3>1. 1 \in DOMAIN wire[a]
      BY <1>0, <2>6, TakeFacts DEF ReadManifest
    <3>2. CASE Next1(a).kind = "manifest"
      <4>1. client' = [client EXCEPT ![a].phase = "files", ![a].manifest = Next1(a).manifest,
                         ![a].left = DOMAIN Next1(a).manifest]
        BY <2>6, <3>2 DEF ReadManifest
      <4>2. client'[a].manifest = Next1(a).manifest
        BY <1>0, <4>1 DEF ClientType
      <4>3. Next1(a).manifest \in moments
        BY <3>1, <3>2 DEF Next1, Delivered
      <4> QED BY <1>0, <2>1, <2>4, <2>5, <4>2, <4>3 DEF Delivered, Serving, Holds
    <3>3. CASE Next1(a).kind # "manifest"
      <4>1. Give(a, "failed")
        BY <2>6, <3>3 DEF ReadManifest
      <4>2. client'[a].phase = "failed" /\ client'[a].created = client[a].created
            /\ client'[a].kept = client[a].kept /\ client'[a].manifest = client[a].manifest
        BY <4>1, GiveFacts
      <4> QED BY <1>0, <2>1, <2>4, <2>5, <4>2 DEF Delivered, Serving, Holds
    <3> QED BY <3>2, <3>3
  <2>7. CASE ~ ReadManifest(a)
    <3>1. /\ client'[a].manifest = client[a].manifest
          /\ client'[a].phase \in Receiving => client[a].phase \in Receiving
          /\ Holds(a)' # {} => client[a].phase \in Receiving \/ Holds(a) # {}
      BY <1>10, <2>7, WorkFacts
    <3> QED BY <1>0, <2>1, <2>4, <2>5, <3>1 DEF Delivered, Serving, Holds, Receiving
  <2> QED BY <2>6, <2>7
<1> QED BY <1>2, <1>3, <1>4, <1>5, <1>6, <1>7, <1>8, <1>9, <1>10, Steps

----------------------------------------------------------------------------
(* Every file on the receivers' disk belongs to one attempt                *)

Early == {"idle", "manifest", "files", "choosing"}

\* A step that creates no file and removes none.
LEMMA OwnedKept ==
    ASSUME Owned, disk' = disk,
           \A b \in Attempt :
             /\ client'[b].created = client[b].created /\ client'[b].kept = client[b].kept
             /\ Holds(b) # {} => /\ client'[b].manifest = client[b].manifest
                                 /\ client'[b].suffix = client[b].suffix
             /\ client'[b].phase \in Early => Holds(b) = {}
             /\ client'[b].phase = "renaming" =>
                  client'[b].left = DOMAIN client'[b].manifest \ client[b].created
    PROVE  Owned'
<1>1. ASSUME NEW a \in Attempt
      PROVE  /\ client'[a].created \subseteq DOMAIN client'[a].manifest
             /\ client'[a].created # {} => "metadata" \in client'[a].created
             /\ "save" \in client'[a].created =>
                  client'[a].created = DOMAIN client'[a].manifest
             /\ client'[a].phase \in Early => Holds(a)' = {}
             /\ client'[a].phase = "renaming" =>
                  client'[a].left = DOMAIN client'[a].manifest \ client'[a].created
             /\ \A role \in client'[a].created :
                  File(client'[a].manifest, client'[a].suffix, role, client'[a].manifest[role])
                      \in disk'
  BY <1>1 DEF Owned, Holds
<1>2. \A a, b \in Attempt :
          /\ client'[a].created # {} /\ client'[b].created # {}
          /\ client'[a].manifest = client'[b].manifest /\ client'[a].suffix = client'[b].suffix
          => a = b
  BY DEF Owned, Holds
<1>3. ASSUME NEW f \in disk'
      PROVE  \E a \in Attempt : Mine(a, f)'
  <2>1. PICK a \in Attempt : Mine(a, f)
    BY DEF Owned
  <2>2. Holds(a) # {}
    BY <2>1 DEF Mine
  <2> QED BY <2>1, <2>2 DEF Mine, Holds
<1> QED BY <1>1, <1>2, <1>3 DEF Owned, Early

\* The name an attempt installs under: another attempt that created a file of that name
\* created the metadata.
LEMMA RenameOwned ==
    ASSUME TypeOK, Delivered, Owned, NEW a \in Attempt, Rename(a), disk' # disk
    PROVE  Owned'
<1> DEFINE role == First(InstallOrder, client[a].left)
<1> DEFINE m == client[a].manifest
<1> DEFINE s == client[a].suffix
<1> DEFINE new == File(m, s, role, m[role])
<1>0. client \in [Attempt -> ClientType] /\ client[a].left \in SUBSET Role
  BY DEF TypeOK, ClientType
<1>1. /\ client[a].phase = "renaming" /\ client[a].left # {}
      /\ ~ \E f \in Files(m, s) : f.role = role
      /\ disk' = disk \cup {new}
      /\ client' = [client EXCEPT ![a].left = @ \ {role}, ![a].created = @ \cup {role}]
  BY DEF Rename, Undo
<1>2. m \in SaveSets /\ DOMAIN m \subseteq Role /\ "metadata" \in DOMAIN m
  BY <1>1, SetFacts DEF Delivered, TypeOK
<1>3. client[a].left = DOMAIN m \ client[a].created /\ client[a].created \subseteq DOMAIN m
  BY <1>1 DEF Owned
<1>4. /\ role \in client[a].left
      /\ role = "save" => client[a].left = {"save"}
      /\ "metadata" \in client[a].left => role = "metadata"
  BY <1>0, <1>1, Firsts
<1>5. new.bundle = m /\ new.suffix = s /\ new.role = role /\ new.bytes = m[role]
  BY DEF File
<1>6. /\ \A b \in Attempt \ {a} : client'[b] = client[b]
      /\ client'[a].manifest = m /\ client'[a].suffix = s
      /\ client'[a].phase = "renaming" /\ client'[a].left = client[a].left \ {role}
      /\ client'[a].created = client[a].created \cup {role} /\ client'[a].kept = client[a].kept
  BY <1>0, <1>1 DEF ClientType
<1>7. ASSUME NEW b \in Attempt, b # a, client[b].created # {},
             client[b].manifest = m, client[b].suffix = s
      PROVE  FALSE
  <2>1. CASE client[a].created # {}
    BY <1>7, <2>1 DEF Owned
  <2>2. CASE client[a].created = {}
    <3>1. role = "metadata"
      BY <1>2, <1>3, <1>4, <2>2
    <3>2. "metadata" \in client[b].created
      BY <1>7 DEF Owned
    <3>3. File(m, s, "metadata", m["metadata"]) \in disk
      BY <1>7, <3>2 DEF Owned
    <3>4. File(m, s, "metadata", m["metadata"]) \in Files(m, s)
      BY <3>3 DEF Files, File
    <3>5. File(m, s, "metadata", m["metadata"]).role = "metadata"
      BY DEF File
    <3> QED BY <1>1, <3>1, <3>4, <3>5
  <2> QED BY <2>1, <2>2
<1> HIDE DEF role, m, s, new
<1>8. /\ client'[a].created \subseteq DOMAIN m
      /\ "metadata" \in client'[a].created
      /\ "save" \in client'[a].created => client'[a].created = DOMAIN m
      /\ client'[a].left = DOMAIN m \ client'[a].created
  <2>1. client'[a].created \subseteq DOMAIN m
    BY <1>3, <1>4, <1>6
  <2>2. "metadata" \in client'[a].created
    <3>1. CASE client[a].created = {}
      BY <1>2, <1>3, <1>4, <1>6, <3>1
    <3>2. CASE client[a].created # {}
      BY <1>6, <3>2 DEF Owned
    <3> QED BY <3>1, <3>2
  <2>3. "save" \in client'[a].created => client'[a].created = DOMAIN m
    <3>1. CASE "save" \in client[a].created
      BY <1>3, <1>4, <3>1 DEF Owned, m
    <3>2. CASE role = "save"
      BY <1>3, <1>4, <1>6, <3>2
    <3> QED BY <1>6, <3>1, <3>2
  <2> QED BY <1>3, <1>6, <2>1, <2>2, <2>3
<1>9. \A r \in client'[a].created : File(m, s, r, m[r]) \in disk'
  <2>1. \A r \in client[a].created : File(m, s, r, m[r]) \in disk
    BY DEF Owned, m, s
  <2>2. File(m, s, role, m[role]) \in disk'
    BY <1>1 DEF new
  <2>3. disk \subseteq disk'
    BY <1>1
  <2> SUFFICES ASSUME NEW r \in client'[a].created
               PROVE  File(m, s, r, m[r]) \in disk'
    OBVIOUS
  <2>4. CASE r = role
    BY <2>2, <2>4
  <2>5. CASE r \in client[a].created
    BY <2>1, <2>3, <2>5
  <2> QED BY <1>6, <2>4, <2>5
<1>10. ASSUME NEW b \in Attempt
       PROVE  /\ client'[b].created \subseteq DOMAIN client'[b].manifest
              /\ client'[b].created # {} => "metadata" \in client'[b].created
              /\ "save" \in client'[b].created =>
                   client'[b].created = DOMAIN client'[b].manifest
              /\ client'[b].phase \in Early => Holds(b)' = {}
              /\ client'[b].phase = "renaming" =>
                   client'[b].left = DOMAIN client'[b].manifest \ client'[b].created
              /\ \A r \in client'[b].created :
                   File(client'[b].manifest, client'[b].suffix, r, client'[b].manifest[r])
                       \in disk'
  <2>1. CASE b = a
    BY <1>6, <1>8, <1>9, <2>1 DEF Early
  <2>2. CASE b # a
    <3>1. client'[b] = client[b] /\ disk \subseteq disk'
      BY <1>1, <1>6, <2>2
    <3> QED BY <3>1 DEF Owned, Early, Holds
  <2> QED BY <2>1, <2>2
<1>11. ASSUME NEW b \in Attempt, NEW c \in Attempt,
              client'[b].created # {}, client'[c].created # {},
              client'[b].manifest = client'[c].manifest, client'[b].suffix = client'[c].suffix
       PROVE  b = c
  <2>1. CASE b # a /\ c # a
    BY <1>6, <1>11, <2>1 DEF Owned
  <2>2. CASE b = a /\ c # a
    BY <1>6, <1>7, <1>11, <2>2
  <2>3. CASE b # a /\ c = a
    BY <1>6, <1>7, <1>11, <2>3
  <2> QED BY <2>1, <2>2, <2>3
<1>12. ASSUME NEW f \in disk'
       PROVE  \E b \in Attempt : Mine(b, f)'
  <2>1. CASE f = new
    <3>1. Mine(a, f)'
      BY <1>5, <1>6, <2>1 DEF Mine, Holds
    <3> QED BY <3>1
  <2>2. CASE f \in disk
    <3>1. PICK b \in Attempt : Mine(b, f)
      BY <2>2 DEF Owned
    <3>2. Mine(b, f)'
      BY <1>6, <3>1 DEF Mine, Holds, m, s
    <3> QED BY <3>2
  <2> QED BY <1>1, <2>1, <2>2
<1> QED BY <1>10, <1>11, <1>12 DEF Owned, Early

\* The file taken back last is the metadata, and the first is the .sav.  One that is not
\* taken back stays, and the attempt holds it.
LEMMA UnlinkOwned ==
    ASSUME TypeOK, Owned, NEW a \in Attempt, client[a].created # {},
           Unlink(a) \/ UnlinkFails(a)
    PROVE  Owned'
<1> DEFINE role == NextUnlink(client[a].created)
<1> DEFINE m == client[a].manifest
<1> DEFINE s == client[a].suffix
<1>0. client \in [Attempt -> ClientType] /\ client[a].created \in SUBSET Role
  BY DEF TypeOK, ClientType
<1> DEFINE Gone(f) == f.bundle = m /\ f.suffix = s /\ f.role = role
<1>1. /\ client[a].phase = "undoing"
      /\ \/ /\ disk' = {f \in disk : ~ Gone(f)}
            /\ client' = [client EXCEPT ![a].created = @ \ {role}]
         \/ /\ disk' = disk
            /\ client' = [client EXCEPT ![a].created = @ \ {role}, ![a].kept = @ \cup {role}]
  BY DEF Unlink, UnlinkFails
<1>2. /\ role \in client[a].created
      /\ "save" \in client[a].created => role = "save"
      /\ role = "metadata" => client[a].created = {"metadata"}
  BY <1>0, Firsts
<1>3. /\ \A b \in Attempt \ {a} : client'[b] = client[b]
      /\ client'[a].manifest = m /\ client'[a].suffix = s /\ client'[a].phase = "undoing"
      /\ client'[a].created = client[a].created \ {role}
      /\ client[a].kept \subseteq client'[a].kept
      /\ disk' \subseteq disk /\ \A f \in disk : ~ Gone(f) => f \in disk'
      /\ \A f \in disk' : Gone(f) => role \in client'[a].kept
  BY <1>0, <1>1 DEF ClientType
<1> HIDE DEF role, m, s
<1>4. ASSUME NEW b \in Attempt, NEW r \in client'[b].created
      PROVE  File(client'[b].manifest, client'[b].suffix, r, client'[b].manifest[r]) \in disk'
  <2> DEFINE f == File(client'[b].manifest, client'[b].suffix, r, client'[b].manifest[r])
  <2>1. f \in disk /\ r \in client[b].created
    <3>1. client'[b].manifest = client[b].manifest /\ client'[b].suffix = client[b].suffix
          /\ r \in client[b].created
      BY <1>3 DEF m, s
    <3> QED BY <3>1 DEF Owned
  <2>2. f.bundle = client'[b].manifest /\ f.suffix = client'[b].suffix /\ f.role = r
    BY DEF File
  <2>3. ~ (f.bundle = m /\ f.suffix = s /\ f.role = role)
    <3>1. CASE b = a
      BY <1>3, <2>2, <3>1
    <3>2. CASE b # a
      <4> SUFFICES ASSUME f.bundle = m, f.suffix = s
                   PROVE  FALSE
        OBVIOUS
      <4>1. client[b].manifest = client[a].manifest /\ client[b].suffix = client[a].suffix
        BY <1>3, <2>2, <3>2 DEF m, s
      <4> QED BY <2>1, <3>2, <4>1 DEF Owned
    <3> QED BY <3>1, <3>2
  <2> HIDE DEF f
  <2>4. f \in disk'
    BY <1>3, <2>1, <2>3
  <2> QED BY <2>4 DEF f
<1>5. ASSUME NEW b \in Attempt
      PROVE  /\ client'[b].created \subseteq DOMAIN client'[b].manifest
             /\ client'[b].created # {} => "metadata" \in client'[b].created
             /\ "save" \in client'[b].created =>
                  client'[b].created = DOMAIN client'[b].manifest
             /\ client'[b].phase \in Early => Holds(b)' = {}
             /\ client'[b].phase = "renaming" =>
                  client'[b].left = DOMAIN client'[b].manifest \ client'[b].created
  <2>1. CASE b = a
    <3>1. client[a].created \subseteq DOMAIN m /\ "metadata" \in client[a].created
      BY <1>2 DEF Owned, m
    <3>2. "metadata" \in client'[a].created \/ client'[a].created = {}
      BY <1>2, <1>3, <3>1
    <3>3. "save" \notin client'[a].created
      BY <1>2, <1>3
    <3> QED BY <1>3, <2>1, <3>1, <3>2, <3>3 DEF Early
  <2>2. CASE b # a
    BY <1>3, <2>2 DEF Owned, Early, Holds
  <2> QED BY <2>1, <2>2
<1>6. ASSUME NEW b \in Attempt, NEW c \in Attempt,
             client'[b].created # {}, client'[c].created # {},
             client'[b].manifest = client'[c].manifest, client'[b].suffix = client'[c].suffix
      PROVE  b = c
  <2>1. \A d \in Attempt : /\ client'[d].manifest = client[d].manifest
                           /\ client'[d].suffix = client[d].suffix
                           /\ client'[d].created # {} => client[d].created # {}
    BY <1>3 DEF m, s
  <2> QED BY <1>6, <2>1 DEF Owned
<1>7. ASSUME NEW f \in disk'
      PROVE  \E b \in Attempt : Mine(b, f)'
  <2>1. f \in disk
    BY <1>3
  <2>2. PICK b \in Attempt : Mine(b, f)
    BY <2>1 DEF Owned
  <2>3. Mine(b, f)'
    <3>1. CASE b = a
      <4>1. Gone(f) => f.role \in client'[a].kept
        BY <1>3
      <4>2. f.bundle = m /\ f.suffix = s /\ f.role \in Holds(a) /\ f.bytes = m[f.role]
        BY <2>2, <3>1 DEF Mine, m, s
      <4>3. f.role \in Holds(a)'
        BY <1>3, <4>1, <4>2 DEF Holds
      <4> QED BY <1>3, <3>1, <4>2, <4>3 DEF Mine
    <3>2. CASE b # a
      BY <1>3, <2>2, <3>2 DEF Mine, Holds
    <3> QED BY <3>1, <3>2
  <2> QED BY <2>3
<1> QED BY <1>4, <1>5, <1>6, <1>7 DEF Owned, Early

LEMMA OwnedStep ==
    ASSUME TypeOK, Delivered, Owned, [Next]_vars
    PROVE  Owned'
<1>0. client \in [Attempt -> ClientType]
  BY DEF TypeOK
<1>1. ASSUME client' = client, disk' = disk
      PROVE  Owned'
  BY <1>1, OwnedKept DEF Owned, Early, Holds
<1>2. CASE UNCHANGED vars
  BY <1>1, <1>2 DEF vars
<1>3. CASE \E role \in DOMAIN source : Rewrite(role)
  BY <1>1, <1>3 DEF Rewrite
<1>4. CASE StartHost \/ HashFile \/ FinishManifest \/ HostCrash
  BY <1>1, <1>4 DEF StartHost, HashFile, FinishManifest, HostCrash
<1>5. ASSUME NEW a \in Attempt, Failing(a) \/ Streaming(a) \/ CountDownload(a)
      PROVE  Owned'
  BY <1>1, <1>5 DEF Failing, Streaming, CountDownload, Request, SendChunk, FileSent, SendEnd
\* The phase alone changes, and not to one in which nothing is on the disk yet.
<1>6. ASSUME NEW a \in Attempt, NEW phase, Give(a, phase), disk' = disk,
             phase # "renaming", phase \in Early => client[a].phase \in Early
      PROVE  Owned'
  <2>1. /\ \A b \in Attempt \ {a} : client'[b] = client[b]
        /\ client'[a].phase = phase /\ client'[a].manifest = client[a].manifest
        /\ client'[a].suffix = client[a].suffix /\ client'[a].created = client[a].created
        /\ client'[a].kept = client[a].kept
    BY <1>6, GiveFacts
  <2>2. \A b \in Attempt : client'[b].phase \in Early => Holds(b) = {}
    BY <1>6, <2>1 DEF Owned, Early
  <2>3. \A b \in Attempt : client'[b].phase = "renaming" =>
            client'[b].left = DOMAIN client'[b].manifest \ client[b].created
    BY <1>6, <2>1 DEF Owned
  <2>4. \A b \in Attempt : /\ client'[b].created = client[b].created
                           /\ client'[b].kept = client[b].kept
                           /\ client'[b].manifest = client[b].manifest
                           /\ client'[b].suffix = client[b].suffix
    BY <2>1
  <2> QED BY <1>6, <2>2, <2>3, <2>4, OwnedKept
<1>7. ASSUME NEW a \in Attempt, Connect(a)
      PROVE  Owned'
  <2>1. PICK phase \in {"manifest", "failed"} : Give(a, phase)
    BY <1>7 DEF Connect
  <2>2. disk' = disk /\ client[a].phase \in Early
    BY <1>7 DEF Connect, Early
  <2> QED BY <1>6, <2>1, <2>2
<1>8. ASSUME NEW a \in Attempt, Working(a)
      PROVE  Owned'
  <2>1. CASE ReadEnd(a) \/ HostLeft(a) \/ Installed(a) \/ SendReceipt(a) \/ InstallFails(a)
             \/ ClientCrash(a)
    <3>1. disk' = disk
      BY <2>1 DEF ReadEnd, HostLeft, Installed, SendReceipt, InstallFails, ClientCrash
    <3>2. PICK phase : /\ Give(a, phase) /\ phase # "renaming"
                       /\ phase \in Early => client[a].phase \in Early
      BY <2>1 DEF ReadEnd, HostLeft, Installed, SendReceipt, InstallFails, Undo, ClientCrash, Early
    <3> QED BY <1>6, <3>1, <3>2
  <2>2. CASE ReadManifest(a) \/ ReadChunk(a) \/ Choose(a)
    <3>1. client[a].phase \in Early /\ Holds(a) = {} /\ disk' = disk
      BY <2>2 DEF ReadManifest, ReadChunk, Choose, Owned, Early
    <3>2. \A b \in Attempt \ {a} : client'[b] = client[b]
      BY <1>8, WorkFacts
    <3>3. \/ \E phase \in {"failed", "receipt"} : Give(a, phase)
          \/ \E m : client' = [client EXCEPT ![a].phase = "files", ![a].manifest = m,
                                             ![a].left = DOMAIN m]
          \/ \E got : client' = [client EXCEPT ![a].got = got]
          \/ \E left : client' = [client EXCEPT ![a].got = <<>>, ![a].left = left]
          \/ client' = [client EXCEPT ![a].phase = "renaming",
                                      ![a].left = DOMAIN client[a].manifest]
          \/ client' = [client EXCEPT ![a].suffix = @ + 1]
      BY <2>2 DEF ReadManifest, ReadChunk, Choose
    <3>4. /\ client'[a].created = {} /\ client'[a].kept = client[a].kept
          /\ client'[a].phase = "renaming" => client'[a].left = DOMAIN client'[a].manifest
      <4>1. client[a].phase # "renaming" /\ client[a].created = {}
        BY <3>1 DEF Early, Holds
      <4>2. CASE \E phase \in {"failed", "receipt"} : Give(a, phase)
        BY <4>1, <4>2, GiveFacts
      <4>3. CASE \E m : client' = [client EXCEPT ![a].phase = "files", ![a].manifest = m,
                                                ![a].left = DOMAIN m]
        BY <1>0, <4>1, <4>3 DEF ClientType
      <4>4. CASE \/ \E got : client' = [client EXCEPT ![a].got = got]
                 \/ \E left : client' = [client EXCEPT ![a].got = <<>>, ![a].left = left]
                 \/ client' = [client EXCEPT ![a].suffix = @ + 1]
        BY <1>0, <4>1, <4>4 DEF ClientType
      <4>5. CASE client' = [client EXCEPT ![a].phase = "renaming",
                                          ![a].left = DOMAIN client[a].manifest]
        BY <1>0, <4>1, <4>5 DEF ClientType
      <4> QED BY <3>3, <4>2, <4>3, <4>4, <4>5
    <3>5. \A b \in Attempt :
             /\ client'[b].created = client[b].created /\ client'[b].kept = client[b].kept
             /\ Holds(b) # {} => /\ client'[b].manifest = client[b].manifest
                                 /\ client'[b].suffix = client[b].suffix
             /\ client'[b].phase \in Early => Holds(b) = {}
             /\ client'[b].phase = "renaming" =>
                  client'[b].left = DOMAIN client'[b].manifest \ client[b].created
      BY <3>1, <3>2, <3>4 DEF Owned, Early, Holds
    <3> QED BY <3>1, <3>5, OwnedKept
  <2>3. CASE Rename(a)
    <3>1. CASE disk' = disk /\ Undo(a)
      BY <1>6, <3>1 DEF Undo, Early
    <3>2. CASE disk' # disk
      BY <2>3, <3>2, RenameOwned
    <3>3. CASE disk' = disk /\ ~ Undo(a)
      <4> DEFINE role == First(InstallOrder, client[a].left)
      <4> DEFINE m == client[a].manifest
      <4> DEFINE new == File(m, client[a].suffix, role, m[role])
      <4>1. /\ ~ \E f \in Files(m, client[a].suffix) : f.role = role
            /\ disk' = disk \cup {new}
        BY <2>3, <3>3 DEF Rename
      <4>2. new.bundle = m /\ new.suffix = client[a].suffix /\ new.role = role
        BY DEF File
      <4> HIDE DEF new
      <4>3. new \in disk
        BY <3>3, <4>1
      <4> QED BY <4>1, <4>2, <4>3 DEF Files
    <3> QED BY <3>1, <3>2, <3>3
  <2>4. CASE Unlink(a) \/ UnlinkFails(a)
    <3>1. CASE client[a].created # {}
      BY <2>4, <3>1, UnlinkOwned
    <3>2. CASE client[a].created = {}
      <4>1. Give(a, "failed") /\ disk' = disk
        BY <2>4, <3>2 DEF Unlink, UnlinkFails
      <4> QED BY <1>6, <4>1 DEF Early
    <3> QED BY <3>1, <3>2
  <2> QED BY <1>8, <2>1, <2>2, <2>3, <2>4 DEF Working
<1> QED BY <1>2, <1>3, <1>4, <1>5, <1>7, <1>8, Steps

----------------------------------------------------------------------------
(* Slots and downloads are counted with the handlers that hold them        *)

LEMMA Counting ==
    ASSUME NEW S \in SUBSET Attempt
    PROVE  /\ Cardinality(S) \in Nat
           /\ \A a \in S : /\ Cardinality(S \ {a}) = Cardinality(S) - 1
                           /\ Cardinality(S) >= 1
           /\ \A a \in Attempt \ S : Cardinality(S \cup {a}) = Cardinality(S) + 1
           /\ \A T \in SUBSET Attempt : S \subseteq T => Cardinality(S) <= Cardinality(T)
<1>1. IsFiniteSet(S) /\ Cardinality(S) \in Nat
  BY Bounds, FS_Subset, FS_CardinalityType
<1>2. ASSUME NEW a \in S
      PROVE  Cardinality(S \ {a}) = Cardinality(S) - 1 /\ Cardinality(S) >= 1
  <2>1. Cardinality(S \ {a}) = Cardinality(S) - 1
    BY <1>1, FS_RemoveElement
  <2>2. Cardinality(S \ {a}) \in Nat
    BY <1>1, FS_Subset, FS_CardinalityType
  <2> QED BY <1>1, <2>1, <2>2
<1>3. \A a \in Attempt \ S : Cardinality(S \cup {a}) = Cardinality(S) + 1
  BY <1>1, FS_AddElement
<1>4. ASSUME NEW T \in SUBSET Attempt, S \subseteq T
      PROVE  Cardinality(S) <= Cardinality(T)
  <2>1. IsFiniteSet(T)
    BY Bounds, FS_Subset
  <2> QED BY <1>4, <2>1, FS_Subset
<1> QED BY <1>1, <1>2, <1>3, <1>4

LEMMA ServerFacts ==
    ASSUME TypeOK, Hashed
    PROVE  /\ server.active \in Nat /\ server.started \in Nat /\ server.successful \in Nat
           /\ DOMAIN server = {"phase", "before", "manifest", "active", "started", "successful"}
           /\ limits.slots \in Nat /\ limits.downloads \in Nat
BY Limited DEF TypeOK, Hashed

LEMMA SlotsStep ==
    ASSUME TypeOK, Hashed, Delivered, Slots, [Next]_vars
    PROVE  Slots'
<1>0. /\ handler \in [Attempt -> HandlerType] /\ client \in [Attempt -> ClientType]
      /\ back \in [Attempt -> {<<>>, <<"receipt">>}]
  BY DEF TypeOK
<1>1. /\ Held \in SUBSET Attempt /\ Through \in SUBSET Attempt /\ Underway \in SUBSET Attempt
      /\ Held' \in SUBSET Attempt /\ Through' \in SUBSET Attempt /\ Underway' \in SUBSET Attempt
  BY DEF Held, Through, Underway
<1>2. /\ Cardinality(Held) \in Nat /\ Cardinality(Through) \in Nat
      /\ Cardinality(Underway) \in Nat /\ Cardinality(Through') \in Nat
  BY <1>1, Counting
\* The downloads counted are kept with those that are through.
<1>3. ASSUME Through \subseteq Through'
      PROVE  Cardinality(Through) <= Cardinality(Through')
  BY <1>1, <1>3, Counting
\* Neither a handler nor what an attempt has done changes.
<1>4. ASSUME handler' = handler, back' = back, server'.active = server.active,
             server'.started = server.started, server'.successful = server.successful,
             \A b \in Attempt : client[b].phase = "done" => client'[b].phase = "done",
             \A b \in Attempt : client'[b].phase = "idle" => client[b].phase = "idle"
      PROVE  Slots'
  <2>1. Held' = Held /\ Underway' = Underway /\ Through \subseteq Through'
    BY <1>4 DEF Held, Underway, Through, Serving
  <2>2. server.successful <= Cardinality(Through')
    BY <1>2, <1>3, <2>1, ServerFacts DEF Slots
  <2> QED BY <1>4, <2>1, <2>2 DEF Slots
<1>5. CASE UNCHANGED vars
  BY <1>4, <1>5 DEF vars
<1>6. ASSUME NEW role \in DOMAIN source, Rewrite(role)
      PROVE  Slots'
  BY <1>4, <1>6 DEF Rewrite
\* A server begins with nothing taken.
<1>7. ASSUME server'.active = 0, server'.started = 0, server'.successful = 0,
             \A b \in Attempt : ~ Serving(b)', back' = back, client' = client,
             \A b \in Attempt : handler[b].phase = "none" => handler'[b].phase = "none"
      PROVE  Slots'
  <2>1. Held' = {} /\ Underway' = {}
    BY <1>7 DEF Held, Underway, Serving
  <2> QED BY <1>2, <1>7, <2>1, FS_EmptySet DEF Slots
<1>8. CASE StartHost
  <2>1. server'.active = 0 /\ server'.started = 0 /\ server'.successful = 0
    BY <1>8 DEF StartHost, ServerDown
  <2>2. \A b \in Attempt : ~ Serving(b)'
    BY <1>8 DEF StartHost, Delivered, Serving
  <2> QED BY <1>7, <1>8, <2>1, <2>2 DEF StartHost
<1>9. CASE HashFile
  <2>1. \E m : server' = [server EXCEPT !.manifest = m]
    BY <1>9 DEF HashFile
  <2>2. server'.active = server.active /\ server'.started = server.started
        /\ server'.successful = server.successful
    BY <2>1, ServerFacts
  <2> QED BY <1>4, <1>9, <2>2 DEF HashFile
<1>10. CASE FinishManifest
  <2>1. CASE server' = ServerDown
    <3>1. server'.active = 0 /\ server'.started = 0 /\ server'.successful = 0
      BY <2>1 DEF ServerDown
    <3>2. \A b \in Attempt : ~ Serving(b)'
      BY <1>10 DEF FinishManifest, Delivered, Serving
    <3> QED BY <1>7, <1>10, <3>1, <3>2 DEF FinishManifest
  <2>2. CASE server' = [server EXCEPT !.phase = "listening"]
    <3>1. server'.active = server.active /\ server'.started = server.started
          /\ server'.successful = server.successful
      BY <2>2, ServerFacts
    <3> QED BY <1>4, <1>10, <3>1 DEF FinishManifest
  <2> QED BY <1>10, <2>1, <2>2 DEF FinishManifest
<1>11. CASE HostCrash
  <2>1. /\ handler' = [a \in Attempt |->
            IF handler[a].phase \in {"none", "closed"} THEN handler[a]
            ELSE [handler[a] EXCEPT !.phase = "broken"]]
        /\ server' = ServerDown /\ client' = client /\ back' = back
    BY <1>11 DEF HostCrash
  <2>2. \A b \in Attempt : handler'[b].phase \in {"none", "closed", "broken"}
    BY <1>0, <2>1 DEF HandlerType
  <2>3. \A b \in Attempt : handler[b].phase = "none" => handler'[b].phase = "none"
    BY <2>1
  <2>4. server'.active = 0 /\ server'.started = 0 /\ server'.successful = 0
    BY <2>1 DEF ServerDown
  <2> QED BY <1>7, <2>1, <2>2, <2>3, <2>4 DEF Serving
\* A handler that ends returns its slot; what it had started stays counted.
<1>12. ASSUME NEW a \in Attempt, Serving(a), handler' = [handler EXCEPT ![a].phase = "closed"]
       PROVE  /\ Held' = Held \ {a} /\ a \in Held /\ Underway' = Underway \ {a}
              /\ \A b \in Attempt : handler[b].phase = "none" => handler'[b].phase = "none"
  <2>1. handler'[a].phase = "closed" /\ \A b \in Attempt \ {a} : handler'[b] = handler[b]
    BY <1>0, <1>12 DEF HandlerType
  <2>2. Held' = Held \ {a} /\ a \in Held /\ Underway' = Underway \ {a}
    BY <1>12, <2>1 DEF Held, Underway, Serving
  <2>3. \A b \in Attempt : handler[b].phase = "none" => handler'[b].phase = "none"
    BY <1>12, <2>1 DEF Serving
  <2> QED BY <2>2, <2>3
<1>13. ASSUME NEW a \in Attempt, Failing(a)
       PROVE  Slots'
  <2>1. /\ Serving(a) /\ handler' = [handler EXCEPT ![a].phase = "closed"]
        /\ server' = [server EXCEPT !.active = @ - 1] /\ client' = client /\ back' = back
    BY <1>13 DEF Failing, Fail
  <2>2. server'.active = server.active - 1 /\ server'.started = server.started
        /\ server'.successful = server.successful
    BY <2>1, ServerFacts
  <2>3. /\ Held' = Held \ {a} /\ a \in Held /\ Underway' = Underway \ {a}
        /\ \A b \in Attempt : handler[b].phase = "none" => handler'[b].phase = "none"
    BY <1>12, <2>1
  <2>4. Cardinality(Held') = Cardinality(Held) - 1
    BY <1>1, <2>3, Counting
  <2>5. Cardinality(Underway') \in Nat /\ Cardinality(Underway') <= Cardinality(Underway)
    BY <1>1, <2>3, Counting
  <2>6. Through \subseteq Through'
    BY <1>0, <2>1 DEF Through, Serving, HandlerType
  <2>7. server.successful <= Cardinality(Through')
    BY <1>2, <1>3, <2>6, ServerFacts DEF Slots
  <2>8. server.successful + Cardinality(Underway') <= server.started
    BY <1>2, <2>5, ServerFacts DEF Slots
  <2> QED BY <2>1, <2>2, <2>3, <2>4, <2>7, <2>8 DEF Slots
<1>14. ASSUME NEW a \in Attempt, CountDownload(a)
       PROVE  Slots'
  <2>1. /\ handler[a].phase = "receipt" /\ back[a] # <<>>
        /\ handler' = [handler EXCEPT ![a].phase = "closed"]
        /\ server' = [server EXCEPT !.successful = @ + 1, !.active = @ - 1]
        /\ client' = client /\ back' = back
    BY <1>14 DEF CountDownload, Receipted
  <2>2. server'.active = server.active - 1 /\ server'.started = server.started
        /\ server'.successful = server.successful + 1
    BY <2>1, ServerFacts
  <2>3. client[a].phase = "done" /\ Serving(a)
    BY <2>1 DEF Slots, Serving
  <2>4. /\ Held' = Held \ {a} /\ a \in Held /\ Underway' = Underway \ {a}
        /\ Through' = Through \cup {a} /\ a \notin Through
        /\ \A b \in Attempt : handler[b].phase = "none" => handler'[b].phase = "none"
    <3>1. /\ Held' = Held \ {a} /\ a \in Held /\ Underway' = Underway \ {a}
          /\ \A b \in Attempt : handler[b].phase = "none" => handler'[b].phase = "none"
      BY <1>12, <2>1, <2>3
    <3>2. Through' = Through \cup {a} /\ a \notin Through
      <4>1. handler'[a].phase = "closed" /\ \A b \in Attempt \ {a} : handler'[b] = handler[b]
        BY <1>0, <2>1 DEF HandlerType
      <4> QED BY <2>1, <2>3, <4>1 DEF Through, Serving
    <3> QED BY <3>1, <3>2
  <2>5. a \in Underway
    BY <2>1 DEF Underway
  <2>6. /\ Cardinality(Held') = Cardinality(Held) - 1
        /\ Cardinality(Underway') = Cardinality(Underway) - 1
        /\ Cardinality(Through') = Cardinality(Through) + 1
    BY <1>1, <2>4, <2>5, Counting
  <2>7. server'.successful <= Cardinality(Through')
    BY <1>2, <2>2, <2>6, ServerFacts DEF Slots
  <2>8. server'.successful + Cardinality(Underway') <= server'.started
    BY <1>2, <2>2, <2>6, ServerFacts DEF Slots
  <2> QED BY <2>1, <2>2, <2>4, <2>6, <2>7, <2>8 DEF Slots
<1>15. ASSUME NEW a \in Attempt, Streaming(a)
       PROVE  Slots'
  <2>1. /\ Serving(a) /\ client' = client /\ handler'[a].phase \in {"sending", "receipt"}
        /\ \A b \in Attempt \ {a} : handler'[b] = handler[b]
    BY <1>15, StreamFacts
  <2>2. back' = back
    BY <1>15 DEF Streaming, Request, SendChunk, FileSent, SendEnd
  <2>3. Held' = Held /\ Through' = Through /\ Underway' = Underway \cup {a}
    BY <2>1 DEF Held, Through, Underway, Serving
  <2>4. \A b \in Attempt : client'[b].phase = "idle" => handler'[b].phase = "none"
    BY <2>1 DEF Slots, Serving
  <2>5. CASE handler[a].phase = "request"
    <3>1. server' = [server EXCEPT !.started = @ + 1]
      BY <1>15, <2>5, StreamFacts
    <3>2. server'.active = server.active /\ server'.started = server.started + 1
          /\ server'.successful = server.successful
      BY <3>1, ServerFacts
    <3>3. a \notin Underway
      BY <2>5 DEF Underway
    <3>4. Cardinality(Underway') = Cardinality(Underway) + 1
      BY <1>1, <2>3, <3>3, Counting
    <3>5. server'.successful + Cardinality(Underway') <= server'.started
      BY <1>2, <3>2, <3>4, ServerFacts DEF Slots
    <3> QED BY <2>1, <2>2, <2>3, <2>4, <3>2, <3>5 DEF Slots
  <2>6. CASE handler[a].phase # "request"
    <3>1. server' = server /\ handler[a].phase = "sending"
      BY <1>15, <2>6, StreamFacts
    <3>2. Underway' = Underway
      BY <2>3, <3>1 DEF Underway
    <3> QED BY <2>1, <2>2, <2>3, <2>4, <3>1, <3>2 DEF Slots
  <2> QED BY <2>5, <2>6
<1>16. ASSUME NEW a \in Attempt, Connect(a)
       PROVE  Slots'
  <2>1. /\ client[a].phase = "idle" /\ handler[a].phase = "none" /\ back[a] = <<>>
        /\ client'[a].phase \in {"manifest", "failed"}
        /\ \A b \in Attempt \ {a} : client'[b] = client[b]
        /\ back' = back
    <3>1. PICK phase \in {"manifest", "failed"} : Give(a, phase)
      BY <1>16 DEF Connect
    <3>2. client[a].phase = "idle" /\ back' = back
      BY <1>16 DEF Connect
    <3>3. back[a] = <<>>
      BY <3>2 DEF Slots
    <3> QED BY <3>1, <3>2, <3>3, GiveFacts DEF Slots
  <2>2. CASE server' = server /\ handler' = handler
    BY <1>4, <2>1, <2>2
  <2>3. CASE server' = server /\ handler' = [handler EXCEPT ![a].phase = "closed"]
    <3>1. handler'[a].phase = "closed" /\ \A b \in Attempt \ {a} : handler'[b] = handler[b]
      BY <1>0, <2>3 DEF HandlerType
    <3>2. Held' = Held /\ Underway' = Underway /\ Through' = Through
      BY <2>1, <3>1 DEF Held, Underway, Through, Serving
    <3> QED BY <2>1, <2>3, <3>1, <3>2 DEF Slots
  <2>4. CASE server' = [server EXCEPT !.active = @ + 1]
             /\ handler' = [handler EXCEPT ![a].phase = "request"]
    <3>1. handler'[a].phase = "request" /\ \A b \in Attempt \ {a} : handler'[b] = handler[b]
      BY <1>0, <2>4 DEF HandlerType
    <3>2. Held' = Held \cup {a} /\ a \notin Held /\ Underway' = Underway /\ Through' = Through
      BY <2>1, <3>1 DEF Held, Underway, Through, Serving
    <3>3. server'.active = server.active + 1 /\ server'.started = server.started
          /\ server'.successful = server.successful
      BY <2>4, ServerFacts
    <3>4. Cardinality(Held') = Cardinality(Held) + 1
      BY <1>1, <3>2, Counting
    <3> QED BY <2>1, <3>1, <3>2, <3>3, <3>4 DEF Slots
  <2> QED BY <1>16, <2>2, <2>3, <2>4 DEF Connect, Accept
<1>17. ASSUME NEW a \in Attempt, Working(a)
       PROVE  Slots'
  <2>1. server' = server /\ handler' = handler
    BY <1>17 DEF Working, ReadManifest, ReadChunk, ReadEnd, HostLeft, Choose, Rename,
       InstallFails, Installed, Unlink, UnlinkFails, SendReceipt, ClientCrash
  <2>2. /\ client[a].phase \notin {"idle", "done"} /\ client'[a].phase # "idle"
        /\ \A b \in Attempt \ {a} : client'[b] = client[b]
        /\ back' = back \/ (client'[a].phase = "done" /\ back' = [back EXCEPT ![a] = <<"receipt">>])
    <3>1. \A b \in Attempt \ {a} : client'[b] = client[b]
      BY <1>17, WorkFacts
    <3>2. CASE ReadManifest(a) \/ ReadChunk(a) \/ Choose(a) \/ Rename(a) \/ Unlink(a)
               \/ UnlinkFails(a)
      <4>1. client[a].phase \in {"manifest", "files", "choosing", "renaming", "undoing"}
            /\ back' = back
        BY <3>2 DEF ReadManifest, ReadChunk, Choose, Rename, Unlink, UnlinkFails
      <4>2. \/ \E phase \in {"failed", "receipt", "undoing"} : Give(a, phase)
            \/ \E m : client' = [client EXCEPT ![a].phase = "files", ![a].manifest = m,
                                               ![a].left = DOMAIN m]
            \/ \E got : client' = [client EXCEPT ![a].got = got]
            \/ \E left : client' = [client EXCEPT ![a].got = <<>>, ![a].left = left]
            \/ client' = [client EXCEPT ![a].phase = "renaming",
                                        ![a].left = DOMAIN client[a].manifest]
            \/ client' = [client EXCEPT ![a].suffix = @ + 1]
            \/ \E role : client' = [client EXCEPT ![a].left = @ \ {role},
                                                  ![a].created = @ \cup {role}]
            \/ \E role : client' = [client EXCEPT ![a].created = @ \ {role}]
            \/ \E role : client' = [client EXCEPT ![a].created = @ \ {role},
                                                  ![a].kept = @ \cup {role}]
        BY <3>2 DEF ReadManifest, ReadChunk, Choose, Rename, Unlink, UnlinkFails,
                    Undo
      <4>3. client'[a].phase # "idle"
        <5>1. CASE \E phase \in {"failed", "receipt", "undoing"} : Give(a, phase)
          BY <5>1, GiveFacts
        <5>0. client \in [Attempt -> ClientType] /\ client[a].phase # "idle"
          BY <1>0, <4>1
        <5>2. CASE \E m : client' = [client EXCEPT ![a].phase = "files", ![a].manifest = m,
                                                 ![a].left = DOMAIN m]
          BY <5>0, <5>2 DEF ClientType
        <5>3. CASE \E got : client' = [client EXCEPT ![a].got = got]
          BY <5>0, <5>3 DEF ClientType
        <5>4. CASE \E left : client' = [client EXCEPT ![a].got = <<>>, ![a].left = left]
          BY <5>0, <5>4 DEF ClientType
        <5>5. CASE client' = [client EXCEPT ![a].phase = "renaming",
                                            ![a].left = DOMAIN client[a].manifest]
          BY <5>0, <5>5 DEF ClientType
        <5>6. CASE client' = [client EXCEPT ![a].suffix = @ + 1]
          BY <5>0, <5>6 DEF ClientType
        <5>7. CASE \E role : client' = [client EXCEPT ![a].left = @ \ {role},
                                                    ![a].created = @ \cup {role}]
          BY <5>0, <5>7 DEF ClientType
        <5>8. CASE \E role : client' = [client EXCEPT ![a].created = @ \ {role}]
          BY <5>0, <5>8 DEF ClientType
        <5>9. CASE \E role : client' = [client EXCEPT ![a].created = @ \ {role},
                                                    ![a].kept = @ \cup {role}]
          BY <5>0, <5>9 DEF ClientType
        <5> QED BY <4>2, <5>1, <5>2, <5>3, <5>4, <5>5, <5>6, <5>7, <5>8, <5>9
      <4> QED BY <3>1, <4>1, <4>3
    <3>3. CASE ReadEnd(a) \/ HostLeft(a) \/ Installed(a) \/ InstallFails(a) \/ ClientCrash(a)
      <4>1. PICK phase : Give(a, phase) /\ phase # "idle"
        BY <3>3 DEF ReadEnd, HostLeft, Installed, InstallFails, Undo, ClientCrash
      <4>2. client[a].phase \notin {"idle", "done"} /\ back' = back
        BY <3>3 DEF ReadEnd, HostLeft, Installed, InstallFails, ClientCrash, Ended
      <4> QED BY <3>1, <4>1, <4>2, GiveFacts
    <3>4. CASE SendReceipt(a)
      <4>1. CASE Give(a, "done") /\ back' = [back EXCEPT ![a] = IF Served(a) THEN @ ELSE <<"receipt">>]
        <5>1. back' = back \/ back' = [back EXCEPT ![a] = <<"receipt">>]
          BY <1>0, <4>1
        <5> QED BY <3>1, <3>4, <4>1, <5>1, GiveFacts DEF SendReceipt
      <4>2. CASE Give(a, "failed") /\ back' = back
        BY <3>1, <3>4, <4>2, GiveFacts DEF SendReceipt
      <4> QED BY <3>4, <4>1, <4>2 DEF SendReceipt
    <3> QED BY <1>17, <3>2, <3>3, <3>4 DEF Working
  <2>3. Held' = Held /\ Underway' = Underway /\ Through \subseteq Through'
    BY <2>1, <2>2 DEF Held, Underway, Through, Serving
  <2>4. server.successful <= Cardinality(Through')
    BY <1>2, <1>3, <2>3, ServerFacts DEF Slots
  <2>5. \A b \in Attempt : back'[b] # <<>> => client'[b].phase = "done"
    BY <1>0, <2>2 DEF Slots
  <2>6. \A b \in Attempt : client'[b].phase = "idle" => handler'[b].phase = "none"
    BY <2>1, <2>2 DEF Slots
  <2> QED BY <2>1, <2>3, <2>4, <2>5, <2>6 DEF Slots
<1> QED BY <1>5, <1>6, <1>8, <1>9, <1>10, <1>11, <1>13, <1>14, <1>15, <1>16, <1>17, Steps

----------------------------------------------------------------------------
(* The types                                                               *)

\* The host's disk, its counters and the bounds.
LEMMA HostTyped ==
    ASSUME TypeOK, Hashed, Delivered, Slots, [Next]_vars
    PROVE  /\ limits' \in Limits /\ source' \in SaveSets /\ moments' \subseteq SaveSets
           /\ server'.phase \in {"down", "hashing", "listening"}
           /\ server'.active \in 0 .. limits'.slots
           /\ server'.started \in 0 .. limits'.downloads
           /\ server'.successful \in 0 .. server'.started
           /\ edits' \in 0 .. MaxEdit /\ trouble' \in 0 .. MaxTrouble
<1>0. /\ limits \in Limits /\ source \in SaveSets /\ moments \subseteq SaveSets
      /\ server.phase \in {"down", "hashing", "listening"}
      /\ server.active \in 0 .. limits.slots
      /\ server.started \in 0 .. limits.downloads
      /\ server.successful \in 0 .. server.started
      /\ edits \in 0 .. MaxEdit /\ trouble \in 0 .. MaxTrouble
      /\ limits.slots \in Nat /\ limits.downloads \in Nat /\ MaxEdit \in Nat /\ MaxTrouble \in Nat
  BY ServerFacts, Bounds DEF TypeOK
<1>1. limits' = limits
  BY Steps, HostKeeps, HandlerKeeps, ReceiverKeeps DEF Rewrite
<1>2. source' \in SaveSets /\ moments' \subseteq SaveSets /\ edits' \in 0 .. MaxEdit
  <2>1. CASE source' = source /\ moments' = moments /\ edits' = edits
    BY <1>0, <2>1
  <2>2. ASSUME NEW role \in DOMAIN source, Rewrite(role)
        PROVE  source' \in SaveSets /\ moments' \subseteq SaveSets /\ edits' \in 0 .. MaxEdit
    BY <1>0, <2>2, RewriteFacts
  <2>3. \/ source' = source /\ moments' = moments /\ edits' = edits
        \/ \E role \in DOMAIN source : Rewrite(role)
    BY Steps, HostKeeps, HandlerKeeps, ReceiverKeeps
  <2> QED BY <2>1, <2>2, <2>3
<1>3. trouble' = trouble \/ (trouble < MaxTrouble /\ trouble' = trouble + 1)
  <2>1. ASSUME UNCHANGED vars \/ StartHost \/ HashFile \/ FinishManifest \/ HostCrash
        PROVE  trouble' = trouble \/ (trouble < MaxTrouble /\ trouble' = trouble + 1)
    BY <2>1 DEF vars, StartHost, HashFile, FinishManifest, HostCrash, hostDisk, budget
  <2>2. ASSUME NEW role \in DOMAIN source, Rewrite(role)
        PROVE  trouble' = trouble
    BY <2>2 DEF Rewrite
  <2>3. ASSUME NEW a \in Attempt, Handle(a) \/ HandlerError(a) \/ Connect(a)
        PROVE  trouble' = trouble \/ (trouble < MaxTrouble /\ trouble' = trouble + 1)
    BY <2>3 DEF Handle, Request, SendChunk, FileSent, SendEnd, CountDownload, PeerLeft,
       HandlerError, Connect, hostDisk, budget
  <2>4. ASSUME NEW a \in Attempt, Working(a)
        PROVE  trouble' = trouble \/ (trouble < MaxTrouble /\ trouble' = trouble + 1)
    BY <2>4 DEF Working, ReadManifest, ReadChunk, ReadEnd, HostLeft, Choose, Rename,
       InstallFails, Installed, Unlink, UnlinkFails, SendReceipt, ClientCrash, hostDisk, budget
  <2>5. \/ UNCHANGED vars \/ StartHost \/ HashFile \/ FinishManifest \/ HostCrash
        \/ \E role \in DOMAIN source : Rewrite(role)
        \/ \E a \in Attempt : Handle(a) \/ HandlerError(a) \/ Connect(a) \/ Working(a)
    BY DEF Next, Receive, Working
  <2> QED BY <2>1, <2>2, <2>3, <2>4, <2>5
<1>4. trouble' \in 0 .. MaxTrouble
  BY <1>0, <1>3
<1>5. ASSUME server' = ServerDown \/ server' = [ServerDown EXCEPT !.phase = "hashing", !.before = source]
      PROVE  /\ server'.phase \in {"down", "hashing"} /\ server'.active = 0
             /\ server'.started = 0 /\ server'.successful = 0
  <2>1. CASE server' = ServerDown
    BY <2>1 DEF ServerDown
  <2>2. CASE server' = [ServerDown EXCEPT !.phase = "hashing", !.before = source]
    BY <2>2 DEF ServerDown
  <2> QED BY <1>5, <2>1, <2>2
<1>6. /\ DOMAIN server = {"phase", "before", "manifest", "active", "started", "successful"}
      /\ server.active \in Nat /\ server.started \in Nat /\ server.successful \in Nat
  BY ServerFacts
<1>7. /\ server'.phase \in {"down", "hashing", "listening"}
      /\ server'.active \in 0 .. limits.slots
      /\ server'.started \in 0 .. limits.downloads
  <2>1. CASE server' = server
    BY <1>0, <2>1
  <2>2. CASE StartHost \/ HostCrash
    BY <1>0, <1>5, <2>2 DEF StartHost, HostCrash
  <2>3. CASE FinishManifest
    <3>1. CASE server' = ServerDown
      BY <1>0, <1>5, <3>1
    <3>2. CASE server' = [server EXCEPT !.phase = "listening"]
      BY <1>0, <1>6, <3>2
    <3> QED BY <2>3, <3>1, <3>2 DEF FinishManifest
  <2>4. CASE HashFile
    <3>1. \E m : server' = [server EXCEPT !.manifest = m]
      BY <2>4 DEF HashFile
    <3> QED BY <1>0, <1>6, <3>1
  <2>5. ASSUME NEW a \in Attempt, Serving(a),
               server' = [server EXCEPT !.active = @ - 1]
               \/ server' = [server EXCEPT !.successful = @ + 1, !.active = @ - 1]
        PROVE  /\ server'.phase = server.phase /\ server'.active \in 0 .. limits.slots
               /\ server'.started = server.started
    <3>1. a \in Held /\ Held \in SUBSET Attempt
      BY <2>5 DEF Held
    <3>2. server.active >= 1
      BY <3>1, Counting DEF Slots
    <3>3. server'.phase = server.phase /\ server'.active = server.active - 1
          /\ server'.started = server.started
      BY <1>6, <2>5
    <3> QED BY <1>0, <3>2, <3>3
  <2>6. ASSUME NEW a \in Attempt, Failing(a) \/ CountDownload(a)
        PROVE  /\ server'.phase = server.phase /\ server'.active \in 0 .. limits.slots
               /\ server'.started = server.started
    BY <2>5, <2>6 DEF Failing, Fail, CountDownload, Serving
  <2>7. ASSUME NEW a \in Attempt, Streaming(a), server' # server
        PROVE  /\ server'.phase = server.phase /\ server'.active = server.active
               /\ server'.started \in 0 .. limits.downloads
    <3>1. ~ server.started >= limits.downloads /\ server' = [server EXCEPT !.started = @ + 1]
      BY <2>7 DEF Streaming, Request, SendChunk, FileSent, SendEnd
    <3>2. /\ server'.phase = server.phase /\ server'.active = server.active
          /\ server'.started = server.started + 1
      BY <1>6, <3>1
    <3> QED BY <1>0, <3>1, <3>2
  <2>8. ASSUME NEW a \in Attempt, Connect(a), server' # server
        PROVE  /\ server'.phase = server.phase /\ server'.active \in 0 .. limits.slots
               /\ server'.started = server.started
    <3>1. server.active < limits.slots /\ server' = [server EXCEPT !.active = @ + 1]
      BY <2>8 DEF Connect, Accept
    <3>2. /\ server'.phase = server.phase /\ server'.active = server.active + 1
          /\ server'.started = server.started
      BY <1>6, <3>1
    <3> QED BY <1>0, <3>1, <3>2
  <2>9. ASSUME (\E role \in DOMAIN source : Rewrite(role)) \/ UNCHANGED vars
               \/ \E a \in Attempt : Working(a)
        PROVE  server' = server
    BY <2>9 DEF vars, Rewrite, Working, ReadManifest, ReadChunk, ReadEnd, HostLeft, Choose, Rename,
       InstallFails, Installed, Unlink, UnlinkFails, SendReceipt, ClientCrash
  <2> QED BY <1>0, <2>1, <2>2, <2>3, <2>4, <2>6, <2>7, <2>8, <2>9, Steps
<1>8. server'.successful \in 0 .. server'.started
  <2>1. server'.successful \in Nat
    <3>1. \/ server'.successful = server.successful \/ server'.successful = server.successful + 1
          \/ server'.successful = 0
      <4>1. \/ server' = server \/ server' = ServerDown
            \/ server' = [ServerDown EXCEPT !.phase = "hashing", !.before = source]
            \/ \E m : server' = [server EXCEPT !.manifest = m]
            \/ server' = [server EXCEPT !.phase = "listening"]
            \/ server' = [server EXCEPT !.active = @ - 1]
            \/ server' = [server EXCEPT !.active = @ + 1]
            \/ server' = [server EXCEPT !.started = @ + 1]
            \/ server' = [server EXCEPT !.successful = @ + 1, !.active = @ - 1]
        <5>1. ASSUME UNCHANGED vars \/ StartHost \/ HashFile \/ FinishManifest \/ HostCrash
              PROVE  \/ server' = server \/ server' = ServerDown
                     \/ server' = [ServerDown EXCEPT !.phase = "hashing", !.before = source]
                     \/ \E m : server' = [server EXCEPT !.manifest = m]
                     \/ server' = [server EXCEPT !.phase = "listening"]
          BY <5>1 DEF vars, StartHost, HashFile, FinishManifest, HostCrash
        <5>2. ASSUME NEW a \in Attempt,
                     Failing(a) \/ Streaming(a) \/ CountDownload(a) \/ Connect(a)
              PROVE  \/ server' = server
                     \/ server' = [server EXCEPT !.active = @ - 1]
                     \/ server' = [server EXCEPT !.active = @ + 1]
                     \/ server' = [server EXCEPT !.started = @ + 1]
                     \/ server' = [server EXCEPT !.successful = @ + 1, !.active = @ - 1]
          BY <5>2 DEF Failing, Fail, Streaming, CountDownload, Connect, Accept, Request, SendChunk,
             FileSent, SendEnd
        <5> QED BY <5>1, <5>2, Steps, ReceiverKeeps DEF Rewrite
      <4>2. CASE server' = ServerDown
                 \/ server' = [ServerDown EXCEPT !.phase = "hashing", !.before = source]
        BY <1>5, <4>2
      <4>3. CASE ~ (server' = ServerDown
                    \/ server' = [ServerDown EXCEPT !.phase = "hashing", !.before = source])
        BY <1>6, <4>1, <4>3
      <4> QED BY <4>2, <4>3
    <3> QED BY <1>6, <3>1
  <2>2. server'.successful + Cardinality(Underway)' <= server'.started
    BY SlotsStep DEF Slots
  <2>3. Cardinality(Underway)' \in Nat
    <3>1. Underway' \in SUBSET Attempt
      BY DEF Underway
    <3> QED BY <3>1, Counting
  <2>4. server'.started \in Nat
    BY <1>0, <1>7
  <2> QED BY <2>1, <2>2, <2>3, <2>4
<1> QED BY <1>0, <1>1, <1>2, <1>4, <1>7, <1>8

\* A handler never holds more than the roles, and sends chunks of the host's files.
LEMMA HandlerTyped ==
    ASSUME TypeOK, Hashed, Delivered, [Next]_vars
    PROVE  handler' \in [Attempt -> HandlerType]
<1>0. handler \in [Attempt -> HandlerType] /\ source \in SaveSets
  BY DEF TypeOK
<1>1. ASSUME NEW a \in Attempt, NEW phase \in {"request", "receipt", "closed", "broken"}
      PROVE  [handler[a] EXCEPT !.phase = phase] \in HandlerType
  <2>1. handler[a] \in HandlerType
    BY <1>0
  <2> QED BY <2>1 DEF HandlerType
<1>2. CASE handler' = handler
  BY <1>0, <1>2
<1>3. CASE HostCrash
  BY <1>0, <1>1, <1>3 DEF HostCrash
<1>4. ASSUME NEW a \in Attempt, NEW phase \in {"request", "receipt", "closed"},
             handler' = [handler EXCEPT ![a].phase = phase]
      PROVE  handler' \in [Attempt -> HandlerType]
  BY <1>0, <1>1, <1>4
<1>5. ASSUME NEW a \in Attempt, Streaming(a)
      PROVE  handler' \in [Attempt -> HandlerType]
  <2>0. handler[a] \in HandlerType
    BY <1>0
  <2>1. CASE handler[a].phase = "request" /\ ~ server.started >= limits.downloads /\ Request(a)
    <3>1. DOMAIN server.manifest \subseteq Role
      <4>1. Serving(a)
        BY <2>1 DEF Serving
      <4>2. server.manifest \in SaveSets
        BY <4>1 DEF Delivered, Hashed, TypeOK
      <4> QED BY <4>2, SetFacts
    <3> DEFINE w == [handler[a] EXCEPT !.phase = "sending", !.left = DOMAIN server.manifest]
    <3>2. w \in HandlerType
      BY <2>0, <3>1 DEF HandlerType
    <3>3. handler' = [handler EXCEPT ![a] = w]
      BY <1>0, <2>1 DEF Request
    <3> QED BY <1>0, <3>2, <3>3
  <2>2. CASE SendChunk(a)
    <3> DEFINE n == source[First(SendOrder, handler[a].left)][Len(handler[a].sent) + 1]
    <3>1. n \in 0 .. MaxEdit
      BY <2>2, ChunkSent
    <3>2. handler' = [handler EXCEPT ![a].sent = Append(@, n)]
      BY <2>2 DEF SendChunk
    <3> HIDE DEF n
    <3>3. handler[a].sent \in Seq(0 .. MaxEdit)
      BY <2>0 DEF HandlerType, Chunks
    <3>4. Append(handler[a].sent, n) \in Chunks
      BY <3>1, <3>3 DEF Chunks
    <3> DEFINE w == [handler[a] EXCEPT !.sent = Append(handler[a].sent, n)]
    <3>5. w \in HandlerType
      BY <2>0, <3>4 DEF HandlerType
    <3>6. handler' = [handler EXCEPT ![a] = w]
      BY <1>0, <3>2
    <3> QED BY <1>0, <3>5, <3>6
  <2>3. CASE FileSent(a) /\ handler[a].sent = server.manifest[First(SendOrder, handler[a].left)]
    <3>1. PICK role : handler' = [handler EXCEPT ![a].left = @ \ {role}, ![a].sent = <<>>]
      BY <2>3 DEF FileSent
    <3> DEFINE w == [handler[a] EXCEPT !.left = handler[a].left \ {role}, !.sent = <<>>]
    <3>2. <<>> \in Chunks
      BY DEF Chunks
    <3>3. w \in HandlerType
      BY <2>0, <3>2 DEF HandlerType
    <3>4. handler' = [handler EXCEPT ![a] = w]
      BY <1>0, <3>1
    <3> QED BY <1>0, <3>3, <3>4
  <2>4. CASE SendEnd(a)
    BY <1>4, <2>4 DEF SendEnd
  <2> QED BY <1>5, <2>1, <2>2, <2>3, <2>4 DEF Streaming
<1>6. \/ handler' = handler \/ HostCrash
      \/ \E a \in Attempt : \E phase \in {"request", "receipt", "closed"} :
            handler' = [handler EXCEPT ![a].phase = phase]
      \/ \E a \in Attempt : Streaming(a)
  BY Steps DEF vars, Rewrite, StartHost, HashFile, FinishManifest, Failing,
     CountDownload, Connect, Working, ReadManifest, ReadChunk, ReadEnd, HostLeft, Choose, Rename,
     InstallFails, Installed, Unlink, UnlinkFails, SendReceipt, ClientCrash, Fail, Accept
<1> QED BY <1>2, <1>3, <1>4, <1>5, <1>6

\* What is on the wire is a frame.
LEMMA WireTyped ==
    ASSUME TypeOK, Hashed, Delivered, [Next]_vars
    PROVE  /\ wire' \in [Attempt -> Seq(Frames)]
           /\ back' \in [Attempt -> {<<>>, <<"receipt">>}]
<1>0. wire \in [Attempt -> Seq(Frames)] /\ back \in [Attempt -> {<<>>, <<"receipt">>}]
  BY DEF TypeOK
<1>1. ASSUME NEW a \in Attempt, NEW f \in Frames, wire' = Put(a, f)
      PROVE  wire' \in [Attempt -> Seq(Frames)]
  <2>1. Append(wire[a], f) \in Seq(Frames)
    BY <1>0
  <2> QED BY <1>0, <1>1, <2>1 DEF Put
<1>2. Frame("error") \in Frames /\ <<>> \in Seq(Frames) /\ <<Frame("error")>> \in Seq(Frames)
  <2>1. Frame("error") \in Frames
    BY FrameFacts
  <2> QED BY <2>1
<1>3. ASSUME wire' = wire
      PROVE  wire' \in [Attempt -> Seq(Frames)]
  BY <1>0, <1>3
<1>4. ASSUME HostCrash
      PROVE  wire' \in [Attempt -> Seq(Frames)]
  BY <1>0, <1>2, <1>4 DEF HostCrash
<1>5. ASSUME NEW a \in Attempt, Failing(a) \/ Streaming(a)
      PROVE  wire' \in [Attempt -> Seq(Frames)]
  <2>1. CASE Failing(a)
    BY <1>1, <1>2, <2>1 DEF Failing, Fail
  <2>2. CASE Streaming(a)
    <3>1. Serving(a) /\ server.phase = "listening"
      BY <2>2, StreamFacts DEF Delivered
    <3>2. wire' = wire \/ \E f \in Frames : wire' = Put(a, f)
      BY <2>2, <3>1, StreamFacts, FrameFacts
    <3> QED BY <1>1, <1>3, <3>2
  <2> QED BY <1>5, <2>1, <2>2
<1>6. ASSUME NEW a \in Attempt, Connect(a)
      PROVE  wire' \in [Attempt -> Seq(Frames)]
  <2>1. wire' = wire \/ wire' = [wire EXCEPT ![a] = <<Frame("error")>>]
    BY <1>6 DEF Connect, Accept
  <2> QED BY <1>0, <1>2, <2>1
<1>7. ASSUME NEW a \in Attempt, wire[a] # <<>>, Take(a)
      PROVE  wire' \in [Attempt -> Seq(Frames)]
  <2>1. Tail(wire[a]) \in Seq(Frames)
    BY <1>0, <1>7
  <2> QED BY <1>0, <1>7, <2>1 DEF Take
<1>8. \/ wire' = wire \/ HostCrash
      \/ \E a \in Attempt : Failing(a) \/ Streaming(a) \/ Connect(a) \/ (wire[a] # <<>> /\ Take(a))
  BY Steps, HostKeeps, ReceiverKeeps DEF Rewrite, CountDownload
<1>9. \/ back' = back
      \/ \E a \in Attempt : back' = [back EXCEPT ![a] = IF Served(a) THEN @ ELSE <<"receipt">>]
  <2>1. ASSUME NEW a \in Attempt,
               Failing(a) \/ Streaming(a) \/ CountDownload(a) \/ Connect(a)
        PROVE  back' = back
    BY <2>1 DEF Failing, Streaming, Request, SendChunk, FileSent, SendEnd, CountDownload, Connect
  <2>2. ASSUME NEW a \in Attempt, Working(a)
        PROVE  \/ back' = back
               \/ back' = [back EXCEPT ![a] = IF Served(a) THEN @ ELSE <<"receipt">>]
    BY <2>2 DEF Working, ReadManifest, ReadChunk, ReadEnd, HostLeft, Choose, Rename,
       InstallFails, Installed, Unlink, UnlinkFails, SendReceipt, ClientCrash
  <2> QED BY Steps, HostKeeps, <2>1, <2>2 DEF Rewrite
<1>10. back' \in [Attempt -> {<<>>, <<"receipt">>}]
  BY <1>0, <1>9
<1> QED BY <1>3, <1>4, <1>5, <1>6, <1>7, <1>8, <1>10

\* What an attempt holds: a manifest of a moment of the host's disk, the bytes it read, and
\* the roles of its files.
LEMMA ClientTyped ==
    ASSUME TypeOK, Hashed, Delivered, Owned, [Next]_vars
    PROVE  client' \in [Attempt -> ClientType]
<1>0. client \in [Attempt -> ClientType] /\ wire \in [Attempt -> Seq(Frames)]
      /\ moments \subseteq SaveSets
  BY DEF TypeOK
<1>1. ASSUME NEW a \in Attempt, NEW w \in ClientType, client' = [client EXCEPT ![a] = w]
      PROVE  client' \in [Attempt -> ClientType]
  BY <1>0, <1>1
<1> DEFINE Phases == {"idle", "manifest", "files", "choosing", "renaming", "undoing",
                     "receipt", "done", "failed", "crashed"}
<1>2. ASSUME NEW a \in Attempt, NEW phase \in Phases, Give(a, phase)
      PROVE  client' \in [Attempt -> ClientType]
  <2> DEFINE w == [client[a] EXCEPT !.phase = phase]
  <2>1. client[a] \in ClientType
    BY <1>0
  <2>2. w \in ClientType
    BY <2>1 DEF ClientType
  <2>3. client' = [client EXCEPT ![a] = w]
    BY <1>0, <1>2 DEF Give
  <2> QED BY <1>1, <2>2, <2>3
<1>3. ASSUME NEW a \in Attempt, NEW m \in SaveSets, NEW phase \in Phases,
             client' = [client EXCEPT ![a].phase = phase, ![a].manifest = m, ![a].left = DOMAIN m]
      PROVE  client' \in [Attempt -> ClientType]
  <2> DEFINE w == [client[a] EXCEPT !.phase = phase, !.manifest = m, !.left = DOMAIN m]
  <2>1. client[a] \in ClientType /\ DOMAIN m \subseteq Role
    BY <1>0, SetFacts
  <2>2. w \in ClientType
    BY <2>1 DEF ClientType
  <2>3. client' = [client EXCEPT ![a] = w]
    BY <1>0, <1>3
  <2> QED BY <1>1, <2>2, <2>3
<1>4. ASSUME NEW a \in Attempt, ReadManifest(a)
      PROVE  client' \in [Attempt -> ClientType]
  <2>1. CASE Next1(a).kind = "manifest"
    <3>1. 1 \in DOMAIN wire[a]
      BY <1>0, <1>4, TakeFacts DEF ReadManifest
    <3>2. Next1(a).manifest \in moments
      BY <2>1, <3>1 DEF Next1, Delivered
    <3>3. Next1(a).manifest \in SaveSets
      BY <1>0, <3>2
    <3>4. client' = [client EXCEPT ![a].phase = "files", ![a].manifest = Next1(a).manifest,
                         ![a].left = DOMAIN Next1(a).manifest]
      BY <1>4, <2>1 DEF ReadManifest
    <3> HIDE DEF Next1
    <3> QED BY <1>3, <3>3, <3>4
  <2>2. CASE Next1(a).kind # "manifest"
    BY <1>2, <1>4, <2>2 DEF ReadManifest
  <2> QED BY <2>1, <2>2
<1>5. ASSUME NEW a \in Attempt, ReadChunk(a)
      PROVE  client' \in [Attempt -> ClientType]
  <2> DEFINE n == IF Next1(a).kind = "bytes" THEN Next1(a).chunk ELSE Junk
  <2> DEFINE got == Append(client[a].got, n)
  <2>0. client[a] \in ClientType
    BY <1>0
  <2>1. n \in 0 .. Junk
    <3>1. 1 \in DOMAIN wire[a]
      BY <1>0, <1>5, TakeFacts DEF ReadChunk
    <3>2. Next1(a) \in Frames
      BY <1>0, <3>1, Elements DEF Next1
    <3>3. Next1(a).kind = "bytes" => Next1(a).chunk \in 0 .. MaxEdit
      BY <3>2 DEF Frames, Frame
    <3> QED BY <3>3, Bounds DEF Junk
  <2> HIDE DEF n
  <2>2. client[a].got \in Seq(0 .. Junk)
    BY <2>0 DEF ClientType
  <2>3. got \in Seq(0 .. Junk) /\ <<>> \in Seq(0 .. Junk)
    BY <2>1, <2>2
  <2>4. \/ client' = [client EXCEPT ![a].got = got]
        \/ client' = [client EXCEPT ![a].got = <<>>, ![a].left = @ \ {Reading(a)}]
        \/ Give(a, "failed")
    BY <1>5 DEF ReadChunk, n
  <2> HIDE DEF got
  <2>5. CASE client' = [client EXCEPT ![a].got = got]
    <3> DEFINE w == [client[a] EXCEPT !.got = got]
    <3>1. w \in ClientType
      BY <2>0, <2>3 DEF ClientType
    <3>2. client' = [client EXCEPT ![a] = w]
      BY <1>0, <2>5
    <3> QED BY <1>1, <3>1, <3>2
  <2>6. CASE client' = [client EXCEPT ![a].got = <<>>, ![a].left = @ \ {Reading(a)}]
    <3> DEFINE w == [client[a] EXCEPT !.got = <<>>, !.left = client[a].left \ {Reading(a)}]
    <3>1. w \in ClientType
      BY <2>0, <2>3 DEF ClientType
    <3>2. client' = [client EXCEPT ![a] = w]
      BY <1>0, <2>6
    <3> QED BY <1>1, <3>1, <3>2
  <2> QED BY <1>2, <2>4, <2>5, <2>6
<1>6. ASSUME NEW a \in Attempt, Choose(a)
      PROVE  client' \in [Attempt -> ClientType]
  <2>0. client[a] \in ClientType /\ client[a].phase = "choosing"
    BY <1>0, <1>6 DEF Choose
  <2>1. DOMAIN client[a].manifest \subseteq Role
    <3>1. client[a].manifest \in SaveSets
      BY <1>0, <2>0 DEF Delivered
    <3> QED BY <3>1, SetFacts
  <2>2. CASE Give(a, "receipt")
    BY <1>2, <2>2
  <2>3. CASE client' = [client EXCEPT ![a].phase = "renaming", ![a].left = DOMAIN client[a].manifest]
    <3> DEFINE w == [client[a] EXCEPT !.phase = "renaming", !.left = DOMAIN client[a].manifest]
    <3>1. w \in ClientType
      BY <2>0, <2>1 DEF ClientType
    <3>2. client' = [client EXCEPT ![a] = w]
      BY <1>0, <2>3
    <3> QED BY <1>1, <3>1, <3>2
  <2>4. CASE client[a].suffix < LastSuffix /\ client' = [client EXCEPT ![a].suffix = @ + 1]
    <3>0. client[a].suffix \in 1 .. LastSuffix
      BY <2>0 DEF ClientType
    <3>1. client[a].suffix + 1 \in 1 .. LastSuffix
      BY <2>4, <3>0, Bounds
    <3> DEFINE w == [client[a] EXCEPT !.suffix = client[a].suffix + 1]
    <3>2. w \in ClientType
      BY <2>0, <3>1 DEF ClientType
    <3>3. client' = [client EXCEPT ![a] = w]
      BY <1>0, <2>4
    <3> QED BY <1>1, <3>2, <3>3
  <2> QED BY <1>6, <2>2, <2>3, <2>4 DEF Choose
<1>7. ASSUME NEW a \in Attempt, Rename(a)
      PROVE  client' \in [Attempt -> ClientType]
  <2> DEFINE role == First(InstallOrder, client[a].left)
  <2>0. client[a] \in ClientType /\ client[a].left \in SUBSET Role /\ client[a].left # {}
    BY <1>0, <1>7 DEF Rename, ClientType
  <2>1. role \in Role
    BY <2>0, Firsts
  <2>2. Give(a, "undoing") \/ client' = [client EXCEPT ![a].left = @ \ {role},
                                                       ![a].created = @ \cup {role}]
    BY <1>7 DEF Rename, Undo
  <2> HIDE DEF role
  <2>3. CASE client' = [client EXCEPT ![a].left = @ \ {role}, ![a].created = @ \cup {role}]
    <3> DEFINE w == [client[a] EXCEPT !.left = client[a].left \ {role},
                                      !.created = client[a].created \cup {role}]
    <3>1. w \in ClientType
      BY <2>0, <2>1 DEF ClientType
    <3>2. client' = [client EXCEPT ![a] = w]
      BY <1>0, <2>3
    <3> QED BY <1>1, <3>1, <3>2
  <2> QED BY <1>2, <2>2, <2>3
<1>8. ASSUME NEW a \in Attempt, Unlink(a)
      PROVE  client' \in [Attempt -> ClientType]
  <2>0. client[a] \in ClientType
    BY <1>0
  <2>1. Give(a, "failed") \/ \E role : client' = [client EXCEPT ![a].created = @ \ {role}]
    BY <1>8 DEF Unlink
  <2>2. ASSUME NEW role, client' = [client EXCEPT ![a].created = @ \ {role}]
        PROVE  client' \in [Attempt -> ClientType]
    <3> DEFINE w == [client[a] EXCEPT !.created = client[a].created \ {role}]
    <3>1. w \in ClientType
      BY <2>0 DEF ClientType
    <3>2. client' = [client EXCEPT ![a] = w]
      BY <1>0, <2>2
    <3> QED BY <1>1, <3>1, <3>2
  <2> QED BY <1>2, <2>1, <2>2
<1>9. ASSUME NEW a \in Attempt,
             ReadEnd(a) \/ HostLeft(a) \/ Installed(a) \/ SendReceipt(a) \/ InstallFails(a)
             \/ ClientCrash(a) \/ Connect(a)
      PROVE  client' \in [Attempt -> ClientType]
  <2>1. \E phase \in Phases : Give(a, phase)
    BY <1>9 DEF ReadEnd, HostLeft, Installed, SendReceipt, InstallFails, Undo, ClientCrash, Connect
  <2> QED BY <1>2, <2>1
<1>10. ASSUME client' = client
       PROVE  client' \in [Attempt -> ClientType]
  BY <1>0, <1>10
<1>11. ASSUME NEW a \in Attempt, Failing(a) \/ Streaming(a) \/ CountDownload(a)
       PROVE  client' = client
  BY <1>11 DEF Failing, Streaming, Request, SendChunk, FileSent, SendEnd, CountDownload
<1>12. ASSUME UNCHANGED vars \/ (\E role \in DOMAIN source : Rewrite(role))
              \/ StartHost \/ HashFile \/ FinishManifest \/ HostCrash
       PROVE  client' = client
  BY <1>12 DEF vars, Rewrite, StartHost, HashFile, FinishManifest, HostCrash
<1>13. ASSUME NEW a \in Attempt, UnlinkFails(a)
       PROVE  client' \in [Attempt -> ClientType]
  <2> DEFINE role == NextUnlink(client[a].created)
  <2> DEFINE w == [client[a] EXCEPT !.created = client[a].created \ {role},
                                    !.kept = client[a].kept \cup {role}]
  <2>1. client[a] \in ClientType /\ client[a].created \in SUBSET Role /\ client[a].created # {}
    BY <1>0, <1>13 DEF UnlinkFails, ClientType
  <2>2. role \in Role
    BY <2>1, Firsts
  <2>3. client' = [client EXCEPT ![a] = w]
    BY <1>0, <1>13 DEF UnlinkFails
  <2> HIDE DEF role
  <2>4. w \in ClientType
    BY <2>1, <2>2 DEF ClientType
  <2> QED BY <1>1, <2>3, <2>4
<1>14. ASSUME NEW a \in Attempt, Working(a)
       PROVE  client' \in [Attempt -> ClientType]
  BY <1>4, <1>5, <1>6, <1>7, <1>8, <1>9, <1>13, <1>14 DEF Working
<1> QED BY <1>9, <1>10, <1>11, <1>12, <1>14, Steps

\* A file on the receivers' disk is a file of the manifest it is named after.
LEMMA DiskTyped ==
    ASSUME TypeOK, Hashed, Delivered, Owned, [Next]_vars
    PROVE  disk' \subseteq FileType
<1>0. disk \subseteq FileType /\ client \in [Attempt -> ClientType] /\ moments \subseteq SaveSets
  BY DEF TypeOK
<1>1. ASSUME NEW a \in Attempt, Rename(a)
      PROVE  disk' \subseteq FileType
  <2> DEFINE role == First(InstallOrder, client[a].left)
  <2> DEFINE m == client[a].manifest
  <2>1. client[a] \in ClientType /\ client[a].phase = "renaming" /\ client[a].left # {}
        /\ client[a].left \in SUBSET Role /\ client[a].suffix \in 1 .. LastSuffix
    BY <1>0, <1>1 DEF Rename, ClientType
  <2>2. m \in SaveSets /\ client[a].left \subseteq DOMAIN m
    BY <1>0, <2>1 DEF Delivered, Owned
  <2>3. role \in DOMAIN m
    BY <2>1, <2>2, Firsts
  <2>4. disk' \subseteq disk \cup {File(m, client[a].suffix, role, m[role])}
    BY <1>1 DEF Rename
  <2> HIDE DEF role, m
  <2>5. role \in Role /\ m[role] \in Chunks
    BY <2>2, <2>3, SetFacts
  <2>6. File(m, client[a].suffix, role, m[role]) \in FileType
    BY <2>1, <2>2, <2>5 DEF File, FileType
  <2> QED BY <1>0, <2>4, <2>6
<1>2. ASSUME disk' \subseteq disk
      PROVE  disk' \subseteq FileType
  BY <1>0, <1>2
<1>3. ASSUME NEW a \in Attempt,
             Failing(a) \/ Streaming(a) \/ CountDownload(a) \/ Connect(a) \/ Working(a), ~ Rename(a)
      PROVE  disk' \subseteq disk
  BY <1>3 DEF Failing, Streaming, CountDownload, Connect, Working, Request, SendChunk, FileSent,
     SendEnd, ReadManifest, ReadChunk, ReadEnd, HostLeft, Choose, InstallFails, Installed,
     Unlink, UnlinkFails, SendReceipt, ClientCrash
<1>4. ASSUME UNCHANGED vars \/ (\E role \in DOMAIN source : Rewrite(role))
             \/ StartHost \/ HashFile \/ FinishManifest \/ HostCrash
      PROVE  disk' \subseteq disk
  BY <1>4 DEF vars, Rewrite, StartHost, HashFile, FinishManifest, HostCrash
<1> QED BY <1>1, <1>2, <1>3, <1>4, Steps

LEMMA TypeOKStep ==
    ASSUME TypeOK, IInv, [Next]_vars
    PROVE  TypeOK'
<1>1. Hashed /\ Delivered /\ Owned /\ Slots
  BY DEF IInv
<1>2. /\ limits' \in Limits /\ source' \in SaveSets /\ moments' \subseteq SaveSets
      /\ server'.phase \in {"down", "hashing", "listening"}
      /\ server'.active \in 0 .. limits'.slots
      /\ server'.started \in 0 .. limits'.downloads
      /\ server'.successful \in 0 .. server'.started
      /\ edits' \in 0 .. MaxEdit /\ trouble' \in 0 .. MaxTrouble
  BY <1>1, HostTyped
<1>3. handler' \in [Attempt -> HandlerType]
  BY <1>1, HandlerTyped
<1>4. wire' \in [Attempt -> Seq(Frames)] /\ back' \in [Attempt -> {<<>>, <<"receipt">>}]
  BY <1>1, WireTyped
<1>5. client' \in [Attempt -> ClientType] /\ disk' \subseteq FileType
  BY <1>1, ClientTyped, DiskTyped
<1> QED BY <1>2, <1>3, <1>4, <1>5 DEF TypeOK

----------------------------------------------------------------------------
(* The theorems                                                            *)

LEMMA Initially ==
    ASSUME Init
    PROVE  TypeOK /\ IInv
<1>1. limits \in Limits /\ limits.slots \in Nat /\ limits.downloads \in Nat
  BY Limited DEF Init
<1>2. PICK with \in Preview :
          source = [r \in IF with THEN Role ELSE Role \ {"preview"} |->
                      IF r = "save" THEN <<0, 0>> ELSE <<0>>]
  BY DEF Init
<1>3. <<0, 0>> \in Chunks /\ <<0>> \in Chunks /\ <<>> \in Chunks /\ <<>> \in Seq(0 .. Junk)
  BY Bounds DEF Chunks
<1>4. source \in SaveSets
  <2>1. Role \ {"preview"} = Required
    BY DEF Role, Required
  <2> QED BY <1>2, <1>3, <2>1 DEF SaveSets
<1>5. NoneNewer(source, 0) /\ \A r \in DOMAIN source : source[r] # <<>>
  BY <1>2 DEF NoneNewer
<1>6. NewHandler \in HandlerType
  BY <1>3 DEF NewHandler, HandlerType
<1>7. NewClient \in ClientType
  BY <1>3, Bounds DEF NewClient, ClientType
<1>8. handler \in [Attempt -> HandlerType] /\ client \in [Attempt -> ClientType]
      /\ wire \in [Attempt -> Seq(Frames)] /\ back \in [Attempt -> {<<>>, <<"receipt">>}]
  BY <1>6, <1>7 DEF Init
<1>9. /\ server.phase = "down" /\ server.active = 0 /\ server.started = 0 /\ server.successful = 0
      /\ DOMAIN server = {"phase", "before", "manifest", "active", "started", "successful"}
  BY DEF Init, ServerDown
<1>10. /\ \A a \in Attempt : handler[a].phase = "none" /\ ~ Serving(a)
       /\ \A a \in Attempt : client[a].phase = "idle" /\ client[a].created = {}
       /\ \A a \in Attempt : client[a].kept = {}
       /\ \A a \in Attempt : wire[a] = <<>> /\ back[a] = <<>>
       /\ disk = {} /\ moments = {source} /\ edits = 0 /\ trouble = 0
  BY DEF Init, NewHandler, NewClient, Serving
<1>11. TypeOK
  BY <1>1, <1>4, <1>8, <1>9, <1>10, Bounds DEF TypeOK
<1>12. Hashed
  BY <1>5, <1>9, <1>10 DEF Hashed
<1>13. Delivered
  BY <1>10 DEF Delivered, Holds
<1>14. Owned
  BY <1>10 DEF Owned, Holds
<1>15. Slots
  <2>1. Held = {} /\ Through = {} /\ Underway = {}
    BY <1>10 DEF Held, Through, Underway
  <2> QED BY <1>9, <1>10, <2>1, FS_EmptySet DEF Slots
<1> QED BY <1>11, <1>12, <1>13, <1>14, <1>15 DEF IInv

\* The type invariant and the inductive invariant hold of every behaviour, for any number
\* of attempts, slots, downloads, rewrites and failures.
THEOREM Inductive == Spec => [](TypeOK /\ IInv)
<1>1. Init => TypeOK /\ IInv
  BY Initially
<1>2. TypeOK /\ IInv /\ [Next]_vars => (TypeOK /\ IInv)'
  <2> SUFFICES ASSUME TypeOK, IInv, [Next]_vars
               PROVE  TypeOK' /\ IInv'
    OBVIOUS
  <2>1. TypeOK'
    BY TypeOKStep
  <2>2. Hashed' /\ Delivered' /\ Owned' /\ Slots'
    BY HashedStep, DeliveredStep, OwnedStep, SlotsStep DEF IInv
  <2> QED BY <2>1, <2>2 DEF IInv
<1> QED BY <1>1, <1>2, PTL DEF Spec

\* Every variable keeps its type: no slot is returned twice, and no manifest, frame or file
\* is anything but what SaveSyncServer and receive_save exchange.
THEOREM TypeCorrect == Spec => []TypeOK
BY Inductive, PTL

\* A .sav that the receivers' game can see has its metadata and its preview beside it, with
\* the manifest's bytes, and that manifest is what the host's disk held at one moment
\* (build_save_sync_manifest's second stat, the rename of the .sav last and its unlink first),
\* unless the rollback of the call that made it could not unlink it and went on.
THEOREM VisibleSavesAreWhole == Spec => []VisibleSaveIsWhole
<1>1. TypeOK /\ IInv => VisibleSaveIsWhole
  <2> SUFFICES ASSUME TypeOK, Owned, Delivered, NEW f \in disk, f.role = "save"
               PROVE  /\ f.bundle \in moments /\ f.bytes = f.bundle["save"]
                      /\ \/ Whole(f.bundle, f.suffix)
                         \/ \E a \in Attempt : /\ "save" \in client[a].kept
                                               /\ client[a].manifest = f.bundle
                                               /\ client[a].suffix = f.suffix
    BY DEF IInv, VisibleSaveIsWhole
  <2>1. PICK a \in Attempt : Mine(a, f)
    BY DEF Owned
  <2>2. /\ f.bundle = client[a].manifest /\ f.suffix = client[a].suffix
        /\ "save" \in Holds(a) /\ f.bytes = f.bundle["save"]
    BY <2>1 DEF Mine
  <2>3. CASE "save" \in client[a].created
    <3>1. client[a].created = DOMAIN client[a].manifest
      BY <2>3 DEF Owned
    <3>2. Whole(f.bundle, f.suffix)
      BY <2>2, <3>1 DEF Owned, Whole
    <3> QED BY <2>2, <3>2 DEF Delivered
  <2>4. CASE "save" \in client[a].kept
    BY <2>2, <2>4 DEF Delivered
  <2> QED BY <2>2, <2>3, <2>4 DEF Holds
<1> QED BY <1>1, Inductive, PTL

\* The host never counts more downloads than were installed, and a slot is taken exactly
\* while its transfer is under way (SaveSyncServer._handle's receipt and its finally clause).
THEOREM CountedAreInstalled == Spec => []CountedIsInstalled
<1>1. TypeOK /\ IInv => CountedIsInstalled
  <2> SUFFICES ASSUME TypeOK, Hashed, Slots
               PROVE  CountedIsInstalled
    BY DEF IInv
  <2> DEFINE done == {a \in Attempt : client[a].phase = "done"}
  <2>1. Through \in SUBSET Attempt /\ done \in SUBSET Attempt /\ Through \subseteq done
    BY DEF Through
  <2>2. Cardinality(Through) <= Cardinality(done) /\ Cardinality(Through) \in Nat
        /\ Cardinality(done) \in Nat
    BY <2>1, Counting
  <2>3. server.successful <= Cardinality(done)
    BY <2>2, ServerFacts DEF Slots
  <2>4. server.active = Cardinality({a \in Attempt : Serving(a)})
    BY DEF Slots, Held
  <2> QED BY <2>3, <2>4 DEF CountedIsInstalled
<1> QED BY <1>1, Inductive, PTL

=============================================================================
