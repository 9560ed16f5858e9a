-------------------------- MODULE ClockMoney_proofs --------------------------
(***************************************************************************)
(* What is proved of the time and of the money of a match: the shared      *)
(* clock (SharedClock), and the settlements (Settlement).                  *)
(*                                                                         *)
(* SharedClock, for any peers, speeds and limits, any lag, and any number  *)
(* of interferences and crashes: an order that lets the clock run follows  *)
(* a rendezvous that all have reported alike (ReleasedTogether), there is  *)
(* none while a peer is away (NoMeetingWhileAway), and an acknowledged     *)
(* pause that is the newest order is applied by all (PauseAgreed).         *)
(*                                                                         *)
(* The argument.  What the journal holds is true of the games (Core): who  *)
(* acknowledged an order has applied it, who reported for it does not meet *)
(* for it again, and so no peer reports twice; a release follows a         *)
(* unanimous rendezvous.  The memory of a host that runs fits its journal  *)
(* (Good): the active rendezvous is the newest order, and what it has of a *)
(* peer is the one report that is journalled.  A handler is a function on  *)
(* this memory, and After(h, k, ..) is what it keeps: the new memory is    *)
(* good, and its journal goes on from the old one with orders nobody has   *)
(* answered.  Hence every prefix a crash may keep is true of the games,    *)
(* and reading such a journal again ends in a good memory (LoadAuditGood). *)
(*                                                                         *)
(* Settlement, for any companies, lines, markets and vehicles, any prices, *)
(* upkeep and takings, any length of an interval and any credit rules:     *)
(* the second part.                                                        *)
(***************************************************************************)
EXTENDS SharedClock, Settlement, FiniteSetTheorems, SequenceTheorems,
        WellFoundedInduction, TLAPS

\* A set of numbers that is not empty has a least one.
LEMMA Least ==
    ASSUME NEW T, T \subseteq Nat, T # {}
    PROVE  \E x \in T : \A y \in T : x <= y
<1>1. \E x \in T : \A y \in T : ~(<<y, x>> \in OpToRel(<, Nat))
    BY NatLessThanWellFounded, WFMin
<1>2. PICK x \in T : \A y \in T : ~(<<y, x>> \in OpToRel(<, Nat))
    BY <1>1
<1>3. ASSUME NEW y \in T PROVE x <= y
    <2>1. <<y, x>> \notin {ss \in Nat \X Nat : ss[1] < ss[2]}
        BY <1>2 DEF OpToRel
    <2> QED BY <2>1
<1> QED BY <1>3

-----------------------------------------------------------------------------
(*************************** The shared clock ******************************)
\* The types of what the journal holds, of a memory of the host and of a game.
ReachedAt == {AtTarget, Late, TooLate}
AckType == [type : {"ack"}, gen : Nat, peer : Peer, ok : BOOLEAN]
ReportType ==
    [type : {"clock_reached"}, gen : Nat, peer : Peer, ok : BOOLEAN, at : ReachedAt]
OrderKinds == {"clock.set", "clock.rendezvous"}
OrderType ==
    [type : OrderKinds, requested : Speeds, effective : Speeds,
     release : Speeds, acks : SUBSET AckType, reports : Seq(ReportType)]
GameType == [read : Nat, gen : Nat, meets : BOOLEAN, speed : Speeds]
SampleType == [gen : Nat, running : BOOLEAN, age : {"none", "new", "quiet", "old"}]
FenceType == [gen : Nat, requested : Speeds, release : Speeds]
MeetingType ==
    [gen : Nat, reached : [Peer -> ReportType \union {NoReport}],
     failed : BOOLEAN, corrections : Nat]
Statuses == {"pending", "complete", "faulted"}
PauseType == [gen : Nat, on : BOOLEAN]
ProtectType == [gen : Nat, mode : {"none", "acknowledged", "quiescent"}]
MemoryType ==
    [up : BOOLEAN, log : Seq(OrderType), faultAt : Nat,
     rv : MeetingType \union {NoMeeting}, controls : Seq(Statuses),
     pause : PauseType, protect : ProtectType, fence : FenceType \union {NoFence},
     connected : SUBSET Peer, waiting : SUBSET (Peer \ {Host}), late : SUBSET Peer,
     health : [Peer -> SampleType]]

\* A game that has reported for an order does not meet for it again.
Told(r, gm) == r.gen <= gm[r.peer].gen /\ (r.gen = gm[r.peer].gen => ~gm[r.peer].meets)

\* An order, and the answers that were journalled for it: they are about it, a
\* game that acknowledged has applied it, and every game has reported once.
SoundOrder(order, g, gm) ==
    /\ order.release <= order.requested
    /\ order.type = "clock.set" => order.effective <= order.requested
    /\ \A a \in order.acks : a.gen = g /\ (a.ok => g <= gm[a.peer].gen)
    /\ \A i \in DOMAIN order.reports :
         order.reports[i].gen = g /\ Told(order.reports[i], gm)
    /\ \A i, j \in DOMAIN order.reports :
         order.reports[i].peer = order.reports[j].peer => i = j

\* A rendezvous that every peer has reported, all at one game time.
Unanimous(order, c) ==
    /\ order.type = "clock.rendezvous"
    /\ {order.reports[i].peer : i \in DOMAIN order.reports} = Peer
    /\ Cardinality({order.reports[i].at : i \in DOMAIN order.reports}) = 1
    /\ c = 0 => \A i \in DOMAIN order.reports : order.reports[i].ok

Releases(order) == order.type = "clock.set" /\ order.effective > 0

\* The journal: orders are sound, and a release follows an agreed rendezvous.
Core(log, gm, c) ==
    /\ log \in Seq(OrderType)
    /\ \A g \in 1..Len(log) : SoundOrder(log[g], g, gm)
    /\ \A g \in 1..Len(log) : Releases(log[g]) => g > 1 /\ Unanimous(log[g - 1], c)

\* A host that runs tracks every order; one that is pending was not refused.
Tracking(h) ==
    h.up =>
      /\ Len(h.controls) = Len(h.log)
      /\ \A g \in 1..Len(h.log) :
           h.controls[g] = "pending" => \A a \in h.log[g].acks : a.ok

\* What is acknowledged, every game has applied.
PauseKept(h, gm) ==
    h.pause.gen <= Len(h.log) /\ \A p \in Peer : h.pause.gen <= gm[p].gen

\* A peer that is awaited is not connected.
AwayKept(h) == h.waiting \cap h.connected = {}

\* Whoever is awaited has a sample all the same: the one of a replaced connection.
Sampled(h) == \A p \in h.waiting : h.health[p] # NoSample

FenceKept(h) == h.fence # NoFence => h.fence.release <= h.fence.requested

\* A memory in which no rendezvous need be right.
Base(h, gm, c) ==
    /\ h \in MemoryType
    /\ Core(h.log, gm, c)
    /\ Tracking(h) /\ PauseKept(h, gm) /\ AwayKept(h) /\ FenceKept(h)

\* What a rendezvous has of a peer is the one report that is journalled.
Gathered(rv, reports, p) ==
    IF rv.reached[p] = NoReport THEN \A i \in DOMAIN reports : reports[i].peer # p
    ELSE \E i \in DOMAIN reports : reports[i] = rv.reached[p] /\ rv.reached[p].peer = p

MeetingKept(h, c) ==
    h.rv # NoMeeting =>
      /\ Sampled(h)
      /\ h.rv.gen = Len(h.log) /\ h.rv.gen > 0
      /\ h.log[h.rv.gen].type = "clock.rendezvous"
      /\ \A p \in Peer : Gathered(h.rv, h.log[h.rv.gen].reports, p)
      /\ c = 0 => \A p \in Peer : h.rv.reached[p] # NoReport => h.rv.reached[p].ok

\* Without a rendezvous no game is faster than players asked.
SpeedKept(h) == h.rv = NoMeeting => Effective(h) <= Requested(h)

Good(h, gm, c) ==
    h.up /\ Base(h, gm, c) /\ MeetingKept(h, c) /\ SpeedKept(h)

\* A journal that goes on: new orders have no answers yet.
Extends(log, more) ==
    /\ Len(log) <= Len(more)
    /\ \A g \in 1..Len(log) : more[g] = log[g]
    /\ \A g \in (Len(log) + 1)..Len(more) : more[g].acks = {} /\ more[g].reports = <<>>

\* What a handler makes of h.
After(h, k, gm, c) == Good(k, gm, c) /\ Extends(h.log, k.log)
----------------------------------------------------------------------------
(* Sequences and types *)
\* The fields of a memory.
LEMMA MemoryFields ==
    ASSUME NEW h \in MemoryType
    PROVE  /\ h.up \in BOOLEAN /\ h.log \in Seq(OrderType) /\ h.faultAt \in Nat
           /\ h.rv \in MeetingType \union {NoMeeting} /\ h.controls \in Seq(Statuses)
           /\ h.pause \in PauseType /\ h.protect \in ProtectType
           /\ h.fence \in FenceType \union {NoFence} /\ h.connected \subseteq Peer
           /\ h.waiting \subseteq Peer \ {Host} /\ h.health \in [Peer -> SampleType]
BY DEF MemoryType

\* What OrderType says of an order.
LEMMA OrderFields ==
    ASSUME NEW o \in OrderType
    PROVE  /\ o.type \in OrderKinds /\ o.requested \in Speeds /\ o.effective \in Speeds
           /\ o.release \in Speeds /\ o.acks \subseteq AckType
           /\ o.reports \in Seq(ReportType)
BY DEF OrderType

\* Speeds are numbers.
LEMMA SpeedsNat == Speeds \subseteq Nat /\ 0 \in Speeds /\ 1 \in Speeds /\ MaxSpeed \in Speeds
BY ClockAssumption DEF Speeds

\* One more element of a sequence.
LEMMA AppendFacts ==
    ASSUME NEW S, NEW s \in Seq(S), NEW e \in S
    PROVE  /\ Append(s, e) \in Seq(S) /\ Len(s) \in Nat
           /\ Len(Append(s, e)) = Len(s) + 1 /\ Append(s, e)[Len(s) + 1] = e
           /\ \A n \in 1..Len(s) : Append(s, e)[n] = s[n]
           /\ DOMAIN s = 1..Len(s) /\ DOMAIN Append(s, e) = 1..(Len(s) + 1)
OBVIOUS

\* The orders of the newest journal entry.
LEMMA LatestFields ==
    ASSUME NEW h, h.log \in Seq(OrderType)
    PROVE  /\ Requested(h) \in Speeds /\ Effective(h) \in Speeds
           /\ h.log = <<>> => Requested(h) = 0 /\ Effective(h) = 0
           /\ h.log # <<>> => /\ Requested(h) = h.log[Len(h.log)].requested
                              /\ Effective(h) = h.log[Len(h.log)].effective
<1>1. CASE h.log = <<>>
    BY <1>1, SpeedsNat DEF Requested, Effective, Latest
<1>2. CASE h.log # <<>>
    <2>1. Latest(h) = h.log[Len(h.log)] /\ Len(h.log) \in 1..Len(h.log)
        BY <1>2 DEF Latest, Last
    <2>2. h.log[Len(h.log)] \in OrderType
        BY <2>1
    <2> QED BY <1>2, <2>1, <2>2, OrderFields DEF Requested, Effective
<1> QED BY <1>1, <1>2

\* Orders are orders.
LEMMA OrdersTyped ==
    ASSUME NEW r \in Speeds, NEW e \in Speeds, NEW x \in Speeds
    PROVE  /\ SetOrder(r, e) \in OrderType /\ MeetOrder(r, e, x) \in OrderType
           /\ SetOrder(r, e).type = "clock.set" /\ SetOrder(r, e).requested = r
           /\ SetOrder(r, e).effective = (IF e <= r THEN e ELSE r)
           /\ SetOrder(r, e).effective <= r
           /\ SetOrder(r, e).release = 0
           /\ SetOrder(r, e).acks = {} /\ SetOrder(r, e).reports = <<>>
           /\ MeetOrder(r, e, x).type = "clock.rendezvous" /\ MeetOrder(r, e, x).requested = r
           /\ MeetOrder(r, e, x).effective = e /\ MeetOrder(r, e, x).release = x
           /\ MeetOrder(r, e, x).acks = {} /\ MeetOrder(r, e, x).reports = <<>>
<1>1. <<>> \in Seq(ReportType)
    OBVIOUS
<1>2. /\ SetOrder(r, e).type = "clock.set" /\ SetOrder(r, e).requested = r
      /\ SetOrder(r, e).effective = (IF e <= r THEN e ELSE r)
      /\ SetOrder(r, e).effective <= r
      /\ SetOrder(r, e).release = 0
      /\ SetOrder(r, e).acks = {} /\ SetOrder(r, e).reports = <<>>
    BY SpeedsNat DEF SetOrder
<1>3. SetOrder(r, e) \in OrderType
    BY <1>1, SpeedsNat DEF SetOrder, OrderType, OrderKinds
<1>4. MeetOrder(r, e, x) \in OrderType
    BY <1>1, SpeedsNat DEF MeetOrder, OrderType, OrderKinds
<1> QED BY <1>2, <1>3, <1>4 DEF MeetOrder

\* A meeting is not the absence of one; nothing is heard at its begin.
LEMMA MeetingNew ==
    ASSUME NEW g \in Nat, NEW n \in Nat
    PROVE  /\ Meeting(g, n) \in MeetingType /\ Meeting(g, n).gen = g
           /\ Meeting(g, n) # NoMeeting
           /\ \A p \in Peer : Meeting(g, n).reached[p] = NoReport
<1>1. DOMAIN Meeting(g, n) = {"gen", "reached", "failed", "corrections"}
    BY DEF Meeting
<1>2. DOMAIN NoMeeting = {"gen"}
    BY DEF NoMeeting
<1>3. Meeting(g, n) \in MeetingType
    BY DEF Meeting, MeetingType
<1> QED BY <1>1, <1>2, <1>3 DEF Meeting

\* An order that is emitted: the journal has it, a tracker follows it.
LEMMA EmitActionFields ==
    ASSUME NEW h \in MemoryType, NEW order \in OrderType, NEW n \in Nat
    PROVE  LET k == EmitAction(h, order, n)
           IN /\ k \in MemoryType /\ k.log = Append(h.log, order)
              /\ k.controls = Append(h.controls, "pending")
              /\ k.rv = (IF order.type = "clock.rendezvous"
                           THEN Meeting(Len(h.log) + 1, n) ELSE NoMeeting)
              /\ k.up = h.up /\ k.faultAt = h.faultAt /\ k.pause = h.pause
              /\ k.protect = h.protect /\ k.fence = h.fence
              /\ k.connected = h.connected /\ k.waiting = h.waiting /\ k.health = h.health
<1> DEFINE logged == [h EXCEPT !.log = Append(h.log, order)]
           g == Len(h.log) + 1
           rv == IF order.type = "clock.rendezvous" THEN Meeting(g, n) ELSE NoMeeting
           k == [logged EXCEPT !.controls = Append(@, "pending"), !.rv = rv]
<1>1. /\ Append(h.log, order) \in Seq(OrderType) /\ Len(Append(h.log, order)) = g
      /\ g \in Nat
    BY MemoryFields, AppendFacts
<1>2. /\ logged \in MemoryType /\ logged.log = Append(h.log, order)
      /\ logged.controls = h.controls
      /\ logged.up = h.up /\ logged.faultAt = h.faultAt /\ logged.pause = h.pause
      /\ logged.protect = h.protect /\ logged.fence = h.fence
      /\ logged.connected = h.connected /\ logged.waiting = h.waiting
      /\ logged.health = h.health
    BY <1>1 DEF MemoryType
<1>3. EmitAction(h, order, n) = k
    BY <1>1, <1>2 DEF EmitAction, TrackClock, Gen
<1> HIDE DEF logged
<1>4. rv \in MeetingType \union {NoMeeting}
    BY <1>1, MeetingNew
<1> HIDE DEF rv
<1>5. Append(logged.controls, "pending") \in Seq(Statuses)
    BY <1>2, MemoryFields, AppendFacts DEF Statuses
<1>6. k \in MemoryType
    BY <1>2, <1>4, <1>5 DEF MemoryType
<1>7. /\ k.log = logged.log /\ k.controls = Append(logged.controls, "pending") /\ k.rv = rv
      /\ k.up = logged.up /\ k.faultAt = logged.faultAt /\ k.pause = logged.pause
      /\ k.protect = logged.protect /\ k.fence = logged.fence
      /\ k.connected = logged.connected /\ k.waiting = logged.waiting
      /\ k.health = logged.health
    BY <1>2 DEF MemoryType
<1> HIDE DEF k
<1> QED BY <1>2, <1>3, <1>6, <1>7 DEF rv

----------------------------------------------------------------------------
(* Journals that go on *)
LEMMA ExtendsSame == ASSUME NEW log, Len(log) \in Nat PROVE Extends(log, log)
BY DEF Extends

\* A journal goes on when an order without answers is appended, and going on is transitive.
LEMMA ExtendsAppend ==
    ASSUME NEW log \in Seq(OrderType), NEW order \in OrderType,
           order.acks = {}, order.reports = <<>>
    PROVE  Extends(log, Append(log, order))
<1>1. /\ Len(log) \in Nat /\ Len(Append(log, order)) = Len(log) + 1
      /\ Append(log, order)[Len(log) + 1] = order
      /\ \A n \in 1..Len(log) : Append(log, order)[n] = log[n]
    BY AppendFacts
<1>2. \A g \in (Len(log) + 1)..(Len(log) + 1) : g = Len(log) + 1
    BY <1>1
<1> QED BY <1>1, <1>2 DEF Extends

LEMMA ExtendsTwice ==
    ASSUME NEW x \in Seq(OrderType), NEW y \in Seq(OrderType), NEW z \in Seq(OrderType),
           Extends(x, y), Extends(y, z)
    PROVE  Extends(x, z)
<1>1. /\ Len(x) \in Nat /\ Len(y) \in Nat /\ Len(z) \in Nat
      /\ Len(x) <= Len(y) /\ Len(y) <= Len(z)
    BY DEF Extends
<1>2. ASSUME NEW g \in 1..Len(x) PROVE z[g] = x[g]
    BY <1>1, <1>2 DEF Extends
<1>3. ASSUME NEW g \in (Len(x) + 1)..Len(z) PROVE z[g].acks = {} /\ z[g].reports = <<>>
    <2>1. CASE g <= Len(y)
        <3>1. g \in 1..Len(y) /\ g \in (Len(x) + 1)..Len(y)
            BY <1>1, <1>3, <2>1
        <3> QED BY <3>1 DEF Extends
    <2>2. CASE ~(g <= Len(y))
        <3>1. g \in (Len(y) + 1)..Len(z)
            BY <1>1, <1>3, <2>2
        <3> QED BY <3>1 DEF Extends
    <2> QED BY <2>1, <2>2
<1> QED BY <1>1, <1>2, <1>3 DEF Extends

\* An order with no answers is sound.
LEMMA SoundNew ==
    ASSUME NEW order \in OrderType, NEW g, NEW gm, order.acks = {}, order.reports = <<>>,
           order.release <= order.requested,
           order.type = "clock.set" => order.effective <= order.requested
    PROVE  SoundOrder(order, g, gm)
<1>1. DOMAIN order.reports = {}
    OBVIOUS
<1> QED BY <1>1 DEF SoundOrder

\* One more order of a journal.
LEMMA CoreAppend ==
    ASSUME NEW log, NEW gm, NEW c, Core(log, gm, c), NEW order \in OrderType,
           order.acks = {}, order.reports = <<>>, order.release <= order.requested,
           order.type = "clock.set" => order.effective <= order.requested,
           Releases(order) => Len(log) > 0 /\ Unanimous(log[Len(log)], c)
    PROVE  Core(Append(log, order), gm, c)
<1> DEFINE more == Append(log, order)
           n == Len(log)
<1>1. /\ more \in Seq(OrderType) /\ n \in Nat /\ Len(more) = n + 1 /\ more[n + 1] = order
      /\ \A g \in 1..n : more[g] = log[g]
    BY AppendFacts DEF Core
<1> HIDE DEF more, n
<1>2. ASSUME NEW g \in 1..(n + 1) PROVE SoundOrder(more[g], g, gm)
    <2>1. CASE g = n + 1
        BY <1>1, <2>1, SoundNew
    <2>2. CASE g # n + 1
        <3>1. g \in 1..n
            BY <1>1, <1>2, <2>2
        <3> QED BY <1>1, <3>1 DEF Core, n
    <2> QED BY <2>1, <2>2
<1>3. ASSUME NEW g \in 1..(n + 1), Releases(more[g]) PROVE g > 1 /\ Unanimous(more[g - 1], c)
    <2>1. CASE g = n + 1
        <3>1. n > 0 /\ Unanimous(log[n], c) /\ g - 1 = n
            BY <1>1, <1>3, <2>1 DEF n
        <3>2. n \in 1..n
            BY <1>1, <3>1
        <3> QED BY <1>1, <2>1, <3>1, <3>2
    <2>2. CASE g # n + 1
        <3>1. g \in 1..n /\ more[g] = log[g]
            BY <1>1, <1>3, <2>2
        <3>2. g > 1 /\ Unanimous(log[g - 1], c)
            BY <1>3, <3>1 DEF Core, n
        <3>3. g - 1 \in 1..n
            BY <1>1, <3>1, <3>2
        <3> QED BY <1>1, <3>2, <3>3
    <2> QED BY <2>1, <2>2
<1> QED BY <1>1, <1>2, <1>3 DEF Core, more

\* What a crash keeps of a journal.
LEMMA CorePrefix ==
    ASSUME NEW log, NEW gm, NEW c, Core(log, gm, c), NEW n \in 0..Len(log), NEW d,
           d = 0 => c = 0
    PROVE  Core(SubSeq(log, 1, n), gm, d)
<1> DEFINE less == SubSeq(log, 1, n)
<1>1. /\ log \in Seq(OrderType) /\ Len(log) \in Nat /\ n \in Nat /\ n <= Len(log)
      /\ less \in Seq(OrderType) /\ Len(less) = n
      /\ \A g \in 1..n : less[g] = log[g]
    BY DEF Core
<1> HIDE DEF less
<1>2. ASSUME NEW g \in 1..n PROVE SoundOrder(less[g], g, gm)
    <2>1. g \in 1..Len(log)
        BY <1>1
    <2> QED BY <1>1, <2>1 DEF Core
<1>3. ASSUME NEW g \in 1..n, Releases(less[g]) PROVE g > 1 /\ Unanimous(less[g - 1], d)
    <2>1. g \in 1..Len(log) /\ g > 1 /\ Unanimous(log[g - 1], c)
        BY <1>1, <1>3 DEF Core
    <2>2. g - 1 \in 1..n
        BY <1>1, <2>1
    <2>3. Unanimous(log[g - 1], d)
        BY <2>1 DEF Unanimous
    <2> QED BY <1>1, <2>1, <2>2, <2>3
<1> QED BY <1>1, <1>2, <1>3 DEF Core, less
----------------------------------------------------------------------------
(* The handlers *)
\* An emitted order leaves a good memory, whatever became of the last rendezvous.
LEMMA EmitActionGood ==
    ASSUME NEW h, NEW gm, NEW c, Base(h, gm, c), h.up, NEW order \in OrderType, NEW n \in Nat,
           order.acks = {}, order.reports = <<>>, order.release <= order.requested,
           order.type = "clock.set" => order.effective <= order.requested,
           Releases(order) => Len(h.log) > 0 /\ Unanimous(h.log[Len(h.log)], c),
           order.type = "clock.rendezvous" => Sampled(h)
    PROVE  After(h, EmitAction(h, order, n), gm, c)
<1> DEFINE k == EmitAction(h, order, n)
           len == Len(h.log)
<1>0. h \in MemoryType /\ Core(h.log, gm, c) /\ h.log \in Seq(OrderType) /\ len \in Nat
    BY DEF Base, Core
<1>1. /\ k \in MemoryType /\ k.log = Append(h.log, order)
      /\ k.controls = Append(h.controls, "pending")
      /\ k.rv = (IF order.type = "clock.rendezvous"
                   THEN Meeting(Len(h.log) + 1, n) ELSE NoMeeting)
      /\ k.up = h.up /\ k.faultAt = h.faultAt /\ k.pause = h.pause
      /\ k.protect = h.protect /\ k.fence = h.fence
      /\ k.connected = h.connected /\ k.waiting = h.waiting /\ k.health = h.health
    BY <1>0, EmitActionFields
<1> HIDE DEF k
<1>2. /\ Len(k.log) = len + 1 /\ k.log[len + 1] = order
      /\ \A g \in 1..len : k.log[g] = h.log[g]
    BY <1>0, <1>1, AppendFacts
<1>3. Core(k.log, gm, c) /\ Extends(h.log, k.log)
    BY <1>0, <1>1, CoreAppend, ExtendsAppend
<1>4. Tracking(k)
    <2>1. /\ h.controls \in Seq(Statuses) /\ Len(h.controls) = len
          /\ \A g \in 1..len : h.controls[g] = "pending" => \A a \in h.log[g].acks : a.ok
        BY <1>0, MemoryFields DEF Base, Tracking
    <2>2. /\ Len(k.controls) = len + 1
          /\ \A g \in 1..len : k.controls[g] = h.controls[g]
        BY <1>0, <1>1, <2>1, AppendFacts DEF Statuses
    <2>3. ASSUME NEW g \in 1..(len + 1), k.controls[g] = "pending", NEW a \in k.log[g].acks
          PROVE  a.ok
        <3>1. g # len + 1
            BY <1>2, <2>3
        <3>2. g \in 1..len
            BY <1>0, <2>3, <3>1
        <3> QED BY <1>2, <2>1, <2>2, <2>3, <3>2
    <2> QED BY <1>2, <2>2, <2>3 DEF Tracking
<1>5. PauseKept(k, gm)
    <2>1. h.pause.gen \in Nat /\ h.pause.gen <= len
        BY <1>0, MemoryFields DEF Base, PauseKept, PauseType
    <2>2. h.pause.gen <= len + 1
        BY <1>0, <2>1
    <2> QED BY <1>1, <1>2, <2>2 DEF Base, PauseKept
<1>6. AwayKept(k) /\ FenceKept(k)
    BY <1>1 DEF Base, AwayKept, FenceKept
<1>7. MeetingKept(k, c) /\ SpeedKept(k)
    <2>1. CASE order.type = "clock.rendezvous"
        <3>1. k.rv = Meeting(len + 1, n) /\ len + 1 \in Nat
            BY <1>0, <1>1, <2>1
        <3>2. /\ k.rv.gen = len + 1 /\ k.rv # NoMeeting
              /\ \A p \in Peer : k.rv.reached[p] = NoReport
            BY <3>1, MeetingNew
        <3>3. k.log[k.rv.gen].type = "clock.rendezvous" /\ k.log[k.rv.gen].reports = <<>>
            BY <1>2, <2>1, <3>2
        <3>4. \A p \in Peer : Gathered(k.rv, k.log[k.rv.gen].reports, p)
            <4>1. DOMAIN k.log[k.rv.gen].reports = {}
                BY <3>3
            <4> QED BY <3>2, <4>1 DEF Gathered
        <3> QED BY <1>0, <1>1, <1>2, <2>1, <3>2, <3>3, <3>4 DEF MeetingKept, Sampled, SpeedKept
    <2>2. CASE order.type # "clock.rendezvous"
        <3>1. k.rv = NoMeeting /\ order.type = "clock.set"
            BY <1>1, <2>2, OrderFields DEF OrderKinds
        <3>2. k.log \in Seq(OrderType) /\ k.log # <<>>
            BY <1>0, <1>1, AppendFacts
        <3>3. Requested(k) = order.requested /\ Effective(k) = order.effective
            BY <1>2, <3>2, LatestFields
        <3> QED BY <3>1, <3>3 DEF MeetingKept, Sampled, SpeedKept
    <2> QED BY <2>1, <2>2
<1> QED BY <1>1, <1>3, <1>4, <1>5, <1>6, <1>7 DEF After, Good, Base, k

\* A handler after a handler.
LEMMA AfterTwice ==
    ASSUME NEW h, NEW k, NEW m, NEW gm, NEW c, h.log \in Seq(OrderType),
           Extends(h.log, k.log), After(k, m, gm, c), k.log \in Seq(OrderType)
    PROVE  After(h, m, gm, c)
<1>1. m.log \in Seq(OrderType)
    BY DEF After, Good, Base, Core
<1> QED BY <1>1, ExtendsTwice DEF After

\* An order for a speed that does not let the clock run.
LEMMA StopGood ==
    ASSUME NEW h, NEW gm, NEW c, Base(h, gm, c), h.up, NEW r \in Speeds
    PROVE  After(h, EmitClockSet(h, r, 0), gm, c)
<1>1. /\ SetOrder(r, 0) \in OrderType
      /\ SetOrder(r, 0).type = "clock.set" /\ SetOrder(r, 0).requested = r
      /\ SetOrder(r, 0).effective = (IF 0 <= r THEN 0 ELSE r)
      /\ SetOrder(r, 0).release = 0
      /\ SetOrder(r, 0).acks = {} /\ SetOrder(r, 0).reports = <<>>
    BY SpeedsNat, OrdersTyped
<1>2. 0 <= r /\ 0 \in Nat
    BY SpeedsNat
<1>3. SetOrder(r, 0).effective = 0 /\ ~Releases(SetOrder(r, 0))
    BY <1>1, <1>2 DEF Releases
<1> QED BY <1>1, <1>2, <1>3, EmitActionGood DEF EmitClockSet

\* A rendezvous.
LEMMA MeetGood ==
    ASSUME NEW h, NEW gm, NEW c, Base(h, gm, c), h.up, Sampled(h),
           NEW r \in Speeds, NEW e \in Speeds, NEW x \in Speeds, x <= r, NEW n \in Nat
    PROVE  After(h, EmitAction(h, MeetOrder(r, e, x), n), gm, c)
<1>1. /\ MeetOrder(r, e, x) \in OrderType
      /\ MeetOrder(r, e, x).type = "clock.rendezvous" /\ MeetOrder(r, e, x).requested = r
      /\ MeetOrder(r, e, x).release = x
      /\ MeetOrder(r, e, x).acks = {} /\ MeetOrder(r, e, x).reports = <<>>
    BY OrdersTyped
<1>2. ~Releases(MeetOrder(r, e, x))
    BY <1>1 DEF Releases
<1> QED BY <1>1, <1>2, EmitActionGood

\* Samples of all are samples of those awaited, too.
LEMMA FreshHere ==
    ASSUME NEW h, h.waiting \subseteq Peer, FreshSamples(h)
    PROVE  Sampled(h)
<1>1. NoSample.age = "none"
    BY DEF NoSample
<1>2. \A p \in Peer : h.health[p] # NoSample
    BY <1>1 DEF FreshSamples
<1> QED BY <1>2 DEF Sampled

\* begin_rendezvous keeps a meeting that is under way, pauses without fresh samples, or meets.
LEMMA BeginRendezvousGood ==
    ASSUME NEW h, NEW gm, NEW c, Good(h, gm, c),
           NEW r \in Speeds, NEW x \in Speeds, x <= r
    PROVE  After(h, BeginRendezvous(h, r, x), gm, c)
<1>1. /\ h \in MemoryType /\ h.log \in Seq(OrderType) /\ Len(h.log) \in Nat /\ h.up
      /\ Base(h, gm, c) /\ h.waiting \subseteq Peer /\ AwayKept(h)
    BY MemoryFields DEF Good, Base
<1>2. CASE h.rv # NoMeeting /\ ~h.rv.failed
    BY <1>1, <1>2, ExtendsSame DEF BeginRendezvous, After
<1>3. CASE ~(h.rv # NoMeeting /\ ~h.rv.failed) /\ ~FreshSamples(h)
    BY <1>1, <1>3, StopGood DEF BeginRendezvous
<1>4. CASE ~(h.rv # NoMeeting /\ ~h.rv.failed) /\ FreshSamples(h)
    <2> DEFINE e == IF Effective(h) = 0 THEN 1 ELSE Effective(h)
    <2>1. e \in Speeds /\ 0 \in Nat
        BY <1>1, LatestFields, SpeedsNat
    <2>2. Sampled(h)
        BY <1>1, <1>4, FreshHere
    <2>3. BeginRendezvous(h, r, x) = EmitAction(h, MeetOrder(r, e, x), 0)
        BY <1>4 DEF BeginRendezvous
    <2> QED BY <1>1, <2>1, <2>2, <2>3, MeetGood
<1> QED BY <1>2, <1>3, <1>4

\* A pause in an emergency ends a rendezvous, whatever became of it.
LEMMA EmergencyPauseGood ==
    ASSUME NEW h, NEW gm, NEW c, Base(h, gm, c), h.up
    PROVE  After(h, EmergencyPause(h), gm, c)
<1> DEFINE quiet == [h EXCEPT !.fence = NoFence, !.rv = NoMeeting]
<1>1. /\ h \in MemoryType /\ h.log \in Seq(OrderType) /\ Len(h.log) \in Nat
      /\ Requested(h) \in Speeds /\ Effective(h) \in Speeds
    BY LatestFields DEF Base, Core
<1>2. /\ quiet \in MemoryType /\ quiet.up = h.up /\ quiet.log = h.log /\ quiet.rv = NoMeeting
      /\ quiet.controls = h.controls /\ quiet.pause = h.pause /\ quiet.fence = NoFence
      /\ quiet.connected = h.connected /\ quiet.waiting = h.waiting
      /\ quiet.health = h.health
    BY <1>1 DEF MemoryType
<1>3. EmergencyPause(h) = IF Effective(h) # 0 \/ Requested(h) # 0
                            THEN EmitClockSet(quiet, Requested(h), 0) ELSE quiet
    BY DEF EmergencyPause
<1> HIDE DEF quiet
<1>4. Base(quiet, gm, c) /\ quiet.up /\ Extends(h.log, quiet.log)
    <2>1. Tracking(quiet) /\ PauseKept(quiet, gm) /\ AwayKept(quiet) /\ FenceKept(quiet)
        BY <1>2 DEF Base, Tracking, PauseKept, AwayKept, FenceKept
    <2> QED BY <1>1, <1>2, <2>1, ExtendsSame DEF Base
<1>5. CASE Effective(h) # 0 \/ Requested(h) # 0
    BY <1>1, <1>2, <1>3, <1>4, <1>5, StopGood DEF After
<1>6. CASE Effective(h) = 0 /\ Requested(h) = 0
    <2>1. Effective(quiet) = 0 /\ Requested(quiet) = 0
        BY <1>2, <1>6 DEF Effective, Requested, Latest
    <2>2. MeetingKept(quiet, c) /\ SpeedKept(quiet)
        BY <1>2, <2>1 DEF MeetingKept, Sampled, SpeedKept
    <2> QED BY <1>3, <1>4, <1>6, <2>2 DEF After, Good
<1> QED BY <1>5, <1>6

\* fault_session orders the fault and an emergency pause, whatever meeting there was.
LEMMA FaultSessionGood ==
    ASSUME NEW h, NEW gm, NEW c, Base(h, gm, c), h.up
    PROVE  After(h, FaultSession(h), gm, c)
<1> DEFINE k == [h EXCEPT !.faultAt = Gen(h) + 1]
<1>1. h \in MemoryType /\ Gen(h) + 1 \in Nat /\ Gen(h) = Len(h.log) /\ Len(h.log) \in Nat
    BY DEF Base, Core, Gen
<1>2. /\ k \in MemoryType /\ k.up = h.up /\ k.log = h.log
      /\ k.controls = h.controls /\ k.pause = h.pause /\ k.fence = h.fence
      /\ k.connected = h.connected /\ k.waiting = h.waiting /\ k.health = h.health
    BY <1>1 DEF MemoryType
<1>3. FaultSession(h) = EmergencyPause(IF Faulted(h) THEN h ELSE k)
    BY DEF FaultSession
<1> HIDE DEF k
<1>4. Base(k, gm, c) /\ k.up
    BY <1>1, <1>2 DEF Base, Tracking, PauseKept, AwayKept, FenceKept
<1>5. CASE Faulted(h)
    BY <1>3, <1>5, EmergencyPauseGood
<1>6. CASE ~Faulted(h)
    BY <1>2, <1>3, <1>4, <1>6, EmergencyPauseGood DEF After
<1> QED BY <1>5, <1>6

\* An acknowledged pause, of an order that every game has applied.
LEMMA SetPauseAcknowledgedGood ==
    ASSUME NEW h, NEW gm, NEW c, Base(h, gm, c), h.up, NEW g \in Nat, g <= Len(h.log),
           \A p \in Peer : g <= gm[p].gen, NEW on \in BOOLEAN
    PROVE  LET k == SetPauseAcknowledged(h, on, g)
           IN /\ Base(k, gm, c) /\ k.up = h.up /\ k.log = h.log /\ k.rv = h.rv
              /\ k.waiting = h.waiting /\ k.health = h.health /\ k.controls = h.controls
<1> DEFINE k == SetPauseAcknowledged(h, on, g)
           mode == IF on THEN "acknowledged" ELSE "none"
           m == [h EXCEPT !.pause = [gen |-> g, on |-> on],
                          !.protect = [gen |-> g, mode |-> mode]]
<1>1. CASE g <= h.pause.gen
    BY <1>1 DEF SetPauseAcknowledged
<1>2. CASE ~(g <= h.pause.gen)
    <2>1. k = m
        BY <1>2, Zenon DEF SetPauseAcknowledged
    <2>2. mode \in {"none", "acknowledged", "quiescent"}
        OBVIOUS
    <2>3. h \in MemoryType
        BY DEF Base
    <2> HIDE DEF mode, k
    <2>4. /\ m \in MemoryType /\ m.up = h.up /\ m.log = h.log /\ m.rv = h.rv
          /\ m.controls = h.controls /\ m.pause.gen = g /\ m.fence = h.fence
          /\ m.connected = h.connected /\ m.waiting = h.waiting /\ m.health = h.health
        BY <2>2, <2>3 DEF MemoryType, PauseType, ProtectType
    <2> HIDE DEF m
    <2>5. Tracking(m) /\ PauseKept(m, gm) /\ AwayKept(m) /\ FenceKept(m)
        BY <2>4 DEF Base, Tracking, PauseKept, AwayKept, FenceKept
    <2>6. Base(m, gm, c)
        BY <2>4, <2>5 DEF Base
    <2> QED BY <2>1, <2>4, <2>6 DEF k
<1> QED BY <1>1, <1>2

\* A rendezvous that all have reported, at one game time, is agreed.
LEMMA MeetingUnanimous ==
    ASSUME NEW h, NEW gm, NEW c, Good(h, gm, c), h.rv # NoMeeting, AllReached(h),
           Cardinality({h.rv.reached[p].at : p \in Peer}) = 1
    PROVE  Unanimous(h.log[h.rv.gen], c)
<1> DEFINE g == h.rv.gen
           reports == h.log[g].reports
<1>1. /\ g = Len(h.log) /\ g > 0 /\ h.log \in Seq(OrderType) /\ Len(h.log) \in Nat
      /\ h.log[g].type = "clock.rendezvous"
      /\ \A p \in Peer : Gathered(h.rv, reports, p)
      /\ c = 0 => \A p \in Peer : h.rv.reached[p] # NoReport => h.rv.reached[p].ok
    BY DEF Good, MeetingKept, Base, Core
<1>2. g \in 1..Len(h.log) /\ h.log[g] \in OrderType
    BY <1>1
<1>3. SoundOrder(h.log[g], g, gm)
    BY <1>2 DEF Good, Base, Core
<1>4. reports \in Seq(ReportType)
    BY <1>2, OrderFields
<1> HIDE DEF g, reports
<1>5. ASSUME NEW p \in Peer
      PROVE  \E i \in DOMAIN reports : reports[i] = h.rv.reached[p] /\ reports[i].peer = p
    BY <1>1 DEF AllReached, Gathered
<1>6. ASSUME NEW i \in DOMAIN reports
      PROVE  reports[i].peer \in Peer /\ reports[i] = h.rv.reached[reports[i].peer]
    <2>1. reports[i].peer \in Peer
        <3>1. reports[i] \in ReportType
            BY <1>4
        <3> QED BY <3>1 DEF ReportType
    <2>2. PICK k \in DOMAIN reports :
             reports[k] = h.rv.reached[reports[i].peer] /\ reports[k].peer = reports[i].peer
        BY <1>5, <2>1
    <2>3. k = i
        BY <1>3, <2>2 DEF SoundOrder, reports
    <2> QED BY <2>1, <2>2, <2>3
<1>7. {reports[i].peer : i \in DOMAIN reports} = Peer
    BY <1>5, <1>6
<1>8. {reports[i].at : i \in DOMAIN reports} = {h.rv.reached[p].at : p \in Peer}
    BY <1>5, <1>6
<1>9. ASSUME c = 0, NEW i \in DOMAIN reports PROVE reports[i].ok
    BY <1>1, <1>6, <1>9 DEF AllReached
<1> QED BY <1>1, <1>7, <1>8, <1>9 DEF Unanimous, reports, g

\* _complete_rendezvous: what it releases, all have reported at one game time; else it
\* corrects with another meeting or pauses.
LEMMA CompleteGood ==
    ASSUME NEW h, NEW gm, NEW c, Good(h, gm, c), h.rv # NoMeeting, AllReached(h)
    PROVE  After(h, Complete(h), gm, c)
<1> DEFINE at == {h.rv.reached[p].at : p \in Peer}
           order == h.log[h.rv.gen]
           m == [h EXCEPT !.rv = NoMeeting]
<1>1. /\ h \in MemoryType /\ h.log \in Seq(OrderType) /\ Len(h.log) \in Nat /\ h.up
      /\ Base(h, gm, c) /\ Core(h.log, gm, c) /\ Sampled(h)
      /\ h.rv.gen = Len(h.log) /\ Len(h.log) \in 1..Len(h.log)
    BY DEF Good, Base, Core, MeetingKept
<1>2. /\ order \in OrderType /\ order.release <= order.requested
      /\ order.requested \in Speeds /\ order.release \in Speeds /\ 0 \in Nat
    BY <1>1, OrderFields DEF Core, SoundOrder
<1>3. h.rv.corrections \in Nat
    BY <1>1, MemoryFields DEF MeetingType
<1>4. Complete(h) =
        IF Cardinality(at) = 1 THEN EmitClockSet(m, order.requested, order.release)
        ELSE IF TooLate \in at \/ h.rv.corrections >= CorrectionLimit THEN EmergencyPause(h)
        ELSE EmitAction(h, MeetOrder(order.requested, 1, order.release), h.rv.corrections + 1)
    BY DEF Complete
<1>5. CASE Cardinality(at) = 1
    <2>1. Unanimous(order, c)
        BY <1>5, MeetingUnanimous
    <2>2. /\ m \in MemoryType /\ m.up = h.up /\ m.log = h.log
          /\ m.controls = h.controls /\ m.pause = h.pause /\ m.fence = h.fence
          /\ m.connected = h.connected /\ m.waiting = h.waiting /\ m.health = h.health
        BY <1>1 DEF MemoryType
    <2> HIDE DEF m
    <2>3. Base(m, gm, c) /\ m.up
        BY <1>1, <2>2 DEF Base, Tracking, PauseKept, AwayKept, FenceKept
    <2> DEFINE new == SetOrder(order.requested, order.release)
    <2>4. /\ new \in OrderType /\ new.type = "clock.set" /\ new.requested = order.requested
          /\ new.effective <= order.requested /\ new.release = 0
          /\ new.acks = {} /\ new.reports = <<>>
        BY <1>2, OrdersTyped
    <2>5. Complete(h) = EmitAction(m, new, 0)
        BY <1>4, <1>5 DEF EmitClockSet
    <2>6. m.log[Len(m.log)] = order /\ Len(m.log) > 0
        BY <1>1, <2>2
    <2> HIDE DEF new, order
    <2>7. 0 <= order.requested
        <3>1. order.requested \in Nat
            BY <1>2, SpeedsNat
        <3> QED BY <3>1
    <2>8. After(m, EmitAction(m, new, 0), gm, c)
        BY <1>2, <2>1, <2>3, <2>4, <2>6, <2>7, EmitActionGood
    <2> QED BY <2>2, <2>5, <2>8 DEF After
<1>6. CASE Cardinality(at) # 1 /\ (TooLate \in at \/ h.rv.corrections >= CorrectionLimit)
    BY <1>1, <1>4, <1>6, EmergencyPauseGood
<1>7. CASE Cardinality(at) # 1 /\ ~(TooLate \in at \/ h.rv.corrections >= CorrectionLimit)
    <2>1. 1 \in Speeds /\ h.rv.corrections + 1 \in Nat
        BY <1>3, SpeedsNat
    <2>2. Complete(h) =
            EmitAction(h, MeetOrder(order.requested, 1, order.release), h.rv.corrections + 1)
        BY <1>4, <1>7
    <2> HIDE DEF order
    <2> QED BY <1>1, <1>2, <2>1, <2>2, MeetGood
<1> QED BY <1>5, <1>6, <1>7
----------------------------------------------------------------------------
(* The answers of the peers *)
\* A report is journalled under its order.
Journalled(h, report) == [h EXCEPT !.log[report.gen].reports = Append(@, report)]

\* What journalling a report changes: only the reports of its order.
LEMMA JournalledFields ==
    ASSUME NEW h \in MemoryType, NEW r \in ReportType, r.gen \in 1..Len(h.log)
    PROVE  LET j == Journalled(h, r)
           IN /\ j \in MemoryType /\ Len(j.log) = Len(h.log)
              /\ j.log[r.gen].reports = Append(h.log[r.gen].reports, r)
              /\ \A g \in 1..Len(h.log) :
                   /\ j.log[g].type = h.log[g].type /\ j.log[g].acks = h.log[g].acks
                   /\ j.log[g].requested = h.log[g].requested
                   /\ j.log[g].effective = h.log[g].effective
                   /\ j.log[g].release = h.log[g].release
                   /\ g # r.gen => j.log[g] = h.log[g]
              /\ j.up = h.up /\ j.faultAt = h.faultAt /\ j.rv = h.rv
              /\ j.controls = h.controls /\ j.pause = h.pause
              /\ j.protect = h.protect /\ j.fence = h.fence
              /\ j.connected = h.connected /\ j.waiting = h.waiting /\ j.health = h.health
<1> DEFINE o == [h.log[r.gen] EXCEPT !.reports = Append(@, r)]
           log == [h.log EXCEPT ![r.gen] = o]
           j == [h EXCEPT !.log = log]
<1>1. h.log \in Seq(OrderType) /\ Len(h.log) \in Nat /\ h.log[r.gen] \in OrderType
    BY MemoryFields
<1>2. Append(h.log[r.gen].reports, r) \in Seq(ReportType)
    BY <1>1, OrderFields, AppendFacts
<1>3. /\ o \in OrderType /\ o.reports = Append(h.log[r.gen].reports, r)
      /\ o.type = h.log[r.gen].type /\ o.acks = h.log[r.gen].acks
      /\ o.requested = h.log[r.gen].requested /\ o.effective = h.log[r.gen].effective
      /\ o.release = h.log[r.gen].release
    BY <1>1, <1>2 DEF OrderType
<1> HIDE DEF o
<1>4. /\ log \in Seq(OrderType) /\ Len(log) = Len(h.log) /\ log[r.gen] = o
      /\ \A g \in 1..Len(h.log) : g # r.gen => log[g] = h.log[g]
    BY <1>1, <1>3
<1> HIDE DEF log
<1>5. /\ j \in MemoryType /\ j.log = log
      /\ j.up = h.up /\ j.faultAt = h.faultAt /\ j.rv = h.rv
      /\ j.controls = h.controls /\ j.pause = h.pause
      /\ j.protect = h.protect /\ j.fence = h.fence
      /\ j.connected = h.connected /\ j.waiting = h.waiting /\ j.health = h.health
    BY <1>4 DEF MemoryType
<1>6. Journalled(h, r) = j
    BY DEF Journalled, o, log
<1> HIDE DEF j
<1> QED BY <1>3, <1>4, <1>5, <1>6

\* The first report of a peer for an order is journalled: the journal is sound.
LEMMA JournalledBase ==
    ASSUME NEW h, NEW gm, NEW c, Base(h, gm, c), NEW r \in ReportType,
           r.gen \in 1..Len(h.log), Told(r, gm),
           \A i \in DOMAIN h.log[r.gen].reports : h.log[r.gen].reports[i].peer # r.peer
    PROVE  Base(Journalled(h, r), gm, c)
<1> DEFINE j == Journalled(h, r)
           x == h.log[r.gen].reports
           y == Append(x, r)
<1>1. /\ h \in MemoryType /\ Core(h.log, gm, c) /\ h.log \in Seq(OrderType)
      /\ Len(h.log) \in Nat /\ h.log[r.gen] \in OrderType
    BY DEF Base, Core
<1>2. /\ j \in MemoryType /\ Len(j.log) = Len(h.log) /\ j.log[r.gen].reports = y
      /\ \A g \in 1..Len(h.log) :
           /\ j.log[g].type = h.log[g].type /\ j.log[g].acks = h.log[g].acks
           /\ j.log[g].requested = h.log[g].requested
           /\ j.log[g].effective = h.log[g].effective
           /\ j.log[g].release = h.log[g].release
           /\ g # r.gen => j.log[g] = h.log[g]
      /\ j.up = h.up /\ j.controls = h.controls /\ j.pause = h.pause /\ j.fence = h.fence
      /\ j.connected = h.connected /\ j.waiting = h.waiting /\ j.health = h.health
    BY <1>1, JournalledFields
<1>3. x \in Seq(ReportType) /\ Len(x) \in Nat
    BY <1>1, OrderFields
<1>4. /\ DOMAIN y = 1..(Len(x) + 1) /\ DOMAIN x = 1..Len(x) /\ y[Len(x) + 1] = r
      /\ \A i \in 1..Len(x) : y[i] = x[i]
    BY <1>3, AppendFacts
<1>5. \A i \in DOMAIN x : x[i].peer # r.peer
    OBVIOUS
<1> HIDE DEF j, x, y
<1>6. SoundOrder(j.log[r.gen], r.gen, gm)
    <2>1. SoundOrder(h.log[r.gen], r.gen, gm)
        BY <1>1 DEF Core
    <2>2. ASSUME NEW i \in DOMAIN y PROVE y[i].gen = r.gen /\ Told(y[i], gm)
        <3>1. CASE i = Len(x) + 1
            BY <1>4, <3>1
        <3>2. CASE i # Len(x) + 1
            <4>1. i \in 1..Len(x)
                BY <1>3, <1>4, <2>2, <3>2
            <4> QED BY <1>4, <2>1, <4>1 DEF SoundOrder, x
        <3> QED BY <3>1, <3>2
    <2>3. ASSUME NEW i \in DOMAIN y, NEW k \in DOMAIN y, y[i].peer = y[k].peer
          PROVE  i = k
        <3>1. i \in DOMAIN x \/ i = Len(x) + 1
            BY <1>3, <1>4, <2>3
        <3>2. k \in DOMAIN x \/ k = Len(x) + 1
            BY <1>3, <1>4, <2>3
        <3>3. \A n, m \in DOMAIN x : x[n].peer = x[m].peer => n = m
            BY <2>1 DEF SoundOrder, x
        <3> QED BY <1>4, <1>5, <2>3, <3>1, <3>2, <3>3
    <2> QED BY <1>2, <2>1, <2>2, <2>3 DEF SoundOrder
<1>7. Core(j.log, gm, c)
    <2>1. j.log \in Seq(OrderType)
        BY <1>2, MemoryFields
    <2>2. ASSUME NEW g \in 1..Len(h.log) PROVE SoundOrder(j.log[g], g, gm)
        BY <1>1, <1>2, <1>6 DEF Core
    <2>3. ASSUME NEW g \in 1..Len(h.log), Releases(j.log[g])
          PROVE  g > 1 /\ Unanimous(j.log[g - 1], c)
        <3>1. Releases(h.log[g])
            BY <1>2, <2>3 DEF Releases
        <3>2. g > 1 /\ Unanimous(h.log[g - 1], c)
            BY <1>1, <3>1 DEF Core
        <3>3. g - 1 # r.gen
            <4>1. r.peer \in Peer
                BY DEF ReportType
            <4> QED BY <1>5, <3>2, <4>1 DEF Unanimous, x
        <3>4. g - 1 \in 1..Len(h.log)
            BY <1>1, <3>2
        <3> QED BY <1>2, <3>2, <3>3, <3>4
    <2> QED BY <1>2, <2>1, <2>2, <2>3 DEF Core
<1>8. Tracking(j) /\ PauseKept(j, gm) /\ AwayKept(j) /\ FenceKept(j)
    BY <1>2 DEF Base, Tracking, PauseKept, AwayKept, FenceKept
<1> QED BY <1>2, <1>7, <1>8 DEF Base, j

\* What a rendezvous has of a peer, when a report is journalled and noted.
LEMMA GatheredMore ==
    ASSUME NEW rv, NEW nv, NEW x \in Seq(ReportType), NEW r \in ReportType, r # NoReport,
           rv.reached \in [Peer -> ReportType \union {NoReport}],
           nv.reached = [rv.reached EXCEPT ![r.peer] = r],
           \A p \in Peer : Gathered(rv, x, p)
    PROVE  \A p \in Peer : Gathered(nv, Append(x, r), p)
<1>1. /\ Len(x) \in Nat /\ DOMAIN x = 1..Len(x) /\ DOMAIN Append(x, r) = 1..(Len(x) + 1)
      /\ Append(x, r)[Len(x) + 1] = r /\ \A i \in 1..Len(x) : Append(x, r)[i] = x[i]
    BY AppendFacts
<1> DEFINE y == Append(x, r)
<1> HIDE DEF y
<1> SUFFICES ASSUME NEW p \in Peer PROVE Gathered(nv, y, p)
    BY DEF y
<1>2. r.peer \in Peer
    BY DEF ReportType
<1>3. CASE p = r.peer
    <2>1. nv.reached[p] = r /\ y[Len(x) + 1] = r /\ Len(x) + 1 \in DOMAIN y
        BY <1>1, <1>2, <1>3 DEF y
    <2> QED BY <1>3, <2>1 DEF Gathered
<1>4. CASE p # r.peer
    <2>1. nv.reached[p] = rv.reached[p]
        BY <1>2, <1>4
    <2>2. Gathered(rv, x, p)
        OBVIOUS
    <2>3. CASE rv.reached[p] = NoReport
        <3>1. \A i \in DOMAIN x : x[i].peer # p
            BY <2>2, <2>3 DEF Gathered
        <3>2. ASSUME NEW i \in DOMAIN y PROVE y[i].peer # p
            <4>1. i = Len(x) + 1 \/ i \in 1..Len(x)
                BY <1>1, <3>2 DEF y
            <4> QED BY <1>1, <1>4, <3>1, <4>1 DEF y
        <3> QED BY <2>1, <2>3, <3>2 DEF Gathered
    <2>4. CASE rv.reached[p] # NoReport
        <3>1. PICK i \in DOMAIN x : x[i] = rv.reached[p] /\ rv.reached[p].peer = p
            BY <2>2, <2>4 DEF Gathered
        <3>2. i \in DOMAIN y /\ y[i] = x[i]
            BY <1>1, <3>1 DEF y
        <3> QED BY <2>1, <2>4, <3>1, <3>2 DEF Gathered
    <2> QED BY <2>3, <2>4
<1> QED BY <1>3, <1>4

\* A report is not the absence of one.
LEMMA ReportThere == ASSUME NEW r \in ReportType PROVE r # NoReport
<1>1. DOMAIN r = {"type", "gen", "peer", "ok", "at"} /\ DOMAIN NoReport = {"gen", "at"}
    BY DEF ReportType, NoReport
<1> QED BY <1>1

\* A report about another order than the rendezvous changes nothing else.
LEMMA OtherReport ==
    ASSUME NEW h, NEW gm, NEW c, Good(h, gm, c), NEW r \in ReportType,
           r.gen \in 1..Len(h.log), h.rv = NoMeeting \/ r.gen # h.rv.gen,
           Base(Journalled(h, r), gm, c)
    PROVE  Good(Journalled(h, r), gm, c)
<1> DEFINE j == Journalled(h, r)
<1>1. h \in MemoryType /\ h.log \in Seq(OrderType) /\ Len(h.log) \in Nat
    BY DEF Good, Base, Core
<1>2. /\ Len(j.log) = Len(h.log) /\ j.log \in Seq(OrderType)
      /\ \A g \in 1..Len(h.log) :
           /\ j.log[g].requested = h.log[g].requested
           /\ j.log[g].effective = h.log[g].effective
           /\ g # r.gen => j.log[g] = h.log[g]
      /\ j.up = h.up /\ j.rv = h.rv /\ j.waiting = h.waiting /\ j.health = h.health
    BY <1>1, JournalledFields, MemoryFields
<1> HIDE DEF j
<1>3. MeetingKept(j, c)
    <2> SUFFICES ASSUME h.rv # NoMeeting PROVE MeetingKept(j, c)
        BY <1>2 DEF MeetingKept
    <2>1. h.rv.gen \in 1..Len(h.log) /\ h.rv.gen # r.gen
        BY <1>1 DEF Good, MeetingKept
    <2>2. j.log[h.rv.gen] = h.log[h.rv.gen]
        BY <1>2, <2>1
    <2> QED BY <1>2, <2>2 DEF Good, MeetingKept, Sampled
<1>4. SpeedKept(j)
    <2>1. Requested(j) = Requested(h) /\ Effective(j) = Effective(h)
        <3>1. CASE h.log = <<>>
            <4>1. j.log = <<>>
                BY <1>1, <1>2, <3>1
            <4> QED BY <1>1, <1>2, <3>1, <4>1, LatestFields
        <3>2. CASE h.log # <<>>
            <4>1. j.log # <<>> /\ Len(h.log) \in 1..Len(h.log)
                BY <1>1, <1>2, <3>2
            <4> QED BY <1>1, <1>2, <3>2, <4>1, LatestFields
        <3> QED BY <3>1, <3>2
    <2> QED BY <1>2, <2>1 DEF Good, SpeedKept
<1> QED BY <1>2, <1>3, <1>4 DEF Good, j

\* A report about the rendezvous is noted in it.
Hears(j, r) == [j EXCEPT !.rv.reached[r.peer] = r, !.rv.failed = ~r.ok]
Settles(n, r) ==
    IF n.controls[r.gen] = "pending" THEN [n EXCEPT !.controls[r.gen] = "complete"] ELSE n

\* record_clock_reached by cases: another order's report, a failed one, one of several, the last.
LEMMA ReachedCases ==
    ASSUME NEW j, NEW r, NEW restoring \in BOOLEAN, r.ok \in BOOLEAN
    PROVE  /\ j.rv = NoMeeting \/ r.gen # j.rv.gen => Reached(j, r, restoring) = j
           /\ ~(j.rv = NoMeeting \/ r.gen # j.rv.gen) =>
                /\ ~r.ok /\ restoring => Reached(j, r, restoring) = Hears(j, r)
                /\ ~r.ok /\ ~restoring => Reached(j, r, restoring) = EmergencyPause(Hears(j, r))
                /\ r.ok /\ ~AllReached(Hears(j, r)) => Reached(j, r, restoring) = Hears(j, r)
                /\ r.ok /\ AllReached(Hears(j, r)) /\ restoring =>
                     Reached(j, r, restoring) = Settles(Hears(j, r), r)
                /\ r.ok /\ AllReached(Hears(j, r)) /\ ~restoring =>
                     Reached(j, r, restoring) = Complete(Settles(Hears(j, r), r))
<1>1. CASE j.rv = NoMeeting \/ r.gen # j.rv.gen
    BY <1>1 DEF Reached
<1>2. CASE ~(j.rv = NoMeeting \/ r.gen # j.rv.gen)
    <2> DEFINE n == Hears(j, r)
    <2>1. Reached(j, r, restoring) =
            CASE ~r.ok -> IF restoring THEN n ELSE EmergencyPause(n)
              [] r.ok /\ ~AllReached(n) -> n
              [] OTHER -> IF restoring THEN Settles(n, r) ELSE Complete(Settles(n, r))
        BY <1>2, Zenon DEF Reached, Hears, Settles
    <2> HIDE DEF n
    <2>2. CASE ~r.ok
        BY <1>2, <2>1, <2>2 DEF n
    <2>3. CASE r.ok /\ ~AllReached(n)
        BY <1>2, <2>1, <2>3 DEF n
    <2>4. CASE r.ok /\ AllReached(n)
        BY <1>2, <2>1, <2>4 DEF n
    <2> QED BY <2>2, <2>3, <2>4
<1> QED BY <1>1, <1>2

\* What hearing a report changes: only what the meeting has of that peer.
LEMMA HearsFields ==
    ASSUME NEW j \in MemoryType, j.rv \in MeetingType, NEW r \in ReportType
    PROVE  LET n == Hears(j, r)
           IN /\ n \in MemoryType /\ n.rv \in MeetingType /\ n.rv.gen = j.rv.gen
              /\ n.rv # NoMeeting
              /\ n.rv.reached = [j.rv.reached EXCEPT ![r.peer] = r]
              /\ n.up = j.up /\ n.log = j.log /\ n.faultAt = j.faultAt
              /\ n.controls = j.controls /\ n.pause = j.pause /\ n.protect = j.protect
              /\ n.fence = j.fence /\ n.connected = j.connected /\ n.waiting = j.waiting
              /\ n.health = j.health
<1> DEFINE reached == [j.rv.reached EXCEPT ![r.peer] = r]
           one == [j.rv EXCEPT !.reached = reached]
           two == [one EXCEPT !.failed = ~r.ok]
           n == [j EXCEPT !.rv = two]
<1>1. r.peer \in Peer /\ r.ok \in BOOLEAN /\ reached \in [Peer -> ReportType \union {NoReport}]
    BY DEF ReportType, MeetingType
<1> HIDE DEF reached
<1>2. one \in MeetingType /\ one.gen = j.rv.gen /\ one.reached = reached
    BY <1>1 DEF MeetingType
<1> HIDE DEF one
<1>3. two \in MeetingType /\ two.gen = one.gen /\ two.reached = one.reached
    BY <1>1, <1>2 DEF MeetingType
<1> HIDE DEF two
<1>4. two # NoMeeting
    <2>1. DOMAIN two = {"gen", "reached", "failed", "corrections"} /\ DOMAIN NoMeeting = {"gen"}
        BY <1>3 DEF MeetingType, NoMeeting
    <2> QED BY <2>1
<1>5. /\ n \in MemoryType /\ n.rv = two
      /\ n.up = j.up /\ n.log = j.log /\ n.faultAt = j.faultAt
      /\ n.controls = j.controls /\ n.pause = j.pause /\ n.protect = j.protect
      /\ n.fence = j.fence /\ n.connected = j.connected /\ n.waiting = j.waiting
      /\ n.health = j.health
    BY <1>3 DEF MemoryType
<1>6. Hears(j, r) = n
    <2>1. "rv" \in DOMAIN j /\ "failed" \in DOMAIN j.rv /\ "reached" \in DOMAIN j.rv
        BY DEF MemoryType, MeetingType
    <2> QED BY <2>1 DEF Hears, reached, one, two
<1> HIDE DEF n
<1> QED BY <1>2, <1>3, <1>4, <1>5, <1>6 DEF reached

\* What the last report changes: its order is pending no more.
LEMMA SettlesFields ==
    ASSUME NEW n \in MemoryType, NEW r, r.gen \in 1..Len(n.controls)
    PROVE  LET s == Settles(n, r)
           IN /\ s \in MemoryType /\ s.controls \in Seq(Statuses)
              /\ Len(s.controls) = Len(n.controls)
              /\ \A g \in 1..Len(n.controls) : g # r.gen => s.controls[g] = n.controls[g]
              /\ s.controls[r.gen] # "pending"
              /\ s.controls[r.gen] # n.controls[r.gen] => s.controls[r.gen] = "complete"
              /\ s.up = n.up /\ s.log = n.log /\ s.faultAt = n.faultAt /\ s.rv = n.rv
              /\ s.pause = n.pause /\ s.protect = n.protect
              /\ s.fence = n.fence /\ s.connected = n.connected /\ s.waiting = n.waiting
              /\ s.health = n.health
<1> DEFINE controls == [n.controls EXCEPT ![r.gen] = "complete"]
           s == [n EXCEPT !.controls = controls]
<1>1. n.controls \in Seq(Statuses)
    BY MemoryFields
<1>2. /\ controls \in Seq(Statuses) /\ Len(controls) = Len(n.controls)
      /\ controls[r.gen] = "complete"
      /\ \A g \in 1..Len(n.controls) : g # r.gen => controls[g] = n.controls[g]
    BY <1>1 DEF Statuses
<1> HIDE DEF controls
<1>3. /\ s \in MemoryType /\ s.controls = controls
      /\ s.up = n.up /\ s.log = n.log /\ s.faultAt = n.faultAt /\ s.rv = n.rv
      /\ s.pause = n.pause /\ s.protect = n.protect
      /\ s.fence = n.fence /\ s.connected = n.connected /\ s.waiting = n.waiting
      /\ s.health = n.health
    BY <1>2 DEF MemoryType
<1>4. Settles(n, r) = IF n.controls[r.gen] = "pending" THEN s ELSE n
    BY DEF Settles, controls
<1> HIDE DEF s
<1>5. CASE n.controls[r.gen] = "pending"
    BY <1>2, <1>3, <1>4, <1>5
<1>6. CASE n.controls[r.gen] # "pending"
    BY <1>1, <1>4, <1>6
<1> QED BY <1>5, <1>6

\* The status of an order may be settled.
LEMMA SettlesGood ==
    ASSUME NEW n, NEW gm, NEW c, Good(n, gm, c), NEW r, r.gen \in 1..Len(n.log)
    PROVE  /\ Good(Settles(n, r), gm, c) /\ Settles(n, r).log = n.log
           /\ Settles(n, r).rv = n.rv
<1> DEFINE s == Settles(n, r)
<1>0. n \in MemoryType /\ Len(n.controls) = Len(n.log) /\ n.up
    BY DEF Good, Base, Tracking
<1>1. /\ s \in MemoryType /\ Len(s.controls) = Len(n.controls)
      /\ \A g \in 1..Len(n.controls) : g # r.gen => s.controls[g] = n.controls[g]
      /\ s.controls[r.gen] # "pending"
      /\ s.up = n.up /\ s.log = n.log /\ s.rv = n.rv /\ s.pause = n.pause
      /\ s.fence = n.fence /\ s.connected = n.connected /\ s.waiting = n.waiting
      /\ s.health = n.health
    BY <1>0, SettlesFields
<1> HIDE DEF s
<1>2. Tracking(s)
    BY <1>0, <1>1 DEF Good, Base, Tracking
<1>3. PauseKept(s, gm) /\ AwayKept(s) /\ FenceKept(s)
    BY <1>1 DEF Good, Base, PauseKept, AwayKept, FenceKept
<1>4. MeetingKept(s, c) /\ SpeedKept(s)
    BY <1>1 DEF Good, MeetingKept, Sampled, SpeedKept, Requested, Effective, Latest
<1> QED BY <1>1, <1>2, <1>3, <1>4 DEF Good, Base, s

\* record_clock_reached: the first report of a peer for an order.
LEMMA RecordClockReachedGood ==
    ASSUME NEW h, NEW gm, NEW c, Good(h, gm, c), NEW r \in ReportType,
           r.gen \in 1..Len(h.log), Told(r, gm),
           \A i \in DOMAIN h.log[r.gen].reports : h.log[r.gen].reports[i].peer # r.peer
    PROVE  /\ After(Journalled(h, r), RecordClockReached(h, r), gm, c)
           /\ Base(Journalled(h, r), gm, c)
<1> DEFINE j == Journalled(h, r)
           n == Hears(j, r)
           k == RecordClockReached(h, r)
<1>1. /\ h \in MemoryType /\ h.log \in Seq(OrderType) /\ Len(h.log) \in Nat /\ h.up
      /\ Base(h, gm, c) /\ r.ok \in BOOLEAN /\ r.peer \in Peer
    BY DEF Good, Base, Core, ReportType
<1>2. Base(j, gm, c)
    BY <1>1, JournalledBase
<1>3. /\ j \in MemoryType /\ Len(j.log) = Len(h.log) /\ j.log \in Seq(OrderType)
      /\ j.log[r.gen].reports = Append(h.log[r.gen].reports, r)
      /\ j.log[r.gen].type = h.log[r.gen].type
      /\ j.up = h.up /\ j.rv = h.rv /\ j.waiting = h.waiting /\ j.health = h.health
      /\ h.log[r.gen].reports \in Seq(ReportType)
    <2>1. h.log[r.gen] \in OrderType
        BY <1>1
    <2>2. h.log[r.gen].reports \in Seq(ReportType)
        BY <2>1, OrderFields
    <2>3. j \in MemoryType => j.log \in Seq(OrderType)
        BY MemoryFields
    <2> QED BY <1>1, <2>2, <2>3, JournalledFields
<1>4. k = Reached(j, r, FALSE)
    BY DEF RecordClockReached, Journalled
<1>5. /\ j.rv = NoMeeting \/ r.gen # j.rv.gen => k = j
      /\ ~(j.rv = NoMeeting \/ r.gen # j.rv.gen) =>
           /\ ~r.ok => k = EmergencyPause(n)
           /\ r.ok /\ ~AllReached(n) => k = n
           /\ r.ok /\ AllReached(n) => k = Complete(Settles(n, r))
    <2> HIDE DEF j, n
    <2>1. \A restoring \in BOOLEAN : ~restoring /\ k = Reached(j, r, restoring) =>
            /\ j.rv = NoMeeting \/ r.gen # j.rv.gen => k = j
            /\ ~(j.rv = NoMeeting \/ r.gen # j.rv.gen) =>
                 /\ ~r.ok => k = EmergencyPause(n)
                 /\ r.ok /\ ~AllReached(n) => k = n
                 /\ r.ok /\ AllReached(n) => k = Complete(Settles(n, r))
        BY <1>1, ReachedCases DEF n
    <2> HIDE DEF k
    <2>2. FALSE \in BOOLEAN /\ ~FALSE
        OBVIOUS
    <2> QED BY <1>4, <2>1, <2>2, Zenon
<1> HIDE DEF k
<1>6. CASE j.rv = NoMeeting \/ r.gen # j.rv.gen
    <2>1. Good(j, gm, c)
        BY <1>2, <1>3, <1>6, OtherReport
    <2>2. Len(j.log) \in Nat
        BY <1>1, <1>3
    <2> QED BY <1>2, <1>5, <1>6, <2>1, <2>2, ExtendsSame DEF After, k
<1>7. CASE ~(j.rv = NoMeeting \/ r.gen # j.rv.gen)
    <2> HIDE DEF j
    <2>1. j.rv \in MeetingType
        BY <1>3, <1>7, MemoryFields
    <2>2. /\ n \in MemoryType /\ n.rv \in MeetingType /\ n.rv.gen = j.rv.gen
          /\ n.rv # NoMeeting /\ n.rv.reached = [j.rv.reached EXCEPT ![r.peer] = r]
          /\ n.up = j.up /\ n.log = j.log /\ n.controls = j.controls /\ n.pause = j.pause
          /\ n.fence = j.fence /\ n.connected = j.connected /\ n.waiting = j.waiting
          /\ n.health = j.health
        BY <1>3, <2>1, HearsFields
    <2> HIDE DEF n
    <2>3. Base(n, gm, c)
        <3>1. Tracking(n) /\ PauseKept(n, gm) /\ AwayKept(n) /\ FenceKept(n)
            BY <1>2, <2>2 DEF Base, Tracking, PauseKept, AwayKept, FenceKept
        <3> QED BY <1>2, <2>2, <3>1 DEF Base
    <2>4. Extends(j.log, n.log)
        BY <1>1, <1>3, <2>2, ExtendsSame
    <2>5. CASE ~r.ok
        <3>1. After(n, EmergencyPause(n), gm, c)
            BY <1>1, <1>3, <2>2, <2>3, EmergencyPauseGood
        <3> QED BY <1>2, <1>5, <1>7, <2>2, <2>5, <3>1 DEF After, j, k
    <2>6. CASE r.ok
        <3>1. MeetingKept(n, c)
            <4>1. /\ h.rv # NoMeeting /\ r.gen = h.rv.gen /\ Sampled(h)
                  /\ h.rv.gen = Len(h.log) /\ h.rv.gen > 0
                  /\ h.log[r.gen].type = "clock.rendezvous"
                  /\ \A p \in Peer : Gathered(h.rv, h.log[r.gen].reports, p)
                  /\ c = 0 => \A p \in Peer : h.rv.reached[p] # NoReport => h.rv.reached[p].ok
                BY <1>3, <1>7 DEF Good, MeetingKept
            <4>2. j.rv.reached \in [Peer -> ReportType \union {NoReport}] /\ r # NoReport
                BY <2>1, ReportThere DEF MeetingType
            <4>3. \A p \in Peer : Gathered(n.rv, n.log[n.rv.gen].reports, p)
                <5> DEFINE x == h.log[r.gen].reports
                <5>1. n.log[n.rv.gen].reports = Append(x, r) /\ x \in Seq(ReportType)
                    BY <1>3, <2>2, <4>1
                <5>2. \A p \in Peer : Gathered(j.rv, x, p)
                    BY <1>3, <4>1
                <5> HIDE DEF x
                <5>3. \A p \in Peer : Gathered(n.rv, Append(x, r), p)
                    BY <2>2, <4>2, <5>1, <5>2, GatheredMore
                <5> QED BY <5>1, <5>3
            <4>4. ASSUME c = 0, NEW p \in Peer, n.rv.reached[p] # NoReport
                  PROVE  n.rv.reached[p].ok
                <5>1. CASE p = r.peer
                    BY <2>2, <2>6, <4>2, <5>1
                <5>2. CASE p # r.peer
                    BY <1>3, <2>2, <4>1, <4>2, <4>4, <5>2
                <5> QED BY <5>1, <5>2
            <4> QED BY <1>3, <2>2, <4>1, <4>3, <4>4 DEF MeetingKept, Sampled
        <3>2. SpeedKept(n) /\ n.up
            BY <1>1, <1>3, <2>2 DEF SpeedKept
        <3>3. Good(n, gm, c)
            BY <2>3, <3>1, <3>2 DEF Good
        <3>4. CASE ~AllReached(n)
            BY <1>2, <1>5, <1>7, <2>4, <2>6, <3>3, <3>4 DEF After, j, k
        <3>5. CASE AllReached(n)
            <4> DEFINE s == Settles(n, r)
            <4>1. r.gen \in 1..Len(n.log)
                BY <1>3, <2>2
            <4>2. Good(s, gm, c) /\ s.log = n.log /\ s.rv = n.rv
                BY <3>3, <4>1, SettlesGood
            <4>3. s.rv # NoMeeting /\ AllReached(s)
                BY <2>2, <3>5, <4>2 DEF AllReached
            <4>4. k = Complete(s)
                BY <1>5, <1>7, <2>6, <3>5
            <4> HIDE DEF s
            <4>5. After(s, Complete(s), gm, c)
                BY <4>2, <4>3, CompleteGood
            <4> QED BY <1>2, <2>2, <4>2, <4>4, <4>5 DEF After, k, j
        <3> QED BY <3>4, <3>5
    <2> QED BY <2>5, <2>6
<1> QED BY <1>6, <1>7

\* An answer is journalled with its order.
Answered(h, ack) == [h EXCEPT !.log[ack.gen].acks = @ \union {ack}]

\* What journalling an acknowledgement changes: only the answers of its order.
LEMMA AnsweredFields ==
    ASSUME NEW h \in MemoryType, NEW a \in AckType, a.gen \in 1..Len(h.log)
    PROVE  LET j == Answered(h, a)
           IN /\ j \in MemoryType /\ Len(j.log) = Len(h.log)
              /\ j.log[a.gen].acks = h.log[a.gen].acks \union {a}
              /\ \A g \in 1..Len(h.log) :
                   /\ j.log[g].type = h.log[g].type /\ j.log[g].reports = h.log[g].reports
                   /\ j.log[g].requested = h.log[g].requested
                   /\ j.log[g].effective = h.log[g].effective
                   /\ j.log[g].release = h.log[g].release
                   /\ g # a.gen => j.log[g] = h.log[g]
              /\ j.up = h.up /\ j.faultAt = h.faultAt /\ j.rv = h.rv
              /\ j.controls = h.controls /\ j.pause = h.pause
              /\ j.protect = h.protect /\ j.fence = h.fence
              /\ j.connected = h.connected /\ j.waiting = h.waiting /\ j.health = h.health
<1> DEFINE o == [h.log[a.gen] EXCEPT !.acks = @ \union {a}]
           log == [h.log EXCEPT ![a.gen] = o]
           j == [h EXCEPT !.log = log]
<1>1. h.log \in Seq(OrderType) /\ Len(h.log) \in Nat /\ h.log[a.gen] \in OrderType
    BY MemoryFields
<1>2. h.log[a.gen].acks \union {a} \subseteq AckType
    BY <1>1, OrderFields
<1>3. /\ o \in OrderType /\ o.acks = h.log[a.gen].acks \union {a}
      /\ o.type = h.log[a.gen].type /\ o.reports = h.log[a.gen].reports
      /\ o.requested = h.log[a.gen].requested /\ o.effective = h.log[a.gen].effective
      /\ o.release = h.log[a.gen].release
    BY <1>1, <1>2 DEF OrderType
<1> HIDE DEF o
<1>4. /\ log \in Seq(OrderType) /\ Len(log) = Len(h.log) /\ log[a.gen] = o
      /\ \A g \in 1..Len(h.log) : g # a.gen => log[g] = h.log[g]
    BY <1>1, <1>3
<1> HIDE DEF log
<1>5. /\ j \in MemoryType /\ j.log = log
      /\ j.up = h.up /\ j.faultAt = h.faultAt /\ j.rv = h.rv
      /\ j.controls = h.controls /\ j.pause = h.pause
      /\ j.protect = h.protect /\ j.fence = h.fence
      /\ j.connected = h.connected /\ j.waiting = h.waiting /\ j.health = h.health
    BY <1>4 DEF MemoryType
<1>6. Answered(h, a) = j
    BY DEF Answered, o, log
<1> HIDE DEF j
<1> QED BY <1>3, <1>4, <1>5, <1>6

\* What an answer leaves alone: the journal is sound, the rendezvous as it was.
LEMMA AnsweredKept ==
    ASSUME NEW h, NEW gm, NEW c, Good(h, gm, c), NEW a \in AckType,
           a.gen \in 1..Len(h.log), a.ok => a.gen <= gm[a.peer].gen
    PROVE  LET j == Answered(h, a)
           IN /\ Core(j.log, gm, c) /\ PauseKept(j, gm) /\ AwayKept(j) /\ FenceKept(j)
              /\ MeetingKept(j, c) /\ SpeedKept(j)
<1> DEFINE j == Answered(h, a)
<1>1. /\ h \in MemoryType /\ Core(h.log, gm, c) /\ h.log \in Seq(OrderType)
      /\ Len(h.log) \in Nat
    BY DEF Good, Base, Core
<1>2. /\ j \in MemoryType /\ Len(j.log) = Len(h.log)
      /\ j.log[a.gen].acks = h.log[a.gen].acks \union {a}
      /\ \A g \in 1..Len(h.log) :
           /\ j.log[g].type = h.log[g].type /\ j.log[g].reports = h.log[g].reports
           /\ j.log[g].requested = h.log[g].requested
           /\ j.log[g].effective = h.log[g].effective
           /\ j.log[g].release = h.log[g].release
           /\ g # a.gen => j.log[g] = h.log[g]
      /\ j.rv = h.rv /\ j.pause = h.pause /\ j.fence = h.fence
      /\ j.connected = h.connected /\ j.waiting = h.waiting /\ j.health = h.health
    BY <1>1, AnsweredFields
<1> HIDE DEF j
<1>3. Core(j.log, gm, c)
    <2>1. j.log \in Seq(OrderType)
        BY <1>2, MemoryFields
    <2>2. ASSUME NEW g \in 1..Len(h.log) PROVE SoundOrder(j.log[g], g, gm)
        <3>1. SoundOrder(h.log[g], g, gm)
            BY <1>1 DEF Core
        <3>2. CASE g = a.gen
            <4>1. \A b \in j.log[g].acks : b.gen = g /\ (b.ok => g <= gm[b.peer].gen)
                BY <1>2, <3>1, <3>2 DEF SoundOrder
            <4> QED BY <1>2, <3>1, <4>1 DEF SoundOrder
        <3>3. CASE g # a.gen
            BY <1>2, <3>1, <3>3
        <3> QED BY <3>2, <3>3
    <2>3. ASSUME NEW g \in 1..Len(h.log), Releases(j.log[g])
          PROVE  g > 1 /\ Unanimous(j.log[g - 1], c)
        <3>1. Releases(h.log[g])
            BY <1>2, <2>3 DEF Releases
        <3>2. g > 1 /\ Unanimous(h.log[g - 1], c)
            BY <1>1, <3>1 DEF Core
        <3>3. g - 1 \in 1..Len(h.log)
            BY <1>1, <3>2
        <3> DEFINE x == j.log[g - 1]
                   y == h.log[g - 1]
        <3>4. x.type = y.type /\ x.reports = y.reports
            BY <1>2, <3>3
        <3>5. g > 1 /\ Unanimous(y, c)
            BY <3>2
        <3> HIDE DEF x, y
        <3>6. Unanimous(x, c)
            BY <3>4, <3>5 DEF Unanimous
        <3> QED BY <3>5, <3>6 DEF x
    <2> QED BY <1>2, <2>1, <2>2, <2>3 DEF Core
<1>4. PauseKept(j, gm) /\ AwayKept(j) /\ FenceKept(j)
    BY <1>2 DEF Good, Base, PauseKept, AwayKept, FenceKept
<1>5. MeetingKept(j, c)
    <2> SUFFICES ASSUME h.rv # NoMeeting PROVE MeetingKept(j, c)
        BY <1>2 DEF MeetingKept
    <2>1. h.rv.gen \in 1..Len(h.log)
        BY <1>1 DEF Good, MeetingKept
    <2>2. /\ j.log[h.rv.gen].type = h.log[h.rv.gen].type
          /\ j.log[h.rv.gen].reports = h.log[h.rv.gen].reports
        BY <1>2, <2>1
    <2> QED BY <1>2, <2>2 DEF Good, MeetingKept, Sampled
<1>6. SpeedKept(j)
    <2>0. j.log \in Seq(OrderType)
        BY <1>3 DEF Core
    <2>1. Requested(j) = Requested(h) /\ Effective(j) = Effective(h)
        <3>1. CASE h.log = <<>>
            <4>1. j.log = <<>>
                BY <1>1, <1>2, <2>0, <3>1
            <4> QED BY <1>1, <2>0, <3>1, <4>1, LatestFields
        <3>2. CASE h.log # <<>>
            <4>1. j.log # <<>> /\ Len(h.log) \in 1..Len(h.log)
                BY <1>1, <1>2, <2>0, <3>2
            <4> QED BY <1>1, <1>2, <2>0, <3>2, <4>1, LatestFields
        <3> QED BY <3>1, <3>2
    <2> QED BY <1>2, <2>1 DEF Good, SpeedKept
<1> QED BY <1>3, <1>4, <1>5, <1>6 DEF j

\* An order is given up.
GivesUp(h, g) == [h EXCEPT !.controls[g] = "faulted"]

\* An order that is given up may have been refused.
LEMMA GivesUpBase ==
    ASSUME NEW h \in MemoryType, NEW gm, NEW c, Core(h.log, gm, c), NEW g \in 1..Len(h.log),
           h.up, Len(h.controls) = Len(h.log),
           \A k \in 1..Len(h.log) :
             k # g /\ h.controls[k] = "pending" => \A a \in h.log[k].acks : a.ok,
           PauseKept(h, gm), AwayKept(h), FenceKept(h)
    PROVE  LET k == GivesUp(h, g) IN Base(k, gm, c) /\ k.up /\ k.log = h.log
<1> DEFINE controls == [h.controls EXCEPT ![g] = "faulted"]
           k == [h EXCEPT !.controls = controls]
<1>1. h.controls \in Seq(Statuses)
    BY MemoryFields
<1>2. /\ controls \in Seq(Statuses) /\ Len(controls) = Len(h.controls)
      /\ controls[g] = "faulted"
      /\ \A n \in 1..Len(h.controls) : n # g => controls[n] = h.controls[n]
    BY <1>1 DEF Statuses
<1> HIDE DEF controls
<1>3. /\ k \in MemoryType /\ k.controls = controls
      /\ k.up = h.up /\ k.log = h.log /\ k.rv = h.rv /\ k.pause = h.pause
      /\ k.fence = h.fence /\ k.connected = h.connected /\ k.waiting = h.waiting
      /\ k.health = h.health
    BY <1>2 DEF MemoryType
<1>4. GivesUp(h, g) = k
    BY DEF GivesUp, controls
<1> HIDE DEF k
<1>5. Tracking(k)
    BY <1>2, <1>3 DEF Tracking
<1>6. PauseKept(k, gm) /\ AwayKept(k) /\ FenceKept(k)
    BY <1>3 DEF PauseKept, AwayKept, FenceKept
<1> QED BY <1>3, <1>4, <1>5, <1>6 DEF Base

\* resolve_clock_ack.
LEMMA ResolveClockAckGood ==
    ASSUME NEW h, NEW gm, NEW c, Good(h, gm, c), NEW a \in AckType,
           a.gen \in 1..Len(h.log), a.ok => a.gen <= gm[a.peer].gen
    PROVE  /\ After(Answered(h, a), ResolveClockAck(h, a), gm, c)
           /\ Answered(h, a).log \in Seq(OrderType)
<1> DEFINE j == Answered(h, a)
           k == ResolveClockAck(h, a)
           g == a.gen
<1>1. /\ h \in MemoryType /\ Core(h.log, gm, c) /\ h.log \in Seq(OrderType)
      /\ Len(h.log) \in Nat /\ h.up /\ Len(h.controls) = Len(h.log) /\ a.ok \in BOOLEAN
      /\ \A n \in 1..Len(h.log) : h.controls[n] = "pending" => \A b \in h.log[n].acks : b.ok
    BY DEF Good, Base, Core, Tracking, AckType
<1>2. /\ Core(j.log, gm, c) /\ PauseKept(j, gm) /\ AwayKept(j) /\ FenceKept(j)
      /\ MeetingKept(j, c) /\ SpeedKept(j)
    BY AnsweredKept
<1>3. /\ j \in MemoryType /\ Len(j.log) = Len(h.log) /\ j.log \in Seq(OrderType)
      /\ j.log[g].acks = h.log[g].acks \union {a}
      /\ \A n \in 1..Len(h.log) : n # g => j.log[n] = h.log[n]
      /\ j.up = h.up /\ j.rv = h.rv /\ j.controls = h.controls /\ j.waiting = h.waiting
    BY <1>1, <1>2, AnsweredFields DEF Core
<1>4. k = CASE h.controls[g] # "pending" -> j
            [] h.controls[g] = "pending" /\ ~a.ok -> EmergencyPause(GivesUp(j, g))
            [] OTHER ->
                 IF Acked(j.log[g]) # Peer THEN j
                 ELSE SetPauseAcknowledged([j EXCEPT !.controls[g] = "complete"],
                                           j.log[g].effective = 0, g)
    BY Zenon DEF ResolveClockAck, Answered, GivesUp
<1>5. Len(j.log) \in Nat /\ \A n \in 1..Len(h.log) : n # g /\ j.controls[n] = "pending" =>
        \A b \in j.log[n].acks : b.ok
    BY <1>1, <1>3
<1> HIDE DEF j, k
<1>6. h.controls[g] # "pending" \/ a.ok => Good(j, gm, c)
    <2> SUFFICES ASSUME h.controls[g] # "pending" \/ a.ok PROVE Good(j, gm, c)
        OBVIOUS
    <2>1. Tracking(j)
        BY <1>1, <1>3, <1>5 DEF Tracking
    <2> QED BY <1>1, <1>2, <1>3, <2>1 DEF Good, Base
<1>7. CASE h.controls[g] # "pending"
    <2>1. k = j
        BY <1>4, <1>7
    <2> QED BY <1>3, <1>5, <1>6, <1>7, <2>1, ExtendsSame DEF After, j, k
<1>8. CASE h.controls[g] = "pending" /\ ~a.ok
    <2>1. k = EmergencyPause(GivesUp(j, g))
        BY <1>4, <1>8
    <2>2. Base(GivesUp(j, g), gm, c) /\ GivesUp(j, g).up /\ GivesUp(j, g).log = j.log
        <3>1. /\ g \in 1..Len(j.log) /\ j.up /\ Len(j.controls) = Len(j.log)
              /\ \A n \in 1..Len(j.log) :
                   n # g /\ j.controls[n] = "pending" => \A b \in j.log[n].acks : b.ok
            BY <1>1, <1>3, <1>5
        <3> HIDE DEF g
        <3> QED BY <1>2, <1>3, <3>1, GivesUpBase
    <2>3. After(GivesUp(j, g), k, gm, c)
        BY <2>1, <2>2, EmergencyPauseGood
    <2> QED BY <1>3, <2>2, <2>3 DEF After, j, k
<1>9. CASE h.controls[g] = "pending" /\ a.ok
    <2>1. Good(j, gm, c)
        BY <1>6, <1>9
    <2>2. CASE Acked(j.log[g]) # Peer
        <3>1. k = j
            BY <1>4, <1>9, <2>2
        <3> QED BY <1>3, <1>5, <2>1, <3>1, ExtendsSame DEF After, j, k
    <2>3. CASE Acked(j.log[g]) = Peer
        <3> DEFINE s == Settles(j, a)
                   on == j.log[g].effective = 0
        <3>1. s = [j EXCEPT !.controls[g] = "complete"]
            BY <1>3, <1>9 DEF Settles
        <3>2. k = SetPauseAcknowledged(s, on, g)
            BY <1>4, <1>9, <2>3, <3>1
        <3>3. Good(s, gm, c) /\ s.log = j.log /\ s.rv = j.rv
            BY <1>3, <2>1, SettlesGood
        <3>4. ASSUME NEW p \in Peer PROVE g <= gm[p].gen
            <4>1. PICK b \in j.log[g].acks : b.peer = p
                BY <2>3 DEF Acked
            <4>2. b.ok
                BY <1>1, <1>3, <1>9, <4>1
            <4>3. SoundOrder(j.log[g], g, gm)
                BY <1>2, <1>3 DEF Core
            <4> QED BY <4>1, <4>2, <4>3 DEF SoundOrder
        <3>5. on \in BOOLEAN /\ g \in Nat /\ g <= Len(s.log)
            BY <1>1, <1>3, <3>3
        <3> HIDE DEF s, on
        <3>6. /\ Base(k, gm, c) /\ k.up = s.up /\ k.log = s.log /\ k.rv = s.rv
              /\ k.waiting = s.waiting /\ k.health = s.health
            <4>1. Base(s, gm, c) /\ s.up
                BY <3>3 DEF Good
            <4> QED BY <3>2, <3>4, <3>5, <4>1, SetPauseAcknowledgedGood
        <3>7. Good(k, gm, c)
            BY <3>3, <3>6 DEF Good, MeetingKept, Sampled, SpeedKept, Requested, Effective, Latest
        <3> QED BY <1>3, <1>5, <3>3, <3>6, <3>7, ExtendsSame DEF After, j, k
    <2> QED BY <2>2, <2>3
<1> QED BY <1>1, <1>3, <1>7, <1>8, <1>9 DEF j

----------------------------------------------------------------------------
(* The governor *)
Unfenced(h) == [h EXCEPT !.fence = NoFence]

\* Without a fence a memory stays good.
LEMMA UnfencedGood ==
    ASSUME NEW h, NEW gm, NEW c, Good(h, gm, c)
    PROVE  /\ After(h, Unfenced(h), gm, c) /\ Unfenced(h).log = h.log
           /\ Unfenced(h).waiting = h.waiting /\ Unfenced(h).health = h.health
<1> DEFINE k == Unfenced(h)
<1>1. h \in MemoryType /\ h.log \in Seq(OrderType) /\ Len(h.log) \in Nat
    BY DEF Good, Base, Core
<1>2. /\ k \in MemoryType /\ k.up = h.up /\ k.log = h.log /\ k.rv = h.rv
      /\ k.controls = h.controls /\ k.pause = h.pause /\ k.fence = NoFence
      /\ k.connected = h.connected /\ k.waiting = h.waiting /\ k.health = h.health
    BY <1>1 DEF Unfenced, MemoryType
<1> HIDE DEF k
<1>3. Tracking(k) /\ PauseKept(k, gm) /\ AwayKept(k) /\ FenceKept(k)
    BY <1>2 DEF Good, Base, Tracking, PauseKept, AwayKept, FenceKept
<1>4. MeetingKept(k, c) /\ SpeedKept(k)
    BY <1>2 DEF Good, MeetingKept, Sampled, SpeedKept, Requested, Effective, Latest
<1> QED BY <1>1, <1>2, <1>3, <1>4, ExtendsSame DEF After, Good, Base, k

\* What the governor may make of a memory.
LEMMA AdjustCases ==
    ASSUME NEW h, NEW k \in Adjust(h)
    PROVE  \/ k = h
           \/ k = Unfenced(h) \/ k = EmitClockSet(Unfenced(h), 0, 0)
           \/ h.fence # NoFence /\ MayResumeFence(h) /\ k = ResumeFence(h)
           \/ k = EmitClockSet(h, 0, 0)
           \/ h.rv = NoMeeting /\
                \/ k = BeginNativePauseFence(h)
                \/ Requested(h) # 0 /\ k \in SlowDown(h)
                \/ k = BeginRendezvous(h, Requested(h), Effective(h))
                \/ /\ Effective(h) < Requested(h)
                   /\ k = BeginRendezvous(h, Requested(h), Effective(h) + 1)
<1>1. CASE Faulted(h)
    <2>1. k \in {IF \/ Requested(h) # 0 \/ Effective(h) # 0
                    \/ ObservedRunning(h) /\ ~PendingClock(h)
                   THEN EmitClockSet(Unfenced(h), 0, 0) ELSE Unfenced(h)}
        BY <1>1, Zenon DEF Adjust, Unfenced
    <2> QED BY <2>1
<1>2. CASE ~Faulted(h) /\ h.fence # NoFence
    <2>1. k \in {IF MayResumeFence(h) THEN ResumeFence(h) ELSE h}
        BY <1>2, Zenon DEF Adjust
    <2> QED BY <1>2, <2>1
<1>3. CASE ~Faulted(h) /\ h.fence = NoFence /\ (h.rv # NoMeeting \/ PendingClock(h))
    <2>1. k \in {h}
        BY <1>3, Zenon DEF Adjust
    <2> QED BY <2>1
<1>4. CASE ~Faulted(h) /\ h.fence = NoFence /\ ~(h.rv # NoMeeting \/ PendingClock(h))
    <2> DEFINE one == IF ObservedRunning(h) THEN {EmitClockSet(h, 0, 0)} ELSE {}
               many == {h} \union SlowDown(h)
                           \union (IF SamplesComparable(h)
                              THEN {BeginRendezvous(h, Requested(h), Effective(h))} ELSE {})
                           \union (IF Effective(h) < Requested(h)
                              THEN {BeginRendezvous(h, Requested(h), Effective(h) + 1)} ELSE {})
    <2>1. k \in CASE Requested(h) = 0 -> {h} \union one
                  [] Requested(h) # 0 /\ UnexpectedlyPaused(h) # {} -> {BeginNativePauseFence(h)}
                  [] OTHER -> many
        BY <1>4, Zenon DEF Adjust
    <2>2. CASE Requested(h) = 0
        <3>1. k \in {h} \union one
            BY <2>1, <2>2
        <3> QED BY <3>1
    <2>3. CASE Requested(h) # 0 /\ UnexpectedlyPaused(h) # {}
        <3>1. k \in {BeginNativePauseFence(h)}
            BY <2>1, <2>3
        <3> QED BY <1>4, <3>1
    <2>4. CASE Requested(h) # 0 /\ UnexpectedlyPaused(h) = {}
        <3>1. k \in many
            <4> HIDE DEF one, many
            <4> QED BY <2>1, <2>4
        <3> QED BY <1>4, <2>4, <3>1
    <2> QED BY <2>2, <2>3, <2>4
<1> QED BY <1>1, <1>2, <1>3, <1>4

\* The native pause fence: the clock stops, and the fence knows the speeds it had.
LEMMA BeginNativePauseFenceGood ==
    ASSUME NEW h, NEW gm, NEW c, Good(h, gm, c), h.rv = NoMeeting
    PROVE  After(h, BeginNativePauseFence(h), gm, c)
<1> DEFINE stopped == EmitClockSet(h, Requested(h), 0)
           fence == [gen |-> Gen(stopped), requested |-> Requested(h), release |-> Effective(h)]
           k == [stopped EXCEPT !.fence = fence]
<1>1. /\ h \in MemoryType /\ h.log \in Seq(OrderType) /\ h.up /\ Base(h, gm, c)
      /\ Effective(h) \in Speeds /\ Requested(h) \in Speeds /\ Effective(h) <= Requested(h)
    BY LatestFields DEF Good, Base, Core, SpeedKept
<1>2. After(h, stopped, gm, c)
    BY <1>1, StopGood
<1>3. BeginNativePauseFence(h) = k
    BY DEF BeginNativePauseFence
<1> HIDE DEF stopped
<1>4. stopped \in MemoryType /\ stopped.log \in Seq(OrderType) /\ Gen(stopped) \in Nat
    BY <1>2 DEF After, Good, Base, Core, Gen
<1>5. fence \in FenceType /\ fence.release <= fence.requested
    BY <1>1, <1>4 DEF FenceType
<1> HIDE DEF fence
<1>6. /\ k \in MemoryType /\ k.up = stopped.up /\ k.log = stopped.log /\ k.rv = stopped.rv
      /\ k.controls = stopped.controls /\ k.pause = stopped.pause /\ k.fence = fence
      /\ k.connected = stopped.connected /\ k.waiting = stopped.waiting
      /\ k.health = stopped.health
    BY <1>4, <1>5 DEF MemoryType
<1> HIDE DEF k
<1>7. Tracking(k) /\ PauseKept(k, gm) /\ AwayKept(k) /\ FenceKept(k)
    BY <1>2, <1>5, <1>6 DEF After, Good, Base, Tracking, PauseKept, AwayKept, FenceKept
<1>8. MeetingKept(k, c) /\ SpeedKept(k)
    BY <1>2, <1>6 DEF After, Good, MeetingKept, Sampled, SpeedKept, Requested, Effective, Latest
<1>9. Good(k, gm, c)
    BY <1>2, <1>6, <1>7, <1>8 DEF After, Good, Base
<1> QED BY <1>2, <1>3, <1>6, <1>9 DEF After

\* ClockGovernor.adjust: a fence, a lower or a higher speed, or nothing.
LEMMA AdjustGood ==
    ASSUME NEW h, NEW gm, NEW c, Good(h, gm, c), NEW k \in Adjust(h)
    PROVE  After(h, k, gm, c)
<1>1. /\ h \in MemoryType /\ h.log \in Seq(OrderType) /\ Len(h.log) \in Nat /\ h.up
      /\ Base(h, gm, c) /\ h.waiting \subseteq Peer /\ AwayKept(h)
      /\ Effective(h) \in Speeds /\ Requested(h) \in Speeds /\ 0 \in Speeds /\ 1 \in Speeds
      /\ Effective(h) \in Nat /\ Requested(h) \in Nat
    <2>1. h \in MemoryType /\ h.log \in Seq(OrderType) /\ h.up /\ Base(h, gm, c) /\ AwayKept(h)
        BY DEF Good, Base, Core
    <2>2. Effective(h) \in Speeds /\ Requested(h) \in Speeds
        BY <2>1, LatestFields
    <2>3. h.waiting \subseteq Peer
        BY <2>1, MemoryFields
    <2>4. Len(h.log) \in Nat
        BY <2>1
    <2>5. Effective(h) \in Nat /\ Requested(h) \in Nat /\ 0 \in Speeds /\ 1 \in Speeds
        BY <2>2, SpeedsNat
    <2> QED BY <2>1, <2>2, <2>3, <2>4, <2>5
<1>2. /\ After(h, Unfenced(h), gm, c) /\ Unfenced(h).log = h.log
      /\ Unfenced(h).waiting = h.waiting /\ Base(Unfenced(h), gm, c) /\ Unfenced(h).up
    BY UnfencedGood DEF After, Good
<1>3. CASE k = h
    BY <1>1, <1>3, ExtendsSame DEF After
<1>4. CASE k = Unfenced(h)
    BY <1>2, <1>4
<1>5. CASE k = EmitClockSet(Unfenced(h), 0, 0)
    <2>1. After(Unfenced(h), k, gm, c)
        BY <1>1, <1>2, <1>5, StopGood
    <2> QED BY <1>2, <2>1 DEF After
<1>6. CASE h.fence # NoFence /\ MayResumeFence(h) /\ k = ResumeFence(h)
    <2>1. Sampled(Unfenced(h))
        <3>1. Unfenced(h).waiting = h.waiting /\ Unfenced(h).health = h.health
            BY UnfencedGood
        <3>2. Sampled(h)
            BY <1>1, <1>6, FreshHere DEF MayResumeFence
        <3> QED BY <3>1, <3>2 DEF Sampled
    <2>2. /\ h.fence.requested \in Speeds /\ h.fence.release \in Speeds
          /\ h.fence.release <= h.fence.requested
        BY <1>1, <1>6, MemoryFields DEF Base, FenceKept, FenceType
    <2>3. k = EmitAction(Unfenced(h), MeetOrder(h.fence.requested, 1, h.fence.release), 0)
        BY <1>6 DEF ResumeFence, Unfenced
    <2>4. 0 \in Nat
        OBVIOUS
    <2>5. After(Unfenced(h), k, gm, c)
        BY <1>1, <1>2, <2>1, <2>2, <2>3, <2>4, MeetGood
    <2> QED BY <1>2, <2>5 DEF After
<1>7. CASE k = EmitClockSet(h, 0, 0)
    BY <1>1, <1>7, StopGood
<1>8. ASSUME h.rv = NoMeeting PROVE Effective(h) <= Requested(h)
    BY <1>8 DEF Good, SpeedKept
<1>9. CASE h.rv = NoMeeting /\ k = BeginNativePauseFence(h)
    BY <1>9, BeginNativePauseFenceGood
<1>10. CASE h.rv = NoMeeting /\ k = BeginRendezvous(h, Requested(h), Effective(h))
    BY <1>1, <1>8, <1>10, BeginRendezvousGood
<1>11. CASE /\ Effective(h) < Requested(h)
            /\ k = BeginRendezvous(h, Requested(h), Effective(h) + 1)
    <2>1. Effective(h) + 1 \in Speeds /\ Effective(h) + 1 <= Requested(h)
        BY <1>1, <1>11, ClockAssumption DEF Speeds
    <2> QED BY <1>1, <1>11, <2>1, BeginRendezvousGood
<1>12. CASE h.rv = NoMeeting /\ Requested(h) # 0 /\ k \in SlowDown(h)
    <2> DEFINE target == IF Effective(h) <= 1 THEN 1 ELSE Effective(h) - 1
    <2>1. \/ k = EmitClockSet(h, Requested(h), 0) \/ k = h
          \/ target # Effective(h) /\ k = BeginRendezvous(h, Requested(h), target)
        BY <1>12 DEF SlowDown
    <2>2. CASE k = EmitClockSet(h, Requested(h), 0)
        BY <1>1, <2>2, StopGood
    <2>3. CASE target # Effective(h) /\ k = BeginRendezvous(h, Requested(h), target)
        <3>1. target \in Speeds
            BY <1>1, ClockAssumption DEF Speeds
        <3>2. target <= Requested(h)
            BY <1>1, <1>8, <1>12, <2>3
        <3> HIDE DEF target
        <3> QED BY <1>1, <2>3, <3>1, <3>2, BeginRendezvousGood
    <2> QED BY <1>3, <2>1, <2>2, <2>3
<1> QED BY <1>3, <1>4, <1>5, <1>6, <1>7, <1>9, <1>10, <1>11, <1>12, AdjustCases

----------------------------------------------------------------------------
(* Restart *)
\* A bounded one has a newest.
LEMMA NewestThere ==
    ASSUME NEW n \in Nat, NEW T, T \subseteq 1..n, T # {}
    PROVE  Newest(T) \in T /\ \A k \in T : k <= Newest(T)
<1> DEFINE U == {k \in Nat : \A x \in T : x <= k}
<1>1. n \in U
    OBVIOUS
<1>2. PICK k \in U : \A y \in U : k <= y
    BY <1>1, Least
<1>3. k \in T
    <2> SUFFICES ASSUME k \notin T PROVE FALSE
        OBVIOUS
    <2>1. PICK x \in T : TRUE
        OBVIOUS
    <2>2. x \in Nat /\ x > 0 /\ x <= k /\ k \in Nat
        BY <1>2, <2>1
    <2>3. k - 1 \in Nat
        BY <2>2
    <2>4. \A y \in T : y <= k - 1
        BY <1>2, <2>2
    <2>5. k - 1 \in U
        BY <2>3, <2>4
    <2> QED BY <1>2, <2>2, <2>5
<1>4. \E g \in T : \A y \in T : y <= g
    BY <1>2, <1>3
<1> QED BY <1>4 DEF Newest

\* A report is read again from the journal.
Recalls(k, r) == Reached(k, r, TRUE)

\* f gives the memory after each of the first n reports of x.
NotesOf(f, t, x, n) ==
    f = [i \in 0..n |-> IF i = 0 THEN t ELSE Recalls(f[i - 1], x[i])]

\* The recursive functions of a restart exist, and do one step for each report and entry.
LEMMA NotesExist ==
    ASSUME NEW t, NEW x
    PROVE  \A n \in Nat : \E f : NotesOf(f, t, x, n)
<1> DEFINE T == {n \in Nat : ~ \E f : NotesOf(f, t, x, n)}
<1> SUFFICES ASSUME T # {} PROVE FALSE
    OBVIOUS
<1>1. PICK n \in T : \A m \in T : n <= m
    BY Least
<1>2. n # 0
    <2>1. NotesOf([i \in 0..0 |-> t], t, x, 0)
        BY DEF NotesOf
    <2> QED BY <2>1
<1>3. n - 1 \in Nat /\ n - 1 \notin T /\ n \in Nat
    BY <1>1, <1>2
<1>4. PICK f : NotesOf(f, t, x, n - 1)
    BY <1>3
<1> DEFINE g == [i \in 0..n |-> IF i = n THEN Recalls(f[n - 1], x[n]) ELSE f[i]]
<1>5. NotesOf(g, t, x, n)
    <2>1. ASSUME NEW i \in 0..n
          PROVE  g[i] = IF i = 0 THEN t ELSE Recalls(g[i - 1], x[i])
        <3>1. CASE i = n
            <4>1. g[i] = Recalls(f[n - 1], x[n]) /\ g[i - 1] = f[n - 1]
                BY <1>2, <1>3, <3>1
            <4> QED BY <1>2, <3>1, <4>1
        <3>2. CASE i # n
            <4>1. g[i] = f[i] /\ i \in 0..(n - 1)
                BY <1>3, <3>2
            <4>2. f[i] = IF i = 0 THEN t ELSE Recalls(f[i - 1], x[i])
                BY <1>4, <4>1 DEF NotesOf
            <4>3. i # 0 => g[i - 1] = f[i - 1]
                BY <1>3, <3>2
            <4> QED BY <4>1, <4>2, <4>3
        <3> QED BY <3>1, <3>2
    <2> QED BY <2>1 DEF NotesOf
<1> QED BY <1>5

LEMMA NotedSteps ==
    ASSUME NEW t, NEW x, Len(x) \in Nat
    PROVE  /\ Noted(t, x)[0] = t
           /\ \A n \in 1..Len(x) : Noted(t, x)[n] = Recalls(Noted(t, x)[n - 1], x[n])
<1> DEFINE len == Len(x)
<1> HIDE DEF len
<1>1. Noted(t, x) = CHOOSE f : NotesOf(f, t, x, len)
    BY DEF Noted, NotesOf, Recalls, len
<1>2. NotesOf(Noted(t, x), t, x, len)
    BY <1>1, NotesExist DEF len
<1> HIDE DEF Noted
<1>3. \A n \in 0..len :
        Noted(t, x)[n] = IF n = 0 THEN t ELSE Recalls(Noted(t, x)[n - 1], x[n])
    BY <1>2 DEF NotesOf
<1> QED BY <1>3 DEF len

\* f gives the memory after each of the first n entries of a journal.
EntriesOf(f, log, at, n) ==
    f = [i \in 0..n |-> IF i = 0 THEN Fresh(log, at) ELSE Restore(f[i - 1], log[i])]

LEMMA EntriesExist ==
    ASSUME NEW log, NEW at
    PROVE  \A n \in Nat : \E f : EntriesOf(f, log, at, n)
<1> DEFINE T == {n \in Nat : ~ \E f : EntriesOf(f, log, at, n)}
<1> SUFFICES ASSUME T # {} PROVE FALSE
    OBVIOUS
<1>1. PICK n \in T : \A m \in T : n <= m
    BY Least
<1>2. n # 0
    <2>1. EntriesOf([i \in 0..0 |-> Fresh(log, at)], log, at, 0)
        BY DEF EntriesOf
    <2> QED BY <2>1
<1>3. n - 1 \in Nat /\ n - 1 \notin T /\ n \in Nat
    BY <1>1, <1>2
<1>4. PICK f : EntriesOf(f, log, at, n - 1)
    BY <1>3
<1> DEFINE g == [i \in 0..n |-> IF i = n THEN Restore(f[n - 1], log[n]) ELSE f[i]]
<1>5. EntriesOf(g, log, at, n)
    <2>1. ASSUME NEW i \in 0..n
          PROVE  g[i] = IF i = 0 THEN Fresh(log, at) ELSE Restore(g[i - 1], log[i])
        <3>1. CASE i = n
            BY <1>2, <1>3, <3>1
        <3>2. CASE i # n
            BY <1>2, <1>3, <1>4, <3>2 DEF EntriesOf
        <3> QED BY <3>1, <3>2
    <2> QED BY <2>1 DEF EntriesOf
<1> QED BY <1>5

LEMMA RestoredSteps ==
    ASSUME NEW log, NEW at, NEW len \in Nat, Len(log) = len
    PROVE  /\ Restored(log, at)[0] = Fresh(log, at)
           /\ \A n \in 1..len : Restored(log, at)[n] = Restore(Restored(log, at)[n - 1], log[n])
<1>1. Restored(log, at) = CHOOSE f : EntriesOf(f, log, at, len)
    BY DEF Restored, EntriesOf
<1>2. EntriesOf(Restored(log, at), log, at, len)
    BY <1>1, EntriesExist
<1> HIDE DEF Restored
<1>3. \A n \in 0..len :
        Restored(log, at)[n] = IF n = 0 THEN Fresh(log, at)
                               ELSE Restore(Restored(log, at)[n - 1], log[n])
    BY <1>2 DEF EntriesOf
<1> QED BY <1>3

\* What a report that is read again does: it is heard, and the last one settles its order.
LEMMA RecallsCases ==
    ASSUME NEW k, NEW r, r.ok \in BOOLEAN
    PROVE  /\ k.rv = NoMeeting => Recalls(k, r) = k
           /\ k.rv # NoMeeting /\ r.gen = k.rv.gen =>
                \/ Recalls(k, r) = Hears(k, r)
                \/ AllReached(Hears(k, r)) /\ Recalls(k, r) = Settles(Hears(k, r), r)
<1>1. \A restoring \in BOOLEAN : restoring /\ Recalls(k, r) = Reached(k, r, restoring) =>
        /\ k.rv = NoMeeting => Recalls(k, r) = k
        /\ k.rv # NoMeeting /\ r.gen = k.rv.gen =>
             \/ Recalls(k, r) = Hears(k, r)
             \/ AllReached(Hears(k, r)) /\ Recalls(k, r) = Settles(Hears(k, r), r)
    BY ReachedCases
<1>2. TRUE \in BOOLEAN /\ TRUE
    OBVIOUS
<1>3. Recalls(k, r) = Reached(k, r, TRUE)
    BY DEF Recalls
<1> QED BY <1>1, <1>2, <1>3, Zenon

\* What a rendezvous has of a peer after n reports.
HeardOf(rv, x, n, p) ==
    IF rv.reached[p] = NoReport THEN \A i \in 1..n : x[i].peer # p
    ELSE \E i \in 1..n : x[i] = rv.reached[p] /\ rv.reached[p].peer = p

\* k is the memory t after n reports about order g.
NoteKept(k, t, x, n, g) ==
    /\ k \in MemoryType
    /\ k.up = t.up /\ k.log = t.log /\ k.faultAt = t.faultAt /\ k.pause = t.pause
    /\ k.protect = t.protect /\ k.fence = t.fence /\ k.connected = t.connected
    /\ k.waiting = t.waiting /\ k.health = t.health
    /\ Len(k.controls) = Len(t.controls)
    /\ \A m \in 1..Len(t.controls) : m # g => k.controls[m] = t.controls[m]
    /\ \/ k.controls[g] = t.controls[g]
       \/ k.controls[g] = "complete" /\ \A p \in Peer : \E i \in DOMAIN x : x[i].peer = p
    /\ t.rv = NoMeeting => k.rv = NoMeeting
    /\ t.rv # NoMeeting =>
         /\ k.rv \in MeetingType /\ k.rv # NoMeeting /\ k.rv.gen = g
         /\ \A p \in Peer : HeardOf(k.rv, x, n, p)

\* One more report keeps what the reports before it left.
LEMMA NoteStep ==
    ASSUME NEW k, NEW t, NEW x \in Seq(ReportType), NEW n \in 1..Len(x), NEW g,
           g \in 1..Len(t.controls), x[n].gen = g, NoteKept(k, t, x, n - 1, g)
    PROVE  NoteKept(Recalls(k, x[n]), t, x, n, g)
<1> DEFINE r == x[n]
           h == Hears(k, r)
<1>1. r \in ReportType /\ r.ok \in BOOLEAN /\ r.peer \in Peer /\ r.gen = g /\ r # NoReport
    <2>1. r \in ReportType
        OBVIOUS
    <2> QED BY <2>1, ReportThere DEF ReportType
<1>2. DOMAIN x = 1..Len(x) /\ Len(x) \in Nat /\ n \in Nat /\ n > 0
    OBVIOUS
<1>3. r = x[n]
    OBVIOUS
<1> HIDE DEF r
<1>4. CASE t.rv = NoMeeting
    <2>1. k.rv = NoMeeting
        BY <1>4 DEF NoteKept
    <2>2. Recalls(k, r) = k
        BY <1>1, <2>1, RecallsCases
    <2> QED BY <1>3, <1>4, <2>2 DEF NoteKept
<1>5. CASE t.rv # NoMeeting
    <2>1. /\ k.rv \in MeetingType /\ k.rv # NoMeeting /\ k.rv.gen = g
          /\ \A p \in Peer : HeardOf(k.rv, x, n - 1, p) /\ k \in MemoryType
          /\ k.rv.reached \in [Peer -> ReportType \union {NoReport}]
        BY <1>5 DEF NoteKept, MeetingType
    <2>2. /\ h \in MemoryType /\ h.rv \in MeetingType /\ h.rv.gen = k.rv.gen
          /\ h.rv # NoMeeting /\ h.rv.reached = [k.rv.reached EXCEPT ![r.peer] = r]
          /\ h.up = k.up /\ h.log = k.log /\ h.faultAt = k.faultAt
          /\ h.controls = k.controls /\ h.pause = k.pause /\ h.protect = k.protect
          /\ h.fence = k.fence /\ h.connected = k.connected /\ h.waiting = k.waiting
          /\ h.health = k.health
        BY <1>1, <2>1, HearsFields
    <2> HIDE DEF h
    <2>3. ASSUME NEW p \in Peer PROVE HeardOf(h.rv, x, n, p)
        <3>1. CASE p = r.peer
            <4>1. h.rv.reached[p] = r /\ n \in 1..n
                BY <1>1, <1>2, <2>1, <2>2, <3>1
            <4> QED BY <1>1, <1>3, <3>1, <4>1 DEF HeardOf
        <3>2. CASE p # r.peer
            <4>1. h.rv.reached[p] = k.rv.reached[p] /\ HeardOf(k.rv, x, n - 1, p)
                BY <1>1, <2>1, <2>2, <3>2
            <4>2. CASE k.rv.reached[p] = NoReport
                <5>1. \A i \in 1..(n - 1) : x[i].peer # p
                    BY <4>1, <4>2 DEF HeardOf
                <5>2. \A i \in 1..n : i = n \/ i \in 1..(n - 1)
                    BY <1>2
                <5>3. \A i \in 1..n : x[i].peer # p
                    BY <1>3, <3>2, <5>1, <5>2
                <5> QED BY <4>1, <4>2, <5>3 DEF HeardOf
            <4>3. CASE k.rv.reached[p] # NoReport
                <5>1. PICK i \in 1..(n - 1) : x[i] = k.rv.reached[p] /\ k.rv.reached[p].peer = p
                    BY <4>1, <4>3 DEF HeardOf
                <5>2. i \in 1..n
                    BY <1>2, <5>1
                <5> QED BY <4>1, <4>3, <5>1, <5>2 DEF HeardOf
            <4> QED BY <4>2, <4>3
        <3> QED BY <3>1, <3>2
    <2>4. NoteKept(h, t, x, n, g)
        BY <1>5, <2>1, <2>2, <2>3 DEF NoteKept
    <2>5. \/ Recalls(k, r) = h
          \/ AllReached(h) /\ Recalls(k, r) = Settles(h, r)
        BY <1>1, <2>1, RecallsCases DEF h
    <2>6. CASE Recalls(k, r) = h
        BY <1>3, <2>4, <2>6
    <2>7. CASE AllReached(h) /\ Recalls(k, r) = Settles(h, r)
        <3> DEFINE s == Settles(h, r)
        <3>1. Len(h.controls) = Len(t.controls) /\ r.gen \in 1..Len(h.controls)
            BY <1>1, <2>4 DEF NoteKept
        <3>2. /\ s \in MemoryType /\ Len(s.controls) = Len(h.controls)
              /\ \A m \in 1..Len(h.controls) : m # r.gen => s.controls[m] = h.controls[m]
              /\ s.controls[r.gen] # h.controls[r.gen] => s.controls[r.gen] = "complete"
              /\ s.up = h.up /\ s.log = h.log /\ s.faultAt = h.faultAt /\ s.rv = h.rv
              /\ s.pause = h.pause /\ s.protect = h.protect
              /\ s.fence = h.fence /\ s.connected = h.connected /\ s.waiting = h.waiting
              /\ s.health = h.health
            <4>1. h \in MemoryType
                BY <2>2
            <4> QED BY <3>1, <4>1, SettlesFields
        <3> HIDE DEF s
        <3>3. ASSUME NEW p \in Peer PROVE \E i \in DOMAIN x : x[i].peer = p
            <4>1. h.rv.reached[p] # NoReport
                BY <2>7 DEF AllReached
            <4>2. PICK i \in 1..n : x[i] = h.rv.reached[p] /\ h.rv.reached[p].peer = p
                BY <2>3, <4>1 DEF HeardOf
            <4>3. i \in DOMAIN x
                BY <1>2, <4>2
            <4> QED BY <4>2, <4>3
        <3>4. NoteKept(s, t, x, n, g)
            BY <1>1, <2>2, <2>4, <3>1, <3>2, <3>3 DEF NoteKept
        <3> QED BY <1>3, <2>7, <3>4 DEF s
    <2> QED BY <2>5, <2>6, <2>7
<1> QED BY <1>4, <1>5

\* The memory after all reports about an order.
LEMMA NotedKept ==
    ASSUME NEW t \in MemoryType, NEW x \in Seq(ReportType), NEW g,
           g \in 1..Len(t.controls), \A i \in DOMAIN x : x[i].gen = g,
           t.rv # NoMeeting => /\ t.rv \in MeetingType /\ t.rv.gen = g
                               /\ \A p \in Peer : t.rv.reached[p] = NoReport
    PROVE  NoteKept(Noted(t, x)[Len(x)], t, x, Len(x), g)
<1> DEFINE len == Len(x)
           N == Noted(t, x)
           T == {n \in 0..len : ~NoteKept(N[n], t, x, n, g)}
<1>1. len \in Nat /\ DOMAIN x = 1..len
    OBVIOUS
<1>2. N[0] = t /\ \A n \in 1..len : N[n] = Recalls(N[n - 1], x[n])
    <2>1. Len(x) \in Nat
        OBVIOUS
    <2> QED BY <2>1, NotedSteps
<1> HIDE DEF N, len
<1>3. T = {}
    <2> SUFFICES ASSUME T # {} PROVE FALSE
        OBVIOUS
    <2>1. T \subseteq Nat
        BY <1>1
    <2>2. PICK n \in T : \A m \in T : n <= m
        BY <2>1, Least
    <2>3. CASE n = 0
        <3>1. \A p \in Peer : t.rv # NoMeeting => HeardOf(t.rv, x, 0, p)
            BY DEF HeardOf
        <3>2. NoteKept(t, t, x, 0, g)
            BY <3>1 DEF NoteKept
        <3> QED BY <1>2, <2>2, <2>3, <3>2
    <2>4. CASE n # 0
        <3>1. n \in 1..len /\ n - 1 \in 0..len /\ n - 1 \notin T
            BY <1>1, <2>2, <2>4
        <3>2. NoteKept(N[n - 1], t, x, n - 1, g)
            BY <3>1
        <3>3. x[n].gen = g /\ N[n] = Recalls(N[n - 1], x[n]) /\ n \in 1..Len(x)
            BY <1>1, <1>2, <3>1 DEF len
        <3>4. NoteKept(N[n], t, x, n, g)
            BY <3>2, <3>3, NoteStep
        <3> QED BY <2>2, <3>4
    <2> QED BY <2>3, <2>4
<1>4. len \in 0..len
    BY <1>1
<1> QED BY <1>3, <1>4 DEF N, len

\* The status of an order after a restart.
LEMMA StatusFacts ==
    ASSUME NEW order, \A a \in order.acks : a.ok \in BOOLEAN
    PROVE  /\ RestoredStatus(order) \in Statuses
           /\ RestoredStatus(order) # "faulted" => \A a \in order.acks : a.ok
           /\ RestoredStatus(order) = "complete" => Acked(order) = Peer
<1>1. CASE \E a \in order.acks : ~a.ok
    <2>1. RestoredStatus(order) = "faulted"
        BY <1>1 DEF RestoredStatus
    <2> QED BY <2>1 DEF Statuses
<1>2. CASE (\A a \in order.acks : a.ok) /\ Acked(order) = Peer
    <2>1. RestoredStatus(order) = "complete"
        BY <1>2 DEF RestoredStatus
    <2> QED BY <1>2, <2>1 DEF Statuses
<1>3. CASE (\A a \in order.acks : a.ok) /\ Acked(order) # Peer
    <2>1. RestoredStatus(order) = "pending"
        BY <1>3 DEF RestoredStatus
    <2> QED BY <1>3, <2>1 DEF Statuses
<1> QED BY <1>1, <1>2, <1>3

\* The tracker of an order that is read again.
Tracked(h, order) ==
    LET gen == Len(h.controls) + 1
    IN [TrackClock(h, order, gen, 0) EXCEPT !.controls[gen] = RestoredStatus(order)]

\* An entry is tracked; its answers give its status.
LEMMA TrackedFields ==
    ASSUME NEW h \in MemoryType, NEW order \in OrderType
    PROVE  LET t == Tracked(h, order)
               gen == Len(h.controls) + 1
           IN /\ t \in MemoryType /\ gen \in Nat /\ Len(t.controls) = gen
              /\ t.controls[gen] = RestoredStatus(order)
              /\ \A g \in 1..Len(h.controls) : t.controls[g] = h.controls[g]
              /\ t.rv = (IF order.type = "clock.rendezvous" THEN Meeting(gen, 0) ELSE NoMeeting)
              /\ t.up = h.up /\ t.log = h.log /\ t.faultAt = h.faultAt /\ t.pause = h.pause
              /\ t.protect = h.protect /\ t.fence = h.fence
              /\ t.connected = h.connected /\ t.waiting = h.waiting /\ t.health = h.health
<1> DEFINE gen == Len(h.controls) + 1
           status == RestoredStatus(order)
           more == Append(h.controls, "pending")
           controls == [more EXCEPT ![gen] = status]
           rv == IF order.type = "clock.rendezvous" THEN Meeting(gen, 0) ELSE NoMeeting
           one == [h EXCEPT !.controls = more, !.rv = rv]
           t == [one EXCEPT !.controls = controls]
<1>1. h.controls \in Seq(Statuses) /\ Len(h.controls) \in Nat /\ gen \in Nat
    BY MemoryFields
<1>2. status \in Statuses
    <2>1. \A a \in order.acks : a.ok \in BOOLEAN
        BY OrderFields DEF AckType
    <2> QED BY <2>1, StatusFacts
<1> HIDE DEF status
<1>3. /\ more \in Seq(Statuses) /\ Len(more) = gen
      /\ \A g \in 1..Len(h.controls) : more[g] = h.controls[g]
    BY <1>1, AppendFacts DEF Statuses
<1> HIDE DEF more
<1>4. /\ controls \in Seq(Statuses) /\ Len(controls) = gen /\ controls[gen] = status
      /\ \A g \in 1..Len(h.controls) : controls[g] = h.controls[g]
    BY <1>1, <1>2, <1>3
<1>5. rv \in MeetingType \union {NoMeeting}
    BY <1>1, MeetingNew
<1> HIDE DEF rv
<1>6. /\ one \in MemoryType /\ one.controls = more /\ one.rv = rv
      /\ one.up = h.up /\ one.log = h.log /\ one.faultAt = h.faultAt /\ one.pause = h.pause
      /\ one.protect = h.protect /\ one.fence = h.fence
      /\ one.connected = h.connected /\ one.waiting = h.waiting /\ one.health = h.health
    BY <1>3, <1>5 DEF MemoryType
<1>7. one = TrackClock(h, order, gen, 0)
    BY DEF TrackClock, more, rv
<1> HIDE DEF one
<1>8. Tracked(h, order) = t
    BY <1>6, <1>7 DEF Tracked, status
<1> HIDE DEF controls
<1>9. /\ t \in MemoryType /\ t.controls = controls /\ t.rv = one.rv
      /\ t.up = one.up /\ t.log = one.log /\ t.faultAt = one.faultAt /\ t.pause = one.pause
      /\ t.protect = one.protect /\ t.fence = one.fence
      /\ t.connected = one.connected /\ t.waiting = one.waiting /\ t.health = one.health
    BY <1>4, <1>6 DEF MemoryType
<1> HIDE DEF t
<1> QED BY <1>1, <1>4, <1>6, <1>8, <1>9 DEF gen, status, rv

\* A fresh memory.
LEMMA FreshFields ==
    ASSUME NEW log \in Seq(OrderType), NEW at \in Nat
    PROVE  LET h == Fresh(log, at)
           IN /\ h \in MemoryType /\ h.up /\ h.log = log /\ h.faultAt = at
              /\ h.rv = NoMeeting /\ h.controls = <<>> /\ h.pause.gen = 0 /\ ~h.pause.on
              /\ h.fence = NoFence /\ h.connected = {Host} /\ h.waiting = {}
              /\ h.health = [p \in Peer |-> NoSample]
<1>1. /\ <<>> \in Seq(Statuses) /\ {Host} \subseteq Peer
      /\ [p \in Peer |-> NoSample] \in [Peer -> SampleType]
    BY ClockAssumption DEF NoSample, SampleType
<1>2. [gen |-> 0, on |-> FALSE] \in PauseType /\ [gen |-> 0, mode |-> "none"] \in ProtectType
    BY DEF PauseType, ProtectType
<1>3. Fresh(log, at) \in MemoryType
    BY <1>1, <1>2 DEF Fresh, MemoryType
<1> QED BY <1>3 DEF Fresh

\* The memory after n entries of the journal.
RestoreKept(h, log, at, n, gm) ==
    /\ h \in MemoryType /\ h.up /\ h.log = log /\ h.faultAt = at
    /\ h.pause.gen = 0 /\ ~h.pause.on /\ h.fence = NoFence
    /\ h.connected = {Host} /\ h.waiting = {} /\ Len(h.controls) = n
    /\ \A g \in 1..n : /\ h.controls[g] = "pending" => \A a \in log[g].acks : a.ok
                       /\ h.controls[g] = "complete" => \A p \in Peer : g <= gm[p].gen
    /\ n = 0 => h.rv = NoMeeting
    /\ n > 0 /\ log[n].type = "clock.set" => h.rv = NoMeeting
    /\ n > 0 /\ log[n].type = "clock.rendezvous" =>
         /\ h.rv # NoMeeting /\ h.rv.gen = n
         /\ \A p \in Peer : Gathered(h.rv, log[n].reports, p)

\* One more entry of the journal keeps what the entries before it left.
LEMMA RestoreStep ==
    ASSUME NEW log, NEW gm, NEW c, Core(log, gm, c), NEW at, NEW n \in 1..Len(log), NEW h,
           RestoreKept(h, log, at, n - 1, gm)
    PROVE  RestoreKept(Restore(h, log[n]), log, at, n, gm)
<1> DEFINE order == log[n]
           x == order.reports
           t == Tracked(h, order)
           k == Restore(h, order)
<1>1. /\ log \in Seq(OrderType) /\ Len(log) \in Nat /\ order \in OrderType
      /\ SoundOrder(order, n, gm) /\ n \in Nat /\ n > 0
    BY DEF Core
<1>2. /\ order.type \in OrderKinds /\ order.acks \subseteq AckType /\ x \in Seq(ReportType)
      /\ Len(x) \in Nat /\ DOMAIN x = 1..Len(x)
    <2>1. order.type \in OrderKinds /\ order.acks \subseteq AckType /\ x \in Seq(ReportType)
        BY <1>1, OrderFields
    <2> QED BY <2>1
<1>3. \A i \in DOMAIN x : x[i].gen = n
    BY <1>1 DEF SoundOrder
<1>4. order = log[n]
    OBVIOUS
<1> HIDE DEF order
<1>5. h \in MemoryType /\ Len(h.controls) + 1 = n
    BY <1>1 DEF RestoreKept
<1>6. /\ t \in MemoryType /\ Len(t.controls) = n
      /\ t.controls[n] = RestoredStatus(order)
      /\ \A g \in 1..(n - 1) : t.controls[g] = h.controls[g]
      /\ t.rv = (IF order.type = "clock.rendezvous" THEN Meeting(n, 0) ELSE NoMeeting)
      /\ t.up = h.up /\ t.log = h.log /\ t.faultAt = h.faultAt /\ t.pause = h.pause
      /\ t.fence = h.fence /\ t.connected = h.connected /\ t.waiting = h.waiting
    <2>1. Len(h.controls) = n - 1
        BY <1>1 DEF RestoreKept
    <2> DEFINE gen == Len(h.controls) + 1
    <2>2. gen = n
        BY <1>5
    <2>3. /\ t \in MemoryType /\ Len(t.controls) = gen
          /\ t.controls[gen] = RestoredStatus(order)
          /\ \A g \in 1..Len(h.controls) : t.controls[g] = h.controls[g]
          /\ t.rv = (IF order.type = "clock.rendezvous" THEN Meeting(gen, 0) ELSE NoMeeting)
          /\ t.up = h.up /\ t.log = h.log /\ t.faultAt = h.faultAt /\ t.pause = h.pause
          /\ t.fence = h.fence /\ t.connected = h.connected /\ t.waiting = h.waiting
        BY <1>1, <1>5, TrackedFields
    <2> HIDE DEF t, gen
    <2> QED BY <2>1, <2>2, <2>3
<1>7. k = Noted(t, x)[Len(x)]
    BY DEF Restore, Tracked
<1> HIDE DEF t, k, x
<1>8. t.rv # NoMeeting => /\ t.rv \in MeetingType /\ t.rv.gen = n
                          /\ \A p \in Peer : t.rv.reached[p] = NoReport
    <2>1. /\ Meeting(n, 0) \in MeetingType /\ Meeting(n, 0).gen = n
          /\ \A p \in Peer : Meeting(n, 0).reached[p] = NoReport
        BY <1>1, MeetingNew
    <2> QED BY <1>6, <2>1
<1>9. NoteKept(k, t, x, Len(x), n)
    <2>1. n \in 1..Len(t.controls)
        BY <1>1, <1>6
    <2> QED BY <1>2, <1>3, <1>6, <1>7, <1>8, <2>1, NotedKept
<1>10. \A a \in order.acks : a.ok \in BOOLEAN
    BY <1>2 DEF AckType
<1>11. ASSUME NEW g \in 1..n
       PROVE  /\ k.controls[g] = "pending" => \A a \in log[g].acks : a.ok
              /\ k.controls[g] = "complete" => \A p \in Peer : g <= gm[p].gen
    <2>1. CASE g # n
        <3>1. g \in 1..(n - 1)
            BY <1>1, <1>11, <2>1
        <3>2. k.controls[g] = h.controls[g]
            BY <1>6, <1>9, <2>1, <3>1 DEF NoteKept
        <3> QED BY <3>1, <3>2 DEF RestoreKept
    <2>2. CASE g = n
        <3>1. \/ k.controls[n] = RestoredStatus(order)
              \/ /\ k.controls[n] = "complete"
                 /\ \A p \in Peer : \E i \in DOMAIN x : x[i].peer = p
            BY <1>6, <1>9 DEF NoteKept
        <3>2. CASE k.controls[n] = RestoredStatus(order)
            <4>1. k.controls[n] # "faulted" => \A a \in order.acks : a.ok
                BY <1>10, <3>2, StatusFacts
            <4>2. ASSUME k.controls[n] = "complete", NEW p \in Peer PROVE n <= gm[p].gen
                <5>1. Acked(order) = Peer /\ \A a \in order.acks : a.ok
                    BY <1>10, <3>2, <4>2, StatusFacts
                <5>2. PICK a \in order.acks : a.peer = p
                    BY <5>1 DEF Acked
                <5> QED BY <1>1, <5>1, <5>2 DEF SoundOrder
            <4> QED BY <1>4, <2>2, <4>1, <4>2
        <3>3. CASE /\ k.controls[n] = "complete"
                   /\ \A p \in Peer : \E i \in DOMAIN x : x[i].peer = p
            <4>1. ASSUME NEW p \in Peer PROVE n <= gm[p].gen
                <5>1. PICK i \in DOMAIN x : x[i].peer = p
                    BY <3>3
                <5>2. x[i].gen = n /\ Told(x[i], gm)
                    BY <1>1, <1>3, <5>1 DEF SoundOrder, x
                <5> QED BY <5>1, <5>2 DEF Told
            <4> QED BY <2>2, <3>3, <4>1
        <3> QED BY <3>1, <3>2, <3>3
    <2> QED BY <2>1, <2>2
<1>12. order.type = "clock.set" => k.rv = NoMeeting
    BY <1>6, <1>9 DEF NoteKept
<1>13. ASSUME order.type = "clock.rendezvous"
       PROVE  /\ k.rv # NoMeeting /\ k.rv.gen = n
              /\ \A p \in Peer : Gathered(k.rv, x, p)
    <2>1. t.rv # NoMeeting
        BY <1>1, <1>6, <1>13, MeetingNew
    <2>2. k.rv # NoMeeting /\ k.rv.gen = n /\ \A p \in Peer : HeardOf(k.rv, x, Len(x), p)
        BY <1>9, <2>1 DEF NoteKept
    <2> QED BY <1>2, <2>2 DEF HeardOf, Gathered
<1>14. /\ k \in MemoryType /\ k.up /\ k.log = log /\ k.faultAt = at
       /\ k.pause.gen = 0 /\ ~k.pause.on /\ k.fence = NoFence
       /\ k.connected = {Host} /\ k.waiting = {} /\ Len(k.controls) = n
    BY <1>6, <1>9 DEF NoteKept, RestoreKept
<1>15. RestoreKept(k, log, at, n, gm)
    BY <1>1, <1>4, <1>11, <1>12, <1>13, <1>14 DEF RestoreKept, x
<1> QED BY <1>4, <1>15 DEF k

\* Hence the whole journal does: there is no first entry after which it would fail.
LEMMA RestoredKept ==
    ASSUME NEW log, NEW gm, NEW c, Core(log, gm, c), NEW at \in Nat
    PROVE  RestoreKept(Restored(log, at)[Len(log)], log, at, Len(log), gm)
<1> DEFINE len == Len(log)
           R == Restored(log, at)
           T == {n \in 0..len : ~RestoreKept(R[n], log, at, n, gm)}
<1>1. log \in Seq(OrderType) /\ len \in Nat
    BY DEF Core
<1>2. R[0] = Fresh(log, at) /\ \A n \in 1..len : R[n] = Restore(R[n - 1], log[n])
    BY <1>1, RestoredSteps
<1> HIDE DEF R
<1>3. T = {}
    <2> SUFFICES ASSUME T # {} PROVE FALSE
        OBVIOUS
    <2>1. T \subseteq Nat
        BY <1>1
    <2>2. PICK n \in T : \A m \in T : n <= m
        BY <2>1, Least
    <2>3. CASE n = 0
        <3>1. RestoreKept(Fresh(log, at), log, at, 0, gm)
            <4> DEFINE h == Fresh(log, at)
            <4>1. /\ h \in MemoryType /\ h.up /\ h.log = log /\ h.faultAt = at
                  /\ h.rv = NoMeeting /\ h.controls = <<>> /\ h.pause.gen = 0 /\ ~h.pause.on
                  /\ h.fence = NoFence /\ h.connected = {Host} /\ h.waiting = {}
                BY <1>1, FreshFields
            <4> HIDE DEF h
            <4>2. Len(h.controls) = 0
                BY <4>1
            <4>3. RestoreKept(h, log, at, 0, gm)
                BY <4>1, <4>2 DEF RestoreKept
            <4> QED BY <4>3 DEF h
        <3> QED BY <1>2, <2>2, <2>3, <3>1
    <2>4. CASE n # 0
        <3>1. n \in 1..len /\ n - 1 \in 0..len /\ n - 1 \notin T
            BY <1>1, <2>2, <2>4
        <3>2. RestoreKept(R[n - 1], log, at, n - 1, gm)
            BY <3>1
        <3>3. RestoreKept(Restore(R[n - 1], log[n]), log, at, n, gm)
            BY <3>1, <3>2, RestoreStep
        <3>4. RestoreKept(R[n], log, at, n, gm)
            BY <1>2, <3>1, <3>3
        <3> QED BY <2>2, <3>4
    <2> QED BY <2>3, <2>4
<1>4. len \in 0..len
    BY <1>1
<1> QED BY <1>3, <1>4 DEF R

\* A journal that is read to its end leaves a good memory.
LEMMA RestoredGood ==
    ASSUME NEW log, NEW gm, NEW c, c # 0, Core(log, gm, c), NEW at \in Nat, NEW h,
           RestoreKept(h, log, at, Len(log), gm), \A p \in Peer : gm[p].gen \in Nat
    PROVE  Good(h, gm, c)
<1>1. /\ log \in Seq(OrderType) /\ Len(log) \in Nat /\ h \in MemoryType /\ h.log = log
      /\ h.up /\ h.waiting = {} /\ h.pause.gen = 0 /\ h.fence = NoFence
      /\ Len(h.controls) = Len(log)
    BY DEF Core, RestoreKept
<1>2. ASSUME Len(log) > 0
      PROVE  /\ log # <<>> /\ log[Len(log)].type \in OrderKinds
             /\ SoundOrder(log[Len(log)], Len(log), gm)
    <2>1. Len(log) \in 1..Len(log)
        BY <1>1, <1>2
    <2>2. log[Len(log)] \in OrderType
        BY <1>1, <2>1
    <2> QED BY <1>1, <1>2, <2>1, <2>2, OrderFields DEF Core
<1>3. Tracking(h)
    BY <1>1 DEF RestoreKept, Tracking
<1>4. PauseKept(h, gm) /\ AwayKept(h) /\ FenceKept(h)
    BY <1>1 DEF PauseKept, AwayKept, FenceKept
<1>5. MeetingKept(h, c)
    <2> SUFFICES ASSUME h.rv # NoMeeting PROVE MeetingKept(h, c)
        BY DEF MeetingKept
    <2>1. Len(log) > 0
        BY <1>1 DEF RestoreKept
    <2>2. log[Len(log)].type = "clock.rendezvous"
        BY <1>2, <2>1 DEF RestoreKept, OrderKinds
    <2>3. h.rv.gen = Len(log) /\ \A p \in Peer : Gathered(h.rv, log[Len(log)].reports, p)
        BY <2>1, <2>2 DEF RestoreKept
    <2> QED BY <1>1, <2>1, <2>2, <2>3 DEF MeetingKept, Sampled
<1>6. SpeedKept(h)
    <2> SUFFICES ASSUME h.rv = NoMeeting PROVE Effective(h) <= Requested(h)
        BY DEF SpeedKept
    <2>1. CASE log = <<>>
        <3>1. Effective(h) = 0 /\ Requested(h) = 0
            BY <1>1, <2>1, LatestFields
        <3> QED BY <3>1
    <2>2. CASE log # <<>>
        <3>1. Len(log) > 0
            BY <1>1, <2>2
        <3>2. log[Len(log)].type = "clock.set"
            BY <1>2, <3>1 DEF RestoreKept, OrderKinds
        <3>3. Requested(h) = log[Len(log)].requested /\ Effective(h) = log[Len(log)].effective
            BY <1>1, <2>2, LatestFields
        <3> QED BY <1>2, <3>1, <3>2, <3>3 DEF SoundOrder
    <2> QED BY <2>1, <2>2
<1> QED BY <1>1, <1>3, <1>4, <1>5, <1>6 DEF Good, Base

\* finalize_restore.
LEMMA FinalizeRestoreGood ==
    ASSUME NEW h, NEW gm, NEW c, Good(h, gm, c),
           \A g \in 1..Len(h.log) : h.controls[g] = "complete" => \A p \in Peer : g <= gm[p].gen
    PROVE  After(h, FinalizeRestore(h), gm, c)
<1> DEFINE done == {g \in 1..Gen(h) : h.controls[g] = "complete"}
           on == h.log[Newest(done)].effective = 0
           acked == IF done = {} THEN h ELSE SetPauseAcknowledged(h, on, Newest(done))
           stopped == IF Gen(h) > 0 /\ h.controls[Gen(h)] = "faulted"
                        THEN EmergencyPause(acked) ELSE acked
           k == FinalizeRestore(h)
<1>1. /\ h.log \in Seq(OrderType) /\ Len(h.log) \in Nat /\ Gen(h) = Len(h.log)
      /\ Base(h, gm, c) /\ h.up
    BY DEF Good, Base, Core, Gen
<1>2. k = IF stopped.rv # NoMeeting /\ AllReached(stopped) THEN Complete(stopped) ELSE stopped
    BY Zenon DEF FinalizeRestore
<1>3. on \in BOOLEAN
    OBVIOUS
<1> HIDE DEF on, k
<1>4. Good(acked, gm, c) /\ acked.log = h.log
    <2>1. CASE done = {}
        BY <2>1
    <2>2. CASE done # {}
        <3>1. Newest(done) \in done
            BY <1>1, <2>2, NewestThere
        <3> DEFINE g == Newest(done)
                   a == SetPauseAcknowledged(h, on, g)
        <3>0. g \in 1..Len(h.log) /\ h.controls[g] = "complete"
            BY <1>1, <3>1
        <3> HIDE DEF g, done
        <3>2. g \in Nat /\ g <= Len(h.log) /\ \A p \in Peer : g <= gm[p].gen
            BY <1>1, <3>0
        <3>3. /\ Base(a, gm, c) /\ a.up = h.up /\ a.log = h.log /\ a.rv = h.rv
              /\ a.waiting = h.waiting /\ a.health = h.health
            BY <1>1, <1>3, <3>2, SetPauseAcknowledgedGood
        <3>4. acked = a
            BY <2>2 DEF g
        <3> HIDE DEF a, acked
        <3>5. Good(a, gm, c)
            BY <1>1, <3>3 DEF Good, MeetingKept, Sampled, SpeedKept, Requested, Effective, Latest
        <3> QED BY <3>3, <3>4, <3>5
    <2> QED BY <2>1, <2>2
<1> HIDE DEF acked
<1>5. After(h, stopped, gm, c)
    <2>1. CASE Gen(h) > 0 /\ h.controls[Gen(h)] = "faulted"
        <3>1. After(acked, EmergencyPause(acked), gm, c)
            BY <1>4, EmergencyPauseGood DEF Good
        <3> QED BY <1>4, <2>1, <3>1 DEF After
    <2>2. CASE ~(Gen(h) > 0 /\ h.controls[Gen(h)] = "faulted")
        BY <1>1, <1>4, <2>2, ExtendsSame DEF After
    <2> QED BY <2>1, <2>2
<1> HIDE DEF stopped
<1>6. CASE stopped.rv # NoMeeting /\ AllReached(stopped)
    <2>1. After(stopped, Complete(stopped), gm, c)
        BY <1>5, <1>6, CompleteGood DEF After
    <2>2. Extends(h.log, stopped.log) /\ stopped.log \in Seq(OrderType)
        BY <1>5 DEF After, Good, Base, Core
    <2>3. After(h, Complete(stopped), gm, c)
        BY <1>1, <2>1, <2>2, AfterTwice
    <2> QED BY <1>2, <1>6, <2>3 DEF k
<1>7. CASE ~(stopped.rv # NoMeeting /\ AllReached(stopped))
    BY <1>2, <1>5, <1>7 DEF k
<1> QED BY <1>6, <1>7

\* load_audit: a restart ends with a good memory, whatever the crash kept.
LEMMA LoadAuditGood ==
    ASSUME NEW log, NEW gm, NEW c, c # 0, Core(log, gm, c), NEW at \in Nat,
           \A p \in Peer : gm[p].gen \in Nat
    PROVE  Good(LoadAudit(log, at), gm, c) /\ Extends(log, LoadAudit(log, at).log)
<1> DEFINE h == Restored(log, at)[Len(log)]
<1>1. RestoreKept(h, log, at, Len(log), gm)
    BY RestoredKept
<1>2. Good(h, gm, c) /\ h.log = log
    <2> HIDE DEF h
    <2> QED BY <1>1, RestoredGood DEF RestoreKept
<1>3. LoadAudit(log, at) = FinalizeRestore(h)
    BY DEF LoadAudit
<1> HIDE DEF h
<1>4. \A g \in 1..Len(h.log) : h.controls[g] = "complete" => \A p \in Peer : g <= gm[p].gen
    BY <1>1, <1>2 DEF RestoreKept
<1> QED BY <1>2, <1>3, <1>4, FinalizeRestoreGood DEF After

----------------------------------------------------------------------------
(* The games and what they have sent *)
MessageType == AckType \union ReportType
IsReport(m) == m.type = "clock_reached"

\* Nothing of p is journalled among the reports of an order.
Unheard(p, log, g) == \A k \in DOMAIN log[g].reports : log[g].reports[k].peer # p

\* What p has sent and the host not read: p has applied what it acknowledges, and
\* has reported for an order once at most.
PostedBy(p, x, log, gm) ==
    /\ x \in Seq(MessageType)
    /\ \A i \in DOMAIN x :
         /\ x[i].peer = p /\ x[i].gen \in 1..Len(log)
         /\ ~IsReport(x[i]) /\ x[i].ok => x[i].gen <= gm[p].gen
         /\ IsReport(x[i]) =>
              /\ Told(x[i], gm) /\ Unheard(p, log, x[i].gen)
              /\ \A j \in DOMAIN x : IsReport(x[j]) /\ x[j].gen = x[i].gen => j = i

\* A game has applied only what it has read.
GameKept(g, log) == g.gen <= g.read /\ g.read <= Len(log) /\ (g.meets => g.gen > 0)

\* The host runs, or has crashed and left its journal.
HostKept ==
    \/ Good(host, game, crashes)
    \/ /\ host = Down(host.log, host.faultAt) /\ host.faultAt \in Nat
       /\ Core(host.log, game, crashes) /\ crashes # 0

\* The inductive invariant.
ClockInv ==
    /\ game \in [Peer -> GameType] /\ DOMAIN out = Peer
    /\ spent \in 0..Budget /\ crashes \in 0..MaxCrash
    /\ \A p \in Peer : GameKept(game[p], host.log) /\ PostedBy(p, out[p], host.log, game)
    /\ HostKept

\* Messages by their types.
LEMMA MessageKinds ==
    ASSUME NEW m \in MessageType
    PROVE  /\ m.type = "ack" <=> m \in AckType
           /\ IsReport(m) <=> m \in ReportType
           /\ IsReport(m) \/ m.type = "ack"
           /\ m.peer \in Peer /\ m.gen \in Nat /\ m.ok \in BOOLEAN
BY DEF MessageType, AckType, ReportType, IsReport

\* Both kinds of hosts.
LEMMA HostFacts ==
    ASSUME ClockInv
    PROVE  /\ Core(host.log, game, crashes) /\ host.log \in Seq(OrderType)
           /\ Len(host.log) \in Nat /\ host.faultAt \in Nat
           /\ host.up => Good(host, game, crashes)
           /\ ~host.up => crashes # 0
           /\ \A p \in Peer : game[p].gen \in Nat
<1>1. \A p \in Peer : game[p].gen \in Nat
    BY DEF ClockInv, GameType
<1>2. CASE Good(host, game, crashes)
    BY <1>1, <1>2, MemoryFields DEF Good, Base, Core
<1>3. CASE ~Good(host, game, crashes)
    <2>1. /\ host = Down(host.log, host.faultAt) /\ host.faultAt \in Nat
          /\ Core(host.log, game, crashes) /\ crashes # 0
        BY <1>3 DEF ClockInv, HostKept
    <2>2. ~Down(host.log, host.faultAt).up
        <3>1. host.log \in Seq(OrderType)
            BY <2>1 DEF Core
        <3> DEFINE f == Fresh(host.log, host.faultAt)
        <3>2. f \in MemoryType
            BY <2>1, <3>1, FreshFields
        <3>3. Down(host.log, host.faultAt) = [f EXCEPT !.up = FALSE, !.connected = {}]
            BY DEF Down
        <3> HIDE DEF f
        <3> QED BY <3>2, <3>3 DEF MemoryType
    <2>3. host.log \in Seq(OrderType) /\ Len(host.log) \in Nat
        BY <2>1 DEF Core
    <2> QED BY <1>1, <2>1, <2>2, <2>3
<1> QED BY <1>2, <1>3

\* What was sent stays as good when the journal goes on.
LEMMA PostedLonger ==
    ASSUME NEW p, NEW x, NEW log, NEW more, NEW gm, PostedBy(p, x, log, gm),
           Len(log) \in Nat, Len(more) \in Nat, Extends(log, more)
    PROVE  PostedBy(p, x, more, gm)
<1>1. ASSUME NEW i \in DOMAIN x
      PROVE  x[i].gen \in 1..Len(more) /\ (IsReport(x[i]) => Unheard(p, more, x[i].gen))
    <2>1. x[i].gen \in 1..Len(log)
        BY DEF PostedBy
    <2>2. more[x[i].gen] = log[x[i].gen] /\ Len(log) <= Len(more)
        BY <2>1 DEF Extends
    <2>3. IsReport(x[i]) => Unheard(p, log, x[i].gen)
        BY DEF PostedBy
    <2> QED BY <2>1, <2>2, <2>3 DEF Unheard
<1> QED BY <1>1 DEF PostedBy

\* A game that goes on.
Forward(gm, after) ==
    \A p \in Peer :
        /\ gm[p].gen \in Nat /\ after[p].gen \in Nat
        /\ \/ gm[p].gen < after[p].gen
           \/ gm[p].gen = after[p].gen /\ (after[p].meets => gm[p].meets)

\* What is true of the games stays true while they go forward.
LEMMA ToldForward ==
    ASSUME NEW gm, NEW after, Forward(gm, after), NEW r, r.peer \in Peer, r.gen \in Nat,
           Told(r, gm)
    PROVE  Told(r, after)
BY DEF Forward, Told

LEMMA CoreForward ==
    ASSUME NEW gm, NEW after, Forward(gm, after), NEW log, NEW c, Core(log, gm, c)
    PROVE  Core(log, after, c)
<1>1. log \in Seq(OrderType) /\ Len(log) \in Nat
    BY DEF Core
<1>2. ASSUME NEW g \in 1..Len(log) PROVE SoundOrder(log[g], g, after)
    <2>1. SoundOrder(log[g], g, gm) /\ log[g] \in OrderType
        BY <1>1 DEF Core
    <2>2. log[g].acks \subseteq AckType /\ log[g].reports \in Seq(ReportType)
        BY <2>1, OrderFields
    <2>3. ASSUME NEW a \in log[g].acks, a.ok PROVE g <= after[a.peer].gen
        <3>1. g <= gm[a.peer].gen /\ a.peer \in Peer
            BY <2>1, <2>2, <2>3 DEF SoundOrder, AckType
        <3> QED BY <3>1 DEF Forward
    <2>4. ASSUME NEW i \in DOMAIN log[g].reports PROVE Told(log[g].reports[i], after)
        <3>1. log[g].reports[i] \in ReportType /\ Told(log[g].reports[i], gm)
            BY <2>1, <2>2 DEF SoundOrder
        <3> QED BY <3>1, ToldForward DEF ReportType
    <2> QED BY <2>1, <2>3, <2>4 DEF SoundOrder
<1> QED BY <1>1, <1>2 DEF Core

LEMMA GoodForward ==
    ASSUME NEW gm, NEW after, Forward(gm, after), NEW h, NEW c, Good(h, gm, c)
    PROVE  Good(h, after, c)
<1>1. Core(h.log, after, c)
    BY CoreForward DEF Good, Base
<1>2. PauseKept(h, after)
    <2>1. h.pause.gen \in Nat
        BY MemoryFields DEF Good, Base, PauseType
    <2> QED BY <2>1 DEF Good, Base, PauseKept, Forward
<1> QED BY <1>1, <1>2 DEF Good, Base

LEMMA PostedForward ==
    ASSUME NEW gm, NEW after, Forward(gm, after), NEW p \in Peer, NEW x, NEW log,
           PostedBy(p, x, log, gm)
    PROVE  PostedBy(p, x, log, after)
<1>1. ASSUME NEW i \in DOMAIN x
      PROVE  /\ ~IsReport(x[i]) /\ x[i].ok => x[i].gen <= after[p].gen
             /\ IsReport(x[i]) => Told(x[i], after)
    <2>1. x[i] \in MessageType /\ x[i].gen \in Nat /\ x[i].peer = p
        <3>1. x[i] \in MessageType
            BY DEF PostedBy
        <3> QED BY <3>1, MessageKinds DEF PostedBy
    <2>2. ASSUME ~IsReport(x[i]), x[i].ok PROVE x[i].gen <= after[p].gen
        <3>1. x[i].gen <= gm[p].gen
            BY <2>2 DEF PostedBy
        <3> QED BY <2>1, <3>1 DEF Forward
    <2>3. ASSUME IsReport(x[i]) PROVE Told(x[i], after)
        <3>1. Told(x[i], gm)
            BY <2>3 DEF PostedBy
        <3> QED BY <2>1, <3>1, ToldForward
    <2> QED BY <2>2, <2>3
<1> QED BY <1>1 DEF PostedBy

\* A message that p may send next, and the others in their order.
Fits(p, m, x, log, gm) ==
    /\ m \in MessageType /\ m.peer = p /\ m.gen \in 1..Len(log)
    /\ ~IsReport(m) /\ m.ok => m.gen <= gm[p].gen
    /\ IsReport(m) => /\ Told(m, gm) /\ Unheard(p, log, m.gen)
                      /\ \A i \in DOMAIN x : IsReport(x[i]) => x[i].gen # m.gen

Others(x, y, k) ==
    /\ \A i \in DOMAIN y : i # k => \E n \in DOMAIN x : y[i] = x[n]
    /\ \A i, j \in DOMAIN y :
         i # k /\ j # k /\ IsReport(y[i]) /\ IsReport(y[j]) /\ y[j].gen = y[i].gen
         => i = j

\* A game sends one more message.
LEMMA PostedMore ==
    ASSUME NEW p \in Peer, NEW x, NEW log, NEW gm, PostedBy(p, x, log, gm),
           NEW y, y \in Seq(MessageType), NEW k, k \in DOMAIN y,
           Fits(p, y[k], x, log, gm), Others(x, y, k)
    PROVE  PostedBy(p, y, log, gm)
<1> USE DEF Fits, Others
<1>1. ASSUME NEW i \in DOMAIN y
      PROVE  /\ y[i].peer = p /\ y[i].gen \in 1..Len(log)
             /\ ~IsReport(y[i]) /\ y[i].ok => y[i].gen <= gm[p].gen
             /\ IsReport(y[i]) => Told(y[i], gm) /\ Unheard(p, log, y[i].gen)
    <2>1. CASE i = k
        BY <2>1
    <2>2. CASE i # k
        <3>1. PICK n \in DOMAIN x : y[i] = x[n]
            BY <2>2
        <3> QED BY <3>1 DEF PostedBy
    <2> QED BY <2>1, <2>2
<1>2. ASSUME NEW i \in DOMAIN y, NEW j \in DOMAIN y, IsReport(y[i]), IsReport(y[j]),
             y[j].gen = y[i].gen
      PROVE  j = i
    <2>1. CASE i = k /\ j # k
        <3>1. PICK n \in DOMAIN x : y[j] = x[n]
            BY <2>1
        <3> QED BY <1>2, <2>1, <3>1
    <2>2. CASE i # k /\ j = k
        <3>1. PICK n \in DOMAIN x : y[i] = x[n]
            BY <2>2
        <3> QED BY <1>2, <2>2, <3>1
    <2>3. CASE i # k /\ j # k
        BY <1>2, <2>3
    <2> QED BY <2>1, <2>2, <2>3
<1> QED BY <1>1, <1>2 DEF PostedBy

----------------------------------------------------------------------------
(* A handler ends, or a crash ends it *)
LEMMA DownFields ==
    ASSUME NEW log \in Seq(OrderType), NEW at \in Nat
    PROVE  LET h == Down(log, at)
           IN /\ h \in MemoryType /\ ~h.up /\ h.log = log /\ h.faultAt = at
              /\ h.rv = NoMeeting /\ h.controls = <<>> /\ h.pause.gen = 0 /\ ~h.pause.on
              /\ h.fence = NoFence /\ h.connected = {} /\ h.waiting = {}
<1> DEFINE f == Fresh(log, at)
           h == [f EXCEPT !.up = FALSE, !.connected = {}]
<1>1. /\ f \in MemoryType /\ f.log = log /\ f.faultAt = at
      /\ f.rv = NoMeeting /\ f.controls = <<>> /\ f.pause.gen = 0 /\ ~f.pause.on
      /\ f.fence = NoFence /\ f.waiting = {}
    BY FreshFields
<1>2. Down(log, at) = h
    BY DEF Down
<1> HIDE DEF f
<1>3. /\ h \in MemoryType /\ ~h.up /\ h.log = f.log /\ h.faultAt = f.faultAt
      /\ h.rv = f.rv /\ h.controls = f.controls /\ h.pause = f.pause
      /\ h.fence = f.fence /\ h.connected = {} /\ h.waiting = f.waiting
    BY <1>1 DEF MemoryType
<1> HIDE DEF h
<1> QED BY <1>1, <1>2, <1>3

\* The journal of a handler that a crash cut short.
LEMMA CutShort ==
    ASSUME NEW log, NEW gm, NEW c \in Nat, Core(log, gm, c), NEW base \in Seq(OrderType),
           Extends(base, log), NEW n \in Len(base)..Len(log)
    PROVE  LET less == SubSeq(log, 1, n)
           IN Core(less, gm, c + 1) /\ Extends(base, less) /\ Len(base) <= Len(less)
<1> DEFINE less == SubSeq(log, 1, n)
<1>1. /\ log \in Seq(OrderType) /\ Len(log) \in Nat /\ Len(base) \in Nat
      /\ n \in 0..Len(log) /\ Len(base) <= n
    BY DEF Core
<1>2. Core(less, gm, c + 1)
    BY <1>1, CorePrefix
<1>3. Len(less) = n /\ \A g \in 1..n : less[g] = log[g]
    BY <1>1
<1> HIDE DEF less
<1>4. Extends(base, less)
    <2>1. ASSUME NEW g \in 1..Len(base) PROVE less[g] = base[g]
        <3>1. g \in 1..n
            BY <1>1, <2>1
        <3> QED BY <1>3, <3>1 DEF Extends
    <2>2. ASSUME NEW g \in (Len(base) + 1)..n PROVE less[g].acks = {} /\ less[g].reports = <<>>
        <3>1. g \in 1..n /\ g \in (Len(base) + 1)..Len(log)
            BY <1>1, <2>2
        <3> QED BY <1>3, <3>1 DEF Extends
    <2> QED BY <1>1, <1>3, <2>1, <2>2 DEF Extends
<1> QED BY <1>1, <1>2, <1>3, <1>4 DEF less

\* What a handler makes of a memory: good, and with a journal that goes on from one in
\* which what the peers have sent is right.
LEMMA Handled ==
    ASSUME ClockInv, NEW h, Good(h, game, crashes), NEW base \in Seq(OrderType),
           Len(base) = Len(host.log), Extends(base, h.log), NEW cost \in Nat,
           Handle(h, cost), game' = game, DOMAIN out' = Peer,
           \A p \in Peer : PostedBy(p, out'[p], base, game)
    PROVE  ClockInv'
<1>1. /\ host.log \in Seq(OrderType) /\ Len(host.log) \in Nat /\ host.faultAt \in Nat
      /\ \A p \in Peer : GameKept(game[p], host.log)
      /\ game \in [Peer -> GameType] /\ spent \in 0..Budget /\ crashes \in 0..MaxCrash
      /\ crashes \in Nat /\ Budget \in Nat /\ MaxCrash \in Nat
    BY HostFacts, ClockAssumption DEF ClockInv
<1>2. /\ h \in MemoryType /\ Core(h.log, game, crashes) /\ h.log \in Seq(OrderType)
      /\ h.faultAt \in Nat /\ Len(h.log) \in Nat /\ Len(host.log) <= Len(h.log)
    <2>1. h \in MemoryType /\ Core(h.log, game, crashes)
        BY DEF Good, Base
    <2>2. h.log \in Seq(OrderType) /\ h.faultAt \in Nat
        BY <2>1, MemoryFields
    <2>3. Len(h.log) \in Nat
        BY <2>2, LenProperties
    <2>4. Len(base) <= Len(h.log)
        BY DEF Extends
    <2> QED BY <2>1, <2>2, <2>3, <2>4
<1>3. ASSUME NEW log, log \in Seq(OrderType), Extends(base, log)
      PROVE  \A p \in Peer : /\ GameKept(game[p], log)
                             /\ PostedBy(p, out'[p], log, game)
    <2>1. Len(log) \in Nat /\ Len(base) \in Nat /\ Len(host.log) <= Len(log)
        BY <1>3 DEF Extends
    <2>2. ASSUME NEW p \in Peer PROVE GameKept(game[p], log)
        <3>1. game[p].read \in Nat /\ game[p].gen \in Nat
            BY <1>1 DEF GameType
        <3> QED BY <1>1, <2>1, <3>1 DEF GameKept
    <2>3. ASSUME NEW p \in Peer PROVE PostedBy(p, out'[p], log, game)
        BY <1>3, <2>1, PostedLonger
    <2> QED BY <2>2, <2>3
<1>4. CASE /\ MaySpend(cost) /\ spent' = spent + cost
           /\ host' = h /\ UNCHANGED crashes
    <2>1. spent' \in 0..Budget
        BY <1>1, <1>4 DEF MaySpend
    <2>2. HostKept'
        BY <1>4 DEF HostKept
    <2>3. \A p \in Peer : GameKept(game[p], h.log) /\ PostedBy(p, out'[p], h.log, game)
        BY <1>2, <1>3
    <2> QED BY <1>1, <1>4, <2>1, <2>2, <2>3 DEF ClockInv
<1>5. CASE /\ MaySpend(cost + 1) /\ spent' = spent + cost + 1
           /\ crashes < MaxCrash /\ crashes' = crashes + 1
           /\ \E journal \in Journals(h) : host' = Down(journal[1], journal[2])
    <2>1. spent' \in 0..Budget /\ crashes' \in 0..MaxCrash /\ crashes' # 0
        BY <1>1, <1>5 DEF MaySpend
    <2>2. PICK n \in Len(host.log)..Len(h.log), at \in Nat : host' = Down(SubSeq(h.log, 1, n), at)
        <3>1. PICK journal \in Journals(h) : host' = Down(journal[1], journal[2])
            BY <1>5
        <3>2. \/ journal = <<SubSeq(h.log, 1, Len(host.log)), host.faultAt>>
              \/ \E n \in Len(host.log)..Len(h.log) : journal = <<SubSeq(h.log, 1, n), h.faultAt>>
            BY <3>1 DEF Journals, Gen
        <3>3. CASE journal = <<SubSeq(h.log, 1, Len(host.log)), host.faultAt>>
            <4>1. Len(host.log) \in Len(host.log)..Len(h.log)
                BY <1>1, <1>2
            <4>2. host' = Down(SubSeq(h.log, 1, Len(host.log)), host.faultAt)
                BY <3>1, <3>3
            <4> QED BY <1>1, <4>1, <4>2
        <3>4. CASE \E n \in Len(host.log)..Len(h.log) :
                     journal = <<SubSeq(h.log, 1, n), h.faultAt>>
            <4>1. PICK n \in Len(host.log)..Len(h.log) :
                     journal = <<SubSeq(h.log, 1, n), h.faultAt>>
                BY <3>4
            <4>2. host' = Down(SubSeq(h.log, 1, n), h.faultAt)
                BY <3>1, <4>1
            <4> QED BY <1>2, <4>2
        <3> QED BY <3>2, <3>3, <3>4
    <2> DEFINE less == SubSeq(h.log, 1, n)
    <2>3. Core(less, game, crashes + 1) /\ Extends(base, less)
        BY <1>1, <1>2, <2>2, CutShort
    <2>4. less \in Seq(OrderType)
        BY <2>3 DEF Core
    <2> HIDE DEF less
    <2>5. host' = Down(less, at) /\ host'.log = less /\ host'.faultAt = at
        BY <2>2, <2>4, DownFields DEF less
    <2>6. HostKept'
        BY <1>5, <2>1, <2>3, <2>5 DEF HostKept
    <2>7. \A p \in Peer : GameKept(game[p], less) /\ PostedBy(p, out'[p], less, game)
        BY <1>3, <2>3, <2>4
    <2> QED BY <1>1, <2>1, <2>5, <2>6, <2>7 DEF ClockInv
<1> QED BY <1>4, <1>5 DEF Handle

\* The same for a handler that reads no message.
LEMMA HandledAfter ==
    ASSUME ClockInv, NEW h, After(host, h, game, crashes), NEW cost \in Nat,
           Handle(h, cost), game' = game, out' = out
    PROVE  ClockInv'
<1>1. host.log \in Seq(OrderType)
    BY HostFacts
<1>2. DOMAIN out' = Peer /\ \A p \in Peer : PostedBy(p, out'[p], host.log, game)
    BY DEF ClockInv
<1> QED BY <1>1, <1>2, Handled DEF After

----------------------------------------------------------------------------
(* The steps of the host alone *)
\* A host that runs.
LEMMA HostUp ==
    ASSUME ClockInv, host.up
    PROVE  /\ Good(host, game, crashes) /\ Base(host, game, crashes)
           /\ host \in MemoryType /\ host.log \in Seq(OrderType) /\ Len(host.log) \in Nat
           /\ AwayKept(host) /\ host.waiting \subseteq Peer \ {Host}
           /\ Requested(host) \in Speeds /\ Effective(host) \in Speeds
<1>1. Good(host, game, crashes) /\ host.log \in Seq(OrderType) /\ Len(host.log) \in Nat
    BY HostFacts
<1>2. host \in MemoryType
    BY <1>1 DEF Good, Base
<1>3. Requested(host) \in Speeds /\ Effective(host) \in Speeds
    BY <1>1, LatestFields
<1> QED BY <1>1, <1>2, <1>3, MemoryFields DEF Good, Base

\* What leaves the journal and the meeting of the host alone, and takes no
\* sample from a peer that is awaited.
LEMMA BaseTouched ==
    ASSUME NEW h, NEW gm, NEW c, Base(h, gm, c), NEW k \in MemoryType,
           k.up = h.up, k.log = h.log, k.controls = h.controls, k.pause = h.pause,
           k.fence = h.fence, AwayKept(k)
    PROVE  Base(k, gm, c) /\ Extends(h.log, k.log)
<1>1. Tracking(k) /\ PauseKept(k, gm) /\ FenceKept(k)
    BY DEF Base, Tracking, PauseKept, FenceKept
<1>2. Len(h.log) \in Nat
    BY DEF Base, Core
<1> QED BY <1>1, <1>2, ExtendsSame DEF Base

LEMMA GoodTouched ==
    ASSUME NEW h, NEW gm, NEW c, Good(h, gm, c), NEW k \in MemoryType,
           k.up = h.up, k.log = h.log, k.controls = h.controls, k.pause = h.pause,
           k.fence = h.fence, k.rv = h.rv, AwayKept(k),
           Sampled(h) => Sampled(k)
    PROVE  After(h, k, gm, c)
<1>1. Base(k, gm, c) /\ Extends(h.log, k.log)
    BY BaseTouched DEF Good
<1>2. MeetingKept(k, c) /\ SpeedKept(k)
    BY DEF Good, MeetingKept, Sampled, SpeedKept, Requested, Effective, Latest
<1> QED BY <1>1, <1>2 DEF After, Good

\* The host has read a message, maybe the last one of a replaced connection.
LEMMA HeardGood ==
    ASSUME ClockInv, NEW p, Reads(p)
    PROVE  /\ host.up /\ After(host, Heard(p), game, crashes)
           /\ Good(Heard(p), game, crashes) /\ Base(Heard(p), game, crashes)
           /\ Heard(p).up = host.up /\ Heard(p).log = host.log
           /\ Heard(p).waiting = host.waiting /\ Heard(p).health = host.health
<1>1. host.up
    BY DEF Reads
<1>2. Good(host, game, crashes) /\ host \in MemoryType /\ AwayKept(host)
    BY <1>1, HostUp
<1> DEFINE k == Heard(p)
<1>3. /\ k \in MemoryType /\ k.up = host.up /\ k.log = host.log /\ k.controls = host.controls
      /\ k.pause = host.pause /\ k.fence = host.fence /\ k.rv = host.rv
      /\ k.waiting = host.waiting /\ k.connected = host.connected /\ k.health = host.health
    BY <1>2 DEF MemoryType, Heard
<1> HIDE DEF k
<1>4. AwayKept(k)
    BY <1>2, <1>3 DEF AwayKept
<1>5. Sampled(host) => Sampled(k)
    BY <1>3 DEF Sampled
<1>6. After(host, k, game, crashes)
    BY <1>2, <1>3, <1>4, <1>5, GoodTouched
<1> QED BY <1>1, <1>3, <1>6 DEF After, Good, k

\* Each step keeps the invariant: first those that are about the host's memory.
LEMMA RequestKept ==
    ASSUME ClockInv, NEW p \in Peer, NEW speed \in {0, MaxSpeed}, Request(p, speed)
    PROVE  ClockInv'
<1> DEFINE read == Heard(p)
           asked == Unfenced(read)
<1>1. Reads(p) /\ host.up /\ game' = game /\ out' = out
    BY DEF Request, Reads
<1>2. /\ Good(host, game, crashes) /\ host.log \in Seq(OrderType) /\ host.waiting \subseteq Peer
      /\ AwayKept(host) /\ Effective(host) \in Speeds
    BY <1>1, HostUp
<1>3. /\ After(read, asked, game, crashes) /\ asked.log = host.log
      /\ asked.waiting = host.waiting /\ asked.health = host.health
      /\ Extends(host.log, asked.log)
    <2>1. /\ Good(read, game, crashes) /\ read.log = host.log /\ read.waiting = host.waiting
          /\ read.health = host.health
        BY <1>1, HeardGood
    <2> HIDE DEF read
    <2>2. /\ After(read, asked, game, crashes) /\ asked.log = read.log
          /\ asked.waiting = read.waiting /\ asked.health = read.health
        BY <2>1, UnfencedGood
    <2>3. Len(host.log) \in Nat
        BY <1>2
    <2> QED BY <2>1, <2>2, <2>3, ExtendsSame
<1>4. /\ Base(asked, game, crashes) /\ asked.up /\ asked.log \in Seq(OrderType)
      /\ Extends(host.log, asked.log)
    BY <1>2, <1>3 DEF After, Good
<1>5. 0 \in Nat /\ 1 \in Nat /\ 0 \in Speeds /\ 1 \in Speeds /\ speed \in Speeds
      /\ speed <= speed
    BY SpeedsNat
<1>6. CASE ~FreshSamples(host)
    <2>1. Handle(EmitClockSet(asked, 0, 0), 1)
        BY <1>6 DEF Request, Unfenced
    <2> HIDE DEF asked
    <2>2. After(asked, EmitClockSet(asked, 0, 0), game, crashes)
        BY <1>4, <1>5, StopGood
    <2>3. After(host, EmitClockSet(asked, 0, 0), game, crashes)
        BY <1>2, <1>4, <2>2, AfterTwice
    <2> QED BY <1>1, <1>5, <2>1, <2>3, HandledAfter
<1>7. CASE FreshSamples(host)
    <2>1. Sampled(asked)
        <3>1. Sampled(host)
            BY <1>2, <1>7, FreshHere
        <3> HIDE DEF asked
        <3> QED BY <1>3, <3>1 DEF Sampled
    <2>2. PICK approach \in Speeds : Handle(EmitAction(asked, MeetOrder(speed, approach, speed), 0), 1)
        <3>1. PICK approach \in IF Effective(host) = 0 THEN {0, 1} ELSE {Effective(host)} :
                Handle(EmitAction([read EXCEPT !.fence = NoFence],
                                  MeetOrder(speed, approach, speed), 0), 1)
            BY <1>7 DEF Request
        <3> QED BY <1>2, <1>5, <3>1 DEF Unfenced
    <2> HIDE DEF asked
    <2> DEFINE h == EmitAction(asked, MeetOrder(speed, approach, speed), 0)
    <2>3. After(asked, h, game, crashes)
        BY <1>3, <1>4, <1>5, <2>1, MeetGood
    <2> HIDE DEF h
    <2>4. After(host, h, game, crashes)
        BY <1>2, <1>4, <2>3, AfterTwice
    <2>5. Handle(h, 1)
        BY <2>2 DEF h
    <2> QED BY <1>1, <1>5, <2>4, <2>5, HandledAfter
<1> QED BY <1>6, <1>7

LEMMA OutsideFaultKept ==
    ASSUME ClockInv, OutsideFault
    PROVE  ClockInv'
<1>1. /\ host.up /\ Handle(FaultSession(host), 1)
      /\ game' = game /\ out' = out
    BY DEF OutsideFault
<1>2. After(host, FaultSession(host), game, crashes)
    BY <1>1, HostUp, FaultSessionGood
<1>3. 1 \in Nat
    OBVIOUS
<1> QED BY <1>1, <1>2, <1>3, HandledAfter

LEMMA VehicleSkewKept ==
    ASSUME ClockInv, VehicleSkew
    PROVE  ClockInv'
<1> DEFINE h == BeginRendezvous(host, Requested(host), Effective(host))
<1>1. /\ host.up /\ host.rv = NoMeeting /\ Handle(h, 1)
      /\ game' = game /\ out' = out
    BY DEF VehicleSkew
<1>2. /\ Good(host, game, crashes) /\ Requested(host) \in Speeds /\ Effective(host) \in Speeds
    BY <1>1, HostUp
<1>3. Effective(host) <= Requested(host)
    BY <1>1, <1>2 DEF Good, SpeedKept
<1>4. After(host, h, game, crashes)
    BY <1>2, <1>3, BeginRendezvousGood
<1>5. 1 \in Nat
    OBVIOUS
<1> HIDE DEF h
<1> QED BY <1>1, <1>4, <1>5, HandledAfter

\* A step that replaces the memory by one as good, and spends what it may.
LEMMA Replaced ==
    ASSUME ClockInv, After(host, host', game, crashes), game' = game, out' = out,
           spent' \in 0..Budget, crashes' = crashes
    PROVE  ClockInv'
<1>1. /\ host.log \in Seq(OrderType) /\ Len(host.log) \in Nat /\ Len(host'.log) \in Nat
      /\ Extends(host.log, host'.log) /\ Len(host.log) <= Len(host'.log)
    BY HostFacts DEF After, Good, Base, Core, Extends
<1>2. ASSUME NEW p \in Peer PROVE GameKept(game[p], host'.log)
    <2>1. game[p].read \in Nat /\ game[p].gen \in Nat /\ GameKept(game[p], host.log)
        BY DEF ClockInv, GameType
    <2> QED BY <1>1, <2>1 DEF GameKept
<1>3. ASSUME NEW p \in Peer PROVE PostedBy(p, out[p], host'.log, game)
    BY <1>1, PostedLonger DEF ClockInv
<1>4. HostKept'
    BY DEF HostKept, After
<1> QED BY <1>2, <1>3, <1>4 DEF ClockInv

LEMMA AgeKept ==
    ASSUME ClockInv, NEW p \in Peer, Age(p)
    PROVE  ClockInv'
<1>1. /\ host.up /\ host.health[p].age \in {"new", "quiet"} /\ spent' = spent + 1
      /\ spent + 1 <= Budget
      /\ host' = [host EXCEPT !.health[p].age = IF @ = "new" THEN "quiet" ELSE "old"]
      /\ game' = game /\ out' = out /\ crashes' = crashes
    BY DEF Age, Spend, MaySpend
<1>2. Good(host, game, crashes) /\ host \in MemoryType /\ AwayKept(host)
    BY <1>1, HostUp
<1> DEFINE age == IF host.health[p].age = "new" THEN "quiet" ELSE "old"
           health == [host.health EXCEPT ![p] = [host.health[p] EXCEPT !.age = age]]
           k == [host EXCEPT !.health = health]
<1>3. host' = k
    BY <1>1
<1>4. age \in {"none", "new", "quiet", "old"}
    OBVIOUS
<1> HIDE DEF age
<1>5. health \in [Peer -> SampleType] /\ \A q \in Peer : q # p => health[q] = host.health[q]
    BY <1>2, <1>4, MemoryFields DEF SampleType
<1> HIDE DEF health
<1>6. /\ k \in MemoryType /\ k.up = host.up /\ k.log = host.log /\ k.controls = host.controls
      /\ k.pause = host.pause /\ k.fence = host.fence /\ k.rv = host.rv
      /\ k.waiting = host.waiting /\ k.connected = host.connected /\ k.health = health
    BY <1>2, <1>5 DEF MemoryType
<1> HIDE DEF k
<1>7. Sampled(host) => Sampled(k)
    <2>1. age # "none" /\ NoSample.age = "none"
        BY DEF NoSample, age
    <2>2. health[p].age = age
        BY <1>2, MemoryFields DEF SampleType, health
    <2>3. host.waiting \subseteq Peer
        BY <1>2, MemoryFields
    <2>4. \A q \in Peer : host.health[q] # NoSample => health[q] # NoSample
        BY <1>5, <2>1, <2>2
    <2> QED BY <1>6, <2>3, <2>4 DEF Sampled
<1>8. AwayKept(k)
    BY <1>2, <1>6 DEF AwayKept
<1>9. After(host, host', game, crashes)
    BY <1>2, <1>3, <1>6, <1>7, <1>8, GoodTouched
<1>10. spent' \in 0..Budget
    BY <1>1, ClockAssumption DEF ClockInv
<1> QED BY <1>1, <1>9, <1>10, Replaced

LEMMA ReadyKept ==
    ASSUME ClockInv, NEW p \in Peer, Ready(p)
    PROVE  ClockInv'
<1> DEFINE k == [host EXCEPT !.connected = host.connected \union {p},
                             !.waiting = host.waiting \ {p}, !.late = host.late \ {p}]
<1>1. /\ host.up /\ host' = k /\ game' = game /\ out' = out /\ spent' = spent
      /\ crashes' = crashes
    BY DEF Ready
<1>2. /\ Good(host, game, crashes) /\ host \in MemoryType /\ AwayKept(host)
      /\ host.waiting \subseteq Peer \ {Host} /\ host.connected \subseteq Peer
    BY <1>1, HostUp, MemoryFields
<1>3. /\ k \in MemoryType /\ k.up = host.up /\ k.log = host.log /\ k.controls = host.controls
      /\ k.pause = host.pause /\ k.fence = host.fence /\ k.rv = host.rv
      /\ k.waiting = host.waiting \ {p} /\ k.connected = host.connected \union {p}
      /\ k.health = host.health
    BY <1>2 DEF MemoryType
<1> HIDE DEF k
<1>4. AwayKept(k) /\ (Sampled(host) => Sampled(k))
    BY <1>2, <1>3 DEF AwayKept, Sampled
<1>5. After(host, host', game, crashes)
    BY <1>1, <1>2, <1>3, <1>4, GoodTouched
<1>6. spent' \in 0..Budget
    BY <1>1 DEF ClockInv
<1> QED BY <1>1, <1>5, <1>6, Replaced

LEMMA CutKept ==
    ASSUME ClockInv, NEW p \in Peer, Cut(p)
    PROVE  ClockInv'
<1>1. /\ host.up /\ p \in host.connected \ {Host}
      /\ game' = game /\ out' = out
    BY DEF Cut
<1>2. PICK late \in {{}, {p}} :
        Handle(EmergencyPause([host EXCEPT !.connected = @ \ {p}, !.waiting = @ \union {p},
                                           !.late = @ \union late, !.health[p] = NoSample]), 1)
    BY DEF Cut
<1> DEFINE health == [host.health EXCEPT ![p] = NoSample]
           k == [host EXCEPT !.connected = host.connected \ {p},
                             !.waiting = host.waiting \union {p},
                             !.late = host.late \union late, !.health = health]
           h == EmergencyPause(k)
<1>12. Handle(h, 1)
    <2>1. [host EXCEPT !.connected = @ \ {p}, !.waiting = @ \union {p},
                       !.late = @ \union late, !.health[p] = NoSample] = k
        BY <1>1, HostUp DEF MemoryType
    <2> QED BY <1>2, <2>1
<1>3. /\ Good(host, game, crashes) /\ host \in MemoryType /\ AwayKept(host)
      /\ Base(host, game, crashes) /\ host.log \in Seq(OrderType)
      /\ host.waiting \subseteq Peer \ {Host} /\ host.connected \subseteq Peer
    BY <1>1, HostUp, MemoryFields
<1>4. NoSample \in SampleType
    BY DEF NoSample, SampleType
<1>5. /\ health \in [Peer -> SampleType] /\ health[p] = NoSample
      /\ \A q \in Peer : q # p => health[q] = host.health[q]
    BY <1>3, <1>4, MemoryFields
<1> HIDE DEF health, h
<1>6. /\ k \in MemoryType /\ k.up = host.up /\ k.log = host.log /\ k.controls = host.controls
      /\ k.pause = host.pause /\ k.fence = host.fence
      /\ k.waiting = host.waiting \union {p} /\ k.connected = host.connected \ {p}
      /\ k.health = health
    BY <1>1, <1>2, <1>3, <1>5 DEF MemoryType
<1> HIDE DEF k
<1>7. AwayKept(k)
    BY <1>3, <1>5, <1>6 DEF AwayKept
<1>8. Base(k, game, crashes) /\ k.up /\ Extends(host.log, k.log) /\ k.log \in Seq(OrderType)
    BY <1>1, <1>3, <1>6, <1>7, BaseTouched
<1>9. After(k, h, game, crashes)
    BY <1>8, EmergencyPauseGood DEF h
<1>10. After(host, h, game, crashes)
    BY <1>3, <1>8, <1>9, AfterTwice
<1>11. 1 \in Nat
    OBVIOUS
<1> QED BY <1>1, <1>10, <1>11, <1>12, HandledAfter

LEMMA GraceExpiresKept ==
    ASSUME ClockInv, NEW p \in Peer, GraceExpires(p)
    PROVE  ClockInv'
<1> DEFINE k == [host EXCEPT !.waiting = host.waiting \ {p}]
           h == FaultSession(k)
<1>1. /\ host.up /\ Handle(h, 1) /\ game' = game /\ out' = out
    BY DEF GraceExpires
<1>2. /\ Good(host, game, crashes) /\ host \in MemoryType /\ AwayKept(host)
      /\ Base(host, game, crashes) /\ host.log \in Seq(OrderType)
      /\ host.waiting \subseteq Peer \ {Host}
    BY <1>1, HostUp
<1> HIDE DEF h
<1>3. /\ k \in MemoryType /\ k.up = host.up /\ k.log = host.log /\ k.controls = host.controls
      /\ k.pause = host.pause /\ k.fence = host.fence
      /\ k.waiting = host.waiting \ {p} /\ k.connected = host.connected
      /\ k.health = host.health
    BY <1>2 DEF MemoryType
<1> HIDE DEF k
<1>4. AwayKept(k)
    BY <1>2, <1>3 DEF AwayKept
<1>5. Base(k, game, crashes) /\ k.up /\ Extends(host.log, k.log) /\ k.log \in Seq(OrderType)
    BY <1>1, <1>2, <1>3, <1>4, BaseTouched
<1>6. After(k, h, game, crashes)
    BY <1>5, FaultSessionGood DEF h
<1>7. After(host, h, game, crashes)
    BY <1>2, <1>5, <1>6, AfterTwice
<1>8. 1 \in Nat
    OBVIOUS
<1> QED BY <1>1, <1>7, <1>8, HandledAfter

LEMMA ClockHealthKept ==
    ASSUME ClockInv, NEW p \in Peer, ClockHealth(p)
    PROVE  ClockInv'
<1> DEFINE running == game[p].speed > 0
           sample == [gen |-> game[p].gen, running |-> running, age |-> "new"]
           read == Heard(p)
           health == [read.health EXCEPT ![p] = sample]
           k == [read EXCEPT !.health = health]
<1>1. Reads(p) /\ host.up /\ game' = game /\ out' = out
    BY DEF ClockHealth, Reads
<1>2. /\ Good(read, game, crashes) /\ read \in MemoryType /\ AwayKept(read) /\ read.up
      /\ read.log = host.log /\ host.log \in Seq(OrderType) /\ Len(host.log) \in Nat
    BY <1>1, HeardGood, HostUp DEF Good, Base
<1>3. [Heard(p) EXCEPT !.health[p] = sample] = k
    BY <1>2 DEF MemoryType
<1>4. \/ \E h \in Adjust(k) : Handle(h, IF Gen(h) > Gen(host) THEN 1 ELSE 0)
      \/ Handle(FaultSession(k), 1)
    BY <1>3, Zenon DEF ClockHealth
<1>5. running \in BOOLEAN /\ game[p].gen \in Nat
    BY DEF ClockInv, GameType
<1> HIDE DEF running, read
<1>6. sample \in SampleType
    BY <1>5 DEF SampleType
<1>7. /\ health \in [Peer -> SampleType]
      /\ \A q \in Peer : q # p => health[q] = read.health[q]
      /\ health[p] # NoSample
    <2>1. sample # NoSample
        BY DEF NoSample, sample
    <2> QED BY <1>2, <1>6, <2>1, MemoryFields
<1> HIDE DEF sample, health
<1>8. /\ k \in MemoryType /\ k.up = read.up /\ k.log = read.log /\ k.controls = read.controls
      /\ k.pause = read.pause /\ k.fence = read.fence /\ k.rv = read.rv
      /\ k.waiting = read.waiting /\ k.connected = read.connected /\ k.health = health
    BY <1>2, <1>7 DEF MemoryType
<1> HIDE DEF k
<1>9. AwayKept(k) /\ (Sampled(read) => Sampled(k))
    <2>1. read.waiting \subseteq Peer
        BY <1>2, MemoryFields
    <2> QED BY <1>2, <1>7, <1>8, <2>1 DEF AwayKept, Sampled
<1>10. After(read, k, game, crashes)
    BY <1>2, <1>8, <1>9, GoodTouched
<1>11. /\ Good(k, game, crashes) /\ Base(k, game, crashes) /\ k.up
       /\ Extends(host.log, k.log) /\ k.log \in Seq(OrderType)
    BY <1>2, <1>8, <1>10 DEF After, Good
<1>12. 1 \in Nat /\ 0 \in Nat
    OBVIOUS
<1>13. CASE \E h \in Adjust(k) : Handle(h, IF Gen(h) > Gen(host) THEN 1 ELSE 0)
    <2>1. PICK h \in Adjust(k) : Handle(h, IF Gen(h) > Gen(host) THEN 1 ELSE 0)
        BY <1>13
    <2>2. After(k, h, game, crashes)
        BY <1>11, <2>1, AdjustGood
    <2>3. After(host, h, game, crashes)
        BY <1>2, <1>11, <2>2, AfterTwice
    <2>4. PICK cost \in Nat : Handle(h, cost)
        BY <1>12, <2>1
    <2> QED BY <1>1, <1>12, <2>3, <2>4, HandledAfter
<1>14. CASE Handle(FaultSession(k), 1)
    <2>1. After(k, FaultSession(k), game, crashes)
        BY <1>11, FaultSessionGood
    <2>2. After(host, FaultSession(k), game, crashes)
        BY <1>2, <1>11, <2>1, AfterTwice
    <2> QED BY <1>1, <1>12, <1>14, <2>2, HandledAfter
<1> QED BY <1>4, <1>13, <1>14

\* Protecting a silent pause touches nothing else.
LEMMA RefreshQuiescentGood ==
    ASSUME NEW h, NEW gm, NEW c, Good(h, gm, c)
    PROVE  After(h, RefreshQuiescent(h), gm, c) /\ RefreshQuiescent(h).log = h.log
<1> DEFINE g == ProtectedGen(h)
           k == RefreshQuiescent(h)
           noted == [h EXCEPT !.protect = [gen |-> g, mode |-> "quiescent"]]
           dropped == [h EXCEPT !.protect = [h.protect EXCEPT !.mode = "none"]]
<1>1. /\ h \in MemoryType /\ h.log \in Seq(OrderType) /\ Len(h.log) \in Nat
      /\ Gen(h) = Len(h.log) /\ AwayKept(h) /\ h.protect \in ProtectType
    BY MemoryFields DEF Good, Base, Core, Gen
<1>2. g \in Nat
    <2>1. CASE h.pause.on \/ Quiescent(h) = {}
        BY <2>1 DEF ProtectedGen
    <2>2. CASE ~(h.pause.on \/ Quiescent(h) = {})
        <3>1. Quiescent(h) \subseteq 1..Len(h.log) /\ Quiescent(h) # {}
            BY <1>1, <2>2 DEF Quiescent
        <3>2. Newest(Quiescent(h)) \in Quiescent(h)
            BY <1>1, <3>1, NewestThere
        <3>3. g = Newest(Quiescent(h))
            BY <2>2 DEF ProtectedGen
        <3> QED BY <1>1, <3>1, <3>2, <3>3
    <2> QED BY <2>1, <2>2
<1>3. k = noted \/ k = dropped \/ k = h
    <2>1. [h EXCEPT !.protect.mode = "none"] = dropped
        BY <1>1 DEF MemoryType
    <2>2. k = CASE g > 0 /\ g >= h.protect.gen -> noted
                [] g = 0 /\ ~h.pause.on /\ h.protect.mode = "quiescent" ->
                     [h EXCEPT !.protect.mode = "none"]
                [] OTHER -> h
        BY DEF RefreshQuiescent
    <2> HIDE DEF g, k, noted, dropped
    <2> QED BY <2>1, <2>2
<1> HIDE DEF g, k
<1>4. ASSUME k = h PROVE After(h, k, gm, c) /\ k.log = h.log
    BY <1>1, <1>4, ExtendsSame DEF After
<1>5. ASSUME k = noted \/ k = dropped PROVE After(h, k, gm, c) /\ k.log = h.log
    <2> DEFINE note == [gen |-> g, mode |-> "quiescent"]
               drop == [h.protect EXCEPT !.mode = "none"]
    <2>1. note \in ProtectType /\ drop \in ProtectType
        BY <1>1, <1>2 DEF ProtectType
    <2> HIDE DEF note, drop
    <2>2. PICK protect \in ProtectType : k = [h EXCEPT !.protect = protect]
        BY <1>5, <2>1 DEF note, drop
    <2>3. /\ k \in MemoryType /\ k.up = h.up /\ k.log = h.log /\ k.controls = h.controls
          /\ k.pause = h.pause /\ k.fence = h.fence /\ k.rv = h.rv
          /\ k.waiting = h.waiting /\ k.connected = h.connected /\ k.health = h.health
        BY <1>1, <2>2 DEF MemoryType
    <2>4. AwayKept(k) /\ (Sampled(h) => Sampled(k))
        BY <1>1, <2>3 DEF AwayKept, Sampled
    <2> QED BY <2>3, <2>4, GoodTouched
<1> QED BY <1>3, <1>4, <1>5 DEF k

LEMMA ExpireKept ==
    ASSUME ClockInv, Expire
    PROVE  ClockInv'
<1> DEFINE h == RefreshQuiescent(host)
<1>1. host.up /\ game' = game /\ out' = out
    BY DEF Expire
<1>2. Good(host, game, crashes) /\ host.log \in Seq(OrderType) /\ Len(host.log) \in Nat
    BY <1>1, HostUp
<1>3. After(host, h, game, crashes) /\ h.log = host.log
    BY <1>2, RefreshQuiescentGood
<1>4. \/ host' = h /\ UNCHANGED <<spent, crashes>>
      \/ \E g \in 1..Gen(h) : Handle(EmergencyPause(GivesUp(h, g)), 1)
      \/ Handle(EmergencyPause(h), 1)
    BY Zenon DEF Expire, GivesUp
<1> HIDE DEF h
<1>5. /\ Base(h, game, crashes) /\ h.up /\ h \in MemoryType /\ Core(h.log, game, crashes)
      /\ Tracking(h) /\ PauseKept(h, game) /\ AwayKept(h) /\ FenceKept(h)
      /\ Extends(host.log, h.log) /\ h.log \in Seq(OrderType)
    BY <1>2, <1>3 DEF After, Good, Base
<1>6. 1 \in Nat
    OBVIOUS
<1>7. CASE host' = h /\ UNCHANGED <<spent, crashes>>
    BY <1>1, <1>3, <1>6, <1>7, Replaced DEF ClockInv
<1>8. CASE \E g \in 1..Gen(h) : Handle(EmergencyPause(GivesUp(h, g)), 1)
    <2>1. PICK g \in 1..Len(h.log) : Handle(EmergencyPause(GivesUp(h, g)), 1)
        BY <1>8 DEF Gen
    <2> DEFINE k == GivesUp(h, g)
    <2>2. Base(k, game, crashes) /\ k.up /\ k.log = h.log
        BY <1>5, GivesUpBase DEF Tracking
    <2> HIDE DEF k
    <2>3. After(k, EmergencyPause(k), game, crashes)
        BY <2>2, EmergencyPauseGood
    <2>4. After(host, EmergencyPause(k), game, crashes)
        BY <1>2, <1>5, <2>2, <2>3, AfterTwice
    <2>5. Handle(EmergencyPause(k), 1)
        BY <2>1 DEF k
    <2> QED BY <1>1, <1>6, <2>4, <2>5, HandledAfter
<1>9. CASE Handle(EmergencyPause(h), 1)
    <2>1. After(h, EmergencyPause(h), game, crashes)
        BY <1>5, EmergencyPauseGood
    <2>2. After(host, EmergencyPause(h), game, crashes)
        BY <1>2, <1>5, <2>1, AfterTwice
    <2> QED BY <1>1, <1>6, <1>9, <2>2, HandledAfter
<1> QED BY <1>4, <1>7, <1>8, <1>9

LEMMA HostCrashKept ==
    ASSUME ClockInv, HostCrash
    PROVE  ClockInv'
<1>1. /\ spent' = spent + 1 /\ spent + 1 <= Budget /\ crashes < MaxCrash
      /\ crashes' = crashes + 1 /\ host' = Down(host.log, host.faultAt)
      /\ game' = game /\ out' = out
    BY DEF HostCrash, Spend, MaySpend
<1>2. /\ host.log \in Seq(OrderType) /\ host.faultAt \in Nat
      /\ Core(host.log, game, crashes)
    BY HostFacts
<1>3. host'.log = host.log /\ host'.faultAt = host.faultAt
    BY <1>1, <1>2, DownFields
<1>4. spent' \in 0..Budget /\ crashes' \in 0..MaxCrash /\ crashes' # 0
    BY <1>1, ClockAssumption DEF ClockInv
<1>5. Core(host.log, game, crashes')
    BY <1>2, <1>4 DEF Core, Unanimous
<1>6. HostKept'
    BY <1>1, <1>2, <1>3, <1>4, <1>5 DEF HostKept
<1> QED BY <1>1, <1>3, <1>4, <1>6 DEF ClockInv

LEMMA HostRestartKept ==
    ASSUME ClockInv, HostRestart
    PROVE  ClockInv'
<1> DEFINE h == LoadAudit(host.log, host.faultAt)
<1>1. ~host.up /\ Handle(h, 0) /\ game' = game /\ out' = out
    BY DEF HostRestart
<1>2. /\ host.faultAt \in Nat /\ Core(host.log, game, crashes) /\ crashes # 0
      /\ \A p \in Peer : game[p].gen \in Nat
    BY <1>1, HostFacts
<1>3. After(host, h, game, crashes)
    BY <1>2, LoadAuditGood DEF After
<1> HIDE DEF h
<1>4. 0 \in Nat
    OBVIOUS
<1> QED BY <1>1, <1>3, <1>4, HandledAfter

----------------------------------------------------------------------------
(* The steps of a game *)
\* A game goes on, and nobody else.
LEMMA GameGoesOn ==
    ASSUME ClockInv, game' \in [Peer -> GameType], Forward(game, game'), DOMAIN out' = Peer,
           host' = host, crashes' = crashes, spent' \in 0..Budget,
           \A p \in Peer : /\ GameKept(game'[p], host.log)
                           /\ PostedBy(p, out'[p], host.log, game')
    PROVE  ClockInv'
<1>1. HostKept'
    <2>1. CASE Good(host, game, crashes)
        <3>1. Good(host, game', crashes)
            BY <2>1, GoodForward
        <3> QED BY <3>1 DEF HostKept
    <2>2. CASE /\ host = Down(host.log, host.faultAt) /\ host.faultAt \in Nat
               /\ Core(host.log, game, crashes) /\ crashes # 0
        <3>1. Core(host.log, game', crashes)
            BY <2>2, CoreForward
        <3> QED BY <2>2, <3>1 DEF HostKept
    <2> QED BY <2>1, <2>2 DEF ClockInv, HostKept
<1> QED BY <1>1 DEF ClockInv

\* A message goes to the end of those that wait.
LEMMA PostedLast ==
    ASSUME NEW p \in Peer, NEW x, NEW log, NEW gm, PostedBy(p, x, log, gm),
           NEW m, Fits(p, m, x, log, gm)
    PROVE  PostedBy(p, Append(x, m), log, gm)
<1> DEFINE y == Append(x, m)
           k == Len(x) + 1
<1>1. x \in Seq(MessageType)
    BY DEF PostedBy
<1>2. /\ y \in Seq(MessageType) /\ Len(x) \in Nat /\ y[k] = m
      /\ DOMAIN x = 1..Len(x) /\ DOMAIN y = 1..k
      /\ \A i \in 1..Len(x) : y[i] = x[i]
    BY <1>1, AppendFacts DEF Fits
<1> HIDE DEF y
<1>3. k \in DOMAIN y
    BY <1>2
<1>4. ASSUME NEW i \in DOMAIN y, i # k PROVE i \in DOMAIN x /\ y[i] = x[i]
    BY <1>2, <1>4
<1>5. ASSUME NEW i \in DOMAIN y, NEW j \in DOMAIN y, i # k, j # k, y[j].gen = y[i].gen,
             IsReport(y[i]), IsReport(y[j])
      PROVE  i = j
    <2>1. i \in DOMAIN x /\ j \in DOMAIN x /\ y[i] = x[i] /\ y[j] = x[j]
        BY <1>4, <1>5
    <2> QED BY <1>5, <2>1 DEF PostedBy
<1> HIDE DEF k
<1>6. PostedBy(p, y, log, gm)
    <2>1. Others(x, y, k)
        <3>1. \A i \in DOMAIN y : i # k => \E n \in DOMAIN x : y[i] = x[n]
            BY <1>4
        <3>2. \A i, j \in DOMAIN y :
                i # k /\ j # k /\ IsReport(y[i]) /\ IsReport(y[j]) /\ y[j].gen = y[i].gen
                => i = j
            BY <1>5
        <3> QED BY <3>1, <3>2 DEF Others
    <2> QED BY <1>2, <1>3, <2>1, PostedMore DEF k
<1> QED BY <1>6 DEF y

\* A message overtakes the last one that waits.
LEMMA PostedBefore ==
    ASSUME NEW p \in Peer, NEW x, NEW log, NEW gm, PostedBy(p, x, log, gm), x # <<>>,
           NEW m, Fits(p, m, x, log, gm)
    PROVE  PostedBy(p, Front(x) \o <<m, Last(x)>>, log, gm)
<1> DEFINE front == Front(x)
           two == <<m, x[Len(x)]>>
           y == front \o two
           k == Len(x)
<1>1. x \in Seq(MessageType) /\ k \in Nat /\ k > 0 /\ DOMAIN x = 1..k
    BY DEF PostedBy
<1>2. Last(x) = x[k] /\ x[k] \in MessageType
    BY <1>1 DEF Last
<1>3. /\ front \in Seq(MessageType) /\ Len(front) = k - 1
      /\ \A i \in 1..(k - 1) : front[i] = x[i]
    BY <1>1 DEF Front
<1>4. two \in Seq(MessageType) /\ Len(two) = 2 /\ two[1] = m /\ two[2] = x[k]
    BY <1>2 DEF Fits
<1>5. Front(x) \o <<m, Last(x)>> = y
    BY <1>2
<1> HIDE DEF two, front, k
<1>6. /\ y \in Seq(MessageType) /\ Len(y) = Len(front) + Len(two)
      /\ \A i \in 1..(Len(front) + Len(two)) :
           y[i] = IF i <= Len(front) THEN front[i] ELSE two[i - Len(front)]
    BY <1>3, <1>4, ConcatProperties
<1> HIDE DEF y
<1>7. Len(y) = k + 1 /\ DOMAIN y = 1..(k + 1) /\ k \in DOMAIN y
    BY <1>1, <1>3, <1>4, <1>6
<1>8. \A i \in 1..(k - 1) : y[i] = x[i]
    BY <1>1, <1>3, <1>4, <1>6
<1>9. y[k] = m /\ y[k + 1] = x[k]
    <2>1. k - (k - 1) = 1 /\ (k + 1) - (k - 1) = 2 /\ ~(k <= k - 1) /\ ~(k + 1 <= k - 1)
          /\ k \in 1..((k - 1) + 2) /\ k + 1 \in 1..((k - 1) + 2)
        BY <1>1
    <2> QED BY <1>3, <1>4, <1>6, <2>1
<1>10. ASSUME NEW i \in DOMAIN y, i # k
       PROVE  i \in Nat /\ (i < k \/ i = k + 1) /\ y[i] = x[IF i < k THEN i ELSE k]
              /\ (IF i < k THEN i ELSE k) \in DOMAIN x
    <2>1. i \in Nat /\ (i \in 1..(k - 1) \/ i = k + 1)
        BY <1>1, <1>7, <1>10
    <2> QED BY <1>1, <1>8, <1>9, <2>1
<1>11. ASSUME NEW i \in DOMAIN y, NEW j \in DOMAIN y, i # k, j # k, y[j].gen = y[i].gen,
              IsReport(y[i]), IsReport(y[j])
       PROVE  i = j
    <2> DEFINE n == IF i < k THEN i ELSE k
               o == IF j < k THEN j ELSE k
    <2>1. n \in DOMAIN x /\ o \in DOMAIN x /\ y[i] = x[n] /\ y[j] = x[o]
        BY <1>10, <1>11
    <2>2. n = o => i = j
        BY <1>1, <1>10, <1>11
    <2> HIDE DEF n, o
    <2>3. n = o
        BY <1>11, <2>1 DEF PostedBy
    <2> QED BY <2>2, <2>3
<1>12. \A i \in DOMAIN y : i # k => \E n \in DOMAIN x : y[i] = x[n]
    BY <1>10
<1>13. PostedBy(p, y, log, gm)
    <2>1. Others(x, y, k)
        <3>1. \A i \in DOMAIN y : i # k => \E n \in DOMAIN x : y[i] = x[n]
            BY <1>12
        <3>2. \A i, j \in DOMAIN y :
                i # k /\ j # k /\ IsReport(y[i]) /\ IsReport(y[j]) /\ y[j].gen = y[i].gen
                => i = j
            BY <1>11
        <3> QED BY <3>1, <3>2 DEF Others
    <2> QED BY <1>6, <1>7, <1>9, <2>1, PostedMore
<1> QED BY <1>5, <1>13

\* Those of a game: its native speed, an order it applies, a meeting it reaches.
LEMMA NativeSpeedKept ==
    ASSUME ClockInv, NEW p \in Peer, NativeSpeed(p)
    PROVE  ClockInv'
<1> DEFINE speed == IF game[p].speed = 0 THEN 1 ELSE 0
           after == [game[p] EXCEPT !.speed = speed]
<1>1. game \in [Peer -> GameType] /\ game[p] \in GameType
    BY DEF ClockInv
<1>2. /\ spent' = spent + 1 /\ spent + 1 <= Budget /\ host' = host /\ out' = out
      /\ crashes' = crashes /\ game' = [game EXCEPT ![p] = after]
    BY DEF NativeSpeed, Spend, MaySpend
<1>3. speed \in Speeds
    BY SpeedsNat
<1> HIDE DEF speed
<1>4. /\ after \in GameType /\ after.read = game[p].read /\ after.gen = game[p].gen
      /\ after.meets = game[p].meets
    BY <1>1, <1>3 DEF GameType
<1> HIDE DEF after
<1>5. /\ game' \in [Peer -> GameType] /\ game'[p] = after
      /\ \A q \in Peer : q # p => game'[q] = game[q]
    BY <1>1, <1>2, <1>4
<1>6. Forward(game, game')
    BY <1>1, <1>4, <1>5 DEF Forward, GameType
<1>7. ASSUME NEW q \in Peer
      PROVE  GameKept(game'[q], host.log) /\ PostedBy(q, out[q], host.log, game')
    <2>1. GameKept(game[q], host.log) /\ PostedBy(q, out[q], host.log, game)
        BY DEF ClockInv
    <2>2. GameKept(game'[q], host.log)
        BY <1>4, <1>5, <2>1 DEF GameKept
    <2> QED BY <1>6, <2>1, <2>2, PostedForward
<1>8. spent' \in 0..Budget /\ DOMAIN out' = Peer
    BY <1>2, ClockAssumption DEF ClockInv
<1> QED BY <1>2, <1>5, <1>6, <1>7, <1>8, GameGoesOn

\* One game goes on to after, and sends a message.
LEMMA GameSent ==
    ASSUME ClockInv, NEW p \in Peer, NEW after \in GameType,
           game' = [game EXCEPT ![p] = after], game[p].gen <= after.gen,
           game[p].gen = after.gen /\ after.meets => game[p].meets,
           GameKept(after, host.log),
           NEW y, out' = [out EXCEPT ![p] = y],
           PostedBy(p, out[p], host.log, game') => PostedBy(p, y, host.log, game'),
           host' = host, crashes' = crashes, spent' \in 0..Budget
    PROVE  ClockInv'
<1>1. game \in [Peer -> GameType] /\ DOMAIN out = Peer
    BY DEF ClockInv
<1>2. /\ game' \in [Peer -> GameType] /\ game'[p] = after /\ DOMAIN out' = Peer
      /\ out'[p] = y
      /\ \A q \in Peer : q # p => game'[q] = game[q] /\ out'[q] = out[q]
    BY <1>1
<1>3. Forward(game, game')
    <2>1. ASSUME NEW q \in Peer
          PROVE  /\ game[q].gen \in Nat /\ game'[q].gen \in Nat
                 /\ \/ game[q].gen < game'[q].gen
                    \/ game[q].gen = game'[q].gen /\ (game'[q].meets => game[q].meets)
        <3>1. game[q].gen \in Nat /\ game'[q].gen \in Nat
            BY <1>1, <1>2 DEF GameType
        <3>2. CASE q = p
            BY <1>2, <3>1, <3>2
        <3>3. CASE q # p
            BY <1>2, <3>1, <3>3
        <3> QED BY <3>1, <3>2, <3>3
    <2> QED BY <2>1 DEF Forward
<1>4. ASSUME NEW q \in Peer
      PROVE  GameKept(game'[q], host.log) /\ PostedBy(q, out'[q], host.log, game')
    <2>1. GameKept(game[q], host.log) /\ PostedBy(q, out[q], host.log, game)
        BY DEF ClockInv
    <2>2. PostedBy(q, out[q], host.log, game')
        BY <1>3, <2>1, PostedForward
    <2>3. CASE q = p
        BY <1>2, <2>2, <2>3
    <2>4. CASE q # p
        BY <1>2, <2>1, <2>2, <2>4
    <2> QED BY <2>3, <2>4
<1> QED BY <1>2, <1>3, <1>4, GameGoesOn

LEMMA ApplyKept ==
    ASSUME ClockInv, NEW p \in Peer, Apply(p)
    PROVE  ClockInv'
<1> DEFINE g == game[p].read + 1
           order == host.log[g]
           meets == order.type = "clock.rendezvous"
           speed == IF meets /\ order.effective = 0 THEN game[p].speed ELSE order.effective
           after == [read |-> g, gen |-> g, meets |-> meets, speed |-> speed]
           passed == [game[p] EXCEPT !.read = g]
           ack == [type |-> "ack", gen |-> g, peer |-> p, ok |-> TRUE]
           nack == [type |-> "ack", gen |-> g, peer |-> p, ok |-> FALSE]
<1>1. /\ game \in [Peer -> GameType] /\ game[p] \in GameType /\ GameKept(game[p], host.log)
      /\ host.log \in Seq(OrderType) /\ Len(host.log) \in Nat
      /\ game[p].read \in Nat /\ game[p].gen \in Nat /\ game[p].speed \in Speeds
      /\ game[p].meets \in BOOLEAN /\ spent \in 0..Budget /\ Budget \in Nat
    BY HostFacts, ClockAssumption DEF ClockInv, GameType
<1>2. /\ game[p].read < Len(host.log) /\ host' = host /\ crashes' = crashes
    BY DEF Apply, Gen
<1>3. \/ /\ game' = [game EXCEPT ![p] = after] /\ out' = [out EXCEPT ![p] = Append(out[p], ack)]
         /\ spent' = spent
      \/ /\ spent' = spent + 1 /\ spent + 1 <= Budget
         /\ game' = [game EXCEPT ![p] = passed]
         /\ out' = [out EXCEPT ![p] = Append(out[p], nack)]
    <2>1. DOMAIN out = Peer
        BY DEF ClockInv
    <2> QED BY <1>1, <2>1 DEF Apply, Spend, MaySpend
<1>4. /\ g \in Nat /\ g \in 1..Len(host.log) /\ g > 0 /\ game[p].gen < g /\ g <= g
      /\ game[p].gen <= g
    BY <1>1, <1>2 DEF GameKept
<1>5. order.effective \in Speeds
    BY <1>1, <1>4, OrderFields
<1>6. speed \in Speeds /\ meets \in BOOLEAN
    BY <1>1, <1>5
<1>7. ack \in MessageType /\ nack \in MessageType
    BY <1>4 DEF MessageType, AckType
<1>8. /\ ack.peer = p /\ ack.gen = g /\ ~IsReport(ack)
      /\ nack.peer = p /\ nack.gen = g /\ ~nack.ok /\ ~IsReport(nack)
    BY DEF IsReport
<1> HIDE DEF speed, meets, ack, nack, order, g
<1>9. CASE /\ game' = [game EXCEPT ![p] = after]
           /\ out' = [out EXCEPT ![p] = Append(out[p], ack)] /\ spent' = spent
    <2>1. /\ after \in GameType /\ after.read = g /\ after.gen = g
        BY <1>4, <1>6 DEF GameType
    <2> HIDE DEF after
    <2>2. GameKept(after, host.log)
        BY <1>1, <1>4, <2>1 DEF GameKept
    <2>3. game'[p] = after
        BY <1>1, <1>9
    <2>4. Fits(p, ack, out[p], host.log, game')
        BY <1>4, <1>7, <1>8, <2>1, <2>3 DEF Fits
    <2>5. PostedBy(p, out[p], host.log, game') => PostedBy(p, Append(out[p], ack), host.log, game')
        BY <2>4, PostedLast
    <2>6. /\ game[p].gen <= after.gen
          /\ game[p].gen = after.gen /\ after.meets => game[p].meets
        BY <1>1, <1>4, <2>1
    <2>7. spent' \in 0..Budget
        BY <1>1, <1>9
    <2> QED BY <1>2, <1>9, <2>1, <2>2, <2>5, <2>6, <2>7, GameSent
<1>10. CASE /\ spent' = spent + 1 /\ spent + 1 <= Budget
            /\ game' = [game EXCEPT ![p] = passed]
            /\ out' = [out EXCEPT ![p] = Append(out[p], nack)]
    <2>1. /\ passed \in GameType /\ passed.read = g /\ passed.gen = game[p].gen
          /\ passed.meets = game[p].meets
        BY <1>1, <1>4 DEF GameType
    <2> HIDE DEF passed
    <2>2. GameKept(passed, host.log)
        BY <1>1, <1>4, <2>1 DEF GameKept
    <2>3. Fits(p, nack, out[p], host.log, game')
        BY <1>4, <1>7, <1>8 DEF Fits
    <2>4. PostedBy(p, out[p], host.log, game')
            => PostedBy(p, Append(out[p], nack), host.log, game')
        BY <2>3, PostedLast
    <2>5. spent' \in 0..Budget
        BY <1>1, <1>10
    <2>6. /\ game[p].gen <= passed.gen
          /\ game[p].gen = passed.gen /\ passed.meets => game[p].meets
        BY <1>1, <2>1
    <2> QED BY <1>2, <1>10, <2>1, <2>2, <2>4, <2>5, <2>6, GameSent
<1> QED BY <1>3, <1>9, <1>10

LEMMA ReachKept ==
    ASSUME ClockInv, NEW p \in Peer, Reach(p)
    PROVE  ClockInv'
<1> DEFINE posted == out[p]
           g == game[p].gen
<1>1. /\ game \in [Peer -> GameType] /\ game[p] \in GameType /\ GameKept(game[p], host.log)
      /\ host.log \in Seq(OrderType) /\ Len(host.log) \in Nat
      /\ game[p].read \in Nat /\ g \in Nat /\ game[p].speed \in Speeds
      /\ game[p].meets /\ spent \in 0..Budget /\ Budget \in Nat /\ DOMAIN out = Peer
      /\ PostedBy(p, posted, host.log, game) /\ Core(host.log, game, crashes)
      /\ host' = host /\ crashes' = crashes
    BY HostFacts, ClockAssumption DEF ClockInv, GameType, Reach
<1>2. PICK at \in ReachedAt, ok \in BOOLEAN :
        LET report == [type |-> "clock_reached", gen |-> g, peer |-> p, ok |-> ok, at |-> at]
            speed == IF ok THEN 0 ELSE game[p].speed
        IN /\ \/ spent' = spent + 1 /\ spent + 1 <= Budget
              \/ spent' = spent
           /\ game' = [game EXCEPT ![p] = [game[p] EXCEPT !.meets = FALSE, !.speed = speed]]
           /\ \/ /\ posted # <<>>
                 /\ out' = [out EXCEPT ![p] = Front(posted) \o <<report, Last(posted)>>]
              \/ out' = [out EXCEPT ![p] = Append(posted, report)]
    BY <1>1 DEF Reach, Spend, MaySpend, ReachedAt
<1> DEFINE report == [type |-> "clock_reached", gen |-> g, peer |-> p, ok |-> ok, at |-> at]
           speed == IF ok THEN 0 ELSE game[p].speed
           after == [game[p] EXCEPT !.meets = FALSE, !.speed = speed]
<1>3. spent' \in 0..Budget
    BY <1>1, <1>2
<1>4. game' = [game EXCEPT ![p] = after]
    BY <1>2
<1>5. \/ posted # <<>> /\ out' = [out EXCEPT ![p] = Front(posted) \o <<report, Last(posted)>>]
      \/ out' = [out EXCEPT ![p] = Append(posted, report)]
    BY <1>2
<1>6. speed \in Speeds
    BY <1>1, SpeedsNat
<1> HIDE DEF speed
<1>7. /\ after \in GameType /\ after.read = game[p].read /\ after.gen = g /\ ~after.meets
    BY <1>1, <1>6 DEF GameType
<1> HIDE DEF after
<1>8. GameKept(after, host.log) /\ g \in 1..Len(host.log)
    BY <1>1, <1>7 DEF GameKept
<1>9. report \in MessageType /\ report.peer = p /\ report.gen = g /\ IsReport(report)
    BY <1>1 DEF MessageType, ReportType, IsReport
<1> HIDE DEF report
<1>10. game'[p] = after
    BY <1>1, <1>4
<1>11. Told(report, game')
    BY <1>1, <1>7, <1>9, <1>10 DEF Told
<1>12. Unheard(p, host.log, g)
    <2>1. SoundOrder(host.log[g], g, game)
        BY <1>1, <1>8 DEF Core
    <2>2. ASSUME NEW k \in DOMAIN host.log[g].reports, host.log[g].reports[k].peer = p
          PROVE  FALSE
        <3>1. host.log[g].reports[k].gen = g /\ Told(host.log[g].reports[k], game)
            BY <2>1 DEF SoundOrder
        <3> QED BY <1>1, <2>2, <3>1 DEF Told
    <2> QED BY <2>2 DEF Unheard
<1>13. ASSUME NEW i \in DOMAIN posted, IsReport(posted[i]), posted[i].gen = g PROVE FALSE
    <2>1. Told(posted[i], game) /\ posted[i].peer = p
        BY <1>1, <1>13 DEF PostedBy
    <2> QED BY <1>1, <1>13, <2>1 DEF Told
<1>14. Fits(p, report, posted, host.log, game')
    BY <1>8, <1>9, <1>11, <1>12, <1>13 DEF Fits
<1>15. PICK y : /\ out' = [out EXCEPT ![p] = y]
                /\ PostedBy(p, posted, host.log, game') => PostedBy(p, y, host.log, game')
    <2>1. CASE posted # <<>> /\ out' = [out EXCEPT ![p] = Front(posted) \o <<report, Last(posted)>>]
        <3>1. PostedBy(p, posted, host.log, game')
                => PostedBy(p, Front(posted) \o <<report, Last(posted)>>, host.log, game')
            BY <1>14, <2>1, PostedBefore
        <3> QED BY <2>1, <3>1
    <2>2. CASE out' = [out EXCEPT ![p] = Append(posted, report)]
        <3>1. PostedBy(p, posted, host.log, game')
                => PostedBy(p, Append(posted, report), host.log, game')
            BY <1>14, PostedLast
        <3> QED BY <2>2, <3>1
    <2> QED BY <1>5, <2>1, <2>2
<1>16. /\ game[p].gen <= after.gen
       /\ game[p].gen = after.gen /\ after.meets => game[p].meets
    BY <1>1, <1>7
<1> QED BY <1>1, <1>3, <1>4, <1>7, <1>8, <1>15, <1>16, GameSent

\* What waits behind the message that is read.
LEMMA PostedTail ==
    ASSUME NEW p, NEW x, NEW log, NEW gm, PostedBy(p, x, log, gm), x # <<>>
    PROVE  /\ PostedBy(p, Tail(x), log, gm)
           /\ \A i \in DOMAIN Tail(x) :
                Tail(x)[i].gen # x[1].gen \/ ~IsReport(Tail(x)[i]) \/ ~IsReport(x[1])
<1> DEFINE y == Tail(x)
<1>1. x \in Seq(MessageType) /\ Len(x) \in Nat /\ Len(x) > 0 /\ DOMAIN x = 1..Len(x)
    BY DEF PostedBy
<1>2. /\ y \in Seq(MessageType) /\ Len(y) = Len(x) - 1
      /\ \A i \in 1..(Len(x) - 1) : y[i] = x[i + 1]
    BY <1>1
<1> HIDE DEF y
<1>3. ASSUME NEW i \in DOMAIN y
      PROVE  i \in Nat /\ i + 1 \in DOMAIN x /\ 1 \in DOMAIN x /\ i + 1 # 1 /\ y[i] = x[i + 1]
    <2>1. i \in 1..(Len(x) - 1)
        BY <1>1, <1>2
    <2> QED BY <1>1, <1>2, <2>1
<1>4. ASSUME NEW i \in DOMAIN y
      PROVE  /\ y[i].peer = p /\ y[i].gen \in 1..Len(log)
             /\ ~IsReport(y[i]) /\ y[i].ok => y[i].gen <= gm[p].gen
             /\ IsReport(y[i]) => Told(y[i], gm) /\ Unheard(p, log, y[i].gen)
    BY <1>3 DEF PostedBy
<1>5. ASSUME NEW i \in DOMAIN y, NEW j \in DOMAIN y, IsReport(y[i]), IsReport(y[j]),
             y[j].gen = y[i].gen
      PROVE  j = i
    <2>1. j + 1 = i + 1
        BY <1>3, <1>5 DEF PostedBy
    <2> QED BY <1>3, <2>1
<1>6. ASSUME NEW i \in DOMAIN y, y[i].gen = x[1].gen, IsReport(y[i]), IsReport(x[1])
      PROVE  FALSE
    BY <1>3, <1>6 DEF PostedBy
<1>7. PostedBy(p, y, log, gm)
    BY <1>2, <1>4, <1>5 DEF PostedBy
<1> QED BY <1>6, <1>7 DEF y

\* What was sent stays as good when the journal gets more answers.
LEMMA PostedOver ==
    ASSUME NEW p, NEW x, NEW log, NEW more, NEW gm, PostedBy(p, x, log, gm),
           Len(more) = Len(log),
           \A i \in DOMAIN x : IsReport(x[i]) => Unheard(p, more, x[i].gen)
    PROVE  PostedBy(p, x, more, gm)
BY DEF PostedBy

\* The host reads an answer, journals it, and draws its conclusion.
LEMMA ReadAnswerKept ==
    ASSUME ClockInv, NEW p \in Peer, ReadAnswer(p)
    PROVE  ClockInv'
<1> DEFINE x == out[p]
           m == x[1]
           read == Heard(p)
<1>1. /\ Reads(p) /\ host.up /\ x # <<>> /\ game' = game
      /\ out' = [out EXCEPT ![p] = Tail(x)]
      /\ IF m.type = "ack" THEN Handle(ResolveClockAck(read, m), 0)
         ELSE Handle(RecordClockReached(read, m), 0)
    <2>1. Head(out[p]) = out[p][1]
        OBVIOUS
    <2> QED BY <2>1 DEF ReadAnswer, Reads
<1>2. /\ Good(read, game, crashes) /\ read \in MemoryType /\ read.log = host.log
      /\ host.log \in Seq(OrderType) /\ Len(host.log) \in Nat
    BY <1>1, HostUp, HeardGood DEF Good, Base
<1>3. /\ DOMAIN out' = Peer /\ 0 \in Nat
      /\ out'[p] = Tail(x) /\ \A q \in Peer : q # p => out'[q] = out[q]
      /\ PostedBy(p, x, host.log, game)
    BY <1>1 DEF ClockInv
<1>4. /\ m \in MessageType /\ m.peer = p /\ m.gen \in 1..Len(host.log)
      /\ ~IsReport(m) /\ m.ok => m.gen <= game[p].gen
      /\ IsReport(m) => Told(m, game) /\ Unheard(p, host.log, m.gen)
    <2>1. 1 \in DOMAIN x /\ x \in Seq(MessageType)
        BY <1>1, <1>3 DEF PostedBy
    <2> QED BY <1>3, <2>1 DEF PostedBy
<1>5. ASSUME NEW q \in Peer PROVE PostedBy(q, out'[q], host.log, game)
    <2>1. CASE q = p
        BY <1>1, <1>3, <2>1, PostedTail
    <2>2. CASE q # p
        BY <1>3, <2>2 DEF ClockInv
    <2> QED BY <2>1, <2>2
<1>6. \A i \in DOMAIN Tail(x) :
        Tail(x)[i].gen # m.gen \/ ~IsReport(Tail(x)[i]) \/ ~IsReport(m)
    BY <1>1, <1>3, PostedTail
<1> HIDE DEF m, x, read
<1>7. /\ m.type = "ack" <=> m \in AckType
      /\ IsReport(m) <=> m \in ReportType
      /\ IsReport(m) \/ m.type = "ack"
    BY <1>4, MessageKinds
<1>8. CASE m.type = "ack"
    <2> DEFINE base == Answered(read, m).log
               h == ResolveClockAck(read, m)
    <2>1. m \in AckType /\ ~IsReport(m)
        BY <1>7, <1>8 DEF IsReport
    <2>2. m.ok => m.gen <= game[m.peer].gen
        BY <1>4, <2>1
    <2>3. After(Answered(read, m), h, game, crashes) /\ base \in Seq(OrderType)
        BY <1>2, <1>4, <2>1, <2>2, ResolveClockAckGood
    <2>4. /\ Len(base) = Len(host.log)
          /\ \A g \in 1..Len(host.log) : base[g].reports = host.log[g].reports
        BY <1>2, <1>4, <2>1, AnsweredFields
    <2>5. Good(h, game, crashes) /\ Extends(base, h.log) /\ Handle(h, 0)
        BY <1>1, <1>8, <2>3 DEF After
    <2> HIDE DEF base, h
    <2>6. ASSUME NEW q \in Peer PROVE PostedBy(q, out'[q], base, game)
        <3>1. PostedBy(q, out'[q], host.log, game)
            BY <1>5
        <3>2. ASSUME NEW i \in DOMAIN out'[q], IsReport(out'[q][i])
              PROVE  Unheard(q, base, out'[q][i].gen)
            <4>1. /\ out'[q][i].gen \in 1..Len(host.log)
                  /\ Unheard(q, host.log, out'[q][i].gen)
                BY <3>1, <3>2 DEF PostedBy
            <4> QED BY <2>4, <4>1 DEF Unheard
        <3> QED BY <2>4, <3>1, <3>2, PostedOver
    <2> QED BY <1>1, <1>3, <2>3, <2>4, <2>5, <2>6, Handled
<1>9. CASE m.type # "ack"
    <2> DEFINE base == Journalled(read, m).log
               h == RecordClockReached(read, m)
               g == m.gen
    <2>1. m \in ReportType /\ IsReport(m)
        BY <1>7, <1>9
    <2>2. \A i \in DOMAIN host.log[g].reports : host.log[g].reports[i].peer # m.peer
        BY <1>4, <2>1 DEF Unheard
    <2>3. /\ After(Journalled(read, m), h, game, crashes)
          /\ Base(Journalled(read, m), game, crashes)
        BY <1>2, <1>4, <2>1, <2>2, RecordClockReachedGood
    <2>4. /\ Len(base) = Len(host.log)
          /\ base[g].reports = Append(host.log[g].reports, m)
          /\ \A n \in 1..Len(host.log) : n # g => base[n] = host.log[n]
        <3>1. m.gen \in 1..Len(read.log)
            BY <1>2, <1>4
        <3>2. /\ Len(Journalled(read, m).log) = Len(read.log)
              /\ Journalled(read, m).log[m.gen].reports = Append(read.log[m.gen].reports, m)
              /\ \A n \in 1..Len(read.log) : n # m.gen => Journalled(read, m).log[n] = read.log[n]
            BY <1>2, <2>1, <3>1, JournalledFields
        <3> QED BY <1>2, <3>2
    <2>5. Good(h, game, crashes) /\ Extends(base, h.log) /\ Handle(h, 0)
        BY <1>1, <1>9, <2>3 DEF After
    <2>6. base \in Seq(OrderType)
        BY <2>3 DEF Base, Core
    <2>7. host.log[g].reports \in Seq(ReportType)
        BY <1>2, <1>4, OrderFields
    <2> HIDE DEF base, h
    <2>8. ASSUME NEW q \in Peer PROVE PostedBy(q, out'[q], base, game)
        <3>1. PostedBy(q, out'[q], host.log, game)
            BY <1>5
        <3>2. ASSUME NEW i \in DOMAIN out'[q], IsReport(out'[q][i])
              PROVE  Unheard(q, base, out'[q][i].gen)
            <4> DEFINE n == out'[q][i].gen
            <4>1. n \in 1..Len(host.log) /\ Unheard(q, host.log, n)
                BY <3>1, <3>2 DEF PostedBy
            <4>2. CASE n # g
                BY <2>4, <4>1, <4>2 DEF Unheard
            <4>3. CASE n = g
                <5>1. q # p
                    BY <1>3, <1>6, <2>1, <3>2, <4>3
                <5>2. ASSUME NEW k \in DOMAIN base[g].reports PROVE base[g].reports[k].peer # q
                    <6> DEFINE r == host.log[g].reports
                    <6>0. r \in Seq(ReportType) /\ base[g].reports = Append(r, m)
                        BY <2>4, <2>7
                    <6> HIDE DEF r
                    <6>1. /\ DOMAIN r = 1..Len(r) /\ Len(r) \in Nat
                          /\ DOMAIN Append(r, m) = 1..(Len(r) + 1)
                          /\ Append(r, m)[Len(r) + 1] = m
                          /\ \A j \in 1..Len(r) : Append(r, m)[j] = r[j]
                        BY <2>1, <6>0, AppendFacts
                    <6>2. k = Len(r) + 1 \/ k \in DOMAIN r
                        BY <5>2, <6>0, <6>1
                    <6>3. \A j \in DOMAIN r : r[j].peer # q
                        BY <4>1, <4>3 DEF Unheard, r
                    <6> QED BY <1>4, <5>1, <6>0, <6>1, <6>2, <6>3
                <5> QED BY <4>3, <5>2 DEF Unheard
            <4> QED BY <4>2, <4>3
        <3> QED BY <2>4, <3>1, <3>2, PostedOver
    <2> QED BY <1>1, <1>3, <2>4, <2>5, <2>6, <2>8, Handled
<1> QED BY <1>8, <1>9

----------------------------------------------------------------------------
(* The invariant *)
\* With an empty journal a restart has nothing to conclude.
LEMMA LoadNothing == LoadAudit(<<>>, 0) = Fresh(<<>>, 0)
<1> DEFINE h == Fresh(<<>>, 0)
<1>1. <<>> \in Seq(OrderType) /\ Len(<<>>) = 0 /\ 0 \in Nat
    OBVIOUS
<1>2. Restored(<<>>, 0)[0] = h
    BY <1>1, RestoredSteps
<1>3. h.log = <<>> /\ h.rv = NoMeeting
    BY <1>1, FreshFields
<1>4. LoadAudit(<<>>, 0) = FinalizeRestore(h)
    BY <1>1, <1>2 DEF LoadAudit
<1> HIDE DEF h
<1>5. Gen(h) = 0 /\ {g \in 1..Gen(h) : h.controls[g] = "complete"} = {}
    BY <1>3 DEF Gen
<1>6. FinalizeRestore(h) = h
    BY <1>3, <1>5 DEF FinalizeRestore
<1> QED BY <1>4, <1>6 DEF h

\* A session begins with a meeting that nobody has reported.
LEMMA InitKept == ClockInit => ClockInv
<1> SUFFICES ASSUME ClockInit PROVE ClockInv
    OBVIOUS
<1> DEFINE f == Fresh(<<>>, 0)
           sample == [NoSample EXCEPT !.age = "new"]
           health == [p \in Peer |-> sample]
           idle == [f EXCEPT !.connected = Peer, !.health = health]
           order == MeetOrder(MaxSpeed, 0, MaxSpeed)
<1>1. /\ host = EmitAction(idle, order, 0)
      /\ game = [p \in Peer |-> [read |-> 0, gen |-> 0, meets |-> FALSE, speed |-> 0]]
      /\ out = [p \in Peer |-> <<>>] /\ spent = 0 /\ crashes = 0
    BY LoadNothing DEF ClockInit
<1>2. /\ f \in MemoryType /\ f.up /\ f.log = <<>> /\ f.faultAt = 0
      /\ f.rv = NoMeeting /\ f.controls = <<>> /\ f.pause.gen = 0
      /\ f.fence = NoFence /\ f.waiting = {}
    <2>1. <<>> \in Seq(OrderType) /\ 0 \in Nat
        OBVIOUS
    <2>2. PICK log \in Seq(OrderType), at \in Nat : log = <<>> /\ at = 0
        BY <2>1
    <2>3. f = Fresh(log, at)
        BY <2>2
    <2> HIDE DEF f
    <2>4. /\ f \in MemoryType /\ f.up /\ f.log = log /\ f.faultAt = at
          /\ f.rv = NoMeeting /\ f.controls = <<>> /\ f.pause.gen = 0
          /\ f.fence = NoFence /\ f.waiting = {}
        BY <2>3, FreshFields
    <2> QED BY <2>2, <2>4
<1> HIDE DEF f, order
<1>3. sample \in SampleType
    BY DEF NoSample, SampleType
<1> HIDE DEF sample
<1>4. health \in [Peer -> SampleType]
    BY <1>3
<1> HIDE DEF health
<1>5. /\ idle \in MemoryType /\ idle.up /\ idle.log = <<>>
      /\ idle.controls = <<>> /\ idle.pause.gen = 0 /\ idle.fence = NoFence
      /\ idle.waiting = {}
    BY <1>2, <1>4 DEF MemoryType
<1> HIDE DEF idle
<1>6. /\ game \in [Peer -> GameType]
      /\ \A p \in Peer : game[p].read = 0 /\ game[p].gen = 0 /\ ~game[p].meets
    BY <1>1, SpeedsNat DEF GameType
<1>7. Base(idle, game, crashes)
    <2>1. /\ <<>> \in Seq(OrderType) /\ Len(<<>>) = 0 /\ 1..0 = {} /\ 0 \in Nat
        OBVIOUS
    <2>2. Core(idle.log, game, crashes)
        BY <1>5, <2>1 DEF Core
    <2>3. Tracking(idle) /\ PauseKept(idle, game) /\ AwayKept(idle) /\ FenceKept(idle)
        BY <1>5, <1>6, <2>1 DEF Tracking, PauseKept, AwayKept, FenceKept
    <2> QED BY <1>5, <2>2, <2>3 DEF Base
<1>8. After(idle, host, game, crashes)
    <2>1. 0 \in Nat /\ 0 \in Speeds /\ MaxSpeed \in Speeds /\ MaxSpeed <= MaxSpeed
        BY SpeedsNat
    <2>2. Sampled(idle)
        BY <1>5 DEF Sampled
    <2> QED BY <1>1, <1>5, <1>7, <2>1, <2>2, MeetGood DEF order
<1>9. Len(host.log) \in Nat
    BY <1>8 DEF After, Good, Base, Core
<1>10. ASSUME NEW p \in Peer
       PROVE  GameKept(game[p], host.log) /\ PostedBy(p, out[p], host.log, game)
    <2>1. out[p] = <<>> /\ <<>> \in Seq(MessageType) /\ DOMAIN <<>> = {}
        BY <1>1
    <2> QED BY <1>6, <1>9, <2>1 DEF GameKept, PostedBy
<1>11. spent \in 0..Budget /\ crashes \in 0..MaxCrash /\ DOMAIN out = Peer
    <2>1. 0 \in 0..Budget /\ 0 \in 0..MaxCrash
        BY ClockAssumption
    <2>2. DOMAIN out = Peer
        BY <1>1
    <2> QED BY <1>1, <2>1, <2>2
<1> QED BY <1>6, <1>8, <1>10, <1>11 DEF ClockInv, HostKept, After

\* The invariant is inductive: one case for each action.
LEMMA StepKept == ClockInv /\ [ClockNext]_clockVars => ClockInv'
<1> SUFFICES ASSUME ClockInv, [ClockNext]_clockVars PROVE ClockInv'
    OBVIOUS
<1>1. ASSUME NEW p \in Peer, PeerStep(p) PROVE ClockInv'
    <2>1. CASE \E speed \in {0, MaxSpeed} : Request(p, speed)
        BY <2>1, RequestKept
    <2>2. CASE Apply(p)
        BY <2>2, ApplyKept
    <2>3. CASE Reach(p)
        BY <2>3, ReachKept
    <2>4. CASE ReadAnswer(p)
        BY <2>4, ReadAnswerKept
    <2>5. CASE ClockHealth(p)
        BY <2>5, ClockHealthKept
    <2>6. CASE Age(p)
        BY <2>6, AgeKept
    <2>7. CASE NativeSpeed(p)
        BY <2>7, NativeSpeedKept
    <2>8. CASE Cut(p)
        BY <2>8, CutKept
    <2>9. CASE Ready(p)
        BY <2>9, ReadyKept
    <2>10. CASE GraceExpires(p)
        BY <2>10, GraceExpiresKept
    <2> QED BY <1>1, <2>1, <2>2, <2>3, <2>4, <2>5, <2>6, <2>7, <2>8, <2>9, <2>10
            DEF PeerStep
<1>2. CASE UNCHANGED clockVars
    BY <1>2 DEF clockVars, ClockInv, HostKept
<1> QED BY <1>1, <1>2, OutsideFaultKept, VehicleSkewKept, ExpireKept, HostCrashKept,
           HostRestartKept DEF ClockNext

\* What the journal says is true of the games, what the memory of a running host says
\* fits its journal, and so does every answer that is on its way: also after a crash
\* between two appends, and after _load_audit and finalize_restore.
THEOREM ClockInductive == ClockSpec => []ClockInv
BY InitKept, StepKept, PTL DEF ClockSpec

\* Types
LEMMA InvTypes == ClockInv => ClockTypeOK
<1> SUFFICES ASSUME ClockInv PROVE ClockTypeOK
    OBVIOUS
<1>1. /\ host.log \in Seq(OrderType) /\ Len(host.log) \in Nat /\ Gen(host) = Len(host.log)
      /\ Core(host.log, game, crashes) /\ host.faultAt \in Nat
    BY HostFacts DEF Gen
<1>2. /\ host \in MemoryType
      /\ host.rv.gen \in 0..Len(host.log)
      /\ host.up => Len(host.controls) = Len(host.log)
    <2>1. NoMeeting.gen = 0
        BY DEF NoMeeting
    <2>2. CASE Good(host, game, crashes)
        BY <1>1, <2>1, <2>2 DEF Good, Base, MeetingKept, Tracking
    <2>3. CASE host = Down(host.log, host.faultAt)
        BY <1>1, <2>1, <2>3, DownFields
    <2> QED BY <2>2, <2>3 DEF ClockInv, HostKept
<1>3. ASSUME NEW g \in 1..Len(host.log)
      PROVE  /\ host.log[g].type \in {"clock.set", "clock.rendezvous"}
             /\ host.log[g].requested \in Speeds /\ host.log[g].effective \in Speeds
             /\ host.log[g].release \in 0..host.log[g].requested
    <2>1. host.log[g] \in OrderType /\ SoundOrder(host.log[g], g, game)
        BY <1>1 DEF Core
    <2>2. /\ host.log[g].requested \in Speeds /\ host.log[g].release \in Speeds
          /\ host.log[g].effective \in Speeds /\ host.log[g].type \in OrderKinds
          /\ host.log[g].release <= host.log[g].requested
        BY <2>1, OrderFields DEF SoundOrder
    <2> QED BY <2>2, ClockAssumption DEF OrderKinds, Speeds
<1>4. /\ host.up \in BOOLEAN /\ host.waiting \subseteq Peer \ {Host}
      /\ host.connected \subseteq Peer /\ host.late \subseteq Peer
    BY <1>2, MemoryFields DEF MemoryType
<1> QED BY <1>1, <1>2, <1>3, <1>4 DEF ClockTypeOK, ClockInv

\* What the invariant says of the properties.
LEMMA InvReleased == ClockInv => ReleasedTogether
<1> SUFFICES ASSUME ClockInv, NEW g \in 1..Len(host.log), Releases(host.log[g])
             PROVE  g > 1 /\ Unanimous(host.log[g - 1], crashes)
    BY DEF ReleasedTogether, Unanimous, Releases, Gen
<1> QED BY HostFacts DEF Core

LEMMA InvAway == ClockInv => NoMeetingWhileAway
<1> SUFFICES ASSUME ClockInv PROVE NoMeetingWhileAway
    OBVIOUS
<1>1. CASE Good(host, game, crashes)
    BY <1>1 DEF Good, MeetingKept, Sampled, NoMeetingWhileAway
<1>2. CASE host = Down(host.log, host.faultAt)
    BY <1>2, HostFacts, DownFields DEF NoMeetingWhileAway
<1> QED BY <1>1, <1>2 DEF ClockInv, HostKept

LEMMA InvPause == ClockInv => PauseAgreed
<1> SUFFICES ASSUME ClockInv PROVE PauseAgreed
    OBVIOUS
<1>1. CASE Good(host, game, crashes)
    <2> SUFFICES ASSUME host.pause.gen = Gen(host), NEW p \in Peer
                 PROVE  game[p].gen = Gen(host)
        BY DEF PauseAgreed
    <2>1. host.pause.gen <= game[p].gen
        BY <1>1 DEF Good, Base, PauseKept
    <2>2. /\ game[p].gen \in Nat /\ game[p].read \in Nat /\ Len(host.log) \in Nat
          /\ game[p].gen <= game[p].read /\ game[p].read <= Len(host.log)
        BY HostFacts DEF ClockInv, GameType, GameKept
    <2> QED BY <2>1, <2>2 DEF Gen
<1>2. CASE host = Down(host.log, host.faultAt)
    BY <1>2, HostFacts, DownFields DEF PauseAgreed
<1> QED BY <1>1, <1>2 DEF ClockInv, HostKept

\* Every variable of the shared clock keeps its type: no order releases more than players
\* asked for, and the host awaits only peers of its roster (synchronization.py).
THEOREM ClockTypeCorrect == ClockSpec => []ClockTypeOK
BY ClockInductive, InvTypes, PTL

\* The clock of the games runs only on an order that follows a rendezvous which every peer
\* has reported, and all at one game time (_complete_rendezvous), also when the host was
\* restarted while reports came in.
THEOREM ReleasesTogether == ClockSpec => []ReleasedTogether
BY ClockInductive, InvReleased, PTL

\* While a peer is away in its grace (ReconnectCoordinator.disconnected) the host has no
\* rendezvous that would let the others run, whatever it had begun or begins meanwhile,
\* unless it has counted a health sample of that peer since: one that the thread of the
\* replaced connection still held (peer_session.py, record_clock_health).
THEOREM NobodyAwaited == ClockSpec => []NoMeetingWhileAway
BY ClockInductive, InvAway, PTL

\* When the host takes its newest order for acknowledged (_set_pause_acknowledged, which
\* opens what needs a paused world), every game has applied just that order.
THEOREM PausesAgree == ClockSpec => []PauseAgreed
BY ClockInductive, InvPause, PTL
-----------------------------------------------------------------------------
(***************************** Settlements *********************************)
(* The operators *)

LEMMA SaturateRange == \A n : Saturate(n) \in 0 .. Limit
BY SettlementAssumption DEF SettlementAssumption, Saturate

LEMMA SignedRange == \A n \in Int : Signed(n) \in -Limit .. Limit
BY SettlementAssumption DEF SettlementAssumption, Signed

\* The remainder of what an interval costs is less than a cent.
LEMMA ChargeResidueRange ==
    \A annual, residue \in Int : ChargeResidue(annual, residue) \in 0 .. Year - 1
<1> SUFFICES ASSUME NEW annual \in Int, NEW residue \in Int
             PROVE  ChargeResidue(annual, residue) \in 0 .. Year - 1
    OBVIOUS
<1>1. annual % Year \in Int /\ Period \in Int /\ Year \in Nat \ {0}
    BY SettlementAssumption DEF SettlementAssumption
<1>2. (annual % Year) * Period \in Int
    BY <1>1
<1>3. Accrued(annual, residue) \in Int
    BY <1>2 DEF Accrued
<1> QED BY <1>1, <1>3 DEF ChargeResidue

LEMMA EarningsResidueRange ==
    \A cents, residue \in Int : EarningsResidue(cents, residue) \in 0 .. Scale - 1
<1> SUFFICES ASSUME NEW cents \in Int, NEW residue \in Int
             PROVE  EarningsResidue(cents, residue) \in 0 .. Scale - 1
    OBVIOUS
<1>1. cents % Scale \in Int /\ Multiplier \in Int /\ Scale \in Nat \ {0}
    BY SettlementAssumption DEF SettlementAssumption
<1>2. (cents % Scale) * Multiplier \in Int
    BY <1>1
<1>3. Scaled(cents, residue) \in Int
    BY <1>2 DEF Scaled
<1> QED BY <1>1, <1>3 DEF EarningsResidue

\* Whole dollars leave less than a dollar, of the sign of the amount.
LEMMA DollarsSplit ==
    \A n \in Int : Dollars(n) \in Int /\ n - 100 * Dollars(n) \in -99 .. 99
BY DEF Dollars

\* Interest is never negative: it is charged on what is drawn.
LEMMA InterestType == \A balance \in Int : Interest(balance) \in Nat
<1> SUFFICES ASSUME NEW balance \in Int PROVE Interest(balance) \in Nat
    OBVIOUS
<1>1. PICK drawn \in Nat : drawn = Drawn(balance)
    BY DEF Drawn
<1>2. PICK rate \in Nat : rate = Permille * Period
    BY SettlementAssumption DEF SettlementAssumption
<1>3. drawn \div 3600000 \in Nat /\ drawn % 3600000 \in Nat
    BY <1>1
<1>4. (drawn \div 3600000) * rate \in Nat /\ (drawn % 3600000) * rate \in Nat
    BY <1>2, <1>3
<1>5. ((drawn % 3600000) * rate) \div 3600000 \in Nat
    BY <1>4
<1> QED BY <1>1, <1>2, <1>4, <1>5 DEF Interest

LEMMA NetRange == \A c \in Companies : Net(c, Earned) \in -Limit .. Limit
<1> SUFFICES ASSUME NEW c \in Companies PROVE Net(c, Earned) \in -Limit .. Limit
    OBVIOUS
<1>1. Income(c, Earned) \in Int /\ Cost(c) \in Int
    BY SaturateRange, SettlementAssumption DEF SettlementAssumption, Income, Total, Cost
<1> QED BY <1>1, SignedRange DEF Net

LEMMA CostType == \A c \in Companies : Cost(c) \in Nat
BY SaturateRange, SettlementAssumption DEF SettlementAssumption, Cost

-----------------------------------------------------------------------------
(* Sums over finite sets *)

\* A part of a finite set, and what picking an element of it leaves.
Pick(s) == CHOOSE x \in s : TRUE
LEMMA Parts ==
    ASSUME NEW S, IsFiniteSet(S)
    PROVE  \A s \in SUBSET S :
             /\ IsFiniteSet(s) /\ Cardinality(s) \in Nat /\ Cardinality(s) <= Cardinality(S)
             /\ s = {} <=> Cardinality(s) = 0
             /\ s \ {Pick(s)} \in SUBSET S
             /\ s # {} => Pick(s) \in s
             /\ \A x \in s : Cardinality(s \ {x}) = Cardinality(s) - 1 /\ Cardinality(s) - 1 \in Nat
<1> SUFFICES ASSUME NEW s \in SUBSET S
             PROVE  /\ IsFiniteSet(s) /\ Cardinality(s) \in Nat /\ Cardinality(s) <= Cardinality(S)
                    /\ s = {} <=> Cardinality(s) = 0
                    /\ s \ {Pick(s)} \in SUBSET S
                    /\ s # {} => Pick(s) \in s
                    /\ \A x \in s : Cardinality(s \ {x}) = Cardinality(s) - 1 /\ Cardinality(s) - 1 \in Nat
    OBVIOUS
<1>1. IsFiniteSet(s) /\ Cardinality(s) <= Cardinality(S)
    BY FS_Subset
<1>2. Cardinality(s) \in Nat
    BY <1>1, FS_CardinalityType
<1>3. s = {} <=> Cardinality(s) = 0
    BY <1>1, FS_EmptySet
<1>4. s # {} => Pick(s) \in s
    BY DEF Pick
<1>5. ASSUME NEW x \in s
      PROVE  Cardinality(s \ {x}) = Cardinality(s) - 1 /\ Cardinality(s) - 1 \in Nat
    <2>1. Cardinality(s \ {x}) = Cardinality(s) - 1 /\ IsFiniteSet(s \ {x})
        BY <1>1, FS_RemoveElement
    <2>2. Cardinality(s \ {x}) \in Nat
        BY <2>1, FS_CardinalityType
    <2> QED BY <2>1, <2>2
<1> QED BY <1>1, <1>2, <1>3, <1>4, <1>5

\* Among some parts of a finite set there is one none of whose own parts is among them.
LEMMA Smallest ==
    ASSUME NEW S, IsFiniteSet(S), NEW Bad \in SUBSET SUBSET S, Bad # {}
    PROVE  \E T \in Bad : \A U \in SUBSET T : U # T => U \notin Bad
<1> DEFINE C == {n \in Nat : \E T \in Bad : Cardinality(T) = n}
<1>1. C # {} /\ C \subseteq Nat
    <2>1. \A T \in Bad : Cardinality(T) \in Nat
        BY Parts
    <2> QED BY <2>1
<1>2. PICK n \in C : \A m \in C : n <= m
    BY <1>1, Least
<1>3. PICK T \in Bad : Cardinality(T) = n
    BY <1>2
<1>4. ASSUME NEW U \in SUBSET T, U # T, U \in Bad PROVE FALSE
    <2>1. IsFiniteSet(T) /\ Cardinality(T) \in Nat /\ Cardinality(U) \in Nat
        BY Parts
    <2>2. Cardinality(U) <= Cardinality(T) /\ Cardinality(U) # Cardinality(T)
        BY <1>4, <2>1, FS_Subset
    <2>3. n <= Cardinality(U)
        BY <1>2, <1>4, <2>1
    <2> QED BY <1>3, <2>1, <2>2, <2>3
<1> QED BY <1>3, <1>4

\* What is true of the empty set, and of one element more, is true of a finite set.
LEMMA OneByOne ==
    ASSUME NEW S, IsFiniteSet(S), NEW P, {} \in P,
           \A T \in SUBSET S : T \in P => \A x \in S \ T : T \union {x} \in P
    PROVE  S \in P
<1> DEFINE Bad == {T \in SUBSET S : T \notin P}
<1> SUFFICES ASSUME S \notin P PROVE FALSE
    OBVIOUS
<1>1. Bad # {} /\ Bad \in SUBSET SUBSET S
    OBVIOUS
<1> HIDE DEF Bad
<1>2. PICK T \in Bad : \A U \in SUBSET T : U # T => U \notin Bad
    BY <1>1, Smallest
<1>3. T \in SUBSET S /\ T \notin P
    BY <1>2 DEF Bad
<1>4. PICK x \in T : TRUE
    BY <1>3
<1>5. T \ {x} \in P
    BY <1>2, <1>3, <1>4 DEF Bad
<1>6. (T \ {x}) \union {x} = T /\ x \in S \ (T \ {x}) /\ T \ {x} \in SUBSET S
    BY <1>3, <1>4
<1> QED BY <1>3, <1>5, <1>6

\* g adds up the subsets of S of at most n elements.
Adds(f, S, n, g) ==
    g = [s \in SUBSET S |->
           IF s = {} \/ Cardinality(s) > n THEN 0 ELSE f[Pick(s)] + g[s \ {Pick(s)}]]

LEMMA AddsExists ==
    ASSUME NEW f, NEW S, IsFiniteSet(S)
    PROVE  \A n \in Nat : \E g : Adds(f, S, n, g)
<1> DEFINE T == {n \in Nat : ~ \E g : Adds(f, S, n, g)}
<1> SUFFICES ASSUME T # {} PROVE FALSE
    OBVIOUS
<1>1. PICK n \in T : \A m \in T : n <= m
    BY Least
<1>0. \A s \in SUBSET S : /\ IsFiniteSet(s) /\ Cardinality(s) \in Nat
                          /\ s # {} => /\ Pick(s) \in s
                                       /\ Cardinality(s \ {Pick(s)}) = Cardinality(s) - 1
                          /\ Cardinality(s) = 0 <=> s = {}
    BY Parts
<1>2. n # 0
    <2> DEFINE g == [s \in SUBSET S |-> 0]
    <2>1. \A s \in SUBSET S : s = {} \/ Cardinality(s) > 0
        <3> SUFFICES ASSUME NEW s \in SUBSET S, s # {} PROVE Cardinality(s) > 0
            OBVIOUS
        <3>1. Cardinality(s) \in Nat /\ Cardinality(s) # 0
            BY Parts
        <3> QED BY <3>1
    <2>2. Adds(f, S, 0, g)
        BY <2>1 DEF Adds
    <2> QED BY <2>2
<1>3. n - 1 \in Nat /\ n - 1 \notin T /\ n \in Nat
    BY <1>1, <1>2
<1>4. PICK h : Adds(f, S, n - 1, h)
    BY <1>3
<1> DEFINE g == [s \in SUBSET S |->
                    IF s = {} \/ Cardinality(s) > n THEN 0 ELSE f[Pick(s)] + h[s \ {Pick(s)}]]
<1>5. ASSUME NEW s \in SUBSET S, s # {}, Cardinality(s) <= n
      PROVE  g[s \ {Pick(s)}] = h[s \ {Pick(s)}]
    <2> DEFINE r == s \ {Pick(s)}
    <2>0. r \in SUBSET S /\ Cardinality(r) = Cardinality(s) - 1
        BY <1>0, <1>5
    <2>1. r \in SUBSET S /\ Cardinality(r) \in Nat /\ Cardinality(r) <= n - 1
        <3>1. Cardinality(r) \in Nat /\ Cardinality(s) \in Nat
            BY <1>0, <2>0
        <3> QED BY <1>3, <1>5, <2>0, <3>1
    <2>2. h[r] = IF r = {} \/ Cardinality(r) > n - 1 THEN 0 ELSE f[Pick(r)] + h[r \ {Pick(r)}]
        BY <1>4, <2>1 DEF Adds
    <2> HIDE DEF r
    <2>3. g[r] = h[r]
        BY <1>3, <2>1, <2>2
    <2> QED BY <2>3 DEF r
<1>6. Adds(f, S, n, g)
    <2>1. \A s \in SUBSET S : ~(s = {} \/ Cardinality(s) > n) => s # {} /\ Cardinality(s) <= n
        <3> SUFFICES ASSUME NEW s \in SUBSET S, ~(Cardinality(s) > n) PROVE Cardinality(s) <= n
            OBVIOUS
        <3>1. Cardinality(s) \in Nat
            BY Parts
        <3> QED BY <1>3, <3>1
    <2>2. \A s \in SUBSET S :
             g[s] = IF s = {} \/ Cardinality(s) > n THEN 0 ELSE f[Pick(s)] + g[s \ {Pick(s)}]
        BY <1>5, <2>1
    <2> HIDE DEF g
    <2>3. g = [s \in SUBSET S |-> g[s]]
        BY DEF g
    <2> QED BY <2>2, <2>3 DEF Adds
<1> QED BY <1>1, <1>6

\* So the sum of the community modules picks one element after the other.
Iter(f, S) ==
    LET iter[s \in SUBSET S] == IF s = {} THEN 0 ELSE f[Pick(s)] + iter[s \ {Pick(s)}]
    IN  iter
LEMMA SumIter == ASSUME NEW f, NEW S PROVE SumFunctionOnSet(f, S) = Iter(f, S)[S]
BY DEF SumFunctionOnSet, FoldFunctionOnSet, MapThenFoldSet, Iter, Pick

LEMMA IterSteps ==
    ASSUME NEW f, NEW S, IsFiniteSet(S)
    PROVE  \A s \in SUBSET S :
             Iter(f, S)[s] = IF s = {} THEN 0 ELSE f[Pick(s)] + Iter(f, S)[s \ {Pick(s)}]
<1> DEFINE Is(g) ==
       g = [s \in SUBSET S |-> IF s = {} THEN 0 ELSE f[Pick(s)] + g[s \ {Pick(s)}]]
<1>1. Iter(f, S) = CHOOSE g : Is(g)
    BY DEF Iter
<1>2. \E g : Is(g)
    <2>1. Cardinality(S) \in Nat
        BY FS_CardinalityType
    <2>2. PICK g : Adds(f, S, Cardinality(S), g)
        BY <2>1, AddsExists
    <2>3. \A s \in SUBSET S : ~(Cardinality(s) > Cardinality(S))
        <3>1. \A s \in SUBSET S : Cardinality(s) <= Cardinality(S) /\ Cardinality(s) \in Nat
            BY FS_Subset, FS_CardinalityType
        <3> QED BY <2>1, <3>1
    <2>4. Is(g)
        BY <2>2, <2>3 DEF Adds
    <2> QED BY <2>4
<1>3. Is(Iter(f, S))
    BY <1>1, <1>2
<1> HIDE DEF Iter
<1> QED BY <1>3

\* It picks the same from a set as from a part of it.
LEMMA IterPart ==
    ASSUME NEW f, NEW S, IsFiniteSet(S), NEW R \in SUBSET S
    PROVE  Iter(f, S)[R] = Iter(f, R)[R]
<1> DEFINE a(s) == Iter(f, S)[s]
           b(s) == Iter(f, R)[s]
           T == {n \in Nat : \E s \in SUBSET R : Cardinality(s) = n /\ a(s) # b(s)}
<1>1. /\ \A s \in SUBSET R : /\ s \in SUBSET S /\ IsFiniteSet(s) /\ Cardinality(s) \in Nat
                             /\ s \ {Pick(s)} \in SUBSET R
                             /\ s # {} => Cardinality(s \ {Pick(s)}) = Cardinality(s) - 1
                                          /\ Cardinality(s) - 1 \in Nat
      /\ IsFiniteSet(R)
    <2>1. IsFiniteSet(R)
        BY FS_Subset
    <2> QED BY <2>1, Parts
<1>2. \A s \in SUBSET R : /\ a(s) = IF s = {} THEN 0 ELSE f[Pick(s)] + a(s \ {Pick(s)})
                          /\ b(s) = IF s = {} THEN 0 ELSE f[Pick(s)] + b(s \ {Pick(s)})
    <2> SUFFICES ASSUME NEW s \in SUBSET R
                 PROVE  /\ a(s) = IF s = {} THEN 0 ELSE f[Pick(s)] + a(s \ {Pick(s)})
                        /\ b(s) = IF s = {} THEN 0 ELSE f[Pick(s)] + b(s \ {Pick(s)})
        OBVIOUS
    <2>1. s \in SUBSET S
        OBVIOUS
    <2>2. a(s) = IF s = {} THEN 0 ELSE f[Pick(s)] + a(s \ {Pick(s)})
        BY <2>1, IterSteps
    <2>3. IsFiniteSet(R)
        BY FS_Subset
    <2>4. b(s) = IF s = {} THEN 0 ELSE f[Pick(s)] + b(s \ {Pick(s)})
        BY <2>3, IterSteps
    <2> QED BY <2>2, <2>4
<1> HIDE DEF a, b
<1>3. T = {}
    <2> SUFFICES ASSUME T # {} PROVE FALSE
        OBVIOUS
    <2>1. PICK n \in T : \A m \in T : n <= m
        BY Least
    <2>2. PICK s \in SUBSET R : Cardinality(s) = n /\ a(s) # b(s)
        BY <2>1
    <2>3. s # {}
        BY <1>2, <2>2
    <2>4. n - 1 \notin T /\ n \in Nat
        BY <1>1, <2>1, <2>2
    <2>5. a(s \ {Pick(s)}) = b(s \ {Pick(s)})
        BY <1>1, <2>2, <2>3, <2>4
    <2> QED BY <1>2, <2>2, <2>3, <2>5
<1> QED BY <1>1, <1>3 DEF a, b

LEMMA SumPick ==
    ASSUME NEW f, NEW S, IsFiniteSet(S)
    PROVE  /\ SumFunctionOnSet(f, {}) = 0
           /\ S # {} => /\ Pick(S) \in S
                        /\ SumFunctionOnSet(f, S)
                             = f[Pick(S)] + SumFunctionOnSet(f, S \ {Pick(S)})
<1>1. SumFunctionOnSet(f, {}) = 0
    BY FS_EmptySet, SumIter, IterSteps
<1>2. ASSUME S # {}
      PROVE  SumFunctionOnSet(f, S) = f[Pick(S)] + SumFunctionOnSet(f, S \ {Pick(S)})
    <2>1. Iter(f, S)[S] = f[Pick(S)] + Iter(f, S)[S \ {Pick(S)}]
        BY <1>2, IterSteps
    <2>2. Iter(f, S)[S \ {Pick(S)}] = Iter(f, S \ {Pick(S)})[S \ {Pick(S)}]
        BY IterPart
    <2> QED BY <2>1, <2>2, SumIter
<1>3. S # {} => Pick(S) \in S
    BY DEF Pick
<1> QED BY <1>1, <1>2, <1>3

\* A sum of integers is one, and any of them may be taken out of it.
LEMMA SumInt ==
    ASSUME NEW f, NEW S, IsFiniteSet(S), \A x \in S : f[x] \in Int
    PROVE  SumFunctionOnSet(f, S) \in Int
<1> DEFINE Bad == {T \in SUBSET S : SumFunctionOnSet(f, T) \notin Int}
<1> SUFFICES ASSUME S \in Bad PROVE FALSE
    OBVIOUS
<1>1. Bad # {} /\ Bad \in SUBSET SUBSET S
    OBVIOUS
<1>2. \E T \in Bad : \A U \in SUBSET T : U # T => U \notin Bad
    <2> HIDE DEF Bad
    <2> QED BY <1>1, Smallest
<1>3. PICK T \in SUBSET S :
          SumFunctionOnSet(f, T) \notin Int /\ \A U \in SUBSET T : U # T => U \notin Bad
    BY <1>2
<1>4. IsFiniteSet(T)
    BY Parts
<1>5. T # {}
    <2>1. SumFunctionOnSet(f, {}) = 0
        BY <1>4, SumPick
    <2>2. ASSUME T = {} PROVE SumFunctionOnSet(f, T) = 0
        BY <2>1, <2>2, Zenon
    <2> QED BY <1>3, <2>2
<1>6. Pick(T) \in T
      /\ SumFunctionOnSet(f, T) = f[Pick(T)] + SumFunctionOnSet(f, T \ {Pick(T)})
    BY <1>4, <1>5, SumPick
<1>7. SumFunctionOnSet(f, T \ {Pick(T)}) \in Int
    BY <1>3, <1>6
<1> QED BY <1>3, <1>6, <1>7

LEMMA SumRemove ==
    ASSUME NEW f, NEW S, IsFiniteSet(S), \A x \in S : f[x] \in Int, NEW x \in S
    PROVE  SumFunctionOnSet(f, S) = f[x] + SumFunctionOnSet(f, S \ {x})
<1> DEFINE Sum(T) == SumFunctionOnSet(f, T)
           Bad == {T \in SUBSET S : \E y \in T : Sum(T) # f[y] + Sum(T \ {y})}
<1> SUFFICES ASSUME S \in Bad PROVE FALSE
    OBVIOUS
<1>1. Bad # {} /\ Bad \in SUBSET SUBSET S
    OBVIOUS
<1>2. \E T \in Bad : \A U \in SUBSET T : U # T => U \notin Bad
    <2> HIDE DEF Bad
    <2> QED BY <1>1, Smallest
<1>3. PICK T \in SUBSET S : /\ T \in Bad
                            /\ \A U \in SUBSET T : U # T => U \notin Bad
    BY <1>2
<1>4. PICK y \in T : Sum(T) # f[y] + Sum(T \ {y})
    BY <1>3
<1>5. \A U \in SUBSET S : /\ IsFiniteSet(U) /\ Sum(U) \in Int
                          /\ U # {} => Pick(U) \in U /\ Sum(U) = f[Pick(U)] + Sum(U \ {Pick(U)})
    <2> SUFFICES ASSUME NEW U \in SUBSET S
                 PROVE  /\ IsFiniteSet(U) /\ Sum(U) \in Int
                        /\ U # {} => Pick(U) \in U
                                     /\ Sum(U) = f[Pick(U)] + Sum(U \ {Pick(U)})
        OBVIOUS
    <2>1. IsFiniteSet(U)
        BY Parts
    <2>2. \A z \in U : f[z] \in Int
        OBVIOUS
    <2>3. Sum(U) \in Int
        BY <2>1, <2>2, SumInt
    <2> QED BY <2>1, <2>3, SumPick
<1> HIDE DEF Sum
<1> DEFINE p == Pick(T)
<1>6. p \in T /\ Sum(T) = f[p] + Sum(T \ {p})
    BY <1>4, <1>5
<1> HIDE DEF p
<1>7. p # y
    BY <1>4, <1>6
<1>8. Sum(T \ {p}) = f[y] + Sum((T \ {p}) \ {y})
    <2>1. T \ {p} \notin Bad /\ T \ {p} \in SUBSET S /\ y \in T \ {p}
        BY <1>3, <1>6, <1>7
    <2> QED BY <2>1
<1>9. Sum(T \ {y}) = f[p] + Sum((T \ {y}) \ {p})
    <2>1. T \ {y} \notin Bad /\ T \ {y} \in SUBSET S /\ p \in T \ {y}
        BY <1>3, <1>4, <1>6, <1>7
    <2> QED BY <2>1
<1> HIDE DEF Bad
<1>10. PICK rest \in Int : rest = Sum((T \ {p}) \ {y})
    BY <1>5
<1>11. Sum((T \ {y}) \ {p}) = rest
    <2>1. (T \ {y}) \ {p} = (T \ {p}) \ {y}
        OBVIOUS
    <2> QED BY <1>10, <2>1
<1>12. PICK fp \in Int, fy \in Int : fp = f[p] /\ fy = f[y]
    BY <1>6
<1>13. Sum(T) = fp + (fy + rest) /\ Sum(T \ {y}) = fp + rest
    BY <1>6, <1>8, <1>9, <1>10, <1>11, <1>12
<1> QED BY <1>4, <1>12, <1>13

\* So a sum grows by what is put into the set.
LEMMA SumAdd ==
    ASSUME NEW f, NEW S, IsFiniteSet(S), NEW x, x \notin S, \A y \in S \union {x} : f[y] \in Int
    PROVE  SumFunctionOnSet(f, S \union {x}) = f[x] + SumFunctionOnSet(f, S)
<1>1. IsFiniteSet(S \union {x})
    BY FS_AddElement
<1>2. (S \union {x}) \ {x} = S /\ x \in S \union {x}
    OBVIOUS
<1> QED BY <1>1, <1>2, SumRemove

\* Two sums in step: what each element adds to two sums holds of the sums.
LEMMA SumsInStep ==
    ASSUME NEW S, IsFiniteSet(S), NEW k \in Int, NEW m \in Int, NEW a, NEW f, NEW b, NEW g,
           \A x \in S : /\ a[x] \in Int /\ f[x] \in Int /\ b[x] \in Int /\ g[x] \in Int
                        /\ k * a[x] + f[x] = m * b[x] + g[x]
    PROVE  k * SumFunctionOnSet(a, S) + SumFunctionOnSet(f, S)
             = m * SumFunctionOnSet(b, S) + SumFunctionOnSet(g, S)
<1> DEFINE A(T) == SumFunctionOnSet(a, T)
           F(T) == SumFunctionOnSet(f, T)
           B(T) == SumFunctionOnSet(b, T)
           G(T) == SumFunctionOnSet(g, T)
           P == {T \in SUBSET S : k * A(T) + F(T) = m * B(T) + G(T)}
<1>1. {} \in P
    <2>1. IsFiniteSet({})
        BY FS_EmptySet
    <2>2. A({}) = 0 /\ F({}) = 0 /\ B({}) = 0 /\ G({}) = 0
        BY <2>1, SumPick
    <2>3. k * A({}) + F({}) = m * B({}) + G({})
        BY <2>2
    <2> QED BY <2>3
<1>2. ASSUME NEW T \in SUBSET S, T \in P, NEW x \in S \ T PROVE T \union {x} \in P
    <2>1. IsFiniteSet(T)
        BY Parts
    <2>2. /\ A(T) \in Int /\ F(T) \in Int /\ B(T) \in Int /\ G(T) \in Int
        BY <2>1, SumInt
    <2>3. /\ A(T \union {x}) = a[x] + A(T) /\ F(T \union {x}) = f[x] + F(T)
          /\ B(T \union {x}) = b[x] + B(T) /\ G(T \union {x}) = g[x] + G(T)
        BY <2>1, SumAdd
    <2>4. k * A(T) + F(T) = m * B(T) + G(T)
        BY <1>2
    <2>5. /\ a[x] \in Int /\ f[x] \in Int /\ b[x] \in Int /\ g[x] \in Int
          /\ k * a[x] + f[x] = m * b[x] + g[x]
        OBVIOUS
    <2>6. k * A(T \union {x}) + F(T \union {x}) = m * B(T \union {x}) + G(T \union {x})
        <3> HIDE DEF A, F, B, G
        <3> HIDE DEF P
        <3>1. k * (a[x] + A(T)) = k * a[x] + k * A(T) /\ m * (b[x] + B(T)) = m * b[x] + m * B(T)
            BY <2>2, <2>5
        <3>2. /\ k * a[x] \in Int /\ k * A(T) \in Int /\ m * b[x] \in Int /\ m * B(T) \in Int
            BY <2>2, <2>5
        <3>3. k * A(T \union {x}) = k * a[x] + k * A(T)
              /\ m * B(T \union {x}) = m * b[x] + m * B(T)
            BY <2>3, <3>1
        <3>4. PICK ka \in Int, kA \in Int, mb \in Int, mB \in Int :
                 ka = k * a[x] /\ kA = k * A(T) /\ mb = m * b[x] /\ mB = m * B(T)
            BY <3>2
        <3>5. /\ ka + f[x] = mb + g[x] /\ kA + F(T) = mB + G(T)
              /\ k * A(T \union {x}) = ka + kA /\ m * B(T \union {x}) = mb + mB
            BY <2>4, <2>5, <3>3, <3>4
        <3>6. /\ f[x] \in Int /\ F(T) \in Int /\ g[x] \in Int /\ G(T) \in Int
            BY <2>2, <2>5
        <3>7. ka + kA + (f[x] + F(T)) = mb + mB + (g[x] + G(T))
            <4>1. PICK u \in Int, v \in Int, w \in Int, z \in Int :
                     u = f[x] /\ v = F(T) /\ w = g[x] /\ z = G(T)
                BY <3>6
            <4>2. ka + u = mb + w /\ kA + v = mB + z
                BY <3>5, <4>1
            <4>3. ka + kA + (u + v) = mb + mB + (w + z)
                BY ONLY <4>2, ka \in Int, kA \in Int, mb \in Int, mB \in Int,
                        u \in Int, v \in Int, w \in Int, z \in Int
            <4> QED BY <4>1, <4>3
        <3> QED BY <2>3, <3>5, <3>7
    <2> QED BY <2>6
<1>3. S \in P
    <2> HIDE DEF P
    <2> QED BY <1>1, <1>2, OneByOne
<1> QED BY <1>3

\* Nothings add up to nothing.
LEMMA SumZero ==
    ASSUME NEW S, IsFiniteSet(S), NEW f, \A x \in S : f[x] = 0
    PROVE  SumFunctionOnSet(f, S) = 0
<1> DEFINE s == SumFunctionOnSet(f, S)
<1>1. 1 * s + s = 0 * s + s
    <2>1. \A x \in S : f[x] \in Int /\ 1 * f[x] + f[x] = 0 * f[x] + f[x]
        OBVIOUS
    <2> QED BY <2>1, SumsInStep
<1>2. s \in Int
    BY SumInt
<1> HIDE DEF s
<1>3. s = 0
    BY <1>1, <1>2
<1> QED BY <1>3 DEF s

\* Equal summands, equal sums.
LEMMA SumSame ==
    ASSUME NEW S, IsFiniteSet(S), NEW f, NEW g, \A x \in S : f[x] \in Int /\ g[x] = f[x]
    PROVE  SumFunctionOnSet(g, S) = SumFunctionOnSet(f, S)
<1> DEFINE F(T) == SumFunctionOnSet(f, T)
           G(T) == SumFunctionOnSet(g, T)
           P == {T \in SUBSET S : G(T) = F(T)}
<1>1. {} \in P
    <2>1. IsFiniteSet({})
        BY FS_EmptySet
    <2>2. F({}) = 0 /\ G({}) = 0
        BY <2>1, SumPick
    <2> QED BY <2>2
<1>2. ASSUME NEW T \in SUBSET S, T \in P, NEW x \in S \ T PROVE T \union {x} \in P
    <2>1. IsFiniteSet(T)
        BY Parts
    <2>2. F(T \union {x}) = f[x] + F(T)
        BY <2>1, SumAdd
    <2>3. G(T \union {x}) = g[x] + G(T)
        BY <2>1, SumAdd
    <2> QED BY <1>2, <2>2, <2>3
<1>3. S \in P
    <2> HIDE DEF P
    <2> QED BY <1>1, <1>2, OneByOne
<1> QED BY <1>3

\* A sum is made of the sum over a part and the sum over the rest.
LEMMA SumSplit ==
    ASSUME NEW S, IsFiniteSet(S), NEW f, \A x \in S : f[x] \in Int, NEW R \in SUBSET S
    PROVE  SumFunctionOnSet(f, S) = SumFunctionOnSet(f, R) + SumFunctionOnSet(f, S \ R)
<1> DEFINE F(T) == SumFunctionOnSet(f, T)
           P == {T \in SUBSET R : F(S) = F(T) + F(S \ T)}
<1>1. \A T \in SUBSET S : IsFiniteSet(T) /\ F(T) \in Int
    <2> SUFFICES ASSUME NEW T \in SUBSET S PROVE IsFiniteSet(T) /\ F(T) \in Int
        OBVIOUS
    <2>1. IsFiniteSet(T)
        BY Parts
    <2> QED BY <2>1, SumInt
<1>2. {} \in P
    <2>1. F({}) = 0
        BY <1>1, SumPick
    <2>2. S \ {} = S
        OBVIOUS
    <2>3. F(S \ {}) = F(S)
        BY <2>2, Zenon
    <2>4. F(S) = F({}) + F(S \ {})
        BY <1>1, <2>1, <2>3
    <2> QED BY <2>4
<1>3. ASSUME NEW T \in SUBSET R, T \in P, NEW x \in R \ T PROVE T \union {x} \in P
    <2>1. F(T \union {x}) = f[x] + F(T)
        BY <1>1, SumAdd
    <2>2. F(S \ T) = f[x] + F((S \ T) \ {x})
        BY <1>1, SumRemove
    <2>3. (S \ T) \ {x} = S \ (T \union {x})
        OBVIOUS
    <2>4. F((S \ T) \ {x}) = F(S \ (T \union {x}))
        BY <2>3, Zenon
    <2>5. F(S) = F(T) + F(S \ T)
        BY <1>3
    <2>6. F(T) \in Int /\ F(S \ (T \union {x})) \in Int /\ f[x] \in Int
        BY <1>1
    <2>7. F(S) = F(T \union {x}) + F(S \ (T \union {x}))
        <3> HIDE DEF F, P
        <3> QED BY <2>1, <2>2, <2>4, <2>5, <2>6
    <2> QED BY <2>7
<1>4. R \in P
    <2>1. IsFiniteSet(R)
        BY <1>1
    <2> HIDE DEF P
    <2> QED BY <1>2, <1>3, <2>1, OneByOne
<1> QED BY <1>4

\* A sum of natural numbers is one and is no less than any of them, or than a part of it.
LEMMA SumNat ==
    ASSUME NEW S, IsFiniteSet(S), NEW f, \A x \in S : f[x] \in Nat
    PROVE  /\ SumFunctionOnSet(f, S) \in Nat
           /\ \A x \in S : f[x] <= SumFunctionOnSet(f, S)
           /\ \A R \in SUBSET S : SumFunctionOnSet(f, R) <= SumFunctionOnSet(f, S)
<1> DEFINE F(T) == SumFunctionOnSet(f, T)
           P == {T \in SUBSET S : F(T) \in Nat}
<1>1. {} \in P
    <2>1. IsFiniteSet({})
        BY FS_EmptySet
    <2>2. F({}) = 0
        BY <2>1, SumPick
    <2> QED BY <2>2
<1>2. ASSUME NEW T \in SUBSET S, T \in P, NEW x \in S \ T PROVE T \union {x} \in P
    <2>1. IsFiniteSet(T)
        BY Parts
    <2>2. F(T \union {x}) = f[x] + F(T)
        BY <2>1, SumAdd
    <2>3. F(T \union {x}) \in Nat
        <3> HIDE DEF F
        <3>1. F(T) \in Nat /\ f[x] \in Nat
            BY <1>2 
        <3> QED BY <2>2, <3>1
    <2> QED BY <2>3
<1>3. ASSUME NEW R \in SUBSET S PROVE F(R) \in Nat
    <2> DEFINE Q == {T \in SUBSET R : F(T) \in Nat}
    <2>1. {} \in Q
        BY <1>1
    <2>2. ASSUME NEW T \in SUBSET R, T \in Q, NEW x \in R \ T PROVE T \union {x} \in Q
        BY <1>2, <2>2
    <2>3. IsFiniteSet(R)
        BY Parts
    <2> HIDE DEF Q
    <2>4. R \in Q
        BY <2>1, <2>2, <2>3, OneByOne
    <2> QED BY <2>4 DEF Q
<1>4. ASSUME NEW R \in SUBSET S PROVE F(R) <= F(S)
    <2>1. F(S) = F(R) + F(S \ R)
        BY SumSplit
    <2>2. F(S) \in Nat /\ F(R) \in Nat /\ F(S \ R) \in Nat
        BY <1>3
    <2> HIDE DEF F
    <2> QED BY <2>1, <2>2
<1>5. ASSUME NEW x \in S PROVE f[x] <= F(S)
    <2>1. F(S) = f[x] + F(S \ {x})
        BY SumRemove
    <2>2. f[x] \in Nat /\ F(S \ {x}) \in Nat
        BY <1>3
    <2> HIDE DEF F
    <2> QED BY <2>1, <2>2
<1> QED BY <1>3, <1>4, <1>5

\* A sum over disjoint sets is the sum of the sums over each.
LEMMA SumOfSums ==
    ASSUME NEW M, IsFiniteSet(M), NEW V, IsFiniteSet(V), NEW f, \A v \in V : f[v] \in Int,
           NEW Of, \A l \in M : Of[l] \in SUBSET V,
           \A l, k \in M : l # k => Of[l] \cap Of[k] = {},
           NEW g, \A l \in M : g[l] = SumFunctionOnSet(f, Of[l])
    PROVE  SumFunctionOnSet(g, M) = SumFunctionOnSet(f, UNION {Of[l] : l \in M})
<1> DEFINE F(T) == SumFunctionOnSet(f, T)
           G(T) == SumFunctionOnSet(g, T)
           U(T) == UNION {Of[l] : l \in T}
           P == {T \in SUBSET M : G(T) = F(U(T))}
<1>1. \A T \in SUBSET V : IsFiniteSet(T) /\ F(T) \in Int
    <2> SUFFICES ASSUME NEW T \in SUBSET V PROVE IsFiniteSet(T) /\ F(T) \in Int
        OBVIOUS
    <2>1. IsFiniteSet(T)
        BY Parts
    <2> QED BY <2>1, SumInt
<1>2. {} \in P
    <2>1. F({}) = 0 /\ G({}) = 0
        <3>1. IsFiniteSet({})
            BY FS_EmptySet
        <3> QED BY <3>1, SumPick
    <2>2. U({}) = {}
        OBVIOUS
    <2>3. F(U({})) = F({})
        BY <2>2, Zenon
    <2>4. G({}) = F(U({}))
        BY <2>1, <2>3
    <2> QED BY <2>4
<1>3. ASSUME NEW T \in SUBSET M, T \in P, NEW k \in M \ T PROVE T \union {k} \in P
    <2>1. IsFiniteSet(T) /\ \A l \in T \union {k} : g[l] \in Int
        BY <1>1, Parts
    <2>2. G(T \union {k}) = g[k] + G(T)
        BY <2>1, SumAdd
    <2> DEFINE W == U(T \union {k})
    <2>3. W \in SUBSET V /\ U(T) \in SUBSET W /\ W \ U(T) = Of[k]
        OBVIOUS
    <2>4. F(W) = F(U(T)) + F(W \ U(T))
        <3>1. IsFiniteSet(W) /\ \A v \in W : f[v] \in Int
            BY <1>1, <2>3
        <3> HIDE DEF W, U
        <3> QED BY <2>3, <3>1, SumSplit
    <2>5. F(W \ U(T)) = F(Of[k])
        BY <2>3, Zenon
    <2>6. g[k] = F(Of[k]) /\ F(Of[k]) \in Int
        BY <1>1
    <2>7. G(T) = F(U(T)) /\ F(U(T)) \in Int
        BY <1>1, <1>3, <2>3
    <2>8. G(T \union {k}) = F(W)
        <3> HIDE DEF F, G, U, W
        <3> QED BY <2>2, <2>4, <2>5, <2>6, <2>7
    <2> QED BY <2>8
<1>4. M \in P
    <2> HIDE DEF P
    <2> QED BY <1>2, <1>3, OneByOne
<1> QED BY <1>4

\* What part of a set adds, when the rest of it does not change.
LEMMA SumsCarried ==
    ASSUME NEW T, IsFiniteSet(T), NEW S \in SUBSET T, NEW k \in Int, NEW m \in Int,
           NEW a, NEW f, NEW b, NEW g,
           \A x \in T : f[x] \in Int /\ g[x] \in Int,
           \A x \in T \ S : f[x] = g[x],
           \A x \in S : /\ a[x] \in Int /\ b[x] \in Int
                        /\ k * a[x] + f[x] = m * b[x] + g[x]
    PROVE  k * SumFunctionOnSet(a, S) + SumFunctionOnSet(f, T)
             = m * SumFunctionOnSet(b, S) + SumFunctionOnSet(g, T)
<1> DEFINE A == SumFunctionOnSet(a, S)
           B == SumFunctionOnSet(b, S)
           F(U) == SumFunctionOnSet(f, U)
           G(U) == SumFunctionOnSet(g, U)
<1>1. IsFiniteSet(S) /\ IsFiniteSet(T \ S)
    BY Parts
<1>2. k * A + F(S) = m * B + G(S)
    BY <1>1, SumsInStep
<1>3. F(T \ S) = G(T \ S)
    BY <1>1, SumSame
<1>4. F(T) = F(S) + F(T \ S) /\ G(T) = G(S) + G(T \ S)
    BY SumSplit
<1>5. /\ F(S) \in Int /\ F(T \ S) \in Int /\ G(S) \in Int /\ G(T \ S) \in Int
      /\ A \in Int /\ B \in Int
    BY <1>1, SumInt
<1> HIDE DEF A, B, F, G
<1>6. PICK p \in Int, q \in Int : p = k * A /\ q = m * B
    BY <1>5
<1>7. p + F(T) = q + G(T)
    <2>1. PICK u \in Int, v \in Int, w \in Int, z \in Int :
             u = F(S) /\ v = F(T \ S) /\ w = G(S) /\ z = G(T \ S)
        BY <1>5
    <2>2. p + u = q + w /\ v = z
        BY <1>2, <1>3, <1>6, <2>1
    <2>3. p + (u + v) = q + (w + z)
        BY ONLY <2>2, p \in Int, q \in Int, u \in Int, v \in Int, w \in Int, z \in Int
    <2> QED BY <1>4, <2>1, <2>3
<1> QED BY <1>6, <1>7 DEF A, B, F, G

-----------------------------------------------------------------------------
(* Type correctness *)

LEMMA TypeInit == Init => TypeOK
<1> SUFFICES ASSUME Init PROVE TypeOK
    OBVIOUS
<1> USE SettlementAssumption DEF SettlementAssumption, Init
<1>1. line \in [Lines -> LineType] /\ firm \in [Companies -> FirmType]
    BY DEF NoService, LineType, FirmType
<1>2. vehicle \in [Vehicles -> VehicleType]
    <2>1. PICK A : vehicle \in [Vehicles -> A] /\ A = {[status |-> s, annual |-> 0, residue |-> 0] :
                                                      s \in {"new", "found"}}
        OBVIOUS
    <2>2. A \subseteq VehicleType
        BY <2>1 DEF VehicleType
    <2> QED BY <2>1, <2>2
<1>3. clock \in [epoch : Nat, boundary : Nat, days : Nat, millis : Nat]
    OBVIOUS
<1>4. match \in MatchType
    BY DEF MatchType
<1>5. left \in [edits : Nat, departures : Nat, works : Nat]
    OBVIOUS
<1>6. past \in [Lines -> [earned : Int, paid : Int, replayed : Int, forgone : Int]]
    OBVIOUS
<1>7. book \in [Companies -> BookType]
    BY DEF BookType
<1>8. pending \in BOOLEAN /\ fault \in {"none", "late", "settlement"}
      /\ raced \in BOOLEAN /\ exact \in BOOLEAN
    OBVIOUS
<1> QED BY <1>1, <1>2, <1>3, <1>4, <1>5, <1>6, <1>7, <1>8 DEF TypeOK

LEMMA TypeFail ==
    ASSUME TypeOK, NEW reason \in {"late", "settlement"}, Fail(reason)
    PROVE  TypeOK'
BY DEF TypeOK, Fail, money

LEMMA TypePriced ==
    ASSUME TypeOK, NEW vs
    PROVE  Priced(vs) \in [Vehicles -> VehicleType]
<1>1. ASSUME NEW v \in Vehicles PROVE Priced(vs)[v] \in VehicleType
    <2>1. vehicle[v] \in VehicleType /\ Upkeep[v] \in 0 .. Limit
        BY SettlementAssumption DEF SettlementAssumption, TypeOK
    <2>2. Priced(vs)[v] = IF v \in vs /\ vehicle[v].status = "found"
                          THEN [vehicle[v] EXCEPT !.status = "owned", !.annual = Upkeep[v]]
                          ELSE vehicle[v]
        BY DEF Priced
    <2> QED BY <2>1, <2>2 DEF VehicleType
<1> QED BY <1>1 DEF Priced

LEMMA TypeRegister ==
    ASSUME TypeOK, NEW l \in Lines, NEW m \in Markets, NEW on \in BOOLEAN, NEW f \in Fares,
           NEW vs \in SUBSET Vehicles, Register(l, m, on, vs, f)
    PROVE  TypeOK'
<1>1. CASE Refused(l, m, on) /\ Fail("late")
    BY <1>1, TypeFail
<1>2. CASE ~(Refused(l, m, on) /\ Fail("late"))
    <2>0. line[l] \in LineType /\ Limit \in Nat /\ Scale \in Nat \ {0}
        BY SettlementAssumption DEF SettlementAssumption, TypeOK
    <2> DEFINE costs == [v \in Vehicles |-> Priced(vs)[v].annual]
    <2>1. PICK r : /\ line' = [line EXCEPT ![l] = r]
                   /\ r = [market |-> m, enabled |-> on, fare |-> f, vehicles |-> vs,
                           annual |-> Total(costs, vs), residue |-> line[l].residue,
                           earned |-> IF Retired(l, on) THEN 0 ELSE line[l].earned,
                           cursor |-> IF CursorDropped(l, m, on) THEN 0 ELSE line[l].cursor,
                           share |-> IF SameMarket(l, m) THEN line[l].share ELSE 0,
                           contract |-> line[l].contract]
        BY <1>2 DEF Register
    <2>2. Total(costs, vs) \in 0 .. Limit
        BY SaturateRange DEF Total
    <2> HIDE DEF costs
    <2>3. r \in LineType
        BY <2>0, <2>1, <2>2 DEF LineType
    <2>4. line' \in [Lines -> LineType]
        BY <2>1, <2>3 DEF TypeOK
    <2>5. PICK a \in Int, b \in Int :
              past' = [past EXCEPT ![l].replayed = a, ![l].forgone = b]
        <3> DEFINE a == IF CursorDropped(l, m, on) /\ ~Retired(l, on)
                        THEN past[l].replayed + line[l].cursor ELSE past[l].replayed
                   b == IF Retired(l, on)
                        THEN past[l].forgone + line[l].earned - line[l].cursor
                        ELSE past[l].forgone
        <3>1. line[l].cursor \in Int /\ line[l].earned \in Int
              /\ past[l].replayed \in Int /\ past[l].forgone \in Int
            BY <2>0 DEF TypeOK, LineType
        <3>2. past' = [past EXCEPT ![l].replayed = a, ![l].forgone = b]
            BY <1>2 DEF Register, TypeOK
        <3>3. a \in Int /\ b \in Int
            BY <3>1
        <3> HIDE DEF a, b
        <3> QED BY <3>2, <3>3
    <2>6. past' \in [Lines -> [earned : Int, paid : Int, replayed : Int, forgone : Int]]
        BY <2>5 DEF TypeOK
    <2>7. left' \in [edits : Nat, departures : Nat, works : Nat]
        BY <1>2 DEF Register, TypeOK
    <2>8. raced' \in BOOLEAN
        BY <1>2 DEF Register
    <2>9. UNCHANGED <<firm, clock, match, exact, book, owed, sent, pending, fault>>
        BY <1>2 DEF Register
    <2>10. vehicle' \in [Vehicles -> VehicleType]
        BY <1>2, TypePriced DEF Register
    <2> QED BY <2>4, <2>6, <2>7, <2>8, <2>9, <2>10 DEF TypeOK
<1> QED BY <1>1, <1>2

LEMMA TypeFareAdjust ==
    ASSUME TypeOK, NEW l \in Lines, NEW f \in Fares, FareAdjust(l, f)
    PROVE  TypeOK'
<1>1. CASE Fail("late")
    BY <1>1, TypeFail
<1>2. CASE ~Fail("late")
    <2>1. line' = [line EXCEPT ![l].fare = f]
        BY <1>2 DEF FareAdjust
    <2>2. line' \in [Lines -> LineType]
        <3>0. line[l] \in LineType
            BY DEF TypeOK
        <3>1. [line[l] EXCEPT !.fare = f] \in LineType
            BY <3>0 DEF LineType
        <3>2. line' = [line EXCEPT ![l] = [line[l] EXCEPT !.fare = f]]
            BY <2>1 DEF TypeOK
        <3> QED BY <3>1, <3>2 DEF TypeOK
    <2>3. left' \in [edits : Nat, departures : Nat, works : Nat]
        BY <1>2 DEF FareAdjust, TypeOK
    <2>4. raced' \in BOOLEAN
        BY <1>2 DEF FareAdjust
    <2>5. UNCHANGED <<money, sent, pending, fault, past>>
        BY <1>2 DEF FareAdjust
    <2> QED BY <2>2, <2>3, <2>4, <2>5 DEF TypeOK, money
<1> QED BY <1>1, <1>2

LEMMA TypeRelease ==
    ASSUME TypeOK, NEW l \in Lines, NEW cents \in Takings, Release(l, cents)
    PROVE  TypeOK'
<1>1. PICK e \in 0 .. Limit : e = Saturate(line[l].earned + cents)
    BY SaturateRange
<1>2. PICK k \in Markets \cup {None} :
          line' = [line EXCEPT ![l].earned = e, ![l].contract = k]
    <2>1. line[l].market \in Markets \cup {None} /\ line[l].contract \in Markets \cup {None}
        BY DEF TypeOK, LineType
    <2>2. line' = [line EXCEPT ![l].earned = e,
                      ![l].contract = IF l \in Cargo THEN line[l].market ELSE line[l].contract]
        BY <1>1 DEF Release, TypeOK, LineType
    <2> QED BY <2>1, <2>2
<1>3. line' \in [Lines -> LineType]
    <2>0. line[l] \in LineType
        BY DEF TypeOK
    <2>1. [line[l] EXCEPT !.earned = e, !.contract = k] \in LineType
        BY <2>0 DEF LineType
    <2>2. line' = [line EXCEPT ![l] = [line[l] EXCEPT !.earned = e, !.contract = k]]
        BY <1>2 DEF TypeOK
    <2> QED BY <2>1, <2>2 DEF TypeOK
<1>4. past' = [past EXCEPT ![l].earned = past[l].earned + e - line[l].earned]
    BY <1>1 DEF Release, TypeOK
<1>5. past[l].earned \in Int /\ line[l].earned \in Int /\ e \in Int
    BY SettlementAssumption DEF SettlementAssumption, TypeOK, LineType
<1>6. past' \in [Lines -> [earned : Int, paid : Int, replayed : Int, forgone : Int]]
    BY <1>4, <1>5 DEF TypeOK
<1>7. left' \in [edits : Nat, departures : Nat, works : Nat]
    BY DEF Release, TypeOK
<1>8. raced' \in BOOLEAN
    BY DEF Release
<1>9. UNCHANGED <<money, sent, pending, fault>>
    BY DEF Release
<1> QED BY <1>3, <1>6, <1>7, <1>8, <1>9 DEF TypeOK, money

LEMMA TypeWork ==
    ASSUME TypeOK, NEW c \in Companies, Work(c)
    PROVE  /\ left' \in [edits : Nat, departures : Nat, works : Nat]
           /\ pending' = TRUE
           /\ UNCHANGED <<clock, match, sent, fault, raced, exact, owed>>
BY DEF Work, TypeOK

LEMMA TypePay ==
    ASSUME TypeOK, NEW c \in Companies, NEW price \in Int, Pay(c, price),
           firm' \in [Companies -> FirmType], vehicle' \in [Vehicles -> VehicleType]
    PROVE  TypeOK'
<1>1. book' \in [Companies -> BookType]
    <2>1. book[c] \in BookType
        BY DEF TypeOK
    <2>2. [book[c] EXCEPT !.spent = book[c].spent + price] \in BookType
        BY <2>1 DEF BookType
    <2>3. book' = [book EXCEPT ![c] = [book[c] EXCEPT !.spent = book[c].spent + price]]
        BY DEF Pay, TypeOK
    <2> QED BY <2>2, <2>3 DEF TypeOK
<1> QED BY <1>1, TypeWork DEF Pay, TypeOK

LEMMA TypeBuild ==
    ASSUME TypeOK, NEW c \in Companies, NEW w \in Works, Build(c, w)
    PROVE  TypeOK'
<1>1. w.price \in Int
    BY SettlementAssumption DEF SettlementAssumption
<1>2. PICK a \in 0 .. Limit : a = Saturate(Larger(0, firm[c].annual + w.upkeep))
    BY SaturateRange
<1>3. firm' = [firm EXCEPT ![c] = [firm[c] EXCEPT !.balance = firm[c].balance - w.price,
                                               !.annual = a]]
    BY <1>2 DEF Build, TypeOK
<1>4. [firm[c] EXCEPT !.balance = firm[c].balance - w.price, !.annual = a] \in FirmType
    <2>1. firm[c] \in FirmType
        BY DEF TypeOK
    <2>2. firm[c].balance - w.price \in Int
        BY <1>1, <2>1 DEF FirmType
    <2> QED BY <2>1, <2>2 DEF FirmType
<1>5. firm' \in [Companies -> FirmType]
    BY <1>3, <1>4 DEF TypeOK
<1>6. vehicle' \in [Vehicles -> VehicleType]
    BY DEF Build, TypeOK
<1> QED BY <1>1, <1>5, <1>6, TypePay DEF Build

\* An account that pays a price, or is credited one that is negative.
LEMMA TypeBalance ==
    ASSUME TypeOK, NEW c \in Companies, NEW price \in Int,
           firm' = [firm EXCEPT ![c].balance = @ - price]
    PROVE  firm' \in [Companies -> FirmType]
<1>1. firm[c] \in FirmType
    BY DEF TypeOK
<1>2. [firm[c] EXCEPT !.balance = firm[c].balance - price] \in FirmType
    BY <1>1 DEF FirmType
<1>3. firm' = [firm EXCEPT ![c] = [firm[c] EXCEPT !.balance = firm[c].balance - price]]
    BY DEF TypeOK
<1> QED BY <1>2, <1>3 DEF TypeOK

LEMMA TypeBuy ==
    ASSUME TypeOK, NEW v \in Vehicles, Buy(v)
    PROVE  TypeOK'
<1>1. Price[v] \in Int /\ Keeper[v] \in Companies /\ Upkeep[v] \in 0 .. Limit
    BY SettlementAssumption DEF SettlementAssumption
<1>2. firm' \in [Companies -> FirmType]
    BY <1>1, TypeBalance DEF Buy
<1>3. vehicle' \in [Vehicles -> VehicleType]
    BY <1>1 DEF Buy, TypeOK, VehicleType
<1> QED BY <1>1, <1>2, <1>3, TypePay DEF Buy

LEMMA TypeOverhaul ==
    ASSUME TypeOK, NEW v \in Vehicles, NEW o \in Overhauls, Overhaul(v, o)
    PROVE  TypeOK'
<1>1. o.price \in Int /\ o.rate \in 0 .. Limit /\ Keeper[v] \in Companies
    BY SettlementAssumption DEF SettlementAssumption
<1>2. firm' \in [Companies -> FirmType]
    BY <1>1, TypeBalance DEF Overhaul
<1>3. vehicle' \in [Vehicles -> VehicleType]
    BY <1>1 DEF Overhaul, TypeOK, VehicleType
<1> QED BY <1>1, <1>2, <1>3, TypePay DEF Overhaul

LEMMA TypeSell ==
    ASSUME TypeOK, NEW c \in Companies, NEW vs \in SUBSET Vehicles, NEW refund \in Refunds,
           Sell(c, vs, refund)
    PROVE  TypeOK'
<1>1. refund \in Int /\ Year \in Nat \ {0} /\ IsFiniteSet(Vehicles)
    BY SettlementAssumption DEF SettlementAssumption
<1>2. firm' \in [Companies -> FirmType]
    <2>1. firm[c] \in FirmType
        BY DEF TypeOK
    <2>2. [firm[c] EXCEPT !.balance = firm[c].balance + refund] \in FirmType
        BY <1>1, <2>1 DEF FirmType
    <2>3. firm' = [firm EXCEPT ![c] = [firm[c] EXCEPT !.balance = firm[c].balance + refund]]
        BY DEF Sell, TypeOK
    <2> QED BY <2>2, <2>3 DEF TypeOK
<1>3. book' \in [Companies -> BookType]
    <2> DEFINE Carried == [v \in Vehicles |-> vehicle[v].residue]
    <2>1. PICK n \in Nat : n = SumFunctionOnSet(Carried, vs)
        <3>1. \A v \in vs : Carried[v] \in Nat
            BY <1>1 DEF TypeOK, VehicleType
        <3>2. IsFiniteSet(vs)
            BY <1>1, FS_Subset
        <3> HIDE DEF Carried
        <3> QED BY <3>1, <3>2, SumNat
    <2>2. book' = [book EXCEPT ![c].spent = @ - refund, ![c].waived = @ + n]
        BY <2>1 DEF Sell
    <2>3. book[c] \in BookType
        BY DEF TypeOK
    <2>4. [book[c] EXCEPT !.spent = book[c].spent - refund, !.waived = book[c].waived + n]
              \in BookType
        <3>1. book[c].spent - refund \in Int /\ book[c].waived + n \in Nat
            BY <1>1, <2>3 DEF BookType
        <3> QED BY <2>3, <3>1 DEF BookType
    <2>5. book' = [book EXCEPT ![c] = [book[c] EXCEPT !.spent = book[c].spent - refund,
                                                    !.waived = book[c].waived + n]]
        BY <2>2 DEF TypeOK
    <2> QED BY <2>4, <2>5 DEF TypeOK
<1>4. vehicle' \in [Vehicles -> VehicleType]
    <2>1. [status |-> "sold", annual |-> 0, residue |-> 0] \in VehicleType
        BY <1>1, SettlementAssumption DEF SettlementAssumption, VehicleType
    <2> QED BY <2>1 DEF Sell, TypeOK
<1> QED BY <1>2, <1>3, <1>4, TypeWork DEF Sell, TypeOK

LEMMA TypeDelete ==
    ASSUME TypeOK, NEW l \in Lines, Delete(l)
    PROVE  TypeOK'
<1>0. /\ Owner[l] \in Companies /\ Limit \in Nat /\ Year \in Nat \ {0} /\ Scale \in Nat \ {0}
      /\ line[l] \in LineType /\ book[Owner[l]] \in BookType
      /\ past[l] \in [earned : Int, paid : Int, replayed : Int, forgone : Int]
    BY SettlementAssumption DEF SettlementAssumption, TypeOK
<1>1. line' \in [Lines -> LineType]
    <2>1. NoService \in LineType
        BY <1>0 DEF NoService, LineType
    <2> QED BY <2>1 DEF Delete, TypeOK
<1>2. book' \in [Companies -> BookType]
    <2>1. PICK n \in Nat : n = line[l].residue
        BY <1>0 DEF LineType
    <2>2. [book[Owner[l]] EXCEPT !.waived = book[Owner[l]].waived + n] \in BookType
        BY <1>0 DEF BookType
    <2>3. book' = [book EXCEPT ![Owner[l]] =
                     [book[Owner[l]] EXCEPT !.waived = book[Owner[l]].waived + n]]
        BY <1>0, <2>1 DEF Delete, TypeOK
    <2> QED BY <1>0, <2>2, <2>3 DEF TypeOK
<1>3. past' \in [Lines -> [earned : Int, paid : Int, replayed : Int, forgone : Int]]
    <2>1. PICK n \in Int : n = past[l].forgone + line[l].earned - line[l].cursor
        BY <1>0 DEF LineType
    <2>2. past' = [past EXCEPT ![l].forgone = n]
        BY <2>1 DEF Delete, TypeOK
    <2> QED BY <2>2 DEF TypeOK
<1> QED BY <1>0, <1>1, <1>2, <1>3, TypeWork DEF Delete, TypeOK

LEMMA TypeJudge ==
    ASSUME TypeOK, Judge(Earned)
    PROVE  match' \in MatchType
<1>1. \A S : First(S) \subseteq S
    BY DEF First
<1>2. Broke(Earned) \subseteq Companies
    BY DEF Broke
<1>3. ASSUME NEW loser \in First(Broke(Earned)), NEW winner \in First(Companies \ {loser}),
             match' = Over("bankruptcy", winner, loser)
      PROVE  match' \in MatchType
    <2>1. loser \in Companies /\ winner \in Companies
        BY <1>1, <1>2
    <2> QED BY <1>3, <2>1 DEF Over, MatchType
<1>4. ASSUME NEW winner \in Companies,
             match' \in {Over("valuation-target", winner, None), Over("epoch-limit", winner, None)}
      PROVE  match' \in MatchType
    BY <1>4 DEF Over, MatchType
<1>5. CASE UNCHANGED match
    BY <1>5 DEF TypeOK
<1> QED BY <1>3, <1>4, <1>5 DEF Judge

LEMMA TypeSettle ==
    ASSUME TypeOK, Settle
    PROVE  TypeOK'
<1>1. CASE ~Agreed
    BY <1>1, TypeFail DEF Settle
<1>2. CASE Agreed
    <2>0. /\ Limit \in Nat \ {0} /\ Year \in Nat \ {0} /\ Scale \in Nat \ {0}
          /\ Period \in Nat \ {0} /\ Day \in Nat
        BY SettlementAssumption DEF SettlementAssumption
    <2>1. line' \in [Lines -> LineType]
        <3>1. ASSUME NEW l \in Lines
              PROVE  \E x \in 0 .. Limit, y \in 0 .. Scale - 1, z \in 0 .. Year - 1 :
                        line'[l] = [line[l] EXCEPT !.cursor = x, !.share = y, !.residue = z]
            <4> DEFINE x == IF l \in Served THEN line[l].earned ELSE line[l].cursor
                       y == IF l \in Served
                            THEN EarningsResidue(Delivered(l, Earned), line[l].share)
                            ELSE line[l].share
                       z == IF l \in Served /\ ~Managed(l)
                            THEN ChargeResidue(line[l].annual, line[l].residue)
                            ELSE line[l].residue
            <4>1. line'[l] = [line[l] EXCEPT !.cursor = x, !.share = y, !.residue = z]
                BY <1>2 DEF Settle
            <4>2. line[l] \in LineType
                BY DEF TypeOK
            <4>3. x \in 0 .. Limit
                BY <4>2 DEF LineType
            <4>4. Delivered(l, Earned) \in Int
                BY <2>0, <4>2 DEF Delivered, Earned, LineType
            <4>5. y \in 0 .. Scale - 1
                <5>1. line[l].share \in 0 .. Scale - 1 /\ line[l].share \in Int
                    BY <2>0, <4>2 DEF LineType
                <5>2. EarningsResidue(Delivered(l, Earned), line[l].share) \in 0 .. Scale - 1
                    BY <4>4, <5>1, EarningsResidueRange
                <5> QED BY <5>1, <5>2
            <4>6. z \in 0 .. Year - 1
                <5>1. /\ line[l].residue \in 0 .. Year - 1
                      /\ line[l].residue \in Int /\ line[l].annual \in Int
                    BY <2>0, <4>2 DEF LineType
                <5>2. ChargeResidue(line[l].annual, line[l].residue) \in 0 .. Year - 1
                    BY <5>1, ChargeResidueRange
                <5> QED BY <5>1, <5>2
            <4> HIDE DEF x, y, z
            <4> QED BY <4>1, <4>3, <4>5, <4>6
        <3>2. ASSUME NEW l \in Lines PROVE line'[l] \in LineType
            <4>1. PICK x \in 0 .. Limit, y \in 0 .. Scale - 1, z \in 0 .. Year - 1 :
                      line'[l] = [line[l] EXCEPT !.cursor = x, !.share = y, !.residue = z]
                BY <3>1
            <4>2. line[l] \in LineType
                BY DEF TypeOK
            <4> QED BY <4>1, <4>2 DEF LineType
        <3>3. line' = [l \in Lines |-> line'[l]]
            BY <1>2 DEF Settle
        <3> QED BY <3>2, <3>3
    <2>2. vehicle' \in [Vehicles -> VehicleType]
        <3>1. ASSUME NEW v \in Vehicles
              PROVE  vehicle'[v] \in VehicleType
            <4>1. vehicle[v] \in VehicleType
                BY DEF TypeOK
            <4>2. Annual[v] \in Int /\ vehicle[v].residue \in Int
                BY <2>0, <4>1 DEF Annual, VehicleType
            <4>3. ChargeResidue(Annual[v], vehicle[v].residue) \in 0 .. Year - 1
                BY <4>2, ChargeResidueRange
            <4>4. vehicle'[v] = [vehicle[v] EXCEPT !.residue =
                      IF v \in Fleet THEN ChargeResidue(Annual[v], vehicle[v].residue)
                      ELSE vehicle[v].residue]
                BY <1>2 DEF Settle
            <4> QED BY <4>1, <4>3, <4>4 DEF VehicleType
        <3>2. vehicle' = [v \in Vehicles |-> vehicle'[v]]
            BY <1>2 DEF Settle
        <3> QED BY <3>1, <3>2
    <2>3. firm' \in [Companies -> FirmType]
        <3>1. ASSUME NEW c \in Companies PROVE firm'[c] \in FirmType
            <4>1. firm[c] \in FirmType
                BY DEF TypeOK
            <4>2. Payable(c, Earned) \in Int /\ Ledger(c, Earned) \in -Limit .. Limit
                BY <2>0, <4>1, NetRange, SignedRange DEF Payable, Ledger, FirmType
            <4>3. Insolvent(c, Earned) \in Nat
                BY <4>1 DEF Insolvent, FirmType
            <4>4. Interest(firm[c].balance) \in Nat /\ firm[c].balance \in Int
                BY <4>1, InterestType DEF FirmType
            <4>5. ChargeResidue(firm[c].annual, firm[c].residue) \in 0 .. Year - 1
                <5>1. firm[c].annual \in Int /\ firm[c].residue \in Int
                    BY <2>0, <4>1 DEF FirmType
                <5> QED BY <5>1, ChargeResidueRange
            <4>6. /\ Dollars(Payable(c, Earned)) \in Int
                  /\ Payable(c, Earned) - 100 * Dollars(Payable(c, Earned)) \in -99 .. 99
                BY <4>2, DollarsSplit
            <4>7. firm[c].balance - Interest(firm[c].balance) + Dollars(Payable(c, Earned)) \in Int
                BY <4>4, <4>6
            <4>8. firm'[c] =
                    [balance |-> firm[c].balance - Interest(firm[c].balance)
                                 + Dollars(Payable(c, Earned)),
                     change |-> Payable(c, Earned) - 100 * Dollars(Payable(c, Earned)),
                     insolvent |-> Insolvent(c, Earned), net |-> Ledger(c, Earned),
                     annual |-> firm[c].annual,
                     residue |-> ChargeResidue(firm[c].annual, firm[c].residue)]
                BY <1>2 DEF Settle
            <4>9. firm[c].annual \in 0 .. Limit
                BY <4>1 DEF FirmType
            <4> QED BY <4>2, <4>3, <4>5, <4>6, <4>7, <4>8, <4>9 DEF FirmType
        <3>2. firm' = [c \in Companies |-> firm'[c]]
            BY <1>2 DEF Settle
        <3> QED BY <3>1, <3>2
    <2>4. clock' \in [epoch : Nat, boundary : Nat, days : Nat, millis : Nat]
        <3>1. clock.epoch + 1 \in Nat /\ clock.boundary + Period \in Nat
              /\ clock.days \in Nat /\ clock.millis \in Nat /\ Elapsed \in Nat
            BY <2>0 DEF TypeOK, Elapsed
        <3>2. Day > 0 => Elapsed \div Day \in Nat /\ Elapsed % Day \in Nat
            BY <2>0, <3>1
        <3>3. clock' = [epoch |-> clock.epoch + 1, boundary |-> clock.boundary + Period,
                       days |-> IF Day > 0 THEN clock.days + Elapsed \div Day ELSE clock.days,
                       millis |-> IF Day > 0 THEN Elapsed % Day ELSE clock.millis]
            BY <1>2 DEF Settle
        <3> QED BY <2>0, <3>1, <3>2, <3>3
    <2>5. match' \in MatchType
        BY <1>2, TypeJudge DEF Settle
    <2>6. past' \in [Lines -> [earned : Int, paid : Int, replayed : Int, forgone : Int]]
        <3>1. ASSUME NEW l \in Lines
              PROVE  past'[l] \in [earned : Int, paid : Int, replayed : Int, forgone : Int]
            <4>1. line[l] \in LineType
                  /\ past[l] \in [earned : Int, paid : Int, replayed : Int, forgone : Int]
                BY DEF TypeOK
            <4>2. past[l].paid + Delivered(l, Earned) \in Int
                BY <2>0, <4>1 DEF Delivered, Earned, LineType
            <4>3. past'[l] = [past[l] EXCEPT !.paid =
                      IF l \in Served THEN past[l].paid + Delivered(l, Earned) ELSE past[l].paid]
                BY <1>2 DEF Settle
            <4> QED BY <4>1, <4>2, <4>3
        <3>2. past' = [l \in Lines |-> past'[l]]
            BY <1>2 DEF Settle
        <3> QED BY <3>1, <3>2
    <2>7. book' \in [Companies -> BookType]
        <3>1. ASSUME NEW c \in Companies PROVE book'[c] \in BookType
            <4>1. book[c] \in BookType /\ firm[c].balance \in Int /\ clock.epoch + 1 \in Nat
                BY DEF TypeOK, FirmType
            <4>2. PICK i \in Nat : i = book[c].interest + Interest(firm[c].balance)
                BY <4>1, InterestType DEF BookType
            <4>3. PICK k \in Nat : k = book[c].charged + Cost(c)
                BY <4>1, CostType DEF BookType
            <4>4. PICK S \in SUBSET Nat :
                      S = IF Breaches(c, Earned) THEN book[c].breached \cup {clock.epoch + 1}
                          ELSE book[c].breached
                BY <4>1 DEF BookType
            <4>5. book'[c] = [book[c] EXCEPT !.interest = i, !.charged = k, !.breached = S]
                BY <1>2, <4>2, <4>3, <4>4 DEF Settle
            <4> QED BY <4>1, <4>5 DEF BookType
        <3>2. book' = [c \in Companies |-> book'[c]]
            BY <1>2 DEF Settle
        <3> QED BY <3>1, <3>2
    <2>8. exact' \in BOOLEAN /\ pending' \in BOOLEAN
        BY <1>2 DEF Settle, TypeOK
    <2>9. UNCHANGED <<fault, left, raced>>
        BY <1>2 DEF Settle
    <2> QED BY <2>1, <2>2, <2>3, <2>4, <2>5, <2>6, <2>7, <2>8, <2>9 DEF TypeOK
<1> QED BY <1>1, <1>2

LEMMA TypeNext == TypeOK /\ [Next]_vars => TypeOK'
<1> SUFFICES ASSUME TypeOK, [Next]_vars PROVE TypeOK'
    OBVIOUS
<1>1. ASSUME NEW l \in Lines, NEW m \in Markets, NEW on \in BOOLEAN, NEW f \in Fares,
             NEW vs \in SUBSET Vehicles, Register(l, m, on, vs, f)
      PROVE  TypeOK'
    BY <1>1, TypeRegister
<1>2. ASSUME NEW l \in Lines, NEW f \in Fares, FareAdjust(l, f) PROVE TypeOK'
    BY <1>2, TypeFareAdjust
<1>3. ASSUME NEW l \in Lines, NEW cents \in Takings, Release(l, cents) PROVE TypeOK'
    BY <1>3, TypeRelease
<1>4. ASSUME NEW c \in Companies, NEW w \in Works, Build(c, w) PROVE TypeOK'
    BY <1>4, TypeBuild
<1>5. ASSUME NEW v \in Vehicles, Buy(v) PROVE TypeOK'
    BY <1>5, TypeBuy
<1>13. ASSUME NEW v \in Vehicles, NEW o \in Overhauls, Overhaul(v, o) PROVE TypeOK'
    BY <1>13, TypeOverhaul
<1>6. ASSUME NEW c \in Companies, NEW vs \in SUBSET Vehicles, NEW refund \in Refunds,
             Sell(c, vs, refund)
      PROVE  TypeOK'
    BY <1>6, TypeSell
<1>14. ASSUME NEW l \in Lines, Delete(l) PROVE TypeOK'
    BY <1>14, TypeDelete
<1>7. CASE Submit
    BY <1>7 DEF Submit, TypeOK, money
<1>8. CASE Refuse
    BY <1>8 DEF Refuse, TypeOK, money
<1>9. CASE Settle
    BY <1>9, TypeSettle
<1>10. CASE CloseBoundary
    BY <1>10 DEF CloseBoundary, TypeOK, money
<1>11. CASE Finish
    <2>1. match' \in MatchType
        BY <1>11 DEF Finish, Over, MatchType
    <2> QED BY <1>11, <2>1 DEF Finish, TypeOK
<1>12. CASE UNCHANGED vars
    BY <1>12 DEF vars, TypeOK
<1> QED BY <1>1, <1>2, <1>3, <1>4, <1>5, <1>13, <1>6, <1>14, <1>7, <1>8, <1>9, <1>10,
           <1>11, <1>12 DEF Next

\* Every amount of every account, line and vehicle stays within its limit.
THEOREM TypeCorrect == Spec => []TypeOK
BY TypeInit, TypeNext, PTL DEF Spec

-----------------------------------------------------------------------------
(* What the steps leave alone *)

\* Registrations, fares and departures change no account.
EditStep ==
    \/ \E l \in Lines, m \in Markets, on \in BOOLEAN, vs \in SUBSET Vehicles, f \in Fares :
          Register(l, m, on, vs, f)
    \/ \E l \in Lines, f \in Fares : FareAdjust(l, f)
    \/ \E l \in Lines, cents \in Takings : Release(l, cents)
    \/ Submit \/ Refuse \/ CloseBoundary \/ (Settle /\ ~Agreed) \/ UNCHANGED vars

LEMMA EditsKeepMoney ==
    ASSUME EditStep
    PROVE  UNCHANGED <<firm, clock, match, exact, book>>
<1> DEFINE Same == UNCHANGED <<firm, clock, match, exact, book>>
<1>1. ASSUME NEW l, NEW m, NEW on, NEW vs, NEW f, Register(l, m, on, vs, f)
      PROVE  Same
    BY <1>1 DEF Register, Fail, money
<1>2. ASSUME NEW l, NEW f, FareAdjust(l, f)
      PROVE  Same
    BY <1>2 DEF FareAdjust, Fail, money
<1>3. ASSUME NEW l, NEW cents, Release(l, cents)
      PROVE  Same
    BY <1>3 DEF Release, money
<1>4. ASSUME Submit \/ Refuse \/ CloseBoundary PROVE Same
    BY <1>4 DEF Submit, Refuse, CloseBoundary, money
<1>5. ASSUME Settle /\ ~Agreed PROVE Same
    BY <1>5 DEF Settle, Fail, money
<1>6. ASSUME UNCHANGED vars PROVE Same
    BY <1>6 DEF vars
<1>7. Same
    BY <1>1, <1>2, <1>3, <1>4, <1>5, <1>6 DEF EditStep
<1> QED BY <1>7

\* Constructions, and operations on vehicles and lines, change the account of one
\* company at most, and settle nothing.
WorkStep ==
    \/ \E c \in Companies, w \in Works : Build(c, w)
    \/ \E v \in Vehicles : Buy(v) \/ \E o \in Overhauls : Overhaul(v, o)
    \/ \E c \in Companies, vs \in SUBSET Vehicles, refund \in Refunds : Sell(c, vs, refund)
    \/ \E l \in Lines : Delete(l)

\* One of them takes a price from the account of c, and writes it into its book.
Spends(c, price) ==
    /\ Work(c) /\ price \in Int
    /\ \A d \in Companies :
          /\ firm'[d].balance = IF d = c THEN firm[d].balance - price ELSE firm[d].balance
          /\ firm'[d].change = firm[d].change /\ firm'[d].net = firm[d].net
          /\ firm'[d].insolvent = firm[d].insolvent
          /\ book'[d].spent = IF d = c THEN book[d].spent + price ELSE book[d].spent
          /\ book'[d].interest = book[d].interest
          /\ book'[d].breached = book[d].breached

LEMMA PaySpends ==
    ASSUME TypeOK, NEW c \in Companies, NEW price \in Int, Pay(c, price),
           NEW a, \/ firm' = [firm EXCEPT ![c].balance = @ - price]
                  \/ firm' = [firm EXCEPT ![c].balance = @ - price, ![c].annual = a]
    PROVE  Spends(c, price)
<1>1. ASSUME NEW d \in Companies
      PROVE  /\ firm'[d].balance = IF d = c THEN firm[d].balance - price ELSE firm[d].balance
             /\ firm'[d].change = firm[d].change /\ firm'[d].net = firm[d].net
             /\ firm'[d].insolvent = firm[d].insolvent
    <2>1. firm \in [Companies -> FirmType] /\ firm[d] \in FirmType
        BY DEF TypeOK
    <2> QED BY <2>1 DEF FirmType
<1>2. ASSUME NEW d \in Companies
      PROVE  /\ book'[d].spent = IF d = c THEN book[d].spent + price ELSE book[d].spent
             /\ book'[d].interest = book[d].interest
             /\ book'[d].breached = book[d].breached
    <2>1. book \in [Companies -> BookType] /\ book[d] \in BookType
        BY DEF TypeOK
    <2>2. book' = [book EXCEPT ![c].spent = @ + price]
        BY DEF Pay
    <2> QED BY <2>1, <2>2 DEF BookType
<1> QED BY <1>1, <1>2 DEF Spends, Pay

LEMMA SellSpends ==
    ASSUME TypeOK, NEW c \in Companies, NEW vs \in SUBSET Vehicles, NEW refund \in Refunds,
           Sell(c, vs, refund)
    PROVE  Spends(c, -refund)
<1>0. refund \in Int
    BY SettlementAssumption DEF SettlementAssumption
<1>1. ASSUME NEW d \in Companies
      PROVE  /\ firm'[d].balance = IF d = c THEN firm[d].balance - (-refund)
                                   ELSE firm[d].balance
             /\ firm'[d].change = firm[d].change /\ firm'[d].net = firm[d].net
             /\ firm'[d].insolvent = firm[d].insolvent
    <2>1. firm \in [Companies -> FirmType] /\ firm[d] \in FirmType
        BY DEF TypeOK
    <2>2. firm' = [firm EXCEPT ![c].balance = @ + refund]
        BY DEF Sell
    <2> QED BY <1>0, <2>1, <2>2 DEF FirmType
<1>2. ASSUME NEW d \in Companies
      PROVE  /\ book'[d].spent = IF d = c THEN book[d].spent + (-refund) ELSE book[d].spent
             /\ book'[d].interest = book[d].interest
             /\ book'[d].breached = book[d].breached
    <2>1. book \in [Companies -> BookType] /\ book[d] \in BookType
        BY DEF TypeOK
    <2>2. PICK n : book' = [book EXCEPT ![c].spent = @ - refund, ![c].waived = n]
        BY DEF Sell
    <2> QED BY <1>0, <2>1, <2>2 DEF BookType
<1>3. Work(c) /\ -refund \in Int
    BY <1>0 DEF Sell
<1> QED BY <1>1, <1>2, <1>3 DEF Spends

LEMMA DeleteSpends ==
    ASSUME TypeOK, NEW l \in Lines, Delete(l)
    PROVE  Spends(Owner[l], 0)
<1>1. PICK c \in Companies : c = Owner[l]
    BY SettlementAssumption DEF SettlementAssumption
<1>2. UNCHANGED firm /\ Work(c)
    BY <1>1 DEF Delete
<1>3. ASSUME NEW d \in Companies
      PROVE  /\ firm[d].balance - 0 = firm[d].balance /\ book[d].spent + 0 = book[d].spent
             /\ book'[d].spent = book[d].spent
             /\ book'[d].interest = book[d].interest
             /\ book'[d].breached = book[d].breached
    <2>1. book \in [Companies -> BookType] /\ book[d] \in BookType /\ firm[d] \in FirmType
        BY DEF TypeOK
    <2>2. PICK n : book' = [book EXCEPT ![c].waived = n]
        BY <1>1 DEF Delete
    <2> QED BY <2>1, <2>2 DEF BookType, FirmType
<1> QED BY <1>1, <1>2, <1>3 DEF Spends

LEMMA WorkSpends ==
    ASSUME TypeOK, WorkStep
    PROVE  /\ UNCHANGED <<clock, match, sent, fault, raced, exact>>
           /\ match.status = "running" /\ pending' = TRUE
           /\ \A c \in Companies :
                 /\ firm'[c].balance + book'[c].spent = firm[c].balance + book[c].spent
                 /\ firm'[c].balance \in Int /\ book'[c].spent \in Int
                 /\ firm'[c].change = firm[c].change /\ firm'[c].net = firm[c].net
                 /\ firm'[c].insolvent = firm[c].insolvent
                 /\ book'[c].interest = book[c].interest
                 /\ book'[c].breached = book[c].breached
<1>1. PICK c \in Companies, price \in Int : Spends(c, price)
    <2>1. ASSUME NEW c \in Companies, NEW w \in Works, Build(c, w)
          PROVE  w.price \in Int /\ Spends(c, w.price)
        <3>1. w.price \in Int
            BY SettlementAssumption DEF SettlementAssumption
        <3>2. PICK a : firm' = [firm EXCEPT ![c].balance = @ - w.price, ![c].annual = a]
            BY <2>1 DEF Build
        <3>3. Pay(c, w.price)
            BY <2>1 DEF Build
        <3> QED BY <3>1, <3>2, <3>3, PaySpends
    <2>2. ASSUME NEW v \in Vehicles, Buy(v)
          PROVE  Keeper[v] \in Companies /\ Price[v] \in Int /\ Spends(Keeper[v], Price[v])
        <3>1. Keeper[v] \in Companies /\ Price[v] \in Int
            BY SettlementAssumption DEF SettlementAssumption
        <3> QED BY <2>2, <3>1, PaySpends DEF Buy
    <2>3. ASSUME NEW v \in Vehicles, NEW o \in Overhauls, Overhaul(v, o)
          PROVE  Keeper[v] \in Companies /\ o.price \in Int /\ Spends(Keeper[v], o.price)
        <3>1. Keeper[v] \in Companies /\ o.price \in Int
            BY SettlementAssumption DEF SettlementAssumption
        <3> QED BY <2>3, <3>1, PaySpends DEF Overhaul
    <2>4. ASSUME NEW c \in Companies, NEW vs \in SUBSET Vehicles, NEW refund \in Refunds,
                 Sell(c, vs, refund)
          PROVE  -refund \in Int /\ Spends(c, -refund)
        <3>1. -refund \in Int
            BY SettlementAssumption DEF SettlementAssumption
        <3> QED BY <2>4, <3>1, SellSpends
    <2>5. ASSUME NEW l \in Lines, Delete(l)
          PROVE  Owner[l] \in Companies /\ Spends(Owner[l], 0)
        BY <2>5, DeleteSpends, SettlementAssumption DEF SettlementAssumption
    <2> QED BY <2>1, <2>2, <2>3, <2>4, <2>5 DEF WorkStep
<1>2. ASSUME NEW d \in Companies PROVE firm[d].balance \in Int /\ book[d].spent \in Int
    BY DEF TypeOK, FirmType, BookType
<1>3. /\ UNCHANGED <<clock, match, sent, fault, raced, exact>>
      /\ match.status = "running" /\ pending' = TRUE
    BY <1>1 DEF Spends, Work
<1> QED BY <1>1, <1>2, <1>3 DEF Spends

\* Every step is one of those, a settlement that is agreed, or the end of the match.
LEMMA StepKinds ==
    ASSUME [Next]_vars
    PROVE  \/ UNCHANGED <<firm, clock, match, exact, book>>
           \/ WorkStep
           \/ Settle /\ Agreed
           \/ Finish
<1>1. EditStep \/ WorkStep \/ (Settle /\ Agreed) \/ Finish
    BY DEF Next, EditStep, WorkStep
<1> QED BY <1>1, EditsKeepMoney

-----------------------------------------------------------------------------
(* Money *)

LEMMA CashInit == Init => CashConserved
BY SettlementAssumption DEF SettlementAssumption, Init, CashConserved

LEMMA CashNext == TypeOK /\ CashConserved /\ [Next]_vars => CashConserved'
<1> SUFFICES ASSUME TypeOK, CashConserved, [Next]_vars, exact', NEW c \in Companies
             PROVE  100 * (firm'[c].balance - StartBalance + book'[c].spent + book'[c].interest)
                        + firm'[c].change = firm'[c].net
    BY DEF CashConserved
<1>0. firm[c] \in FirmType /\ book[c] \in BookType /\ StartBalance \in Int /\ Limit \in Nat
    BY SettlementAssumption DEF SettlementAssumption, TypeOK
<1>1. CASE UNCHANGED <<firm, clock, match, exact, book>>
    BY <1>1 DEF CashConserved
<1>2. CASE WorkStep
    <2>1. exact
        BY <1>2, WorkSpends
    <2>2. /\ firm'[c].balance + book'[c].spent = firm[c].balance + book[c].spent
          /\ firm'[c].balance \in Int /\ book'[c].spent \in Int
          /\ firm'[c].change = firm[c].change /\ firm'[c].net = firm[c].net
          /\ book'[c].interest = book[c].interest
        BY <1>2, WorkSpends
    <2>3. 100 * (firm[c].balance - StartBalance + book[c].spent + book[c].interest)
              + firm[c].change = firm[c].net
        BY <2>1 DEF CashConserved
    <2>4. firm[c].balance \in Int /\ book[c].spent \in Int /\ book[c].interest \in Int
        BY <1>0 DEF FirmType, BookType
    <2> QED BY <1>0, <2>2, <2>3, <2>4
<1>3. CASE Settle /\ Agreed
    <2>1. exact /\ Unbounded(c, Earned)
        BY <1>3 DEF Settle
    <2>2. PICK n \in Int : n = Net(c, Earned)
        BY <1>0, NetRange
    <2>3. PICK i \in Int : i = Interest(firm[c].balance)
        BY <1>0, InterestType DEF FirmType
    <2>4. PICK q \in Int : q = Payable(c, Earned) /\ q = n + firm[c].change
        BY <1>0, <2>1, <2>2 DEF Unbounded, Payable, Signed, FirmType
    <2>5. PICK d \in Int : d = Dollars(q)
        BY <2>4, DollarsSplit
    <2>l. Ledger(c, Earned) = firm[c].net + n
        BY <1>0, <2>1, <2>2 DEF Unbounded, Ledger, Signed, FirmType
    <2>t. /\ firm[c].balance \in Int /\ firm[c].change \in Int /\ firm[c].net \in Int
          /\ book[c].spent \in Int /\ book[c].interest \in Int
        BY <1>0 DEF FirmType, BookType
    <2>6. /\ firm'[c].balance = firm[c].balance - i + d
          /\ firm'[c].change = n + firm[c].change - 100 * d
          /\ firm'[c].net = firm[c].net + n
        <3>1. firm'[c] =
                [balance |-> firm[c].balance - Interest(firm[c].balance)
                             + Dollars(Payable(c, Earned)),
                 change |-> Payable(c, Earned) - 100 * Dollars(Payable(c, Earned)),
                 insolvent |-> Insolvent(c, Earned), net |-> Ledger(c, Earned),
                 annual |-> firm[c].annual,
                 residue |-> ChargeResidue(firm[c].annual, firm[c].residue)]
            BY <1>3 DEF Settle
        <3>2. /\ firm'[c].balance = firm[c].balance - i + d
              /\ firm'[c].change = q - 100 * d
              /\ firm'[c].net = Ledger(c, Earned)
            <4>1. Dollars(Payable(c, Earned)) = d
                BY <2>4, <2>5
            <4>2. firm'[c].balance = firm[c].balance - i + d
                <5>1. firm'[c].balance = firm[c].balance - Interest(firm[c].balance)
                                         + Dollars(Payable(c, Earned))
                    BY <3>1
                <5> QED BY <2>3, <4>1, <5>1
            <4>3. firm'[c].change = q - 100 * d
                <5>1. firm'[c].change = Payable(c, Earned) - 100 * Dollars(Payable(c, Earned))
                    BY <3>1
                <5> QED BY <2>4, <4>1, <5>1
            <4> QED BY <3>1, <4>2, <4>3
        <3> QED BY <2>4, <2>l, <2>t, <3>2
    <2>7. book'[c].spent = book[c].spent /\ book'[c].interest = book[c].interest + i
        <3>1. book'[c] = [book[c] EXCEPT
                  !.interest = book[c].interest + Interest(firm[c].balance),
                  !.charged = book[c].charged + Cost(c),
                  !.breached = IF Breaches(c, Earned) THEN book[c].breached \cup {clock.epoch + 1}
                               ELSE book[c].breached]
            BY <1>3 DEF Settle
        <3> QED BY <1>0, <2>3, <3>1 DEF BookType
    <2>8. 100 * (firm[c].balance - StartBalance + book[c].spent + book[c].interest)
              + firm[c].change = firm[c].net
        BY <2>1 DEF CashConserved
    <2> QED BY <2>6, <2>7, <2>8, <2>t, <1>0
<1>4. CASE Finish
    BY <1>4 DEF Finish, CashConserved
<1> QED BY <1>1, <1>2, <1>3, <1>4, StepKinds

\* No settlement creates or loses a cent: what a company holds, spent and paid as
\* interest is its start and the net result of its lines, whatever the rounding.
THEOREM CashIsConserved == Spec => []CashConserved
<1>1. Init => TypeOK /\ CashConserved
    BY TypeInit, CashInit
<1>2. TypeOK /\ CashConserved /\ [Next]_vars => (TypeOK /\ CashConserved)'
    BY TypeNext, CashNext
<1> QED BY <1>1, <1>2, PTL DEF Spec

-----------------------------------------------------------------------------
(* The verdict *)

LEMMA VerdictStep ==
    ASSUME [Next]_vars, match.status = "finished"
    PROVE  UNCHANGED <<match, firm, clock>>
<1>1. ~(Settle /\ Agreed) /\ ~Finish
    BY DEF Agreed, Finish
<1>2. ~WorkStep
    BY DEF WorkStep, Build, Buy, Overhaul, Sell, Delete, Pay, Work
<1>3. UNCHANGED <<firm, clock, match, exact, book>>
    BY <1>1, <1>2, StepKinds
<1> QED BY <1>3

\* Once a match is over its verdict stands, and no account or clock moves again.
THEOREM VerdictIsFinal == Spec => VerdictStands
<1>1. [Next]_vars => [match.status = "finished" => UNCHANGED <<match, firm, clock>>]_vars
    BY VerdictStep
<1> QED BY <1>1, PTL DEF Spec, VerdictStands

VerdictInv == StreakCounted /\ VerdictFollows

LEMMA BreachLimitType == BreachLimit \in Int
<1>1. PICK h \in Int : h = Grace * 3600 + Period - 1
    BY SettlementAssumption DEF SettlementAssumption
<1>2. h \div Period \in Int
    BY <1>1, SettlementAssumption DEF SettlementAssumption
<1> QED BY <1>1, <1>2 DEF BreachLimit, Larger

LEMMA VerdictInit == Init => VerdictInv
<1> SUFFICES ASSUME Init PROVE VerdictInv
    OBVIOUS
<1>1. StreakCounted
    <2>1. clock.epoch = 0
        BY DEF Init
    <2>2. ASSUME NEW c \in Companies
          PROVE  firm[c].insolvent = 0 /\ book[c].breached = {}
        BY DEF Init
    <2>3. 0 .. 0 = {0} /\ 1 .. 0 = {}
        OBVIOUS
    <2> QED BY <2>1, <2>2, <2>3 DEF StreakCounted
<1>2. VerdictFollows
    <2>1. match.status = "running" /\ match.reason = "none"
        BY DEF Init
    <2>2. ASSUME NEW c \in Companies PROVE ~Exhausted(c)
        <3>1. firm[c].insolvent = 0
            BY DEF Init
        <3> QED BY <3>1, BreachLimitType DEF Exhausted
    <2> QED BY <2>1, <2>2 DEF VerdictFollows
<1> QED BY <1>1, <1>2 DEF VerdictInv

\* A run of epochs ending with the next one lies in a set of epochs that has it
\* exactly when the run before it lay there already.
LEMMA StreakExtends ==
    ASSUME NEW e \in Nat, NEW S \in SUBSET (1 .. e), NEW n \in 1 .. e + 1
    PROVE  /\ (e + 1 - n + 1) .. (e + 1) \subseteq S \cup {e + 1}
                  <=> (e - (n - 1) + 1) .. e \subseteq S
           /\ ~((e + 1 - n + 1) .. (e + 1) \subseteq S)
<1>1. e + 1 \in (e + 1 - n + 1) .. (e + 1) /\ e + 1 \notin S
    OBVIOUS
<1>2. ASSUME (e + 1 - n + 1) .. (e + 1) \subseteq S \cup {e + 1},
             NEW k \in (e - (n - 1) + 1) .. e
      PROVE  k \in S
    <2>1. k \in (e + 1 - n + 1) .. (e + 1) /\ k # e + 1
        OBVIOUS
    <2> QED BY <1>2, <2>1
<1>3. ASSUME (e - (n - 1) + 1) .. e \subseteq S, NEW k \in (e + 1 - n + 1) .. (e + 1)
      PROVE  k \in S \cup {e + 1}
    <2>1. k = e + 1 \/ k \in (e - (n - 1) + 1) .. e
        OBVIOUS
    <2> QED BY <1>3, <2>1
<1> QED BY <1>1, <1>2, <1>3

LEMMA StreakNext == TypeOK /\ StreakCounted /\ [Next]_vars => StreakCounted'
<1> SUFFICES ASSUME TypeOK, StreakCounted, [Next]_vars, NEW c \in Companies
             PROVE  /\ firm'[c].insolvent <= clock'.epoch
                    /\ book'[c].breached \subseteq 1 .. clock'.epoch
                    /\ \A n \in 0 .. clock'.epoch :
                          (clock'.epoch - n + 1) .. clock'.epoch \subseteq book'[c].breached
                              <=> n <= firm'[c].insolvent
    BY DEF StreakCounted
<1>1. CASE UNCHANGED <<firm, clock, match, exact, book>> \/ WorkStep \/ Finish
    <2>1. /\ UNCHANGED clock /\ firm'[c].insolvent = firm[c].insolvent
          /\ book'[c].breached = book[c].breached
        BY <1>1, WorkSpends DEF Finish
    <2> QED BY <2>1 DEF StreakCounted
<1>2. CASE Settle /\ Agreed
    <2>0. PICK e \in Nat : e = clock.epoch
        BY DEF TypeOK
    <2>1. PICK S \in SUBSET (1 .. e), i \in Nat :
             /\ S = book[c].breached /\ i = firm[c].insolvent /\ i <= e
             /\ \A n \in 0 .. e : (e - n + 1) .. e \subseteq S <=> n <= i
        BY <2>0 DEF StreakCounted, TypeOK, FirmType
    <2>2. clock'.epoch = e + 1
        <3>1. clock' = [epoch |-> clock.epoch + 1, boundary |-> clock.boundary + Period,
                       days |-> IF Day > 0 THEN clock.days + Elapsed \div Day ELSE clock.days,
                       millis |-> IF Day > 0 THEN Elapsed % Day ELSE clock.millis]
            BY <1>2 DEF Settle
        <3> QED BY <2>0, <3>1
    <2>3. firm'[c].insolvent = IF Breaches(c, Earned) THEN i + 1 ELSE 0
        <3>1. firm'[c] =
                [balance |-> firm[c].balance - Interest(firm[c].balance)
                             + Dollars(Payable(c, Earned)),
                 change |-> Payable(c, Earned) - 100 * Dollars(Payable(c, Earned)),
                 insolvent |-> Insolvent(c, Earned), net |-> Ledger(c, Earned),
                 annual |-> firm[c].annual,
                 residue |-> ChargeResidue(firm[c].annual, firm[c].residue)]
            BY <1>2 DEF Settle
        <3>2. firm'[c].insolvent = Insolvent(c, Earned)
            BY <3>1
        <3> QED BY <2>1, <3>2 DEF Insolvent
    <2>4. book'[c].breached = IF Breaches(c, Earned) THEN S \cup {e + 1} ELSE S
        <3>1. book[c] \in BookType
            BY DEF TypeOK
        <3>2. book'[c] = [book[c] EXCEPT
                  !.interest = book[c].interest + Interest(firm[c].balance),
                  !.charged = book[c].charged + Cost(c),
                  !.breached = IF Breaches(c, Earned) THEN book[c].breached \cup {clock.epoch + 1}
                               ELSE book[c].breached]
            BY <1>2 DEF Settle
        <3> QED BY <2>0, <2>1, <3>1, <3>2 DEF BookType
    <2>5. ASSUME NEW n \in 0 .. e + 1
          PROVE  (e + 1 - n + 1) .. (e + 1) \subseteq book'[c].breached
                     <=> n <= firm'[c].insolvent
        <3>1. CASE n = 0
            BY <2>1, <2>3, <3>1
        <3>2. CASE n # 0 /\ Breaches(c, Earned)
            <4>1. n \in 1 .. e + 1 /\ n - 1 \in 0 .. e
                BY <3>2
            <4>2. (e + 1 - n + 1) .. (e + 1) \subseteq S \cup {e + 1} <=> n - 1 <= i
                BY <2>1, <4>1, StreakExtends
            <4> QED BY <2>1, <2>3, <2>4, <3>2, <4>2
        <3>3. CASE n # 0 /\ ~Breaches(c, Earned)
            <4>1. n \in 1 .. e + 1
                BY <3>3
            <4>2. ~((e + 1 - n + 1) .. (e + 1) \subseteq S)
                BY <4>1, StreakExtends
            <4> QED BY <2>3, <2>4, <3>3, <4>1, <4>2
        <3> QED BY <3>1, <3>2, <3>3
    <2>6. firm'[c].insolvent <= e + 1 /\ book'[c].breached \subseteq 1 .. e + 1
        BY <2>1, <2>3, <2>4
    <2> QED BY <2>2, <2>5, <2>6
<1> QED BY <1>1, <1>2, StepKinds

LEMMA VerdictFollowsNext ==
    TypeOK /\ StreakCounted /\ VerdictFollows /\ [Next]_vars => VerdictFollows'
<1> SUFFICES ASSUME TypeOK, StreakCounted, VerdictFollows, [Next]_vars PROVE VerdictFollows'
    OBVIOUS
<1> DEFINE Spent(c) == BreachLimit > 0 /\ firm'[c].insolvent >= BreachLimit
<1> SUFFICES /\ match'.status = "running" => match'.reason = "none"
             /\ match'.reason = "bankruptcy" =>
                   match'.loser \in Companies /\ match'.winner # match'.loser
                   /\ Spent(match'.loser)
             /\ \A c \in Companies : Spent(c) => match'.reason = "bankruptcy"
    BY DEF VerdictFollows, Exhausted, BreachLimit
<1>1. CASE UNCHANGED <<firm, clock, match, exact, book>>
    BY <1>1 DEF VerdictFollows, Exhausted
<1>2. CASE WorkStep
    <2>1. UNCHANGED match /\ \A c \in Companies : firm'[c].insolvent = firm[c].insolvent
        BY <1>2, WorkSpends
    <2> QED BY <2>1 DEF VerdictFollows, Exhausted
<1>3. CASE Finish
    <2>1. UNCHANGED firm /\ match.status = "running"
        BY <1>3 DEF Finish
    <2>2. match'.status = "finished" /\ match'.reason = "manual"
        BY <1>3 DEF Finish, Over
    <2> QED BY <2>1, <2>2 DEF VerdictFollows, Exhausted
<1>4. CASE Settle /\ Agreed
    <2>1. match.status = "running" /\ match.reason = "none" /\ Judge(Earned)
        BY <1>4 DEF Settle, Agreed, VerdictFollows
    <2>2. ASSUME NEW c \in Companies
          PROVE  Spent(c) <=> c \in Broke(Earned)
        <3>1. firm'[c] =
                [balance |-> firm[c].balance - Interest(firm[c].balance)
                             + Dollars(Payable(c, Earned)),
                 change |-> Payable(c, Earned) - 100 * Dollars(Payable(c, Earned)),
                 insolvent |-> Insolvent(c, Earned), net |-> Ledger(c, Earned),
                 annual |-> firm[c].annual,
                 residue |-> ChargeResidue(firm[c].annual, firm[c].residue)]
            BY <1>4 DEF Settle
        <3>2. firm'[c].insolvent = Insolvent(c, Earned)
            BY <3>1
        <3> QED BY <3>2 DEF Broke
    <2>3. ASSUME NEW loser \in First(Broke(Earned)), NEW winner \in First(Companies \ {loser}),
                 match' = Over("bankruptcy", winner, loser)
          PROVE  /\ match'.status = "finished" /\ match'.reason = "bankruptcy"
                 /\ match'.loser \in Companies /\ match'.winner # match'.loser
                 /\ Spent(match'.loser)
        <3>1. loser \in Broke(Earned) /\ winner \in Companies \ {loser} /\ loser \in Companies
            BY DEF First, Broke
        <3>2. match'.status = "finished" /\ match'.reason = "bankruptcy"
              /\ match'.loser = loser /\ match'.winner = winner
            BY <2>3 DEF Over
        <3> HIDE DEF Spent
        <3> QED BY <2>2, <3>1, <3>2
    <2>4. ASSUME Broke(Earned) = {},
                 \/ \E winner \in Companies : match' \in
                       {Over("valuation-target", winner, None), Over("epoch-limit", winner, None)}
                 \/ UNCHANGED match
          PROVE  /\ match'.status = "running" => match'.reason = "none"
                 /\ match'.reason # "bankruptcy"
                 /\ \A c \in Companies : ~Spent(c)
        <3>1. \A c \in Companies : ~Spent(c)
            <4> HIDE DEF Spent
            <4> QED BY <2>2, <2>4
        <3>2. CASE UNCHANGED match
            BY <2>1, <3>1, <3>2
        <3>3. ASSUME NEW winner \in Companies, match' \in
                       {Over("valuation-target", winner, None), Over("epoch-limit", winner, None)}
              PROVE  match'.status = "finished" /\ match'.reason # "bankruptcy"
            BY <3>3 DEF Over
        <3> QED BY <2>4, <3>1, <3>2, <3>3
    <2>5. \/ \E loser \in First(Broke(Earned)) : \E winner \in First(Companies \ {loser}) :
                match' = Over("bankruptcy", winner, loser)
          \/ /\ Broke(Earned) = {}
             /\ \/ \E winner \in Companies : match' \in
                      {Over("valuation-target", winner, None), Over("epoch-limit", winner, None)}
                \/ UNCHANGED match
        BY <2>1 DEF Judge
    <2> HIDE DEF Spent
    <2> QED BY <2>3, <2>4, <2>5
<1> QED BY <1>1, <1>2, <1>3, <1>4, StepKinds

\* A company is ruined exactly when its count of breaches has reached the limit.
LEMMA RuinIsCounted ==
    TypeOK /\ StreakCounted => \A c \in Companies : Ruined(c) <=> Exhausted(c)
<1> SUFFICES ASSUME TypeOK, StreakCounted, NEW c \in Companies
             PROVE  Ruined(c) <=> Exhausted(c)
    OBVIOUS
<1>1. PICK b \in Int : b = BreachLimit
    BY BreachLimitType
<1>2. PICK e \in Nat, i \in Nat : e = clock.epoch /\ i = firm[c].insolvent /\ i <= e
    BY DEF TypeOK, FirmType, StreakCounted
<1>3. \A n \in 0 .. e : (e - n + 1) .. e \subseteq book[c].breached <=> n <= i
    BY <1>2 DEF StreakCounted
<1>4. Ruined(c) <=> b > 0 /\ e >= b /\ (e - b + 1) .. e \subseteq book[c].breached
    BY <1>1, <1>2 DEF Ruined
<1>5. Exhausted(c) <=> b > 0 /\ i >= b
    BY <1>1, <1>2 DEF Exhausted
<1> QED BY <1>2, <1>3, <1>4, <1>5

LEMMA VerdictDue == TypeOK /\ VerdictInv => BankruptcyIsDue
BY RuinIsCounted DEF VerdictInv, VerdictFollows, BankruptcyIsDue

\* A match ends in bankruptcy exactly when a company broke its credit in each of
\* the last BreachLimit settlements, and then that company has lost.
THEOREM BankruptcyAsDue == Spec => []BankruptcyIsDue
<1>1. Init => TypeOK /\ VerdictInv
    BY TypeInit, VerdictInit
<1>2. TypeOK /\ VerdictInv /\ [Next]_vars => (TypeOK /\ VerdictInv)'
    BY TypeNext, StreakNext, VerdictFollowsNext DEF VerdictInv
<1>3. TypeOK /\ VerdictInv => BankruptcyIsDue
    BY VerdictDue
<1> QED BY <1>1, <1>2, <1>3, PTL DEF Spec

-----------------------------------------------------------------------------
(* What lines are paid *)

PastType == [earned : Int, paid : Int, replayed : Int, forgone : Int]
PaidInv == PaidAsEarned /\ IdleLinesEmpty

LEMMA PaidInit == Init => PaidInv
BY DEF Init, NoService, PaidInv, PaidAsEarned, IdleLinesEmpty

LEMMA PaidRegister ==
    ASSUME TypeOK, PaidInv, NEW l \in Lines, NEW m \in Markets, NEW on \in BOOLEAN,
           NEW f \in Fares, NEW vs \in SUBSET Vehicles, Register(l, m, on, vs, f)
    PROVE  PaidInv'
<1>1. CASE Refused(l, m, on) /\ Fail("late")
    BY <1>1 DEF Fail, PaidInv, PaidAsEarned, IdleLinesEmpty
<1>2. CASE ~(Refused(l, m, on) /\ Fail("late"))
    <2>0. /\ line \in [Lines -> LineType] /\ past \in [Lines -> PastType]
          /\ line[l] \in LineType /\ past[l] \in PastType /\ Limit \in Nat
          /\ m # None
        BY SettlementAssumption DEF SettlementAssumption, TypeOK, PastType
    <2>1. PICK e \in Int, c \in Int : e = line[l].earned /\ c = line[l].cursor
        BY <2>0 DEF LineType
    <2>2. /\ line'[l].market = m /\ line'[l].enabled = on
          /\ line'[l].earned = IF Retired(l, on) THEN 0 ELSE e
          /\ line'[l].cursor = IF CursorDropped(l, m, on) THEN 0 ELSE c
        BY <1>2, <2>0, <2>1 DEF Register
    <2>3. /\ past'[l].earned = past[l].earned /\ past'[l].paid = past[l].paid
          /\ past'[l].replayed = IF CursorDropped(l, m, on) /\ ~Retired(l, on)
                                THEN past[l].replayed + c ELSE past[l].replayed
          /\ past'[l].forgone = IF Retired(l, on) THEN past[l].forgone + e - c ELSE past[l].forgone
        BY <1>2, <2>0, <2>1 DEF Register, PastType
    <2>4. ASSUME NEW k \in Lines, k # l PROVE line'[k] = line[k] /\ past'[k] = past[k]
        BY <1>2, <2>0, <2>4 DEF Register
    <2>5. /\ past[l].paid + (e - c) + past[l].forgone = past[l].earned + past[l].replayed
          /\ c <= e /\ c >= 0
          /\ line[l].market = None \/ (~line[l].enabled /\ l \notin Cargo) => e = 0 /\ c = 0
        BY <2>0, <2>1 DEF PaidInv, PaidAsEarned, IdleLinesEmpty, LineType
    \* A line that is retired drops its cursor, or had none.
    <2>6. ASSUME Retired(l, on), ~CursorDropped(l, m, on) PROVE e = 0 /\ c = 0
        BY <2>5, <2>6 DEF Retired, CursorDropped
    <2>7. /\ past'[l].paid + (line'[l].earned - line'[l].cursor) + past'[l].forgone
                 = past'[l].earned + past'[l].replayed
          /\ line'[l].cursor <= line'[l].earned
        <3>1. /\ past[l].paid \in Int /\ past[l].forgone \in Int
              /\ past[l].earned \in Int /\ past[l].replayed \in Int
            BY <2>0 DEF PastType
        <3>2. CASE Retired(l, on) /\ CursorDropped(l, m, on)
            BY <2>1, <2>2, <2>3, <2>5, <3>1, <3>2
        <3>3. CASE Retired(l, on) /\ ~CursorDropped(l, m, on)
            <4>1. e = 0 /\ c = 0
                BY <2>6, <3>3
            <4> QED BY <2>2, <2>3, <2>5, <3>1, <3>3, <4>1
        <3>4. CASE ~Retired(l, on) /\ CursorDropped(l, m, on)
            BY <2>1, <2>2, <2>3, <2>5, <3>1, <3>4
        <3>5. CASE ~Retired(l, on) /\ ~CursorDropped(l, m, on)
            BY <2>1, <2>2, <2>3, <2>5, <3>1, <3>5
        <3> QED BY <3>2, <3>3, <3>4, <3>5
    <2>8. line'[l].market = None \/ (~line'[l].enabled /\ l \notin Cargo)
              => line'[l].earned = 0 /\ line'[l].cursor = 0
        BY <2>0, <2>2, <2>6 DEF Retired
    <2>9. ASSUME NEW k \in Lines
          PROVE  /\ past'[k].paid + (line'[k].earned - line'[k].cursor) + past'[k].forgone
                        = past'[k].earned + past'[k].replayed
                 /\ line'[k].cursor <= line'[k].earned
                 /\ line'[k].market = None \/ (~line'[k].enabled /\ k \notin Cargo)
                        => line'[k].earned = 0 /\ line'[k].cursor = 0
        <3>1. CASE k = l
            BY <2>7, <2>8, <3>1
        <3>2. CASE k # l
            BY <2>4, <3>2 DEF PaidInv, PaidAsEarned, IdleLinesEmpty
        <3> QED BY <3>1, <3>2
    <2> QED BY <2>9 DEF PaidInv, PaidAsEarned, IdleLinesEmpty
<1> QED BY <1>1, <1>2

LEMMA PaidFareAdjust ==
    ASSUME TypeOK, PaidInv, NEW l \in Lines, NEW f \in Fares, FareAdjust(l, f)
    PROVE  PaidInv'
<1>1. UNCHANGED past
    BY DEF FareAdjust, Fail
<1>2. ASSUME NEW k \in Lines
      PROVE  /\ line'[k].earned = line[k].earned /\ line'[k].cursor = line[k].cursor
             /\ line'[k].market = line[k].market /\ line'[k].enabled = line[k].enabled
    <2>1. line \in [Lines -> LineType] /\ line[k] \in LineType
        BY DEF TypeOK
    <2>2. line' = line \/ line' = [line EXCEPT ![l].fare = f]
        BY DEF FareAdjust, Fail
    <2> QED BY <2>1, <2>2 DEF LineType
<1> QED BY <1>1, <1>2 DEF PaidInv, PaidAsEarned, IdleLinesEmpty

LEMMA PaidRelease ==
    ASSUME TypeOK, PaidInv, NEW l \in Lines, NEW cents \in Takings, Release(l, cents)
    PROVE  PaidInv'
<1>0. /\ line \in [Lines -> LineType] /\ past \in [Lines -> PastType]
      /\ line[l] \in LineType /\ past[l] \in PastType /\ Limit \in Nat /\ cents \in Nat
    BY SettlementAssumption DEF SettlementAssumption, TypeOK, PastType
<1>1. PICK e \in 0 .. Limit : e = Saturate(line[l].earned + cents)
    BY SaturateRange
\* What is saturated is never less than it was.
<1>2. e >= line[l].earned
    BY <1>0, <1>1 DEF Saturate, LineType
<1>3. /\ line'[l].earned = e /\ line'[l].cursor = line[l].cursor
      /\ line'[l].market = line[l].market /\ line'[l].enabled = line[l].enabled
    <2>1. line' = [line EXCEPT ![l].earned = e,
                      ![l].contract = IF l \in Cargo THEN line[l].market ELSE line[l].contract]
        BY <1>0, <1>1 DEF Release, LineType
    <2> QED BY <1>0, <2>1 DEF LineType
<1>4. /\ past'[l].earned = past[l].earned + e - line[l].earned
      /\ past'[l].paid = past[l].paid /\ past'[l].replayed = past[l].replayed
      /\ past'[l].forgone = past[l].forgone
    <2>1. past' = [past EXCEPT ![l].earned = past[l].earned + e - line[l].earned]
        BY <1>0, <1>1 DEF Release
    <2> QED BY <1>0, <2>1 DEF PastType
<1>5. line[l].market # None /\ line[l].enabled
    BY DEF Release, Served
<1>6. ASSUME NEW k \in Lines, k # l PROVE line'[k] = line[k] /\ past'[k] = past[k]
    BY <1>0, <1>6 DEF Release
<1>7. /\ past'[l].paid + (line'[l].earned - line'[l].cursor) + past'[l].forgone
             = past'[l].earned + past'[l].replayed
      /\ line'[l].cursor <= line'[l].earned
    <2>1. /\ past[l].paid \in Int /\ past[l].forgone \in Int
          /\ past[l].earned \in Int /\ past[l].replayed \in Int
          /\ line[l].earned \in Int /\ line[l].cursor \in Int /\ e \in Int
        BY <1>0 DEF PastType, LineType
    <2>2. /\ past[l].paid + (line[l].earned - line[l].cursor) + past[l].forgone
                 = past[l].earned + past[l].replayed
          /\ line[l].cursor <= line[l].earned
        BY DEF PaidInv, PaidAsEarned
    <2> QED BY <1>2, <1>3, <1>4, <2>1, <2>2
<1>8. ASSUME NEW k \in Lines
      PROVE  /\ past'[k].paid + (line'[k].earned - line'[k].cursor) + past'[k].forgone
                    = past'[k].earned + past'[k].replayed
             /\ line'[k].cursor <= line'[k].earned
             /\ line'[k].market = None \/ (~line'[k].enabled /\ k \notin Cargo)
                    => line'[k].earned = 0 /\ line'[k].cursor = 0
    <2>1. CASE k = l
        BY <1>3, <1>5, <1>7, <2>1
    <2>2. CASE k # l
        BY <1>6, <2>2 DEF PaidInv, PaidAsEarned, IdleLinesEmpty
    <2> QED BY <2>1, <2>2
<1> QED BY <1>8 DEF PaidInv, PaidAsEarned, IdleLinesEmpty

LEMMA PaidSettle ==
    ASSUME TypeOK, PaidInv, Settle, Agreed
    PROVE  PaidInv'
<1>1. ASSUME NEW l \in Lines
      PROVE  /\ past'[l].paid + (line'[l].earned - line'[l].cursor) + past'[l].forgone
                    = past'[l].earned + past'[l].replayed
             /\ line'[l].cursor <= line'[l].earned
             /\ line'[l].market = None \/ (~line'[l].enabled /\ l \notin Cargo)
                    => line'[l].earned = 0 /\ line'[l].cursor = 0
    <2>0. line[l] \in LineType /\ past[l] \in PastType
        BY DEF TypeOK, PastType
    <2>1. /\ line'[l].earned = line[l].earned
          /\ line'[l].cursor = IF l \in Served THEN line[l].earned ELSE line[l].cursor
          /\ line'[l].market = line[l].market /\ line'[l].enabled = line[l].enabled
        <3>1. line'[l] = [line[l] EXCEPT
                   !.cursor = IF l \in Served THEN line[l].earned ELSE line[l].cursor,
                   !.share = IF l \in Served
                             THEN EarningsResidue(Delivered(l, Earned), line[l].share)
                             ELSE line[l].share,
                   !.residue = IF l \in Served /\ ~Managed(l)
                               THEN ChargeResidue(line[l].annual, line[l].residue)
                               ELSE line[l].residue]
            BY DEF Settle
        <3> QED BY <2>0, <3>1 DEF LineType
    <2>2. /\ past'[l].paid = IF l \in Served THEN past[l].paid + (line[l].earned - line[l].cursor)
                            ELSE past[l].paid
          /\ past'[l].earned = past[l].earned /\ past'[l].replayed = past[l].replayed
          /\ past'[l].forgone = past[l].forgone
        <3>1. past'[l] = [past[l] EXCEPT !.paid =
                  IF l \in Served THEN past[l].paid + (line[l].earned - line[l].cursor)
                  ELSE past[l].paid]
            BY DEF Settle, Delivered, Earned
        <3> QED BY <2>0, <3>1 DEF PastType
    <2>3. /\ past[l].paid \in Int /\ past[l].forgone \in Int
          /\ past[l].earned \in Int /\ past[l].replayed \in Int
          /\ line[l].earned \in Int /\ line[l].cursor \in Int
        BY <2>0, SettlementAssumption DEF SettlementAssumption, PastType, LineType
    <2>4. /\ past[l].paid + (line[l].earned - line[l].cursor) + past[l].forgone
                 = past[l].earned + past[l].replayed
          /\ line[l].cursor <= line[l].earned
          /\ line[l].market = None \/ (~line[l].enabled /\ l \notin Cargo)
                 => line[l].earned = 0 /\ line[l].cursor = 0
        BY DEF PaidInv, PaidAsEarned, IdleLinesEmpty
    <2> QED BY <2>1, <2>2, <2>3, <2>4
<1> QED BY <1>1 DEF PaidInv, PaidAsEarned, IdleLinesEmpty

\* The takings of a line that is deleted are forgone.
LEMMA PaidDelete ==
    ASSUME TypeOK, PaidInv, NEW l \in Lines, Delete(l)
    PROVE  PaidInv'
<1>1. ASSUME NEW k \in Lines
      PROVE  /\ past'[k].paid + (line'[k].earned - line'[k].cursor) + past'[k].forgone
                    = past'[k].earned + past'[k].replayed
             /\ line'[k].cursor <= line'[k].earned
             /\ line'[k].market = None \/ (~line'[k].enabled /\ k \notin Cargo)
                    => line'[k].earned = 0 /\ line'[k].cursor = 0
    <2>0. /\ line \in [Lines -> LineType] /\ past \in [Lines -> PastType]
          /\ line[k] \in LineType /\ past[k] \in PastType /\ Limit \in Nat
        BY SettlementAssumption DEF SettlementAssumption, TypeOK, PastType
    <2>1. /\ past[k].paid + (line[k].earned - line[k].cursor) + past[k].forgone
                 = past[k].earned + past[k].replayed
          /\ line[k].cursor <= line[k].earned
          /\ line[k].market = None \/ (~line[k].enabled /\ k \notin Cargo)
                 => line[k].earned = 0 /\ line[k].cursor = 0
        BY DEF PaidInv, PaidAsEarned, IdleLinesEmpty
    <2>2. CASE k = l
        <3>1. line'[k].earned = 0 /\ line'[k].cursor = 0
            BY <2>0, <2>2 DEF Delete, NoService
        <3>2. PICK n \in Int : n = past[k].forgone + line[k].earned - line[k].cursor
            BY <2>0 DEF LineType, PastType
        <3>3. past' = [past EXCEPT ![k].forgone = n]
            BY <2>0, <2>2, <3>2 DEF Delete
        <3>4. /\ past'[k].paid = past[k].paid /\ past'[k].earned = past[k].earned
              /\ past'[k].replayed = past[k].replayed /\ past'[k].forgone = n
            BY <2>0, <3>3 DEF PastType
        <3>5. /\ past[k].paid \in Int /\ past[k].forgone \in Int /\ past[k].earned \in Int
              /\ past[k].replayed \in Int /\ line[k].earned \in Int /\ line[k].cursor \in Int
            BY <2>0 DEF PastType, LineType
        <3> QED BY <2>1, <3>1, <3>2, <3>4, <3>5
    <2>3. CASE k # l
        <3>1. line'[k] = line[k] /\ past'[k] = past[k]
            BY <2>0, <2>3 DEF Delete
        <3> QED BY <2>1, <3>1
    <2> QED BY <2>2, <2>3
<1> QED BY <1>1 DEF PaidInv, PaidAsEarned, IdleLinesEmpty

LEMMA PaidNext == TypeOK /\ PaidInv /\ [Next]_vars => PaidInv'
<1> SUFFICES ASSUME TypeOK, PaidInv, [Next]_vars PROVE PaidInv'
    OBVIOUS
<1>1. ASSUME NEW l \in Lines, NEW m \in Markets, NEW on \in BOOLEAN, NEW f \in Fares,
             NEW vs \in SUBSET Vehicles, Register(l, m, on, vs, f)
      PROVE  PaidInv'
    BY <1>1, PaidRegister
<1>2. ASSUME NEW l \in Lines, NEW f \in Fares, FareAdjust(l, f) PROVE PaidInv'
    BY <1>2, PaidFareAdjust
<1>3. ASSUME NEW l \in Lines, NEW cents \in Takings, Release(l, cents) PROVE PaidInv'
    BY <1>3, PaidRelease
<1>4. CASE Settle /\ Agreed
    BY <1>4, PaidSettle
<1>5. ASSUME UNCHANGED <<line, past>> PROVE PaidInv'
    BY <1>5 DEF PaidInv, PaidAsEarned, IdleLinesEmpty
<1>6. ASSUME WorkStep PROVE UNCHANGED <<line, past>> \/ \E l \in Lines : Delete(l)
    BY <1>6 DEF WorkStep, Build, Buy, Overhaul, Sell, Pay
<1>7. ASSUME Submit \/ Refuse \/ CloseBoundary \/ Finish \/ UNCHANGED vars
      PROVE  UNCHANGED <<line, past>>
    BY <1>7 DEF Submit, Refuse, CloseBoundary, Finish, vars
<1>8. ASSUME Settle, ~Agreed PROVE UNCHANGED <<line, past>>
    BY <1>8 DEF Settle, Fail
<1>9. ASSUME NEW l \in Lines, Delete(l) PROVE PaidInv'
    BY <1>9, PaidDelete
<1> QED BY <1>1, <1>2, <1>3, <1>4, <1>5, <1>6, <1>7, <1>8, <1>9 DEF Next, WorkStep

\* Nothing a line earned is paid twice or lost, but what a registration replays and
\* what a registration or the deletion of the line forgoes.
THEOREM PaidAsItEarned == Spec => []PaidAsEarned
<1>1. Init => TypeOK /\ PaidInv
    BY TypeInit, PaidInit
<1>2. TypeOK /\ PaidInv /\ [Next]_vars => (TypeOK /\ PaidInv)'
    BY TypeNext, PaidNext
<1>3. PaidInv => PaidAsEarned
    BY DEF PaidInv
<1> QED BY <1>1, <1>2, <1>3, PTL DEF Spec

-----------------------------------------------------------------------------
(* Time *)

LEMMA DivisionExact ==
    ASSUME NEW n \in Int, NEW d \in Int, d > 0
    PROVE  n = (d * (n \div d)) + (n % d)
OBVIOUS

LEMMA TimeInit == Init => TimeConserved
<1> SUFFICES ASSUME Init PROVE TimeConserved
    OBVIOUS
<1>1. clock.epoch = 0 /\ clock.boundary = StartTime + Period /\ clock.days = 0 /\ clock.millis = 0
    BY DEF Init
<1>2. Period \in Nat /\ StartTime \in Nat /\ Day \in Nat
    BY SettlementAssumption DEF SettlementAssumption
<1>3. Period * (0 + 1) = Period /\ 0 * Period * 1000 = 0 /\ 0 * Day + 0 = 0
    BY <1>2
<1> QED BY <1>1, <1>2, <1>3 DEF TimeConserved

LEMMA TimeNext == TypeOK /\ TimeConserved /\ [Next]_vars => TimeConserved'
<1> SUFFICES ASSUME TypeOK, TimeConserved, [Next]_vars PROVE TimeConserved'
    OBVIOUS
<1>1. CASE UNCHANGED clock
    BY <1>1 DEF TimeConserved
<1>2. CASE Settle /\ Agreed
    <2>0. Period \in Nat /\ StartTime \in Nat /\ Day \in Nat
        BY SettlementAssumption DEF SettlementAssumption
    <2>1. PICK e \in Nat, b \in Nat, y \in Nat, r \in Nat :
              e = clock.epoch /\ b = clock.boundary /\ y = clock.days /\ r = clock.millis
        BY DEF TypeOK
    <2>2. PICK p \in Nat : p = Period * 1000
        BY <2>0
    <2>3. /\ b = StartTime + Period * (e + 1)
          /\ IF Day > 0 THEN y * Day + r = e * Period * 1000 ELSE y = 0 /\ r = 0
        BY <2>1 DEF TimeConserved
    <2>4. PICK q \in Int, m \in Int :
              /\ Day > 0 => q = (r + p) \div Day /\ m = (r + p) % Day
              /\ clock' = [epoch |-> e + 1, boundary |-> b + Period,
                           days |-> IF Day > 0 THEN y + q ELSE y,
                           millis |-> IF Day > 0 THEN m ELSE r]
        <3>1. clock' = [epoch |-> clock.epoch + 1, boundary |-> clock.boundary + Period,
                       days |-> IF Day > 0 THEN clock.days + Elapsed \div Day ELSE clock.days,
                       millis |-> IF Day > 0 THEN Elapsed % Day ELSE clock.millis]
            BY <1>2 DEF Settle
        <3>2. Elapsed = r + p
            BY <2>1, <2>2 DEF Elapsed
        <3>3. CASE Day > 0
            <4>1. (r + p) \div Day \in Int /\ (r + p) % Day \in Int
                BY <2>0, <3>3
            <4> QED BY <2>1, <3>1, <3>2, <3>3, <4>1
        <3>4. CASE ~(Day > 0)
            BY <2>1, <3>1, <3>4
        <3> QED BY <3>3, <3>4
    <2>5. b + Period = StartTime + Period * (e + 1 + 1)
        <3>1. Period * (e + 1 + 1) = Period * (e + 1) + Period
            BY <2>0
        <3> QED BY <2>0, <2>3, <3>1
    <2>6. ASSUME Day > 0 PROVE (y + q) * Day + m = (e + 1) * Period * 1000
        <3>1. r + p = q * Day + m
            <4>1. r + p = (Day * ((r + p) \div Day)) + ((r + p) % Day)
                BY <2>0, <2>6, DivisionExact
            <4> QED BY <2>0, <2>4, <2>6, <4>1
        <3>2. (y + q) * Day + m = y * Day + (q * Day + m)
            BY <2>0
        <3>3. y * Day + r = e * Period * 1000
            BY <2>3, <2>6
        <3>4. (e + 1) * Period * 1000 = e * Period * 1000 + p
            BY <2>0, <2>2
        <3>5. PICK s \in Int, t \in Int, u \in Int :
                  s = y * Day /\ t = q * Day /\ u = e * Period * 1000
            BY <2>0
        <3> QED BY <3>1, <3>2, <3>3, <3>4, <3>5
    <2>7. /\ clock'.epoch = e + 1 /\ clock'.boundary = b + Period
          /\ clock'.days = IF Day > 0 THEN y + q ELSE y
          /\ clock'.millis = IF Day > 0 THEN m ELSE r
        BY <2>4
    <2>8. PICK k \in Nat, g \in Int : k = e + 1 /\ g = y + q
        OBVIOUS
    <2>9. clock'.boundary = StartTime + Period * (clock'.epoch + 1)
        BY <2>3, <2>5, <2>7
    <2>10. Day > 0 => clock'.days * Day + clock'.millis = clock'.epoch * Period * 1000
        <3>1. Day > 0 => g * Day + m = k * Period * 1000
            BY <2>6, <2>8
        <3>2. clock'.epoch = k /\ (Day > 0 => clock'.days = g /\ clock'.millis = m)
            BY <2>7, <2>8
        <3> QED BY <3>1, <3>2
    <2>11. ~(Day > 0) => clock'.days = 0 /\ clock'.millis = 0
        BY <2>3, <2>7
    <2> QED BY <2>9, <2>10, <2>11 DEF TimeConserved
<1>3. ASSUME WorkStep PROVE UNCHANGED clock
    BY <1>3, WorkSpends
<1>4. ASSUME Finish PROVE UNCHANGED clock
    BY <1>4 DEF Finish
<1> QED BY <1>1, <1>2, <1>3, <1>4, StepKinds

\* The calendar and the schedule of settlements never drift apart.
THEOREM TimeIsConserved == Spec => []TimeConserved
<1>1. Init => TypeOK /\ TimeConserved
    BY TypeInit, TimeInit
<1>2. TypeOK /\ TimeConserved /\ [Next]_vars => (TypeOK /\ TimeConserved)'
    BY TypeNext, TimeNext
<1> QED BY <1>1, <1>2, PTL DEF Spec

-----------------------------------------------------------------------------
(* The race *)

RaceInv == SentIsAgreed /\ RefusedOnlyByRace

\* What a game computes depends on the lines, the accounts, the vehicles and the clock.
LEMMA ResultsUnchanged ==
    ASSUME UNCHANGED <<line, firm, vehicle, clock>>
    PROVE  Earned' = Earned /\ Results(Earned)' = Results(Earned)
BY DEF Earned, Results, Gross, Served, Income, Cost, LineCost, Run, Borne, Managed, Fleet,
       Total, Annual, VehicleCharge, Delivered, Unassigned, Kept, Assigned, Bearers, Listing

LEMMA AgreedUnchanged ==
    ASSUME UNCHANGED <<line, firm, vehicle, clock, match, sent>>, Agreed
    PROVE  Agreed'
BY ResultsUnchanged DEF Agreed

LEMMA RaceInit == Init => RaceInv
BY DEF Init, RaceInv, SentIsAgreed, RefusedOnlyByRace

LEMMA RaceNext == TypeOK /\ RaceInv /\ [Next]_vars => RaceInv'
<1> SUFFICES ASSUME TypeOK, RaceInv, [Next]_vars PROVE RaceInv'
    OBVIOUS
<1>0. SentIsAgreed /\ RefusedOnlyByRace
    BY DEF RaceInv
\* An entry that opens no boundary leaves sent behind, or is noted as a race.
<1>1. ASSUME UNCHANGED <<sent, fault>>, raced' = (raced \/ sent # None)
      PROVE  RaceInv'
    BY <1>0, <1>1 DEF RaceInv, SentIsAgreed, RefusedOnlyByRace
<1>2. ASSUME Fail("late") PROVE RaceInv'
    BY <1>0, <1>2 DEF Fail, RaceInv, SentIsAgreed, RefusedOnlyByRace
<1>3. ASSUME NEW l, NEW m, NEW on, NEW vs, NEW f, Register(l, m, on, vs, f)
      PROVE  RaceInv'
    BY <1>1, <1>2, <1>3 DEF Register
<1>4. ASSUME NEW l, NEW f, FareAdjust(l, f)
      PROVE  RaceInv'
    BY <1>1, <1>2, <1>4 DEF FareAdjust
<1>5. ASSUME NEW l, NEW cents, Release(l, cents)
      PROVE  RaceInv'
    BY <1>1, <1>5 DEF Release
<1>6. CASE WorkStep
    <2>1. UNCHANGED <<sent, fault, raced>> /\ pending' = TRUE
        BY <1>6, WorkSpends
    <2> QED BY <1>0, <2>1 DEF RaceInv, SentIsAgreed, RefusedOnlyByRace
<1>7. CASE Submit
    <2>1. UNCHANGED <<line, firm, vehicle, clock, match, fault>> /\ fault = "none"
        BY <1>7 DEF Submit, money
    <2>2. /\ match'.status = "running" /\ sent'.boundary = clock'.boundary
          /\ sent'.earned = Earned /\ sent'.results = Results(Earned)
        BY <1>7, <2>1 DEF Submit
    <2>3. Agreed'
        BY <2>1, <2>2, ResultsUnchanged DEF Agreed
    <2> QED BY <2>1, <2>3 DEF RaceInv, SentIsAgreed, RefusedOnlyByRace
<1>8. CASE Refuse
    BY <1>0, <1>8 DEF Refuse, RaceInv, SentIsAgreed, RefusedOnlyByRace
<1>9. CASE Settle /\ Agreed
    <2>1. sent' = None /\ UNCHANGED <<fault, raced>>
        BY <1>9 DEF Settle
    <2> QED BY <1>0, <2>1 DEF RaceInv, SentIsAgreed, RefusedOnlyByRace
\* A settlement that is refused had been overtaken.
<1>10. CASE Settle /\ ~Agreed
    <2>1. fault = "none" /\ ~pending /\ sent # None /\ Fail("settlement")
        BY <1>10 DEF Settle
    <2>2. raced
        BY <1>0, <1>10, <2>1 DEF SentIsAgreed, TypeOK
    <2> QED BY <2>1, <2>2 DEF Fail, RaceInv, SentIsAgreed, RefusedOnlyByRace
<1>11. CASE CloseBoundary \/ Finish
    <2>1. sent = None /\ UNCHANGED <<sent, fault, raced>>
        BY <1>11 DEF CloseBoundary, Finish
    <2> QED BY <1>0, <2>1 DEF RaceInv, SentIsAgreed, RefusedOnlyByRace
<1>12. CASE UNCHANGED vars
    <2>1. UNCHANGED <<line, firm, vehicle, clock, match, sent, fault, raced, pending>>
        BY <1>12 DEF vars
    <2>2. Agreed => Agreed'
        BY <2>1, AgreedUnchanged
    <2> QED BY <1>0, <2>1, <2>2 DEF RaceInv, SentIsAgreed, RefusedOnlyByRace
<1> QED BY <1>3, <1>4, <1>5, <1>6, <1>7, <1>8, <1>9, <1>10, <1>11, <1>12 DEF Next, WorkStep

\* The games refuse a settlement only if a departure, a fare or a registration was
\* ordered after the host's game computed it.
THEOREM RefusedForARace == Spec => []RefusedOnlyByRace
<1>1. Init => TypeOK /\ RaceInv
    BY TypeInit, RaceInit
<1>2. TypeOK /\ RaceInv /\ [Next]_vars => (TypeOK /\ RaceInv)'
    BY TypeNext, RaceNext
<1>3. RaceInv => RefusedOnlyByRace
    BY DEF RaceInv
<1> QED BY <1>1, <1>2, <1>3, PTL DEF Spec

-----------------------------------------------------------------------------
(* Annual costs *)

\* What an interval of an annual cost charges, below the limit, and the part of a
\* cent it carries are the cost of the interval and what was carried before.
LEMMA ChargeExact ==
    ASSUME NEW annual \in Nat, NEW residue \in Nat, Charge(annual, residue) < Limit
    PROVE  Year * Charge(annual, residue) + ChargeResidue(annual, residue)
             = Period * annual + residue
<1>1. Year \in Nat /\ Year > 0 /\ Period \in Nat /\ Limit \in Nat
    BY SettlementAssumption DEF SettlementAssumption
<1>2. PICK q \in Nat, r \in Nat :
         q = annual \div Year /\ r = annual % Year /\ annual = Year * q + r
    <2>1. annual \div Year \in Nat /\ annual % Year \in Nat
        BY <1>1
    <2> QED BY <1>1, <2>1, DivisionExact
<1>3. PICK rp \in Nat : rp = r * Period
    BY <1>1
<1>4. PICK a \in Nat : a = Accrued(annual, residue) /\ a = rp + residue
    <2>1. Accrued(annual, residue) = r * Period + residue
        BY <1>2 DEF Accrued
    <2> QED BY <1>3, <2>1
<1>5. PICK d \in Nat, m \in Nat : d = a \div Year /\ m = a % Year /\ a = Year * d + m
    <2>1. a \div Year \in Nat /\ a % Year \in Nat
        BY <1>1, <1>4
    <2> QED BY <1>1, <1>4, <2>1, DivisionExact
<1>6. PICK qp \in Nat : qp = q * Period
    BY <1>1
<1>7. Charge(annual, residue) = qp + d /\ ChargeResidue(annual, residue) = m
    <2>1. Charge(annual, residue) = Saturate(qp + d)
        BY <1>2, <1>4, <1>5, <1>6 DEF Charge
    <2>2. ChargeResidue(annual, residue) = m
        BY <1>4, <1>5 DEF ChargeResidue
    <2>3. qp + d \in Nat
        OBVIOUS
    <2> QED BY <1>1, <2>1, <2>2, <2>3 DEF Saturate
<1>8. Year * (qp + d) = Year * qp + Year * d /\ Period * (Year * q + r) = Period * (Year * q) + rp
    BY <1>1, <1>3
<1>9. Period * (Year * q) = Year * qp
    BY <1>1, <1>6
<1>10. PICK x \in Int, y \in Int : x = Year * qp /\ y = Year * d
    BY <1>1
<1>11. Year * Charge(annual, residue) = x + y /\ Period * annual = x + rp
    BY <1>2, <1>7, <1>8, <1>9, <1>10
<1>12. x + y + m = x + rp + residue
    <2>1. y + m = rp + residue
        BY <1>4, <1>5, <1>10
    <2> QED BY ONLY <2>1, x \in Int, y \in Int, m \in Nat, rp \in Nat, residue \in Nat
<1> QED BY <1>7, <1>11, <1>12

LEMMA SaturateBelow == ASSUME NEW n \in Nat, Saturate(n) < Limit PROVE Saturate(n) = n /\ n < Limit
BY SettlementAssumption DEF SettlementAssumption, Saturate

\* What the vehicles of a company are charged is borne by its lines, each vehicle by
\* one of them, or is the unassigned rest; with the lines that are charged an annual
\* cost of their own and the infrastructure this is the whole cost of an interval.
Own(c) == {l \in Run(c) : ~Managed(l)}
OwnCharge == [l \in Lines |-> IF Managed(l) THEN 0 ELSE Charge(line[l].annual, line[l].residue)]

LEMMA BorneOnce ==
    ASSUME TypeOK
    PROVE  /\ \A l \in Lines : Borne(l) \in SUBSET Vehicles
           /\ \A k, l \in Lines : k # l => Borne(k) \cap Borne(l) = {}
           /\ \A c \in Companies : UNION {Borne(l) : l \in Run(c)} = Assigned(c)
           /\ \A l \in Lines : Borne(l) # {} => Managed(l)
<1>0. /\ \A k, l \in Lines : LineRank[k] = LineRank[l] => k = l
      /\ \A l \in Lines : LineRank[l] \in Nat
      /\ \A l \in Lines : Owner[l] \in Companies
    BY SettlementAssumption DEF SettlementAssumption
<1>1. \A l \in Lines : Borne(l) \in SUBSET Vehicles
    BY DEF Borne, Fleet
<1>2. \A v : \A k, l \in Bearers(v) : k = l
    <2> SUFFICES ASSUME NEW v, NEW k \in Bearers(v), NEW l \in Bearers(v) PROVE k = l
        OBVIOUS
    <2>1. k \in Lines /\ l \in Lines /\ LineRank[k] <= LineRank[l] /\ LineRank[l] <= LineRank[k]
        BY DEF Bearers, Listing, Served
    <2> QED BY <1>0, <2>1
<1>3. \A k, l \in Lines : k # l => Borne(k) \cap Borne(l) = {}
    BY <1>2 DEF Borne
<1>4. ASSUME NEW c \in Companies PROVE UNION {Borne(l) : l \in Run(c)} = Assigned(c)
    <2>1. ASSUME NEW l \in Run(c), NEW v \in Borne(l) PROVE v \in Assigned(c)
        BY DEF Run, Borne, Bearers, Listing, Assigned, Kept
    <2>2. ASSUME NEW v \in Assigned(c) PROVE \E l \in Run(c) : v \in Borne(l)
        BY DEF Run, Borne, Bearers, Listing, Assigned, Kept
    <2> QED BY <2>1, <2>2
<1>5. \A l \in Lines : Borne(l) # {} => Managed(l)
    BY DEF Borne, Bearers, Listing, Managed
<1> QED BY <1>1, <1>3, <1>4, <1>5

LEMMA VehicleChargeType == \A v \in Vehicles : VehicleCharge[v] \in Nat
BY SaturateRange, SettlementAssumption DEF SettlementAssumption, VehicleCharge, Annual, Charge

LEMMA LineCostType == \A l \in Lines : LineCost[l] \in Nat /\ OwnCharge[l] \in Nat
BY SaturateRange, SettlementAssumption
   DEF SettlementAssumption, LineCost, OwnCharge, Charge, Total

LEMMA CostSplit ==
    ASSUME TypeOK, NEW c \in Companies, Cost(c) < Limit
    PROVE  /\ Cost(c) = SumFunctionOnSet(VehicleCharge, Kept(c))
                        + SumFunctionOnSet(OwnCharge, Own(c))
                        + Charge(firm[c].annual, firm[c].residue)
           /\ \A v \in Kept(c) : VehicleCharge[v] < Limit
           /\ \A l \in Own(c) : OwnCharge[l] < Limit
           /\ Charge(firm[c].annual, firm[c].residue) < Limit
<1> DEFINE VC(S) == SumFunctionOnSet(VehicleCharge, S)
           LC(S) == SumFunctionOnSet(LineCost, S)
           OC(S) == SumFunctionOnSet(OwnCharge, S)
           Share == [l \in Lines |-> VC(Borne(l))]
           SC(S) == SumFunctionOnSet(Share, S)
           Infrastructure == Charge(firm[c].annual, firm[c].residue)
<1>0. /\ IsFiniteSet(Run(c)) /\ IsFiniteSet(Kept(c)) /\ IsFiniteSet(Own(c))
      /\ IsFiniteSet(Lines) /\ IsFiniteSet(Vehicles) /\ Limit \in Nat
      /\ Run(c) \in SUBSET Lines /\ Kept(c) \in SUBSET Vehicles /\ Assigned(c) \in SUBSET Kept(c)
      /\ Own(c) \in SUBSET Run(c)
    <2>1. IsFiniteSet(Lines) /\ IsFiniteSet(Vehicles) /\ Limit \in Nat
        BY SettlementAssumption DEF SettlementAssumption
    <2>2. /\ Run(c) \in SUBSET Lines /\ Kept(c) \in SUBSET Vehicles
          /\ Assigned(c) \in SUBSET Kept(c) /\ Own(c) \in SUBSET Run(c)
        BY DEF Run, Served, Kept, Fleet, Assigned, Own
    <2>3. Own(c) \in SUBSET Lines
        BY <2>2
    <2> QED BY <2>1, <2>2, <2>3, FS_Subset
<1>1. /\ \A S \in SUBSET Vehicles : VC(S) \in Nat /\ \A v \in S : VehicleCharge[v] <= VC(S)
      /\ \A S \in SUBSET Kept(c) : VC(S) <= VC(Kept(c))
    <2>1. ASSUME NEW S \in SUBSET Vehicles
          PROVE  VC(S) \in Nat /\ \A v \in S : VehicleCharge[v] <= VC(S)
        <3>1. IsFiniteSet(S)
            BY <1>0, FS_Subset
        <3> QED BY <3>1, VehicleChargeType, SumNat
    <2>2. \A S \in SUBSET Kept(c) : VC(S) <= VC(Kept(c))
        BY <1>0, VehicleChargeType, SumNat
    <2> QED BY <2>1, <2>2
<1>2. /\ LC(Run(c)) \in Nat /\ \A l \in Run(c) : LineCost[l] <= LC(Run(c))
    BY <1>0, LineCostType, SumNat
<1>3. /\ OC(Run(c)) \in Nat /\ OC(Own(c)) \in Nat
    BY <1>0, LineCostType, SumNat
<1>4. Infrastructure \in Nat
    BY SaturateRange, <1>0 DEF Charge
<1>5. /\ LC(Run(c)) < Limit /\ Infrastructure < Limit
      /\ Unassigned(c) \in Nat /\ LC(Run(c)) + Unassigned(c) < Limit
      /\ Cost(c) = LC(Run(c)) + Unassigned(c) + Infrastructure
    <2>1. Unassigned(c) \in Nat
        BY SaturateRange, <1>0 DEF Unassigned, Larger, Total
    <2> HIDE DEF LC, Infrastructure
    <2>2. Cost(c) = Saturate(Saturate(Saturate(LC(Run(c))) + Unassigned(c)) + Infrastructure)
        BY DEF Cost, Total, LC, Infrastructure
    <2>3. PICK a \in Nat, b \in Nat, x \in Nat, w \in Nat :
             /\ a = LC(Run(c)) /\ x = Unassigned(c) /\ w = Infrastructure
             /\ b = Saturate(a)
        BY <1>0, <1>2, <1>4, <2>1, SaturateRange
    <2>4. PICK d \in Nat : d = Saturate(b + x)
        BY <1>0, SaturateRange
    <2>5. Cost(c) = Saturate(d + w) /\ Saturate(d + w) < Limit
        BY <2>2, <2>3, <2>4
    <2>6. d + w \in Nat /\ b + x \in Nat
        OBVIOUS
    <2>7. Cost(c) = d + w /\ d + w < Limit
        BY <2>5, <2>6, SaturateBelow
    <2>8. d < Limit
        BY <1>0, <2>7
    <2>9. d = b + x /\ b + x < Limit
        BY <2>4, <2>6, <2>8, SaturateBelow
    <2>10. b < Limit
        BY <1>0, <2>9
    <2>11. b = a
        BY <2>3, <2>10, SaturateBelow
    <2> QED BY <1>0, <2>1, <2>3, <2>7, <2>9, <2>10, <2>11
<1> HIDE DEF Infrastructure
<1>6. SC(Run(c)) = VC(Assigned(c))
    <2>1. /\ \A l \in Run(c) : Borne(l) \in SUBSET Vehicles
          /\ \A k, l \in Run(c) : k # l => Borne(k) \cap Borne(l) = {}
          /\ UNION {Borne(l) : l \in Run(c)} = Assigned(c)
        BY <1>0, BorneOnce
    <2> DEFINE Of == [l \in Lines |-> Borne(l)]
    <2>2. /\ \A l \in Run(c) : Of[l] \in SUBSET Vehicles
          /\ \A l, k \in Run(c) : l # k => Of[l] \cap Of[k] = {}
          /\ \A l \in Run(c) : Share[l] = VC(Of[l])
          /\ UNION {Of[l] : l \in Run(c)} = Assigned(c)
        BY <1>0, <2>1
    <2>3. \A v \in Vehicles : VehicleCharge[v] \in Int
        BY VehicleChargeType
    <2> HIDE DEF Of, Share
    <2>4. SC(Run(c)) = VC(UNION {Of[l] : l \in Run(c)})
        BY <1>0, <2>2, <2>3, SumOfSums
    <2> QED BY <2>2, <2>4
<1>7. ASSUME NEW l \in Run(c)
      PROVE  /\ LineCost[l] = Share[l] + OwnCharge[l] /\ LineCost[l] < Limit
             /\ Share[l] \in Nat /\ OwnCharge[l] \in Nat /\ LineCost[l] \in Nat
    <2>0. l \in Lines /\ OwnCharge[l] \in Nat /\ LineCost[l] \in Nat
        BY <1>0, LineCostType
    <2>1. LineCost[l] < Limit
        BY <1>0, <1>2, <1>5, <2>0
    <2>2. Share[l] \in Nat /\ Share[l] = VC(Borne(l))
        BY <1>1, <2>0, BorneOnce
    <2>3. CASE Borne(l) # {}
        <3>1. LineCost[l] = Saturate(VC(Borne(l)))
            BY <2>0, <2>3 DEF LineCost, Total
        <3>2. LineCost[l] = Share[l]
            BY <2>1, <2>2, <3>1, SaturateBelow
        <3>3. OwnCharge[l] = 0
            BY <2>0, <2>3, BorneOnce DEF OwnCharge
        <3> HIDE DEF Share
        <3> QED BY <2>0, <2>1, <2>2, <3>2, <3>3
    <2>4. CASE Borne(l) = {}
        <3>1. VC({}) = 0
            BY <1>0, SumPick
        <3>2. Share[l] = 0
            <4>1. VC(Borne(l)) = VC({})
                BY <2>4, Zenon
            <4> QED BY <2>2, <3>1, <4>1
        <3>3. LineCost[l] = OwnCharge[l]
            BY <2>0, <2>4 DEF LineCost, OwnCharge
        <3> HIDE DEF Share
        <3> QED BY <2>0, <2>1, <2>2, <3>2, <3>3
    <2> QED BY <2>3, <2>4
<1>8. LC(Run(c)) = SC(Run(c)) + OC(Run(c))
    <2> HIDE DEF Share
    <2>1. \A l \in Run(c) :
             /\ LineCost[l] \in Int /\ Share[l] \in Int /\ OwnCharge[l] \in Int
             /\ 0 * Share[l] + LineCost[l] = 1 * Share[l] + OwnCharge[l]
        BY <1>7
    <2>2. 0 * SC(Run(c)) + LC(Run(c)) = 1 * SC(Run(c)) + OC(Run(c))
        BY <1>0, <2>1, SumsInStep
    <2>3. SC(Run(c)) \in Int
        BY <1>0, <2>1, SumInt
    <2> HIDE DEF SC, LC, OC
    <2> QED BY <1>2, <1>3, <2>2, <2>3
<1>9. OC(Run(c)) = OC(Own(c))
    <2> DEFINE rest == Run(c) \ Own(c)
    <2>1. IsFiniteSet(rest)
        BY <1>0, FS_Subset
    <2>2. \A l \in rest : OwnCharge[l] = 0
        BY <1>0 DEF Own, OwnCharge
    <2>3. OC(rest) = 0
        BY <2>1, <2>2, SumZero
    <2>4. OC(Run(c)) = OC(Own(c)) + OC(rest)
        BY <1>0, LineCostType, SumSplit
    <2> HIDE DEF OC, rest
    <2> QED BY <1>3, <2>3, <2>4
<1>10. VC(Kept(c)) \in Nat /\ VC(Assigned(c)) \in Nat /\ VC(Assigned(c)) <= VC(Kept(c))
    BY <1>0, <1>1
<1>11. VC(Assigned(c)) <= LC(Run(c))
    <2> HIDE DEF LC, VC, OC, SC
    <2> QED BY <1>3, <1>6, <1>8, <1>10
<1>12. VC(Kept(c)) < Limit /\ Unassigned(c) = VC(Kept(c)) - VC(Assigned(c))
    <2>1. Unassigned(c) = Larger(0, Saturate(VC(Kept(c))) - Saturate(VC(Assigned(c))))
        BY DEF Unassigned, Total
    <2> HIDE DEF VC, LC
    <2>2. PICK k \in Nat, a \in Nat : k = VC(Kept(c)) /\ a = VC(Assigned(c)) /\ a <= k
        BY <1>10
    <2>3. a < Limit /\ Saturate(a) = a
        BY <1>0, <1>2, <1>5, <1>11, <2>2 DEF Saturate
    <2>4. CASE k < Limit
        BY <1>0, <2>1, <2>2, <2>3, <2>4 DEF Saturate, Larger
    <2>5. CASE ~(k < Limit)
        <3>1. Saturate(k) = Limit
            BY <1>0, <2>5 DEF Saturate
        <3>2. Unassigned(c) = Limit - a
            BY <1>0, <2>1, <2>2, <2>3, <3>1 DEF Larger
        <3> QED BY <1>0, <1>2, <1>5, <1>11, <2>2, <3>2
    <2> QED BY <2>4, <2>5
<1>13. \A v \in Kept(c) : VehicleCharge[v] < Limit
    BY <1>0, <1>1, <1>12, VehicleChargeType
<1>14. \A l \in Own(c) : OwnCharge[l] < Limit
    <2> SUFFICES ASSUME NEW l \in Own(c) PROVE OwnCharge[l] < Limit
        OBVIOUS
    <2>1. l \in Run(c)
        BY <1>0
    <2> HIDE DEF Share
    <2> QED BY <1>0, <1>7, <2>1
<1>15. Cost(c) = VC(Kept(c)) + OC(Own(c)) + Infrastructure
    <2> HIDE DEF VC, LC, OC, SC
    <2> QED BY <1>2, <1>3, <1>4, <1>5, <1>6, <1>8, <1>9, <1>10, <1>12
<1> QED BY <1>5, <1>13, <1>14, <1>15 DEF Infrastructure

\* The vehicles and the lines of a company, and what they carry.
VehiclesOf(c) == {v \in Vehicles : Keeper[v] = c}
LinesOf(c) == {l \in Lines : Owner[l] = c}
VehicleResidue == [v \in Vehicles |-> vehicle[v].residue]
LineResidue == [l \in Lines |-> line[l].residue]

LEMMA OwedOnIs ==
    \A c : /\ OwedOn(c) = SumFunctionOnSet(VehicleResidue, VehiclesOf(c))
                          + SumFunctionOnSet(LineResidue, LinesOf(c)) + firm[c].residue
           /\ OwedOn(c)' = SumFunctionOnSet(VehicleResidue', VehiclesOf(c))
                           + SumFunctionOnSet(LineResidue', LinesOf(c)) + firm'[c].residue
BY DEF OwedOn, VehicleResidue, LineResidue, VehiclesOf, LinesOf

LEMMA ResidueType ==
    ASSUME TypeOK
    PROVE  /\ \A v \in Vehicles : VehicleResidue[v] \in Nat
           /\ \A l \in Lines : LineResidue[l] \in Nat
           /\ \A c \in Companies : firm[c].residue \in Nat
           /\ \A c \in Companies :
                /\ VehiclesOf(c) \in SUBSET Vehicles /\ LinesOf(c) \in SUBSET Lines
                /\ IsFiniteSet(VehiclesOf(c)) /\ IsFiniteSet(LinesOf(c))
                /\ SumFunctionOnSet(VehicleResidue, VehiclesOf(c)) \in Nat
                /\ SumFunctionOnSet(LineResidue, LinesOf(c)) \in Nat
<1>0. Year \in Nat
    BY SettlementAssumption DEF SettlementAssumption
<1>1. \A v \in Vehicles : VehicleResidue[v] \in Nat
    BY <1>0 DEF TypeOK, VehicleType, VehicleResidue
<1>2. \A l \in Lines : LineResidue[l] \in Nat
    <2> SUFFICES ASSUME NEW l \in Lines PROVE LineResidue[l] \in Nat
        OBVIOUS
    <2>1. line[l] \in LineType
        BY DEF TypeOK
    <2>2. line[l].residue \in 0 .. Year - 1
        BY <2>1 DEF LineType
    <2> QED BY <1>0, <2>2 DEF LineResidue
<1>3. \A c \in Companies : firm[c].residue \in Nat
    <2> SUFFICES ASSUME NEW c \in Companies PROVE firm[c].residue \in Nat
        OBVIOUS
    <2>1. firm[c] \in FirmType
        BY DEF TypeOK
    <2>2. firm[c].residue \in 0 .. Year - 1
        BY <2>1 DEF FirmType
    <2> QED BY <1>0, <2>2
<1>4. ASSUME NEW c \in Companies
      PROVE  /\ VehiclesOf(c) \in SUBSET Vehicles /\ LinesOf(c) \in SUBSET Lines
             /\ IsFiniteSet(VehiclesOf(c)) /\ IsFiniteSet(LinesOf(c))
             /\ SumFunctionOnSet(VehicleResidue, VehiclesOf(c)) \in Nat
             /\ SumFunctionOnSet(LineResidue, LinesOf(c)) \in Nat
    <2>1. VehiclesOf(c) \in SUBSET Vehicles /\ LinesOf(c) \in SUBSET Lines
        BY DEF VehiclesOf, LinesOf
    <2>2. IsFiniteSet(VehiclesOf(c)) /\ IsFiniteSet(LinesOf(c))
        BY <2>1, SettlementAssumption, FS_Subset DEF SettlementAssumption
    <2>3. SumFunctionOnSet(VehicleResidue, VehiclesOf(c)) \in Nat
        BY <1>1, <2>1, <2>2, SumNat
    <2>4. SumFunctionOnSet(LineResidue, LinesOf(c)) \in Nat
        BY <1>2, <2>1, <2>2, SumNat
    <2> QED BY <2>1, <2>2, <2>3, <2>4
<1> QED BY <1>1, <1>2, <1>3, <1>4

\* A settlement charges each company what its annual costs come to for the interval,
\* up to the parts of a cent carried before and after.
LEMMA SettleExact ==
    ASSUME TypeOK, TypeOK', Settle, Agreed, NEW c \in Companies, Cost(c) < Limit
    PROVE  /\ Year * Cost(c) + OwedOn(c)' = Due(c) + OwedOn(c)
           /\ Cost(c) \in Int /\ Due(c) \in Int /\ OwedOn(c) \in Int /\ OwedOn(c)' \in Int
<1> DEFINE vk == SumFunctionOnSet(VehicleCharge, Kept(c))
           oc == SumFunctionOnSet(OwnCharge, Own(c))
           fc == Charge(firm[c].annual, firm[c].residue)
           uk == SumFunctionOnSet(Annual, Kept(c))
           LineAnnual == [l \in Lines |-> line[l].annual]
           ua == SumFunctionOnSet(LineAnnual, Own(c))
           vr == SumFunctionOnSet(VehicleResidue, VehiclesOf(c))
           lr == SumFunctionOnSet(LineResidue, LinesOf(c))
           vn == SumFunctionOnSet(VehicleResidue', VehiclesOf(c))
           ln == SumFunctionOnSet(LineResidue', LinesOf(c))
<1>0. /\ Year \in Nat /\ Period \in Nat /\ Limit \in Nat
      /\ \A v \in Vehicles : Annual[v] \in Nat
    <2>1. Year \in Nat /\ Period \in Nat /\ Limit \in Nat
        BY SettlementAssumption DEF SettlementAssumption
    <2>2. ASSUME NEW v \in Vehicles PROVE Annual[v] \in Nat
        <3>1. vehicle[v] \in VehicleType
            BY DEF TypeOK
        <3> QED BY <2>1, <3>1 DEF VehicleType, Annual
    <2> QED BY <2>1, <2>2
<1>1. /\ Cost(c) = vk + oc + fc /\ fc < Limit
      /\ \A v \in Kept(c) : VehicleCharge[v] < Limit
      /\ \A l \in Own(c) : OwnCharge[l] < Limit
    BY CostSplit
<1>2. /\ VehiclesOf(c) \in SUBSET Vehicles /\ LinesOf(c) \in SUBSET Lines
      /\ IsFiniteSet(VehiclesOf(c)) /\ IsFiniteSet(LinesOf(c))
      /\ vr \in Nat /\ lr \in Nat /\ firm[c].residue \in Nat
      /\ \A v \in Vehicles : VehicleResidue[v] \in Nat
      /\ \A l \in Lines : LineResidue[l] \in Nat
    BY ResidueType
<1>3. /\ vn \in Nat /\ ln \in Nat /\ firm'[c].residue \in Nat
      /\ \A v \in Vehicles : VehicleResidue'[v] \in Nat
      /\ \A l \in Lines : LineResidue'[l] \in Nat
    <2>1. /\ \A v \in Vehicles : VehicleResidue'[v] \in Nat
          /\ \A l \in Lines : LineResidue'[l] \in Nat
          /\ firm'[c].residue \in Nat
        <3>1. /\ \A v \in Vehicles : vehicle'[v].residue \in 0 .. Year - 1
              /\ \A l \in Lines : line'[l] \in LineType
              /\ firm'[c] \in FirmType
            BY DEF TypeOK, VehicleType
        <3> QED BY <1>0, <3>1 DEF LineType, FirmType, VehicleResidue, LineResidue
    <2>2. vn \in Nat /\ ln \in Nat
        BY <1>2, <2>1, SumNat
    <2> QED BY <2>1, <2>2
<1>4. Year * vk + vn = Period * uk + vr
    <2>1. Kept(c) \in SUBSET VehiclesOf(c)
        BY DEF Kept, Fleet, VehiclesOf
    <2>2. ASSUME NEW v \in Vehicles
          PROVE  VehicleResidue'[v] = IF v \in Fleet THEN ChargeResidue(Annual[v], VehicleResidue[v])
                                      ELSE VehicleResidue[v]
        <3>1. vehicle'[v] = [vehicle[v] EXCEPT !.residue =
                   IF v \in Fleet THEN ChargeResidue(Annual[v], vehicle[v].residue)
                   ELSE vehicle[v].residue]
            BY DEF Settle
        <3>2. vehicle[v] \in VehicleType
            BY DEF TypeOK
        <3> QED BY <3>1, <3>2 DEF VehicleResidue, VehicleType
    <2>3. \A v \in VehiclesOf(c) \ Kept(c) : VehicleResidue'[v] = VehicleResidue[v]
        BY <2>2 DEF VehiclesOf, Kept
    <2>4. ASSUME NEW v \in Kept(c)
          PROVE  /\ VehicleCharge[v] \in Int /\ Annual[v] \in Int
                 /\ Year * VehicleCharge[v] + VehicleResidue'[v]
                      = Period * Annual[v] + VehicleResidue[v]
        <3>1. v \in Vehicles /\ v \in Fleet
            BY DEF Kept, Fleet
        <3>2. VehicleCharge[v] = Charge(Annual[v], VehicleResidue[v])
            BY <3>1 DEF VehicleCharge, VehicleResidue
        <3>3. VehicleCharge[v] \in Int /\ VehicleCharge[v] < Limit
            BY <1>1, <3>1, VehicleChargeType
        <3>4. VehicleResidue'[v] = ChargeResidue(Annual[v], VehicleResidue[v])
            BY <2>2, <3>1
        <3>5. Annual[v] \in Nat /\ VehicleResidue[v] \in Nat
            BY <1>0, <1>2, <3>1
        <3>6. Year * Charge(Annual[v], VehicleResidue[v]) + ChargeResidue(Annual[v], VehicleResidue[v])
                = Period * Annual[v] + VehicleResidue[v]
            BY <3>2, <3>3, <3>5, ChargeExact
        <3> QED BY <3>2, <3>3, <3>4, <3>5, <3>6
    <2>5. \A v \in VehiclesOf(c) : VehicleResidue'[v] \in Int /\ VehicleResidue[v] \in Int
        BY <1>2, <1>3
    <2>6. Year \in Int /\ Period \in Int
        BY <1>0
    <2> QED BY <1>2, <2>1, <2>3, <2>4, <2>5, <2>6, SumsCarried
<1>5. Year * oc + ln = Period * ua + lr
    <2>1. Own(c) \in SUBSET LinesOf(c)
        BY DEF Own, Run, Served, LinesOf
    <2>2. ASSUME NEW l \in Lines
          PROVE  LineResidue'[l] = IF l \in Served /\ ~Managed(l)
                                   THEN ChargeResidue(line[l].annual, LineResidue[l])
                                   ELSE LineResidue[l]
        <3>1. line'[l] = [line[l] EXCEPT
                   !.cursor = IF l \in Served THEN line[l].earned ELSE line[l].cursor,
                   !.share = IF l \in Served THEN EarningsResidue(Delivered(l, Earned), line[l].share)
                             ELSE line[l].share,
                   !.residue = IF l \in Served /\ ~Managed(l)
                               THEN ChargeResidue(line[l].annual, line[l].residue)
                               ELSE line[l].residue]
            BY DEF Settle
        <3>2. line[l] \in LineType
            BY DEF TypeOK
        <3>3. line'[l].residue = IF l \in Served /\ ~Managed(l)
                               THEN ChargeResidue(line[l].annual, line[l].residue)
                               ELSE line[l].residue
            BY <3>1, <3>2 DEF LineType
        <3> QED BY <3>3 DEF LineResidue
    <2>3. \A l \in LinesOf(c) \ Own(c) : LineResidue'[l] = LineResidue[l]
        BY <2>2 DEF LinesOf, Own, Run
    <2>4. ASSUME NEW l \in Own(c)
          PROVE  /\ OwnCharge[l] \in Int /\ LineAnnual[l] \in Int
                 /\ Year * OwnCharge[l] + LineResidue'[l] = Period * LineAnnual[l] + LineResidue[l]
        <3>1. l \in Lines /\ l \in Served /\ ~Managed(l)
            BY DEF Own, Run, Served
        <3>2. OwnCharge[l] = Charge(LineAnnual[l], LineResidue[l])
            BY <3>1 DEF OwnCharge, LineResidue
        <3>3. OwnCharge[l] \in Int /\ OwnCharge[l] < Limit
            BY <1>1, <3>1, LineCostType
        <3>4. LineResidue'[l] = ChargeResidue(LineAnnual[l], LineResidue[l])
            BY <2>2, <3>1
        <3>5. LineAnnual[l] \in Nat /\ LineResidue[l] \in Nat
            <4>1. line[l] \in LineType
                BY <3>1 DEF TypeOK
            <4>2. line[l].annual \in 0 .. Limit
                BY <4>1 DEF LineType
            <4> QED BY <1>0, <1>2, <3>1, <4>2
        <3> HIDE DEF LineAnnual
        <3>6. Year * Charge(LineAnnual[l], LineResidue[l]) + ChargeResidue(LineAnnual[l], LineResidue[l])
                = Period * LineAnnual[l] + LineResidue[l]
            BY <3>2, <3>3, <3>5, ChargeExact
        <3> QED BY <3>2, <3>3, <3>4, <3>5, <3>6
    <2>5. \A l \in LinesOf(c) : LineResidue'[l] \in Int /\ LineResidue[l] \in Int
        BY <1>2, <1>3
    <2>6. Year \in Int /\ Period \in Int
        BY <1>0
    <2> HIDE DEF LineAnnual
    <2> QED BY <1>2, <2>1, <2>3, <2>4, <2>5, <2>6, SumsCarried
<1>6. Year * fc + firm'[c].residue = Period * firm[c].annual + firm[c].residue
    <2>1. firm[c] \in FirmType
        BY DEF TypeOK
    <2>2. firm[c].annual \in Nat
        BY <1>0, <2>1 DEF FirmType
    <2>3. firm'[c].residue = ChargeResidue(firm[c].annual, firm[c].residue)
        <3>1. firm'[c] =
                [balance |-> firm[c].balance - Interest(firm[c].balance)
                             + Dollars(Payable(c, Earned)),
                 change |-> Payable(c, Earned) - 100 * Dollars(Payable(c, Earned)),
                 insolvent |-> Insolvent(c, Earned), net |-> Ledger(c, Earned),
                 annual |-> firm[c].annual,
                 residue |-> ChargeResidue(firm[c].annual, firm[c].residue)]
            BY DEF Settle
        <3> QED BY <3>1
    <2> QED BY <1>1, <1>2, <2>2, <2>3, ChargeExact
<1>7. /\ vk \in Nat /\ oc \in Nat /\ fc \in Nat /\ uk \in Nat /\ ua \in Nat
      /\ firm[c].annual \in Nat
    <2>1. /\ Kept(c) \in SUBSET Vehicles /\ Own(c) \in SUBSET Lines
          /\ IsFiniteSet(Kept(c)) /\ IsFiniteSet(Own(c))
        <3>1. Kept(c) \in SUBSET Vehicles /\ Own(c) \in SUBSET Lines
            BY DEF Kept, Fleet, Own, Run, Served
        <3> QED BY <3>1, SettlementAssumption, FS_Subset DEF SettlementAssumption
    <2>2. \A l \in Lines : LineAnnual[l] \in Nat
        <3> SUFFICES ASSUME NEW l \in Lines PROVE LineAnnual[l] \in Nat
            OBVIOUS
        <3>1. line[l] \in LineType
            BY DEF TypeOK
        <3> QED BY <1>0, <3>1 DEF LineType
    <2>3. vk \in Nat
        BY <2>1, VehicleChargeType, SumNat
    <2>4. oc \in Nat
        BY <2>1, LineCostType, SumNat
    <2>5. uk \in Nat
        BY <1>0, <2>1, SumNat
    <2>6. ua \in Nat
        <3> HIDE DEF LineAnnual
        <3> QED BY <2>1, <2>2, SumNat
    <2>7. fc \in Nat
        BY <1>0, SaturateRange DEF Charge
    <2>8. firm[c] \in FirmType
        BY DEF TypeOK
    <2> QED BY <1>0, <2>3, <2>4, <2>5, <2>6, <2>7, <2>8 DEF FirmType
<1>8. Due(c) = Period * (uk + firm[c].annual + ua)
    BY DEF Due, Own
<1>9. OwedOn(c) = vr + lr + firm[c].residue /\ OwedOn(c)' = vn + ln + firm'[c].residue
    BY OwedOnIs
<1> HIDE DEF vk, oc, fc, uk, ua, vr, lr, vn, ln
<1>10. /\ Year * (vk + oc + fc) = Year * vk + Year * oc + Year * fc
       /\ Period * (uk + firm[c].annual + ua) = Period * uk + Period * firm[c].annual + Period * ua
    BY <1>0, <1>7
<1>11. PICK p1 \in Int, p2 \in Int, p3 \in Int, q1 \in Int, q2 \in Int, q3 \in Int :
          /\ p1 = Year * vk /\ p2 = Year * oc /\ p3 = Year * fc
          /\ q1 = Period * uk /\ q2 = Period * firm[c].annual /\ q3 = Period * ua
    BY <1>0, <1>7
<1>12. PICK f0 \in Int, f1 \in Int : f0 = firm[c].residue /\ f1 = firm'[c].residue
    BY <1>2, <1>3
<1>13. /\ Year * Cost(c) = p1 + p2 + p3 /\ Due(c) = q1 + q2 + q3
       /\ p1 + vn = q1 + vr /\ p2 + ln = q3 + lr /\ p3 + f1 = q2 + f0
       /\ OwedOn(c) = vr + lr + f0 /\ OwedOn(c)' = vn + ln + f1
    BY <1>1, <1>4, <1>5, <1>6, <1>8, <1>9, <1>10, <1>11, <1>12
<1>14. (p1 + p2 + p3) + (vn + ln + f1) = (q1 + q2 + q3) + (vr + lr + f0)
    BY ONLY <1>13, <1>2, <1>3, p1 \in Int, p2 \in Int, p3 \in Int, q1 \in Int, q2 \in Int,
            q3 \in Int, f0 \in Int, f1 \in Int
<1>15. Cost(c) \in Int
    BY <1>1, <1>7
<1> QED BY <1>2, <1>3, <1>13, <1>14, <1>15

\* No step but a settlement, a sale and a deletion changes what is carried or what
\* was charged.
Carries ==
    /\ \A v \in Vehicles : vehicle'[v].residue = vehicle[v].residue
    /\ \A l \in Lines : line'[l].residue = line[l].residue
    /\ \A c \in Companies : /\ firm'[c].residue = firm[c].residue
                            /\ book'[c].charged = book[c].charged
                            /\ book'[c].waived = book[c].waived
    /\ owed' = owed

LEMMA EditsCarry ==
    ASSUME TypeOK, EditStep
    PROVE  Carries
<1> DEFINE Rest == /\ UNCHANGED <<firm, book, owed>>
                   /\ \A v \in Vehicles : vehicle'[v].residue = vehicle[v].residue
           Same == Rest /\ \A k \in Lines : line'[k].residue = line[k].residue
<1>0. line \in [Lines -> LineType]
    BY DEF TypeOK
<1>1. ASSUME NEW l \in Lines, NEW m, NEW on, NEW vs, NEW f, Register(l, m, on, vs, f)
      PROVE  Same
    <2>1. CASE Fail("late")
        BY <2>1 DEF Fail, money
    <2>2. CASE ~Fail("late")
        <3>1. UNCHANGED <<firm, book, owed>> /\ vehicle' = Priced(vs)
            BY <1>1, <2>2 DEF Register
        <3>2. PICK r : line' = [line EXCEPT ![l] = r] /\ r.residue = line[l].residue
            BY <1>1, <2>2 DEF Register
        <3>3. ASSUME NEW v \in Vehicles PROVE vehicle'[v].residue = vehicle[v].residue
            <4>1. vehicle[v] \in VehicleType
                BY DEF TypeOK
            <4>2. vehicle'[v] = IF v \in vs /\ vehicle[v].status = "found"
                          THEN [vehicle[v] EXCEPT !.status = "owned", !.annual = Upkeep[v]]
                          ELSE vehicle[v]
                BY <3>1 DEF Priced
            <4> QED BY <4>1, <4>2 DEF VehicleType
        <3> QED BY <1>0, <3>1, <3>2, <3>3
    <2> QED BY <2>1, <2>2
<1>2. ASSUME NEW l \in Lines, NEW f, FareAdjust(l, f)
      PROVE  Same
    <2>1. CASE Fail("late")
        BY <2>1 DEF Fail, money
    <2>2. CASE ~Fail("late")
        <3>1. UNCHANGED money /\ line' = [line EXCEPT ![l].fare = f]
            BY <1>2, <2>2 DEF FareAdjust
        <3> QED BY <1>0, <3>1 DEF LineType, money
    <2> QED BY <2>1, <2>2
<1>3. ASSUME NEW l \in Lines, NEW cents, Release(l, cents)
      PROVE  Same
    <2>1. UNCHANGED money
        BY <1>3 DEF Release
    <2>2. PICK x, y : line' = [line EXCEPT ![l].earned = x, ![l].contract = y]
        BY <1>3 DEF Release
    <2> QED BY <1>0, <2>1, <2>2 DEF LineType, money
<1>4. ASSUME Submit \/ Refuse \/ CloseBoundary PROVE Same
    BY <1>4 DEF Submit, Refuse, CloseBoundary, money
<1>5. ASSUME Settle /\ ~Agreed PROVE Same
    BY <1>5 DEF Settle, Fail, money
<1>6. ASSUME UNCHANGED vars PROVE Same
    BY <1>6 DEF vars, money
<1>7. Same
    <2> HIDE DEF Same
    <2> QED BY <1>1, <1>2, <1>3, <1>4, <1>5, <1>6 DEF EditStep
<1> QED BY <1>7 DEF Carries

LEMMA PayCarries ==
    ASSUME TypeOK, NEW c \in Companies, NEW price, Pay(c, price),
           NEW x, NEW y, \/ firm' = [firm EXCEPT ![c].balance = x]
                         \/ firm' = [firm EXCEPT ![c].balance = x, ![c].annual = y],
           \A v \in Vehicles : vehicle'[v].residue = vehicle[v].residue
    PROVE  Carries
<1>1. UNCHANGED <<line, owed>>
    BY DEF Pay, Work
<1>2. ASSUME NEW d \in Companies
      PROVE  /\ firm'[d].residue = firm[d].residue
             /\ book'[d].charged = book[d].charged /\ book'[d].waived = book[d].waived
    <2>1. firm \in [Companies -> FirmType] /\ book \in [Companies -> BookType]
        BY DEF TypeOK
    <2>2. PICK z : book' = [book EXCEPT ![c].spent = z]
        BY DEF Pay
    <2> QED BY <2>1, <2>2 DEF FirmType, BookType
<1> QED BY <1>1, <1>2 DEF Carries

LEMMA BuildCarries ==
    ASSUME TypeOK, NEW c \in Companies, NEW w \in Works, Build(c, w)
    PROVE  Carries
<1>1. PICK x, y : firm' = [firm EXCEPT ![c].balance = x, ![c].annual = y]
    BY DEF Build
<1>2. Pay(c, w.price) /\ UNCHANGED vehicle
    BY DEF Build
<1> QED BY <1>1, <1>2, PayCarries

LEMMA BuyCarries ==
    ASSUME TypeOK, NEW u \in Vehicles, Buy(u)
    PROVE  Carries
<1>1. PICK x : firm' = [firm EXCEPT ![Keeper[u]].balance = x]
    BY DEF Buy
<1>2. Keeper[u] \in Companies /\ Pay(Keeper[u], Price[u])
    BY SettlementAssumption DEF SettlementAssumption, Buy
<1>3. ASSUME NEW v \in Vehicles PROVE vehicle'[v].residue = vehicle[v].residue
    <2>1. vehicle \in [Vehicles -> VehicleType]
        BY DEF TypeOK
    <2>2. vehicle' = [vehicle EXCEPT ![u].status = "owned", ![u].annual = Upkeep[u]]
        BY DEF Buy
    <2> QED BY <2>1, <2>2 DEF VehicleType
<1> QED BY <1>1, <1>2, <1>3, PayCarries

\* What a vehicle carries of its old cost stays when the cost changes.
LEMMA OverhaulCarries ==
    ASSUME TypeOK, NEW u \in Vehicles, NEW o \in Overhauls, Overhaul(u, o)
    PROVE  Carries
<1>1. PICK x : firm' = [firm EXCEPT ![Keeper[u]].balance = x]
    BY DEF Overhaul
<1>2. Keeper[u] \in Companies /\ Pay(Keeper[u], o.price)
    BY SettlementAssumption DEF SettlementAssumption, Overhaul
<1>3. ASSUME NEW v \in Vehicles PROVE vehicle'[v].residue = vehicle[v].residue
    <2>1. vehicle \in [Vehicles -> VehicleType]
        BY DEF TypeOK
    <2>2. vehicle' = [vehicle EXCEPT ![u].status = "owned", ![u].annual = o.rate]
        BY DEF Overhaul
    <2> QED BY <2>1, <2>2 DEF VehicleType
<1> QED BY <1>1, <1>2, <1>3, PayCarries

LEMMA FinishCarries == ASSUME Finish PROVE Carries
BY DEF Finish, Carries

LEMMA CarriedExact ==
    ASSUME TypeOK, UpkeepExact, Carries, exact' => exact
    PROVE  UpkeepExact'
<1> SUFFICES ASSUME exact', NEW c \in Companies
             PROVE  Year * book'[c].charged + OwedOn(c)' + book'[c].waived = owed'[c]
    BY DEF UpkeepExact
<1>1. /\ SumFunctionOnSet(VehicleResidue', VehiclesOf(c))
           = SumFunctionOnSet(VehicleResidue, VehiclesOf(c))
      /\ SumFunctionOnSet(LineResidue', LinesOf(c))
           = SumFunctionOnSet(LineResidue, LinesOf(c))
    <2>1. VehicleResidue' = VehicleResidue /\ LineResidue' = LineResidue
        BY DEF Carries, VehicleResidue, LineResidue
    <2> QED BY <2>1
<1>2. OwedOn(c)' = OwedOn(c)
    BY <1>1, OwedOnIs DEF Carries
<1>3. Year * book[c].charged + OwedOn(c) + book[c].waived = owed[c]
    BY DEF UpkeepExact
<1> QED BY <1>2, <1>3 DEF Carries

\* A step that waives what it no longer carries keeps the sum.
LEMMA WaivedExact ==
    ASSUME TypeOK, UpkeepExact, exact' => exact, owed' = owed,
           \A c \in Companies :
              /\ book'[c].charged = book[c].charged /\ book'[c].waived \in Int
              /\ OwedOn(c)' \in Int /\ OwedOn(c) \in Int
              /\ OwedOn(c)' + book'[c].waived = OwedOn(c) + book[c].waived
    PROVE  UpkeepExact'
<1> SUFFICES ASSUME exact', NEW c \in Companies
             PROVE  Year * book'[c].charged + OwedOn(c)' + book'[c].waived = owed'[c]
    BY DEF UpkeepExact
<1>1. Year * book[c].charged + OwedOn(c) + book[c].waived = owed[c]
    BY DEF UpkeepExact
<1>2. book[c].charged \in Nat /\ book[c].waived \in Nat /\ Year \in Nat
    BY SettlementAssumption DEF SettlementAssumption, TypeOK, BookType
<1>3. PICK a \in Int, b \in Int, d \in Int, e \in Int :
         a = OwedOn(c) /\ b = OwedOn(c)' /\ d = book[c].waived /\ e = book'[c].waived
    <2>1. OwedOn(c) \in Int /\ OwedOn(c)' \in Int /\ book'[c].waived \in Int
        OBVIOUS
    <2>2. book[c].waived \in Int
        BY <1>2
    <2> QED BY <2>1, <2>2, Zenon
<1>4. PICK y \in Int : y = Year * book[c].charged
    BY <1>2
<1>5. b + e = a + d
    BY <1>3
<1>6. y + b + e = y + a + d
    BY ONLY <1>5, a \in Int, b \in Int, d \in Int, e \in Int, y \in Int
<1>7. Year * book'[c].charged = y
    BY <1>4
<1> QED BY <1>1, <1>3, <1>4, <1>6, <1>7

\* Sold vehicles take the parts of a cent they carried out of what is owed; they are waived.
LEMMA SellExact ==
    ASSUME TypeOK, UpkeepExact, NEW b \in Companies, NEW vs \in SUBSET Vehicles,
           NEW refund \in Refunds, Sell(b, vs, refund)
    PROVE  UpkeepExact'
<1>0. /\ UNCHANGED <<line, owed, exact>> /\ vs \in SUBSET VehiclesOf(b)
      /\ firm \in [Companies -> FirmType] /\ book \in [Companies -> BookType]
      /\ vehicle \in [Vehicles -> VehicleType]
    BY DEF Sell, Work, Park, VehiclesOf, TypeOK
<1>1. ASSUME NEW c \in Companies
      PROVE  /\ book'[c].charged = book[c].charged /\ book'[c].waived \in Int
             /\ OwedOn(c)' \in Int /\ OwedOn(c) \in Int
             /\ OwedOn(c)' + book'[c].waived = OwedOn(c) + book[c].waived
    <2> DEFINE sold == SumFunctionOnSet(VehicleResidue, vs)
               vr == SumFunctionOnSet(VehicleResidue, VehiclesOf(c))
               lr == SumFunctionOnSet(LineResidue, LinesOf(c))
               vn == SumFunctionOnSet(VehicleResidue', VehiclesOf(c))
               others == VehiclesOf(c) \ vs
               so == SumFunctionOnSet(VehicleResidue, others)
    <2>1. /\ \A v \in Vehicles : VehicleResidue[v] \in Nat
          /\ VehiclesOf(c) \in SUBSET Vehicles /\ IsFiniteSet(VehiclesOf(c))
          /\ vr \in Nat /\ lr \in Nat /\ firm[c].residue \in Nat
        BY ResidueType
    <2>2. firm'[c].residue = firm[c].residue
        <3>1. PICK x : firm' = [firm EXCEPT ![b].balance = x]
            BY DEF Sell
        <3> QED BY <1>0, <3>1 DEF FirmType
    <2>3. /\ book'[c].charged = book[c].charged
          /\ book'[c].waived = IF c = b THEN book[c].waived + sold ELSE book[c].waived
          /\ book[c].waived \in Nat
        <3>1. PICK z : book' = [book EXCEPT ![b].spent = z, ![b].waived = @ + sold]
            BY DEF Sell, VehicleResidue
        <3>2. book[c] \in BookType
            BY <1>0
        <3> HIDE DEF sold
        <3> QED BY <1>0, <3>1, <3>2 DEF BookType
    <2>4. \A v \in Vehicles : VehicleResidue'[v] = IF v \in vs THEN 0 ELSE VehicleResidue[v]
        BY <1>0 DEF Sell, VehicleResidue
    <2>5. OwedOn(c) = vr + lr + firm[c].residue /\ OwedOn(c)' = vn + lr + firm[c].residue
        <3>1. LineResidue' = LineResidue
            BY <1>0 DEF LineResidue
        <3>2. SumFunctionOnSet(LineResidue', LinesOf(c)) = lr
            BY <3>1
        <3> QED BY <2>2, <3>2, OwedOnIs
    <2>6. CASE c = b
        <3>0. vs \in SUBSET VehiclesOf(c) /\ IsFiniteSet(vs) /\ IsFiniteSet(others)
            BY <1>0, <2>1, <2>6, FS_Subset
        <3>1. /\ \A v \in VehiclesOf(c) : VehicleResidue[v] \in Int /\ VehicleResidue'[v] \in Int
              /\ \A v \in vs : VehicleResidue[v] \in Nat /\ VehicleResidue'[v] = 0
              /\ \A v \in others : VehicleResidue[v] \in Nat /\ VehicleResidue'[v] = VehicleResidue[v]
            BY <2>1, <2>4
        <3>2. vr = sold + so
            BY <2>1, <3>0, <3>1, SumSplit
        <3>3. vn = SumFunctionOnSet(VehicleResidue', vs) + SumFunctionOnSet(VehicleResidue', others)
            BY <2>1, <3>0, <3>1, SumSplit
        <3>4. SumFunctionOnSet(VehicleResidue', vs) = 0
            BY <3>0, <3>1, SumZero
        <3>5. sold \in Nat /\ so \in Nat
            BY <3>0, <3>1, SumNat
        <3>6. SumFunctionOnSet(VehicleResidue', others) = so
            <4> HIDE DEF others
            <4> QED BY <3>0, <3>1, SumSame
        <3> HIDE DEF sold, vr, lr, vn, others, so
        <3>7. vn = so
            BY <3>3, <3>4, <3>5, <3>6
        <3> QED BY <2>1, <2>3, <2>5, <2>6, <3>2, <3>5, <3>7
    <2>7. CASE c # b
        <3>1. \A v \in VehiclesOf(c) : VehicleResidue[v] \in Int /\ VehicleResidue'[v] = VehicleResidue[v]
            BY <1>0, <2>1, <2>4, <2>7 DEF VehiclesOf
        <3>2. vn = vr
            BY <2>1, <3>1, SumSame
        <3> HIDE DEF sold, vr, lr, vn
        <3> QED BY <2>1, <2>3, <2>5, <2>7, <3>2
    <2> QED BY <2>6, <2>7
<1> QED BY <1>0, <1>1, WaivedExact

\* And so does a deleted line.
LEMMA DeleteExact ==
    ASSUME TypeOK, UpkeepExact, NEW k \in Lines, Delete(k)
    PROVE  UpkeepExact'
<1>0. /\ UNCHANGED <<firm, vehicle, owed, exact>>
      /\ line \in [Lines -> LineType] /\ book \in [Companies -> BookType]
    BY DEF Delete, Work, TypeOK
<1>1. ASSUME NEW c \in Companies
      PROVE  /\ book'[c].charged = book[c].charged /\ book'[c].waived \in Int
             /\ OwedOn(c)' \in Int /\ OwedOn(c) \in Int
             /\ OwedOn(c)' + book'[c].waived = OwedOn(c) + book[c].waived
    <2> DEFINE vr == SumFunctionOnSet(VehicleResidue, VehiclesOf(c))
               lr == SumFunctionOnSet(LineResidue, LinesOf(c))
               ln == SumFunctionOnSet(LineResidue', LinesOf(c))
               others == LinesOf(c) \ {k}
               so == SumFunctionOnSet(LineResidue, others)
    <2>1. /\ \A l \in Lines : LineResidue[l] \in Nat
          /\ LinesOf(c) \in SUBSET Lines /\ IsFiniteSet(LinesOf(c))
          /\ vr \in Nat /\ lr \in Nat /\ firm[c].residue \in Nat
        BY ResidueType
    <2>2. \A l \in Lines : LineResidue'[l] = IF l = k THEN 0 ELSE LineResidue[l]
        BY <1>0 DEF Delete, NoService, LineResidue
    <2>3. /\ book'[c].charged = book[c].charged
          /\ book'[c].waived = IF c = Owner[k] THEN book[c].waived + LineResidue[k]
                               ELSE book[c].waived
          /\ book[c].waived \in Nat
        <3>1. book' = [book EXCEPT ![Owner[k]].waived = @ + LineResidue[k]]
            BY DEF Delete, LineResidue
        <3>2. book[c] \in BookType
            BY <1>0
        <3> QED BY <1>0, <3>1, <3>2 DEF BookType
    <2>4. OwedOn(c) = vr + lr + firm[c].residue /\ OwedOn(c)' = vr + ln + firm[c].residue
        <3>1. VehicleResidue' = VehicleResidue
            BY <1>0 DEF VehicleResidue
        <3>2. SumFunctionOnSet(VehicleResidue', VehiclesOf(c)) = vr
            BY <3>1
        <3> QED BY <1>0, <3>2, OwedOnIs
    <2>5. CASE c = Owner[k]
        <3>0. k \in LinesOf(c) /\ IsFiniteSet(others)
            BY <2>1, <2>5, FS_Subset DEF LinesOf
        <3>1. /\ \A l \in LinesOf(c) : LineResidue[l] \in Int /\ LineResidue'[l] \in Int
              /\ \A l \in others : LineResidue[l] \in Nat /\ LineResidue'[l] = LineResidue[l]
              /\ LineResidue'[k] = 0 /\ LineResidue[k] \in Nat
            BY <2>1, <2>2, <3>0
        <3>2. lr = LineResidue[k] + so
            BY <2>1, <3>0, <3>1, SumRemove
        <3>3. ln = 0 + SumFunctionOnSet(LineResidue', others)
            BY <2>1, <3>0, <3>1, SumRemove
        <3>4. so \in Nat
            BY <3>0, <3>1, SumNat
        <3>5. SumFunctionOnSet(LineResidue', others) = so
            <4> HIDE DEF others
            <4> QED BY <3>0, <3>1, SumSame
        <3> HIDE DEF vr, lr, ln, others, so
        <3> QED BY <2>1, <2>3, <2>4, <2>5, <3>1, <3>2, <3>3, <3>4, <3>5
    <2>6. CASE c # Owner[k]
        <3>1. \A l \in LinesOf(c) : LineResidue[l] \in Int /\ LineResidue'[l] = LineResidue[l]
            BY <2>1, <2>2, <2>6 DEF LinesOf
        <3>2. ln = lr
            BY <2>1, <3>1, SumSame
        <3> HIDE DEF vr, lr, ln
        <3> QED BY <2>1, <2>3, <2>4, <2>6, <3>2
    <2> QED BY <2>5, <2>6
<1> QED BY <1>0, <1>1, WaivedExact

LEMMA UpkeepInit == Init => UpkeepExact
<1> SUFFICES ASSUME Init, NEW c \in Companies
             PROVE  Year * book[c].charged + OwedOn(c) + book[c].waived = owed[c]
    BY DEF UpkeepExact
<1>0. TypeOK
    BY TypeInit
<1>1. /\ \A v \in Vehicles : VehicleResidue[v] = 0
      /\ \A l \in Lines : LineResidue[l] = 0
      /\ firm[c].residue = 0 /\ book[c].charged = 0 /\ book[c].waived = 0 /\ owed[c] = 0
    <2>1. ASSUME NEW v \in Vehicles PROVE vehicle[v].residue = 0
        BY DEF Init
    <2>2. ASSUME NEW l \in Lines PROVE line[l].residue = 0
        BY DEF Init, NoService
    <2> QED BY <2>1, <2>2 DEF Init, VehicleResidue, LineResidue
<1>2. /\ VehiclesOf(c) \in SUBSET Vehicles /\ LinesOf(c) \in SUBSET Lines
      /\ IsFiniteSet(VehiclesOf(c)) /\ IsFiniteSet(LinesOf(c))
    BY <1>0, ResidueType
<1>3. SumFunctionOnSet(VehicleResidue, VehiclesOf(c)) = 0
    BY <1>1, <1>2, SumZero
<1>4. SumFunctionOnSet(LineResidue, LinesOf(c)) = 0
    BY <1>1, <1>2, SumZero
<1>5. OwedOn(c) = 0
    BY <1>1, <1>3, <1>4, OwedOnIs
<1> QED BY <1>1, <1>5, SettlementAssumption DEF SettlementAssumption

LEMMA UpkeepNext == TypeOK /\ TypeOK' /\ UpkeepExact /\ [Next]_vars => UpkeepExact'
<1> SUFFICES ASSUME TypeOK, TypeOK', UpkeepExact, [Next]_vars PROVE UpkeepExact'
    OBVIOUS
<1>0. EditStep \/ WorkStep \/ (Settle /\ Agreed) \/ Finish
    BY DEF Next, EditStep, WorkStep
<1>1. CASE EditStep
    <2>1. exact' = exact
        BY <1>1, EditsKeepMoney
    <2> QED BY <1>1, <2>1, EditsCarry, CarriedExact
<1>2. CASE WorkStep
    <2>0. exact' = exact
        BY <1>2, WorkSpends
    <2>1. ASSUME NEW c \in Companies, NEW w \in Works, Build(c, w) PROVE UpkeepExact'
        BY <2>0, <2>1, BuildCarries, CarriedExact
    <2>2. ASSUME NEW v \in Vehicles, Buy(v) PROVE UpkeepExact'
        BY <2>0, <2>2, BuyCarries, CarriedExact
    <2>3. ASSUME NEW v \in Vehicles, NEW o \in Overhauls, Overhaul(v, o) PROVE UpkeepExact'
        BY <2>0, <2>3, OverhaulCarries, CarriedExact
    <2>4. ASSUME NEW c \in Companies, NEW vs \in SUBSET Vehicles, NEW refund \in Refunds,
                 Sell(c, vs, refund)
          PROVE  UpkeepExact'
        BY <2>4, SellExact
    <2>5. ASSUME NEW l \in Lines, Delete(l) PROVE UpkeepExact'
        BY <2>5, DeleteExact
    <2> QED BY <1>2, <2>1, <2>2, <2>3, <2>4, <2>5 DEF WorkStep
<1>3. CASE Settle /\ Agreed
    <2> SUFFICES ASSUME exact', NEW c \in Companies
                 PROVE  Year * book'[c].charged + OwedOn(c)' + book'[c].waived = owed'[c]
        BY DEF UpkeepExact
    <2>1. exact /\ Cost(c) < Limit
        BY <1>3 DEF Settle, Unbounded
    <2>2. /\ book'[c].charged = book[c].charged + Cost(c) /\ book'[c].waived = book[c].waived
          /\ book[c].charged \in Int /\ book[c].waived \in Int
        <3>1. book'[c] = [book[c] EXCEPT
                  !.interest = book[c].interest + Interest(firm[c].balance),
                  !.charged = book[c].charged + Cost(c),
                  !.breached = IF Breaches(c, Earned) THEN book[c].breached \cup {clock.epoch + 1}
                               ELSE book[c].breached]
            BY <1>3 DEF Settle
        <3>2. book[c] \in BookType
            BY DEF TypeOK
        <3> QED BY <3>1, <3>2 DEF BookType
    <2>3. owed'[c] = owed[c] + Due(c)
        BY <1>3 DEF Settle
    <2>4. /\ Year * Cost(c) + OwedOn(c)' = Due(c) + OwedOn(c)
          /\ Cost(c) \in Int /\ Due(c) \in Int /\ OwedOn(c) \in Int /\ OwedOn(c)' \in Int
        BY <1>3, <2>1, SettleExact
    <2>5. Year * book[c].charged + OwedOn(c) + book[c].waived = owed[c]
        BY <2>1 DEF UpkeepExact
    <2>6. Year \in Int
        BY SettlementAssumption DEF SettlementAssumption
    <2>7. Year * (book[c].charged + Cost(c)) = Year * book[c].charged + Year * Cost(c)
        <3>0. Cost(c) \in Int
            BY <2>4
        <3>1. PICK x \in Int, y \in Int, z \in Int :
                 x = book[c].charged /\ y = Cost(c) /\ z = Year
            BY <2>2, <2>6, <3>0
        <3>2. z * (x + y) = z * x + z * y
            BY ONLY x \in Int, y \in Int, z \in Int
        <3> QED BY <3>1, <3>2
    <2>8. PICK p \in Int, q \in Int, d \in Int, a \in Int, b \in Int, w \in Int :
             /\ p = Year * book[c].charged /\ q = Year * Cost(c) /\ d = Due(c)
             /\ a = OwedOn(c) /\ b = OwedOn(c)' /\ w = book[c].waived
        <3>1. Cost(c) \in Int /\ book[c].charged \in Int /\ book[c].waived \in Int
            BY <2>2, <2>4
        <3>2. Year * book[c].charged \in Int /\ Year * Cost(c) \in Int
            BY <2>6, <3>1
        <3>3. Due(c) \in Int /\ OwedOn(c) \in Int /\ OwedOn(c)' \in Int
            BY <2>4
        <3> QED BY <3>1, <3>2, <3>3, Zenon
    <2>9. (p + q) + b + w = (p + a + w) + d
        <3>1. q + b = d + a
            BY <2>4, <2>8
        <3> QED BY ONLY <3>1, p \in Int, q \in Int, d \in Int, a \in Int, b \in Int, w \in Int
    <2> QED BY <2>2, <2>3, <2>5, <2>7, <2>8, <2>9
<1>4. CASE Finish
    <2>1. exact' = exact
        BY <1>4 DEF Finish
    <2> QED BY <1>4, <2>1, FinishCarries, CarriedExact
<1> QED BY <1>0, <1>1, <1>2, <1>3, <1>4

\* Unless an accumulator was cut off, whatever interval the match settles by, every
\* annual cost is charged to the cent at the rate then in force: the parts of a cent
\* that do not fit an interval are carried, though the cost changes, or are waived with
\* a sold vehicle or a deleted line, and none is lost otherwise.
THEOREM ChargesExact == Spec => []UpkeepExact
<1>1. Init => TypeOK /\ UpkeepExact
    BY TypeInit, UpkeepInit
<1>2. TypeOK /\ UpkeepExact /\ [Next]_vars => (TypeOK /\ UpkeepExact)'
    BY TypeNext, UpkeepNext
<1> QED BY <1>1, <1>2, PTL DEF Spec
==============================================================================
