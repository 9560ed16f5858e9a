------------------------------ MODULE Settlement ------------------------------
(***************************************************************************)
(* The money of a match (checkpoint.py, calendar_model.py, and the handlers *)
(* of tpf2_mp.lua they replay).  The host's game proposes a settlement for  *)
(* each accounting interval: a snapshot of what every line has earned so    *)
(* far, and the results computed from it.  When it is ordered every game    *)
(* computes the results again and refuses them unless they are equal; then  *)
(* lines are paid for what they earned since their delivery cursor, assets  *)
(* are charged their upkeep, debts their interest, and the match is judged. *)
(*                                                                         *)
(* All games apply the same ordered entries to equal authored states, so    *)
(* there is one such state here and every action is the application of an   *)
(* ordered entry.  The lag of the host's game is the settlement under way   *)
(* (sent): other entries may be ordered between its computation and its     *)
(* commit.  A handler that refuses an entry does so in every game, and the  *)
(* failed acknowledgements fault the session (network.py:1388).  What the   *)
(* shares of a market decide (demand, allocation) does not decide money     *)
(* when a snapshot is given and is left out; so are towns and freight.      *)
(***************************************************************************)
EXTENDS Integers, FiniteSets, Functions

CONSTANTS Companies, CompanyRank,  \* the companies and their place in companyOrder
          HostCompany,             \* the company of the host's player
          Lines, LineRank, Owner,  \* lines, their sort order and companies
          Cargo,                   \* the lines that carry cargo
          Markets, Fares,
          Vehicles, Keeper,        \* vehicles and their companies
          Price, Refunds,          \* dollars for a vehicle, and for those sold
          Upkeep,                  \* annual cents of each vehicle at first
          Overhauls,               \* what replacing or maintaining one otherwise costs:
                                   \* price (dollars) and rate (its new annual cents)
          Works,                   \* what a construction costs: price (dollars) and
                                   \* upkeep (the change of annual cents)
          Takings,                 \* cents a departure may earn
          Period, Year,            \* epochSeconds, _FINANCIAL_YEAR_SECONDS
          Scale, Multiplier,       \* _DIFFICULTY_SCALE, revenueMultiplierPpm
          Limit,                   \* _ACCUMULATOR_LIMIT
          Day,                     \* millisPerDay, 0 when the calendar stands
          StartBalance, StartTime,
          BaseLimit, Multiple, Permille, Grace,  \* the credit rules of the match
          ValuationTarget, EpochLimit,           \* whether and when a match ends
          None,
          MaxEdits, MaxDepartures, MaxWorks, MaxEpochs   \* bounds

ASSUME SettlementAssumption ==
    /\ CompanyRank \in [Companies -> Nat] /\ HostCompany \in Companies
    /\ \E c \in Companies : c # HostCompany
    /\ LineRank \in [Lines -> Nat] /\ Owner \in [Lines -> Companies]
    /\ \A c, d \in Companies : CompanyRank[c] = CompanyRank[d] => c = d
    /\ \A k, l \in Lines : LineRank[k] = LineRank[l] => k = l
    /\ IsFiniteSet(Lines) /\ IsFiniteSet(Vehicles)
    /\ Cargo \subseteq Lines /\ None \notin Markets /\ None \notin Companies
    /\ Takings \subseteq Nat
    /\ Keeper \in [Vehicles -> Companies]
    /\ Price \in [Vehicles -> Nat] /\ Refunds \subseteq Nat
    /\ Upkeep \in [Vehicles -> 0 .. Limit] /\ Overhauls \subseteq [price : Int, rate : 0 .. Limit]
    /\ Works \subseteq [price : Int, upkeep : Int]
    /\ Period \in Nat \ {0} /\ Year \in Nat \ {0} /\ Scale \in Nat \ {0}
    /\ Multiplier \in Nat /\ Limit \in Nat \ {0} /\ Day \in Nat
    /\ StartBalance \in Int /\ StartTime \in Nat
    /\ BaseLimit \in Nat /\ Multiple \in Nat /\ Permille \in Nat /\ Grace \in Nat
    /\ ValuationTarget \in BOOLEAN /\ EpochLimit \in Nat
    /\ MaxEdits \in Nat /\ MaxDepartures \in Nat /\ MaxWorks \in Nat
    /\ MaxEpochs \in Nat

VARIABLES line,     \* services, delivery cursors and the games' delivery ledgers
          firm,     \* accounts, ledgers and infrastructure costs of companies
          vehicle,  \* vehicleCosts, and what becomes of each vehicle
          clock,    \* the scheduler and the calendar
          match,    \* match and networkFinance.bankruptCid
          sent,     \* the settlement the host's game has sent, or None
          pending,  \* a checkpoint boundary is awaited
          fault,    \* why an ordered entry was refused, or "none"
          left,     \* what the bounds still allow
          raced,    \* another entry was ordered while sent was under way (history)
          exact,    \* no accumulator was ever cut off at Limit (history)
          past, book,   \* history of lines and of companies
          owed          \* Year times what the annual costs of a company come to (history)

vars == <<line, firm, vehicle, clock, match, sent, pending, fault, left, raced, exact,
          past, book, owed>>

Larger(m, n) == IF m >= n THEN m ELSE n

\* _saturating_add and min(_ACCUMULATOR_LIMIT, ..) of what is never negative;
\* _signed_add; a sum over a set, saturated on the way or at the end.
Saturate(n) == IF n \in 0 .. Limit THEN n ELSE Limit
Signed(n) == IF n > Limit THEN Limit ELSE IF n < -Limit THEN -Limit ELSE n
Total(f, S) == Saturate(SumFunctionOnSet(f, S))

\* _period_charge: one interval of an annual cost, and the part of a cent carried.
Accrued(annual, residue) == (annual % Year) * Period + residue
Charge(annual, residue) ==
    Saturate((annual \div Year) * Period + Accrued(annual, residue) \div Year)
ChargeResidue(annual, residue) == Accrued(annual, residue) % Year

\* _difficulty_apply: cents times the multiplier, and the part of a cent carried.
Scaled(cents, residue) == (cents % Scale) * Multiplier + residue
Earnings(cents, residue) ==
    Saturate((cents \div Scale) * Multiplier + Scaled(cents, residue) \div Scale)
EarningsResidue(cents, residue) ==
    IF (cents \div Scale) * Multiplier + Scaled(cents, residue) \div Scale >= Limit
    THEN 0 ELSE Scaled(cents, residue) % Scale

\* Whole dollars of an amount of cents, toward zero.
Dollars(cents) == IF cents >= 0 THEN cents \div 100 ELSE -((-cents) \div 100)

First(S) == {c \in S : \A d \in S : CompanyRank[c] <= CompanyRank[d]}

-----------------------------------------------------------------------------
(* The evaluation of an interval *)

Fleet == {v \in Vehicles : vehicle[v].status = "owned"}
Served == {l \in Lines : line[l].market # None /\ line[l].enabled}
Earned == [l \in Lines |-> line[l].earned]

\* Each vehicle in service is borne by the first enabled line of its company that lists it.
Listing(v) == {l \in Served : v \in line[l].vehicles /\ Owner[l] = Keeper[v]}
Bearers(v) == {l \in Listing(v) : \A k \in Listing(v) : LineRank[l] <= LineRank[k]}

Annual == [v \in Vehicles |-> vehicle[v].annual]
VehicleCharge == [v \in Vehicles |-> Charge(Annual[v], vehicle[v].residue)]

\* A line that lists a known vehicle has no upkeep of its own; another one is
\* charged the annual cost it was registered with.
Managed(l) == line[l].vehicles \cap Fleet # {}
Borne(l) == {v \in Fleet : l \in Bearers(v)}
LineCost == [l \in Lines |->
    IF Borne(l) # {} THEN Total(VehicleCharge, Borne(l))
    ELSE IF Managed(l) THEN 0 ELSE Charge(line[l].annual, line[l].residue)]

\* _delivery_delta
Delivered(l, snapshot) == snapshot[l] - line[l].cursor
Gross(snapshot) ==
    [l \in Lines |-> Earnings(Delivered(l, snapshot), line[l].share)]

Run(c) == {l \in Served : Owner[l] = c}
Kept(c) == {v \in Fleet : Keeper[v] = c}
Assigned(c) == {v \in Kept(c) : Bearers(v) # {}}
Unassigned(c) ==
    Larger(0, Total(VehicleCharge, Kept(c)) - Total(VehicleCharge, Assigned(c)))

Income(c, snapshot) == Total(Gross(snapshot), Run(c))
Cost(c) == Saturate(Saturate(Total(LineCost, Run(c)) + Unassigned(c))
                    + Charge(firm[c].annual, firm[c].residue))
Net(c, snapshot) == Signed(Income(c, snapshot) - Cost(c))

\* What two games must compute alike: the digest of the results.
Results(snapshot) ==
    [epoch |-> clock.epoch + 1,
     lines |-> [l \in Served |-> [market |-> line[l].market, fare |-> line[l].fare,
                                  gross |-> Gross(snapshot)[l], cost |-> LineCost[l]]],
     firms |-> [c \in Companies |-> [income |-> Income(c, snapshot), cost |-> Cost(c)]]]

-----------------------------------------------------------------------------
(* Credit and the verdict *)

\* The limit is in cents of the ledger, the balance in dollars of the account.
CreditLimit(net) ==
    LET average == Larger(0, net) \div (clock.epoch + 1)   \* per settlement, this one too
    IN  BaseLimit + Multiple * ((average \div Period) * 3600
                                + ((average % Period) * 3600) \div Period)

Drawn(balance) == IF balance < 0 THEN -balance ELSE 0
Interest(balance) ==
    (Drawn(balance) \div 3600000) * (Permille * Period)
    + ((Drawn(balance) % 3600000) * (Permille * Period)) \div 3600000

Ledger(c, snapshot) == Signed(firm[c].net + Net(c, snapshot))
Breaches(c, snapshot) ==
    Drawn(firm[c].balance - Interest(firm[c].balance)) > CreditLimit(Ledger(c, snapshot))

\* insolventSettlements, and the number of them that ends a match.
InsolventMut(c, snapshot) ==
    IF Breaches(c, snapshot) THEN firm[c].insolvent + 1 ELSE firm[c].insolvent
Insolvent(c, snapshot) == IF Breaches(c, snapshot) THEN firm[c].insolvent + 1 ELSE 0
BreachLimit == IF Grace = 0 THEN 0
               ELSE Larger(1, (Grace * 3600 + Period - 1) \div Period)
Broke(snapshot) ==
    {c \in Companies : BreachLimit > 0 /\ Insolvent(c, snapshot) >= BreachLimit}

\* _wallet_delta_dollars: the cents to pay out, of which whole dollars are paid.
PayableMut(c, snapshot) == Net(c, snapshot)
Payable(c, snapshot) == Signed(Net(c, snapshot) + firm[c].change)

\* History: no amount of the interval is cut off at Limit, and what Year times
\* the charges of the interval should come to.
Unbounded(c, snapshot) ==
    /\ firm[c].net + Net(c, snapshot) \in -Limit .. Limit
    /\ Net(c, snapshot) + firm[c].change \in -Limit .. Limit
    /\ Cost(c) < Limit
Due(c) ==
    Period * (SumFunctionOnSet(Annual, Kept(c)) + firm[c].annual
              + SumFunctionOnSet([l \in Lines |-> line[l].annual],
                                 {l \in Run(c) : ~Managed(l)}))

Over(reason, winner, loser) ==
    [status |-> "finished", reason |-> reason, winner |-> winner, loser |-> loser]

\* _evaluate_match_end; who is ahead in the ranking is left open.
Judge(snapshot) ==
    \/ \E loser \in First(Broke(snapshot)) : \E winner \in First(Companies \ {loser}) :
          match' = Over("bankruptcy", winner, loser)
    \/ /\ Broke(snapshot) = {} /\ ValuationTarget
       /\ \E winner \in Companies : match' = Over("valuation-target", winner, None)
    \/ /\ Broke(snapshot) = {} /\ EpochLimit > 0 /\ clock.epoch + 1 >= EpochLimit
       /\ \E winner \in Companies : match' = Over("epoch-limit", winner, None)
    \/ /\ Broke(snapshot) = {} /\ ~(EpochLimit > 0 /\ clock.epoch + 1 >= EpochLimit)
       /\ UNCHANGED match

-----------------------------------------------------------------------------
(* The ordered entries *)

NoService ==
    [market |-> None, enabled |-> FALSE, fare |-> None, vehicles |-> {}, annual |-> 0,
     residue |-> 0, earned |-> 0, cursor |-> 0, share |-> 0, contract |-> None]

\* A vehicle the starting save holds and could not price is found later.
Init ==
    /\ line = [l \in Lines |-> NoService]
    /\ firm = [c \in Companies |->
          [balance |-> StartBalance, change |-> 0, insolvent |-> 0, net |-> 0,
           annual |-> 0, residue |-> 0]]
    /\ vehicle \in [Vehicles -> {[status |-> s, annual |-> 0, residue |-> 0] :
                                    s \in {"new", "found"}}]
    /\ clock = [epoch |-> 0, boundary |-> StartTime + Period, days |-> 0, millis |-> 0]
    /\ match = [status |-> "running", reason |-> "none", winner |-> None, loser |-> None]
    /\ sent = None /\ pending = FALSE /\ fault = "none"
    /\ left = [edits |-> MaxEdits, departures |-> MaxDepartures, works |-> MaxWorks]
    /\ raced = FALSE /\ exact = TRUE
    /\ past = [l \in Lines |-> [earned |-> 0, paid |-> 0, replayed |-> 0, forgone |-> 0]]
    /\ book = [c \in Companies |->
          [spent |-> 0, interest |-> 0, charged |-> 0, waived |-> 0,
           breached |-> {}]]
    /\ owed = [c \in Companies |-> 0]

money == <<firm, vehicle, clock, match, exact, book, owed>>

\* A game has one intent under way at a time; the host's is the settlement.
Free(c) == c = HostCompany => sent = None

\* Every game refuses the entry, and the session stops.
Fail(reason) ==
    /\ fault' = reason
    /\ UNCHANGED <<line, money, sent, pending, left, raced, past>>

\* line.register: the owner's game puts a line into a market, a passenger line that
\* no building reaches out of service, or with a copy of its service a line whose
\* facts it cannot read.  The fare is the one the owner's game showed.
\* Vehicles the line lists that have no cost yet are priced (vehicleCosts); the
\* cost of another is the one it has, for what changes it comes from that game too.
\* Freight that was moved binds a line to its contract; a retired passenger line
\* forgets its takings.
SameMarket(l, m) == line[l].market = m
CursorDroppedMut(l, m, on) == line[l].market # None /\ ~SameMarket(l, m)
CursorDropped(l, m, on) ==
    line[l].market # None /\ (~SameMarket(l, m) \/ line[l].enabled # on)
Retired(l, on) == ~on /\ l \notin Cargo
Refused(l, m, on) ==
    \/ match.status # "running"
    \/ l \in Cargo /\ on /\ line[l].contract \notin {None, m}

Park(c) == {v \in Vehicles : Keeper[v] = c /\ vehicle[v].status \in {"owned", "found"}}
Authored(l, m, on, vs) ==
    \/ (on \/ l \notin Cargo) /\ vs \subseteq Park(Owner[l])
    \/ ~on /\ SameMarket(l, m) /\ vs = line[l].vehicles

Priced(vs) ==
    [v \in Vehicles |->
        IF v \in vs /\ vehicle[v].status = "found"
        THEN [vehicle[v] EXCEPT !.status = "owned", !.annual = Upkeep[v]] ELSE vehicle[v]]

Register(l, m, on, vs, f) ==
    /\ ~pending /\ fault = "none" /\ Free(Owner[l]) /\ left.edits > 0
    /\ Authored(l, m, on, vs)
    /\ \/ Refused(l, m, on) /\ Fail("late")
       \/ /\ ~Refused(l, m, on)
          /\ line' = [line EXCEPT ![l] =
                [market |-> m, enabled |-> on, fare |-> f, vehicles |-> vs,
                 annual |-> Total([v \in Vehicles |-> Priced(vs)[v].annual], vs),
                 residue |-> line[l].residue,
                 earned |-> IF Retired(l, on) THEN 0 ELSE line[l].earned,
                 cursor |-> IF CursorDropped(l, m, on) THEN 0 ELSE line[l].cursor,
                 share |-> IF SameMarket(l, m) THEN line[l].share ELSE 0,
                 contract |-> line[l].contract]]
          /\ past' = [past EXCEPT
                ![l].replayed = IF CursorDropped(l, m, on) /\ ~Retired(l, on)
                                THEN @ + line[l].cursor ELSE @,
                ![l].forgone = IF Retired(l, on)
                               THEN @ + line[l].earned - line[l].cursor ELSE @]
          /\ vehicle' = Priced(vs)
          /\ left' = [left EXCEPT !.edits = @ - 1]
          /\ raced' = (raced \/ sent # None)
          /\ UNCHANGED <<firm, clock, match, exact, book, owed, sent, pending, fault>>

\* fare.adjust, which any player may ask for.
FareAdjust(l, f) ==
    /\ ~pending /\ fault = "none" /\ line[l].market # None /\ left.edits > 0
    /\ \/ match.status # "running" /\ Fail("late")
       \/ /\ match.status = "running"
          /\ line' = [line EXCEPT ![l].fare = f]
          /\ left' = [left EXCEPT !.edits = @ - 1]
          /\ raced' = (raced \/ sent # None)
          /\ UNCHANGED <<money, sent, pending, fault, past>>

\* vehicle.sync_release: a departure completes trips, and binds freight to its contract.
Release(l, cents) ==
    /\ ~pending /\ fault = "none" /\ l \in Served /\ left.departures > 0
    /\ line' = [line EXCEPT ![l].earned = Saturate(@ + cents),
                            ![l].contract = IF l \in Cargo THEN line[l].market ELSE @]
    /\ past' = [past EXCEPT ![l].earned = @ + Saturate(line[l].earned + cents) - line[l].earned]
    /\ left' = [left EXCEPT !.departures = @ - 1]
    /\ raced' = (raced \/ sent # None)
    /\ UNCHANGED <<money, sent, pending, fault>>

\* The agreed outcome of a construction or of an operation on a line or on vehicles.
\* A checkpoint boundary opens.
Work(c) ==
    /\ ~pending /\ fault = "none" /\ match.status = "running" /\ Free(c) /\ left.works > 0
    /\ left' = [left EXCEPT !.works = @ - 1]
    /\ pending' = TRUE
    /\ UNCHANGED <<clock, match, sent, fault, raced, exact, owed>>

\* What it cost is taken from the account.
Pay(c, price) ==
    /\ Work(c)
    /\ book' = [book EXCEPT ![c].spent = @ + price]
    /\ UNCHANGED <<line, past>>

Build(c, w) ==
    /\ Pay(c, w.price)
    /\ firm' = [firm EXCEPT ![c].balance = @ - w.price,
                            ![c].annual = Saturate(Larger(0, @ + w.upkeep))]
    /\ UNCHANGED vehicle

Buy(v) ==
    /\ vehicle[v].status = "new" /\ Pay(Keeper[v], Price[v])
    /\ firm' = [firm EXCEPT ![Keeper[v]].balance = @ - Price[v]]
    /\ vehicle' = [vehicle EXCEPT ![v].status = "owned", ![v].annual = Upkeep[v]]

\* vehicle.replace and vehicle.maintenance: the annual cost changes, and what is
\* carried of the old one stays.
OverhaulMut(v, o) ==
    /\ v \in Park(Keeper[v]) /\ Pay(Keeper[v], o.price)
    /\ firm' = [firm EXCEPT ![Keeper[v]].balance = @ - o.price]
    /\ vehicle' = [vehicle EXCEPT ![v] = [status |-> "owned", annual |-> o.rate, residue |-> 0]]
Overhaul(v, o) ==
    /\ v \in Park(Keeper[v]) /\ Pay(Keeper[v], o.price)
    /\ firm' = [firm EXCEPT ![Keeper[v]].balance = @ - o.price]
    /\ vehicle' = [vehicle EXCEPT ![v].status = "owned", ![v].annual = o.rate]

\* vehicle.sell and vehicle.sell_batch: upkeep that has not reached a cent is
\* waived with each vehicle.
Sell(c, vs, refund) ==
    /\ vs # {} /\ vs \subseteq Park(c) /\ Work(c)
    /\ firm' = [firm EXCEPT ![c].balance = @ + refund]
    /\ book' = [book EXCEPT ![c].spent = @ - refund,
          ![c].waived = @ + SumFunctionOnSet([v \in Vehicles |-> vehicle[v].residue], vs)]
    /\ vehicle' = [v \in Vehicles |->
          IF v \in vs THEN [status |-> "sold", annual |-> 0, residue |-> 0] ELSE vehicle[v]]
    /\ UNCHANGED <<line, past>>

\* line.delete of a line with a service (another one's moves no money): the service
\* goes, and with it what the line carries of its own upkeep and the takings not yet
\* paid.  A line of that name registered later stands for a new one: identities are
\* never used again.
Delete(l) ==
    /\ line[l].market # None /\ Work(Owner[l])
    /\ line' = [line EXCEPT ![l] = NoService]
    /\ book' = [book EXCEPT ![Owner[l]].waived = @ + line[l].residue]
    /\ past' = [past EXCEPT ![l].forgone = @ + line[l].earned - line[l].cursor]
    /\ UNCHANGED <<firm, vehicle>>

\* The host's game proposes the next settlement from its own state.
Submit ==
    /\ ~pending /\ fault = "none" /\ match.status = "running"
    /\ sent = None /\ clock.epoch < MaxEpochs
    /\ sent' = [boundary |-> clock.boundary, earned |-> Earned, results |-> Results(Earned)]
    /\ raced' = FALSE
    /\ UNCHANGED <<line, money, pending, fault, left, past>>

\* The host refuses it while another entry's boundary is open.
Refuse ==
    /\ fault = "none" /\ sent # None /\ pending
    /\ sent' = None
    /\ UNCHANGED <<line, money, pending, fault, left, raced, past>>

Agreed ==
    /\ match.status = "running" /\ sent.boundary = clock.boundary
    /\ sent.earned = Earned /\ sent.results = Results(Earned)

Elapsed == clock.millis + Period * 1000

\* economy.settle
Settle ==
    /\ ~pending /\ fault = "none" /\ sent # None
    /\ \/ ~Agreed /\ Fail("settlement")
       \/ /\ Agreed
          /\ line' = [l \in Lines |->
                [line[l] EXCEPT
                   !.cursor = IF l \in Served THEN line[l].earned ELSE @,
                   !.share = IF l \in Served THEN EarningsResidue(Delivered(l, Earned), @) ELSE @,
                   !.residue = IF l \in Served /\ ~Managed(l)
                               THEN ChargeResidue(line[l].annual, @) ELSE @]]
          /\ vehicle' = [v \in Vehicles |->
                [vehicle[v] EXCEPT !.residue =
                   IF v \in Fleet THEN ChargeResidue(Annual[v], @) ELSE @]]
          /\ firm' = [c \in Companies |->
                [balance |-> firm[c].balance - Interest(firm[c].balance)
                             + Dollars(Payable(c, Earned)),
                 change |-> Payable(c, Earned) - 100 * Dollars(Payable(c, Earned)),
                 insolvent |-> Insolvent(c, Earned), net |-> Ledger(c, Earned),
                 annual |-> firm[c].annual,
                 residue |-> ChargeResidue(firm[c].annual, firm[c].residue)]]
          /\ clock' = [epoch |-> clock.epoch + 1, boundary |-> clock.boundary + Period,
                       days |-> IF Day > 0 THEN clock.days + Elapsed \div Day ELSE clock.days,
                       millis |-> IF Day > 0 THEN Elapsed % Day ELSE clock.millis]
          /\ Judge(Earned)
          /\ sent' = None /\ pending' = TRUE
          /\ exact' = (exact /\ \A c \in Companies : Unbounded(c, Earned))
          /\ past' = [l \in Lines |->
                [past[l] EXCEPT !.paid = IF l \in Served THEN @ + Delivered(l, Earned) ELSE @]]
          /\ book' = [c \in Companies |->
                [book[c] EXCEPT
                   !.interest = @ + Interest(firm[c].balance),
                   !.charged = @ + Cost(c),
                   !.breached = IF Breaches(c, Earned) THEN @ \cup {clock.epoch + 1} ELSE @]]
          /\ owed' = [c \in Companies |-> owed[c] + Due(c)]
          /\ UNCHANGED <<fault, left, raced>>

\* Every game has checkpointed the boundary.  What the host's game sent before it
\* is refused first: its outbox is read in order.
CloseBoundaryMut ==
    /\ pending /\ fault = "none" /\ pending' = FALSE
    /\ UNCHANGED <<line, money, sent, fault, left, raced, past>>
CloseBoundary ==
    /\ pending /\ sent = None /\ fault = "none"
    /\ pending' = FALSE
    /\ UNCHANGED <<line, money, sent, fault, left, raced, past>>

\* match.finish, asked for by the host's player.
Finish ==
    /\ ~pending /\ fault = "none" /\ match.status = "running" /\ sent = None
    /\ \E winner \in Companies : match' = Over("manual", winner, None)
    /\ UNCHANGED <<line, firm, vehicle, clock, sent, pending, fault, left, raced, exact,
                   past, book, owed>>

Next ==
    \/ \E l \in Lines, m \in Markets, on \in BOOLEAN, vs \in SUBSET Vehicles, f \in Fares :
          Register(l, m, on, vs, f)
    \/ \E l \in Lines, f \in Fares : FareAdjust(l, f)
    \/ \E l \in Lines, cents \in Takings : Release(l, cents)
    \/ \E c \in Companies, w \in Works : Build(c, w)
    \/ \E v \in Vehicles : Buy(v) \/ \E o \in Overhauls : Overhaul(v, o)
    \/ \E c \in Companies, vs \in SUBSET Vehicles, refund \in Refunds : Sell(c, vs, refund)
    \/ \E l \in Lines : Delete(l)
    \/ Submit \/ Refuse \/ Settle \/ CloseBoundary \/ Finish

Spec == Init /\ [][Next]_vars

-----------------------------------------------------------------------------
(* Properties *)

LineType ==
    [market : Markets \cup {None}, enabled : BOOLEAN, fare : Fares \cup {None},
     vehicles : SUBSET Vehicles, annual : 0 .. Limit, residue : 0 .. Year - 1,
     earned : 0 .. Limit, cursor : 0 .. Limit, share : 0 .. Scale - 1,
     contract : Markets \cup {None}]
VehicleType ==
    [status : {"new", "found", "owned", "sold"}, annual : 0 .. Limit, residue : 0 .. Year - 1]
FirmType ==
    [balance : Int, change : -99 .. 99, insolvent : Nat, net : -Limit .. Limit,
     annual : 0 .. Limit, residue : 0 .. Year - 1]
BookType ==
    [spent : Int, interest : Nat, charged : Nat, waived : Nat, breached : SUBSET Nat]
MatchType ==
    [status : {"running", "finished"},
     reason : {"none", "manual", "bankruptcy", "valuation-target", "epoch-limit"},
     winner : Companies \cup {None}, loser : Companies \cup {None}]

\* Every amount stays within its limit, and what is carried is less than a unit.
TypeOK ==
    /\ line \in [Lines -> LineType] /\ firm \in [Companies -> FirmType]
    /\ vehicle \in [Vehicles -> VehicleType]
    /\ clock \in [epoch : Nat, boundary : Nat, days : Nat, millis : Nat]
    /\ match \in MatchType
    /\ pending \in BOOLEAN /\ fault \in {"none", "late", "settlement"}
    /\ left \in [edits : Nat, departures : Nat, works : Nat]
    /\ raced \in BOOLEAN /\ exact \in BOOLEAN
    /\ past \in [Lines -> [earned : Int, paid : Int, replayed : Int, forgone : Int]]
    /\ book \in [Companies -> BookType]

\* Unless an accumulator was cut off, the money of a company is its start, less
\* what it spent and the interest it paid, plus the net result of the settlements
\* to the cent: whole dollars in the account, the rest carried as change
\* (_wallet_delta_dollars, _record_settlement, the credit charge).
CashConserved ==
    exact => \A c \in Companies :
        100 * (firm[c].balance - StartBalance + book[c].spent + book[c].interest)
            + firm[c].change = firm[c].net

\* What a line earned is paid exactly once or still to be paid: the only takings
\* that are lost are those of a line put out of service or deleted, and the only
\* ones paid twice those of a line whose delivery cursor a registration dropped.
PaidAsEarned ==
    \A l \in Lines :
        /\ past[l].paid + (line[l].earned - line[l].cursor) + past[l].forgone
               = past[l].earned + past[l].replayed
        /\ line[l].cursor <= line[l].earned

\* Whatever the interval, and whenever a vehicle is replaced or a line registered
\* again or deleted, annual costs are charged to the cent: what a company was
\* charged and the parts of a cent it still owes, or was let off with a sold vehicle
\* or a deleted line, are the costs in force at each settlement for its interval.
OwedOn(c) ==
    SumFunctionOnSet([v \in Vehicles |-> vehicle[v].residue], {v \in Vehicles : Keeper[v] = c})
    + SumFunctionOnSet([l \in Lines |-> line[l].residue], {l \in Lines : Owner[l] = c})
    + firm[c].residue
UpkeepExact ==
    exact => \A c \in Companies :
        Year * book[c].charged + OwedOn(c) + book[c].waived = owed[c]

\* A company is bankrupt exactly when each of the last BreachLimit settlements
\* found it beyond its credit: no breach before a recovery counts, and none is missed.
Ruined(c) ==
    /\ BreachLimit > 0 /\ clock.epoch >= BreachLimit
    /\ (clock.epoch - BreachLimit + 1) .. clock.epoch \subseteq book[c].breached
BankruptcyIsDue ==
    /\ match.reason = "bankruptcy" => Ruined(match.loser) /\ match.winner # match.loser
    /\ \A c \in Companies : Ruined(c) => match.reason = "bankruptcy"

\* The games refuse a settlement of the host's only when an entry that opens no
\* boundary (a departure, a fare, a registration) was ordered while it was under
\* way: whatever opens one, the host's own gate and its outbox keep apart.
RefusedOnlyByRace == fault = "settlement" => raced

\* The calendar and the schedule tell the same time: no interval is lost or
\* counted twice in either.
TimeConserved ==
    /\ clock.boundary = StartTime + Period * (clock.epoch + 1)
    /\ IF Day > 0 THEN clock.days * Day + clock.millis = clock.epoch * Period * 1000
                  ELSE clock.days = 0 /\ clock.millis = 0

\* A finished match pays nobody: no account, ledger or clock moves again.
VerdictStands == [][match.status = "finished" => UNCHANGED <<match, firm, clock>>]_vars

-----------------------------------------------------------------------------
(* What the proofs carry along *)

\* A line that is not registered, or a passenger line out of service, has no takings.
IdleLinesEmpty ==
    \A l \in Lines : line[l].market = None \/ (~line[l].enabled /\ l \notin Cargo)
                        => line[l].earned = 0 /\ line[l].cursor = 0

\* insolventSettlements counts the unbroken run of breaches up to the last settlement.
StreakCounted ==
    \A c \in Companies :
        /\ firm[c].insolvent <= clock.epoch /\ book[c].breached \subseteq 1 .. clock.epoch
        /\ \A n \in 0 .. clock.epoch :
              (clock.epoch - n + 1) .. clock.epoch \subseteq book[c].breached
                  <=> n <= firm[c].insolvent

Exhausted(c) == BreachLimit > 0 /\ firm[c].insolvent >= BreachLimit
VerdictFollows ==
    /\ match.status = "running" => match.reason = "none"
    /\ match.reason = "bankruptcy" =>
          match.loser \in Companies /\ match.winner # match.loser /\ Exhausted(match.loser)
    /\ \A c \in Companies : Exhausted(c) => match.reason = "bankruptcy"

\* Until another entry is ordered, what the host's game sent is what every game computes.
SentIsAgreed == fault = "none" /\ sent # None /\ ~raced /\ ~pending => Agreed
=============================================================================
