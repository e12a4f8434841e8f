--------------------------- MODULE WhatIfForecast ---------------------------
(***************************************************************************)
(* One forecast after another: the baseline is computed from the workbook  *)
(* and stored, then the assumptions of a what-if scenario are applied and  *)
(* the scenario is computed, compared with the baseline and stored.        *)
(*                                                                         *)
(* A forecast is a list of jobs, one per asset and month (one per pool and *)
(* month for the workload method), taken in the order of the code: months  *)
(* before the ledger month are reconstructed backwards, the ledger month   *)
(* is taken over, the later months are calculated forwards.                *)
(***************************************************************************)
EXTENDS CustomerWorkbook, ResultViews

CONSTANTS
    Workbooks,       \* workbooks the service may be started with
    Assumptions,     \* assumptions a scenario may be built from
    MaxAssumptions,  \* bound: assumptions of one scenario
    ReadLimit        \* lines _forecast_objects reads back (10000)

ASSUME LimitsAssumption == MaxAssumptions \in Nat /\ ReadLimit \in Nat

NewId(index) == 100 + index

(* An asset is known by its number: no two rows of a ledger share one, none *)
(* has the number of a planned asset, and some card takes part.             *)
ASSUME WorkbooksAssumption ==
    \A wb \in Workbooks :
        /\ IsWorkbook(wb)
        /\ LoadAssets(wb) # <<>>
        /\ \A i, j \in DOMAIN wb.rows : wb.rows[i].id = wb.rows[j].id => i = j
        /\ \A i \in DOMAIN wb.rows, n \in 1..MaxAssumptions :
              wb.rows[i].id # NewId(n)

(* What FixedAsset is meant to hold (the cost is positive, the residual rate *)
(* a rate).  The rules that ask for it are not applied to a customer's       *)
(* workbook, so it is no assumption: theorems that need it name it.          *)
SoundLedger ==
    \A wb \in Workbooks : \A i \in DOMAIN wb.rows :
        wb.rows[i].cost >= 0 /\ wb.rows[i].residual \in 0..100

(* The net value of a row is what its cost leaves. *)
BalancedLedger ==
    \A wb \in Workbooks : \A i \in DOMAIN wb.rows :
        LET row == wb.rows[i] IN row.net = row.cost - row.acc - row.imp

(* What a row depreciated in the ledger month is part of all it depreciated. *)
DepreciatedLedger ==
    \A wb \in Workbooks : \A i \in DOMAIN wb.rows :
        wb.rows[i].dep \in 0..wb.rows[i].acc

(* Some code is given: without one, no asset has a policy. *)
CodesGiven == \A wb \in Workbooks : wb.codes # <<>>

(* The horizon goes beyond the ledger month, and some card has a policy. *)
SomethingToForecast ==
    \A wb \in Workbooks :
        /\ wb.snapshot # BaselinePeriodRange(wb)[2]
        /\ \A owner \in Companies(wb) :
              \E k \in DOMAIN LoadAssets(wb) :
                  Depreciable(LoadSemanticModel(wb, owner), LoadAssets(wb)[k])

(* An absent value is neither the root category nor a policy. *)
ASSUME NoneAssumption ==
    /\ None # "CUSTOMER_ASSET"
    /\ \A wb \in Workbooks : \A owner \in Companies(wb) :
          LET policies == LoadSemanticModel(wb, owner).policies
          IN  \A k \in DOMAIN policies : policies[k] # None

(* The cells of an assumption, as the client sends them. *)
IsAssumption(s) ==
    /\ s.amount \in Int
    /\ s.date \in Int \cup {None}
    /\ \A f \in DOMAIN s.fields : s.fields[f] \in Int

ASSUME AssumptionsAssumption == \A s \in Assumptions : IsAssumption(s)

VARIABLES
    book,     \* what the repository holds: workbook, cards, policies, drivers
    request,  \* assumptions of the scenario
    phase,    \* where the service is
    input,    \* what the running forecast works on
    todo,     \* jobs of the running forecast, the next one first
    carry,    \* per asset, what its last month hands to the next one
    lines,    \* lines of the running forecast so far
    stored    \* results in the store

vars == <<book, request, phase, input, todo, carry, lines, stored>>

Phases == {"ready", "baseline", "choosing", "scenario", "stored", "refused"}

Nothing == [lines |-> {}, summaries |-> {}, attributions |-> {}, changes |-> <<>>]

-----------------------------------------------------------------------------
(* Shorthands on the inputs of a forecast: cards, planned, events, drivers. *)

Start == BaselinePeriodRange(book.workbook)[1]

End == BaselinePeriodRange(book.workbook)[2]

Snapshot == book.workbook.snapshot

SpansSnapshot == Start < Snapshot /\ Snapshot <= End

\* MUTANT: the forecast begins with the ledger month.
FutureStartAtSnapshot == IF SpansSnapshot THEN Snapshot ELSE Start

FutureStart == IF SpansSnapshot THEN Snapshot + 1 ELSE Start

CardIndex(cards, id) == SelectInSeq(cards, LAMBDA a : a.id = id)

AssetById(cards, id) == cards[CardIndex(cards, id)]

PolicyFor(a) == Policy(book.model, a)

MethodOf(a) == PolicyFor(a).method

\* Which of the cards take part, which of them as members of a pool.
Included(cards) == {k \in DOMAIN cards : Depreciable(book.model, cards[k])}

Pooled(cards) == {k \in Included(cards) : MethodOf(cards[k]) = "WORKLOAD"}

Single(cards) == Included(cards) \ Pooled(cards)

IdsOf(cards, which) == {cards[k].id : k \in which}

-----------------------------------------------------------------------------
(***************************************************************************)
(* _apply_customer_assumptions.  An assumption is a record                 *)
(*   [template, target, amount, date, startRule, code, fields]             *)
(* fields gives the driver values that are filled in.  The result is the   *)
(* changed inputs, or Refused where the code raises ValueError.            *)
(***************************************************************************)
Refused == [error |-> "ValueError"]

Available(a) == Greater(0, a.cost - a.acc - a.imp)

ShorterLife(a) == Greater(1, (3 * Blank(a.life, 120)) \div 5)

Change(index, target, field) ==
    [change |-> index, target |-> target, field |-> field]

PlannedLike(reference, s, index) ==
    [reference EXCEPT
        !.id = NewId(index), !.code = Blank(s.code, "Z112"), !.cost = s.amount,
        !.inService = s.date, !.acc = 0, !.imp = 0, !.life = None,
        !.residual = None, !.startRule = None, !.snapDep = 0, !.snapNet = 0]

\* The page sends a new number of its own with each new asset, and the
\* category of the reference.
AddAsset(in, s, index) ==
    LET reference == IF CardIndex(in.cards, s.target) = 0
                     THEN in.cards[1]
                     ELSE AssetById(in.cards, s.target)
    IN  [in EXCEPT !.planned = Append(@, PlannedLike(reference, s, index)),
                   !.changes = Append(@, Change(index, NewId(index), "new_asset"))]

Impair(in, s, index) ==
    LET event == [id |-> index, type |-> "IMPAIRMENT", target |-> s.target,
                  amount |-> s.amount, period |-> s.date]
    IN  IF \/ CardIndex(in.cards, s.target) = 0
           \/ s.amount > Available(AssetById(in.cards, s.target))
           \/ s.date = None
        THEN Refused
        ELSE [in EXCEPT !.events = @ \cup {event},
                        !.changes = Append(@, Change(index, s.target,
                                                     "impairment_amount"))]

Replace(in, s, index) ==
    LET k == CardIndex(in.cards, s.target)
        change == Change(index, s.target,
                         IF s.template = "straight_accelerated"
                         THEN "accelerated_life_months" ELSE "start_rule")
        Changed(a) ==
            IF s.template = "straight_accelerated"
            THEN [a EXCEPT !.life = ShorterLife(a)]
            ELSE [a EXCEPT !.startRule = Blank(s.startRule, "NEXT_MONTH")]
    IN  IF k = 0
        THEN Refused
        ELSE [in EXCEPT !.cards[k] = Changed(@),
                        !.changes = Append(@, change)]

SetDriver(in, s, index) ==
    LET type == IF s.template = "production_driver"
                THEN "PRODUCTION" ELSE "WORKLOAD"
        key == <<type, s.target, s.date>>
        old == IF key \in DOMAIN in.drivers THEN in.drivers[key] ELSE NoDriver
        new == [f \in DOMAIN old |->
                    IF f \in DOMAIN s.fields THEN s.fields[f] ELSE old[f]]
    IN  IF s.target = None \/ s.date = None
        THEN Refused
        ELSE [in EXCEPT !.drivers = [k \in {key} \cup DOMAIN in.drivers |->
                                        IF k = key THEN new ELSE in.drivers[k]],
                        !.changes = Append(@, Change(index, s.target, s.template))]

ApplyOne(in, s, index) ==
    CASE s.template = "straight_new_asset" -> AddAsset(in, s, index)
      [] s.template = "straight_impairment" -> Impair(in, s, index)
      [] s.template \in {"straight_accelerated", "straight_start_rule"} ->
            Replace(in, s, index)
      [] s.template \in {"production_driver", "workload_driver"} ->
            SetDriver(in, s, index)
      [] OTHER -> Refused

BaselineInput ==
    [cards |-> book.cards, planned |-> <<>>, events |-> {},
     drivers |-> book.drivers, changes |-> <<>>]

Applied(assumptions) ==
    LET after[n \in 0..Len(assumptions)] ==
            IF n = 0
            THEN BaselineInput
            ELSE LET before == after[n - 1]
                 IN  IF before = Refused THEN Refused
                                         ELSE ApplyOne(before, assumptions[n], n)
    IN  after[Len(assumptions)]

(* first_depreciation_month raises ValueError for a start rule that is none *)
(* of the two, when the forecast comes to the first asset that has it.      *)
StartRules == {"CURRENT_MONTH", "NEXT_MONTH"}

Unsupported(in) ==
    \E k \in Included(in.cards) : PolicyFor(in.cards[k]).startRule \notin StartRules

Accepted(in) == in # Refused /\ ~Unsupported(in)

-----------------------------------------------------------------------------
(* The jobs of a forecast, in the order _run_forecast takes them. *)

Job(kind, id, period) == [kind |-> kind, id |-> id, period |-> period]

Months(from, to) == [k \in 1..Greater(0, to - from + 1) |-> from + k - 1]

EachMonth(kind, cards, which, months) ==
    FlattenSeq([i \in DOMAIN cards |->
        IF i \in which
        THEN [k \in DOMAIN months |-> Job(kind, cards[i].id, months[k])]
        ELSE <<>>])

\* MUTANT: the ledger month is reconstructed as well.
HistoryJobsPastEnd(in) ==
    IF SpansSnapshot
    THEN EachMonth("HISTORY", in.cards, Included(in.cards),
                   Reverse(Months(Start, Snapshot)))
    ELSE <<>>

HistoryJobs(in) ==
    IF SpansSnapshot
    THEN EachMonth("HISTORY", in.cards, Included(in.cards),
                   Reverse(Months(Start, Snapshot - 1)))
    ELSE <<>>

ForecastJobs(in) ==
    LET months == Months(FutureStart, End)
        pools == IF Pooled(in.cards) = {} THEN <<>> ELSE months
    IN  EachMonth("EXISTING", in.cards, Single(in.cards), months)
          \o [k \in DOMAIN pools |-> Job("WORKLOAD", None, pools[k])]
          \o EachMonth("PLANNED", in.planned, Included(in.planned), months)

Jobs(in) ==
    HistoryJobs(in) \o <<Job("SNAPSHOT", None, Snapshot)>> \o ForecastJobs(in)

(* What the first month of a card finds: the reconstruction begins at the  *)
(* opening of the ledger month, the forecast at the card itself.           *)
\* MUTANT: the reconstruction begins at the closing of the ledger month.
HistoryStartAtClosing(a) == a.snapNet

HistoryStart(a) == a.snapNet + a.snapDep

CardNet(a) == a.cost - a.acc - a.imp

Begin(in) ==
    /\ input' = in
    /\ todo' = Jobs(in)
    /\ carry' = [history |-> [i \in IdsOf(in.cards, DOMAIN in.cards) |->
                                 HistoryStart(AssetById(in.cards, i))],
                 work |-> [i \in IdsOf(in.cards, Single(in.cards)) |->
                              LET a == AssetById(in.cards, i)
                              IN  OpeningWork(a, PolicyFor(a), FutureStart)],
                 net |-> [i \in IdsOf(in.cards, Pooled(in.cards)) |->
                             CardNet(AssetById(in.cards, i))],
                 planned |-> [i \in IdsOf(in.planned, DOMAIN in.planned) |-> 0]]
    /\ lines' = {}

-----------------------------------------------------------------------------
Init ==
    /\ \E wb \in Workbooks : \E owner \in Companies(wb) :
         LET cards == LoadAssets(wb)
             range == BaselinePeriodRange(wb)
         IN  book = [workbook |-> wb, cards |-> cards, owner |-> owner,
                     model |-> LoadSemanticModel(wb, owner),
                     drivers |-> BaselineDrivers(wb, cards, range[1], range[2])]
    /\ request = <<>>
    /\ phase = "ready"
    /\ input = BaselineInput
    /\ todo = <<>>
    /\ carry = None
    /\ lines = {}
    /\ stored = [BASELINE |-> Nothing, SCENARIO |-> Nothing]

\* DemoState.initialize computes the baseline.
ComputeBaseline ==
    /\ phase = "ready"
    /\ phase' = "baseline"
    /\ Begin(BaselineInput)
    /\ UNCHANGED <<book, request, stored>>

\* The client fills in one more assumption.
AddAssumption ==
    /\ phase = "choosing"
    /\ Len(request) < MaxAssumptions
    /\ \E s \in Assumptions : request' = Append(request, s)
    /\ UNCHANGED <<book, phase, input, todo, carry, lines, stored>>

\* create_customer_scenario up to its forecast; ValueError refuses it, also
\* the one the forecast itself would raise.
Submit ==
    /\ phase = "choosing"
    /\ request # <<>>
    /\ IF Accepted(Applied(request))
       THEN /\ phase' = "scenario"
            /\ Begin(Applied(request))
       ELSE /\ phase' = "refused"
            /\ UNCHANGED <<input, todo, carry, lines>>
    /\ UNCHANGED <<book, request, stored>>

Next_(kind) == todo # <<>> /\ Head(todo).kind = kind

Done == todo' = Tail(todo)

Line(kind, source, a, period, m) ==
    [kind |-> kind, id |-> a.id, source |-> source, company |-> a.company,
     department |-> a.department, category |-> a.category, code |-> a.code,
     method |-> MethodOf(a), period |-> period,
     opening |-> m.opening, addition |-> m.addition, disposal |-> m.disposal,
     impairment |-> m.impairment, amount |-> m.amount, closing |-> m.closing]

HistoricalStep ==
    /\ Next_("HISTORY")
    /\ LET job == Head(todo)
           a == AssetById(input.cards, job.id)
           m == HistoricalMonth(a, PolicyFor(a), job.period,
                                carry.history[a.id], input.drivers)
       IN  /\ lines' = lines \cup {Line("HISTORY", "CURRENT", a, job.period, m)}
           /\ carry' = [carry EXCEPT !.history[a.id] = m.carried]
    /\ Done
    /\ UNCHANGED <<book, request, phase, input, stored>>

\* The cards of the workbook, changed by no assumption.
TakeSnapshotLines ==
    /\ Next_("SNAPSHOT")
    /\ lines' = lines \cup {SnapshotLine(book.workbook, book.cards[i]) :
                              i \in DOMAIN book.cards}
    /\ Done
    /\ UNCHANGED <<book, request, phase, input, carry, stored>>

ExistingStep ==
    /\ Next_("EXISTING")
    /\ LET job == Head(todo)
           a == AssetById(input.cards, job.id)
           m == ExistingMonth(a, PolicyFor(a), job.period, carry.work[a.id],
                              input.events, input.drivers)
       IN  /\ lines' = lines \cup {Line("FORECAST", "CURRENT", a, job.period, m)}
           /\ carry' = [carry EXCEPT !.work[a.id] = m.work]
    /\ Done
    /\ UNCHANGED <<book, request, phase, input, stored>>

\* All pools of one month.
PoolMembers(target) ==
    {i \in DOMAIN carry.net :
        WorkloadTarget(AssetById(input.cards, i)) = target}

\* MUTANT: a member takes part before its first month.
DuesOfEarly(target, period) == {i \in PoolMembers(target) : carry.net[i] > 0}

DuesOf(target, period) ==
    {i \in PoolMembers(target) :
        LET a == AssetById(input.cards, i)
        IN  /\ period >= FirstDepreciationMonth(a.inService, PolicyFor(a).startRule)
            /\ carry.net[i] > 0}

PooledAmount(i, period) ==
    LET target == WorkloadTarget(AssetById(input.cards, i))
    IN  WorkloadAmounts(PoolMembers(target), carry.net, DuesOf(target, period),
                        Driver(input.drivers, "WORKLOAD", target, period))[i]

PooledMonth(i, period) ==
    [opening |-> carry.net[i], addition |-> 0, disposal |-> 0, impairment |-> 0,
     amount |-> PooledAmount(i, period),
     closing |-> carry.net[i] - PooledAmount(i, period)]

WorkloadStep ==
    /\ Next_("WORKLOAD")
    /\ LET p == Head(todo).period
           amount == [i \in DOMAIN carry.net |-> PooledAmount(i, p)]
       IN  /\ lines' = lines \cup
                {Line("FORECAST", "CURRENT", AssetById(input.cards, i), p,
                      PooledMonth(i, p)) : i \in DOMAIN carry.net}
           /\ carry' = [carry EXCEPT !.net = [i \in DOMAIN @ |-> @[i] - amount[i]]]
    /\ Done
    /\ UNCHANGED <<book, request, phase, input, stored>>

PlannedStep ==
    /\ Next_("PLANNED")
    /\ LET job == Head(todo)
           a == AssetById(input.planned, job.id)
           m == PlannedMonth(a, PolicyFor(a), job.period, carry.planned[a.id])
       IN  /\ lines' = lines \cup {Line("FORECAST", "PLANNED", a, job.period, m)}
           /\ carry' = [carry EXCEPT !.planned[a.id] = @ + m.amount]
    /\ Done
    /\ UNCHANGED <<book, request, phase, input, stored>>

\* The baseline as _forecast_objects reads it back.
BaselineRead == ForecastLines(stored.BASELINE.lines, NoFilter, ReadLimit, 0)

Result ==
    [lines |-> lines, summaries |-> Summarize(lines), changes |-> input.changes,
     attributions |-> IF phase = "baseline"
                      THEN {}
                      ELSE Attribute(BaselineRead, lines, input.changes)]

Store ==
    /\ phase \in {"baseline", "scenario"}
    /\ todo = <<>>
    /\ stored' = IF phase = "baseline"
                 THEN [stored EXCEPT !.BASELINE = Result]
                 ELSE [stored EXCEPT !.SCENARIO = Result]
    /\ phase' = IF phase = "baseline" THEN "choosing" ELSE "stored"
    /\ UNCHANGED <<book, request, input, todo, carry, lines>>

Next ==
    \/ ComputeBaseline \/ AddAssumption \/ Submit
    \/ HistoricalStep \/ TakeSnapshotLines \/ ExistingStep
    \/ WorkloadStep \/ PlannedStep \/ Store

Spec == Init /\ [][Next]_vars

-----------------------------------------------------------------------------
(* Properties.  Finished: lines and input are those of a stored forecast. *)

Finished == phase \in {"choosing", "stored"}

CardIds == IdsOf(input.cards, DOMAIN input.cards)

Card(id) == AssetById(input.cards, id)

Forecasts == {l \in lines : l.kind = "FORECAST"}

LinesOf(id) == {l \in lines : l.id = id}

\* Amounts, months and the agenda are what the steps below rely on, and the
\* three answers of the service are told apart.
TypeOK ==
    /\ phase \in Phases
    /\ request \in Seq(Assumptions) /\ Len(request) <= MaxAssumptions
    /\ \A k \in DOMAIN todo :
          /\ todo[k].kind \in
                {"HISTORY", "SNAPSHOT", "EXISTING", "WORKLOAD", "PLANNED"}
          /\ todo[k].period \in Start..End \cup {Snapshot}
    /\ \A l \in lines :
          /\ {l.opening, l.addition, l.disposal, l.impairment,
              l.amount, l.closing} \subseteq Int
          /\ l.kind = "HISTORY" => l.period < Snapshot
          /\ l.kind = "FORECAST" => l.period >= FutureStart

\* An asset on the straight-line method ends the last month of its life at
\* its residual value, whatever was rounded, impaired or skipped before,
\* unless more was booked already: the remaining amount is divided anew every
\* month (_monthly_amount).
LifeEndsAtResidual ==
    Finished =>
        \A l \in Forecasts :
            l.source = "CURRENT" /\ l.method = "STRAIGHT_LINE" =>
                LET a == Card(l.id)
                    p == PolicyFor(a)
                    last == FirstDepreciationMonth(a.inService, p.startRule)
                              + p.life - 1
                    residual == Money(TotalDepreciable(a.cost, p.residual), 100)
                IN  /\ l.period = last =>
                         l.closing = Lesser(a.cost - residual,
                                            l.opening - l.impairment)
                    /\ l.period > last => l.amount = 0

\* A line of the pool of target t with a share of its amount in month p.
DueFromPool(l, t, p) ==
    LET a == Card(l.id)
    IN  /\ WorkloadTarget(a) = t
        /\ l.opening > 0
        /\ p >= FirstDepreciationMonth(a.inService, PolicyFor(a).startRule)

\* What these lines charge together is the total of their pool's month.
ChargesTotal(members, t, p) ==
    LET d == Driver(input.drivers, "WORKLOAD", t, p)
        ledger == SumFunction([l \in members |-> l.opening])
        pool == PoolNetValue(d, ledger)
        total == TotalAmortization(d)
        charged == Total(members)
    IN  /\ pool >= ledger =>
             2 * charged <= 2 * Greater(total, 0) + Cardinality(members)
        /\ pool = ledger /\ total <= ledger =>
             2 * charged >= 2 * total - Cardinality(members)

\* A pool charges what the month's total says, up to the rounding of its
\* members: never more when the pool's net value is not below the members'
\* (a negative total charges nothing), and all of it when both are the same
\* and no member is exhausted (_forecast_workload_assets).
PoolChargesItsTotal ==
    Finished =>
        \A p \in FutureStart..End :
            LET pooled == {l \in Forecasts : /\ l.source = "CURRENT"
                                             /\ l.method = "WORKLOAD"
                                             /\ l.period = p}
            IN  \A t \in {WorkloadTarget(Card(l.id)) : l \in pooled} :
                    ChargesTotal({l \in pooled : DueFromPool(l, t, p)}, t, p)

\* The months of an asset join up: each begins where the one before ended,
\* the reconstructed months end at the opening of the ledger month, and the
\* forecast begins at the ledger's net value or, for a straight-line asset
\* behind its schedule, below it (_reconstruct_historical_lines,
\* _run_forecast).
ChainUnbroken ==
    Finished /\ SpansSnapshot =>
        \A l, m \in lines :
            /\ l.id = m.id /\ m.period = l.period + 1
            /\ l.kind = "HISTORY" => l.period >= Card(l.id).inService
            => /\ l.kind # "SNAPSHOT" => m.opening = l.closing
               /\ l.kind = "SNAPSHOT" => m.opening <= l.closing
               /\ l.kind = "SNAPSHOT" /\ m.method # "STRAIGHT_LINE" =>
                    m.opening = l.closing

\* The impairments that reach an asset of method m up to month p: those of
\* the scenario, and that of the ledger where a schedule may be behind it.
Impaired(i, m, p) ==
    LET due == {e \in input.events : e.target = i /\ e.period <= p}
    IN  SumFunction([e \in due |-> Greater(0, e.amount)])
          + IF m = "PRODUCTION" THEN 0 ELSE Greater(0, Card(i).imp)

\* The months of a planned asset's life up to month p.
MonthsCharged(a, p) ==
    LET first == FirstDepreciationMonth(a.inService, PolicyFor(a).startRule)
    IN  Lesser(PolicyFor(a).life, Greater(0, p - first + 1))

WithinCost(l) ==
    LET a == Card(l.id)
    IN  /\ l.closing >= -Impaired(l.id, l.method, l.period)
        /\ l.kind # "FORECAST" \/ l.method = "WORKLOAD" => l.closing >= 0
        /\ (\A e \in input.events : e.target = l.id => e.amount >= 0) =>
              /\ l.amount \in 0..Greater(0, l.opening)
              /\ l.opening <= a.cost - a.imp

WithinPrice(l) ==
    LET a == AssetById(input.planned, l.id)
    IN  a.cost >= 0 => /\ l.amount >= 0
                       /\ 2 * l.closing >= -MonthsCharged(a, l.period)

\* How far an asset can fall below nothing, for nothing forbids it: a card by
\* no more than what it was impaired, since a schedule caught up with and an
\* impairment measured at the ledger month know nothing of each other, a
\* planned asset by half a unit for each month charged, since its share is
\* rounded once and never capped.  A pool member, a reconstructed month and
\* the ledger's own never do.  No month takes more than it found, and none
\* rises above the cost less the ledger impairment, unless an impairment
\* gives value back.
StaysWithinCost ==
    Finished => \A l \in lines : IF l.source = "CURRENT" THEN WithinCost(l)
                                                       ELSE WithinPrice(l)

\* The months an asset of the ledger, and a planned asset, is calculated for.
CalculatedMonths ==
    IF SpansSnapshot THEN (Start..End) \ {Snapshot} ELSE Start..End

PlannedMonths == {p \in CalculatedMonths : SpansSnapshot => p > Snapshot}

OnceIn(ls, months) ==
    Periods(ls) = months /\ Cardinality(ls) = Cardinality(months)

\* Every asset has exactly one line of the ledger.  One with a policy and a
\* date has one calculated line a month beside it, over the whole horizon but
\* the ledger month: that month is counted twice where the horizon begins
\* with it.  Any other has none, those of the companies that lost their
\* policies included.  A planned asset has one in each month of the forecast
\* if it has a policy and a date, and none otherwise.
OneLineAMonth ==
    Finished =>
        /\ \A i \in CardIds :
              LET ledger == {l \in LinesOf(i) : l.kind = "SNAPSHOT"}
              IN  /\ OnceIn(ledger, {Snapshot})
                  /\ OnceIn(LinesOf(i) \ ledger,
                            IF Depreciable(book.model, Card(i))
                            THEN CalculatedMonths ELSE {})
        /\ \A k \in DOMAIN input.planned :
              OnceIn(LinesOf(input.planned[k].id),
                     IF Depreciable(book.model, input.planned[k])
                     THEN PlannedMonths ELSE {})
        /\ \A i \in CardIds :
              Card(i).company = book.owner /\ Card(i).inService # None =>
                Depreciable(book.model, Card(i))

\* What the changes of a scenario can reach: their targets, the assets of a
\* changed block, and the pools of changed companies or members.
Reached(change) ==
    {i \in CardIds :
        \/ change.target = i
        \/ change.field = "production_driver" /\ Card(i).block = change.target
        \/ change.field = "workload_driver"
             /\ WorkloadTarget(Card(i)) = change.target
        \/ /\ change.target \in CardIds
           /\ \A k \in {i, change.target} :
                 Depreciable(book.model, Card(k)) /\ MethodOf(Card(k)) = "WORKLOAD"
           /\ WorkloadTarget(Card(i)) = WorkloadTarget(Card(change.target))}

Changes == ToSet(input.changes)

\* A scenario moves only what its assumptions reach: every other asset has
\* the baseline's lines, the ledger month is nobody's to change, an
\* impairment changes no month before its own, and a planned asset changes
\* no other asset.
OnlyTargetsMove ==
    phase = "stored" =>
        \A l \in {k \in stored.SCENARIO.lines \ stored.BASELINE.lines :
                    k.source = "CURRENT"} :
            /\ \E c \in Changes : l.id \in Reached(c)
            /\ l.kind # "SNAPSHOT"
            /\ (\A c \in Changes : c.field \in {"impairment_amount", "new_asset"}) =>
                 \E e \in input.events : e.target = l.id /\ e.period <= l.period

\* One difference, told six ways: the attributions, the totals of the two
\* dashboards, the preview of a draft, the comparison's rows and its tree,
\* and month by month, agree as long as all lines are read back
\* (AttributionService, wide_table_compare, create_chat_what_if_draft).
Preview == [baseline |-> Total(BaselineRead), draft |-> Total(lines)]

CompareDimensions == {<<"department", "asset_category">>, <<"asset">>, <<>>}

DifferencesAgree ==
    phase = "stored" /\ Cardinality(stored.BASELINE.lines) <= ReadLimit =>
        LET base == stored.BASELINE
            other == stored.SCENARIO
            window == [NoFilter EXCEPT !.from = FutureStart]
            difference == Total(other.lines) - Total(base.lines)
            months == ComparePeriods(base.lines, <<other.lines>>, window)
        IN  /\ MapThenSumSet(DifferenceOf, other.attributions) = difference
            /\ Dashboard(other.lines, other.summaries).total
                 - Dashboard(base.lines, base.summaries).total = difference
            /\ Preview.draft - Preview.baseline = difference
            /\ AcceptsWindow(BaselineRead, window)
            /\ \A dims \in CompareDimensions :
                 LET rows == CompareRows(base.lines, <<other.lines>>, window, dims)
                     node == CompareNode(rows, <<>>, months)
                 IN  /\ Minus(Head(node.scenarios), node.baseline).annual = difference
                     /\ \A p \in months :
                          /\ NodeDifference(node, p) =
                               MapThenSumSet(LAMBDA k : RowDifference(rows[k], p),
                                             DOMAIN rows)
                          /\ NodeDifference(node, p) =
                               MapThenSumSet(DifferenceOf,
                                 {x \in other.attributions : x.key[2] = p})

\* A difference is attributed to the last change of its asset; it is left
\* unclassified only where a driver, or a change to another member of the
\* pool, reached the asset (attribute_what_if_difference).
AttributionsFollowChanges ==
    phase = "stored" =>
        \A x \in stored.SCENARIO.attributions :
            LET own == {k \in DOMAIN input.changes :
                            input.changes[k].target = x.key[3]}
            IN  IF own = {}
                THEN /\ x.driver = "UNCLASSIFIED"
                     /\ \/ Cardinality(stored.BASELINE.lines) > ReadLimit
                        \/ \E c \in Changes : x.key[3] \in Reached(c)
                ELSE (x.driver = "IMPAIRMENT_EVENT") <=>
                        input.changes[Max(own)].field = "impairment_amount"

\* The views of one result add up to the same total whatever they group by:
\* wide table, tree, summaries, asset cards, dashboard and explanation, and
\* paging through the lines yields every line once (BusinessResultStore).
PageSize == 4

ViewsAgree ==
    Finished =>
        LET result == IF phase = "stored" THEN stored.SCENARIO ELSE stored.BASELINE
            all == result.lines
            board == Dashboard(all, result.summaries)
            cards == AssetCardAmounts(all)
            explained == ExplainChange(all, result.summaries, None, None)
            dims == <<"department", "depreciation_code", "asset">>
            Sum(f) == MapThenSumSet(LAMBDA k : f[k], DOMAIN f)
        IN  /\ \A d \in {None} \cup {l.department : l \in all} :
                 LET filter == [NoFilter EXCEPT !.department = d]
                     table == WideTable(all, filter, dims)
                     tops == Paths(table, 1)
                 IN  MapThenSumSet(LAMBDA t :
                        WideTreeNode(table, t, Periods(all)).annual, tops)
                       = IF d = None THEN board.total ELSE board.departments[d]
            /\ board.total = board.planned + board.current
            /\ LET parts == <<board.annual, board.monthly, board.drivers,
                              explained.drivers, explained.contributors>>
               IN  \A k \in DOMAIN parts : Sum(parts[k]) = board.total
            /\ \A field \in {"period", "year", "department", "category",
                             "policy", "department_category"} :
                 Sum(Summaries(result.summaries, field)) = board.total
            /\ MapThenSumSet(LAMBDA i : cards[i].total, DOMAIN cards) = board.total
            /\ MapThenSumSet(LAMBDA i : cards[i].months, DOMAIN cards) = board.count
            /\ SpansSnapshot =>
                 \A l \in all :
                    Cardinality({k \in 0..(board.count \div PageSize) :
                        l \in ForecastLines(all, NoFilter, PageSize, k * PageSize)}) = 1

\* While a forecast runs, what an asset has depreciated never falls and what
\* is left of a pool member never rises or goes below zero.
BalancesOnlyFall ==
    [][phase' = phase /\ carry' # carry =>
        /\ \A i \in DOMAIN carry.net :
              carry'.net[i] \in Lesser(0, carry.net[i])..carry.net[i]
        /\ \A i \in DOMAIN carry.work :
              carry'.work[i].acc >= carry.work[i].acc]_vars
=============================================================================
