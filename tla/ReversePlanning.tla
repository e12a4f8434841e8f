--------------------------- MODULE ReversePlanning ---------------------------
(***************************************************************************)
(* Reverse planning: which assumptions bring the depreciation of a month   *)
(* to a target amount?  Every action the ontology allows is measured with  *)
(* the depreciation rules, combinations are chosen by an optimizer, their  *)
(* amounts calibrated by trial, and a recommendation can be turned into a  *)
(* scenario.  The forecast it leads to is the one of WhatIfForecast, the   *)
(* trials of the optimizer compute a month directly.                       *)
(*                                                                         *)
(* The optimizer (CP-SAT) is external: it returns any of the solutions     *)
(* that are best for the objectives it had time for, or, when it runs out  *)
(* of time earlier, any solution or none.  Bisections halve whole units.   *)
(***************************************************************************)
EXTENDS WhatIfForecast

CONSTANTS
    Goals,        \* goals users ask for
    PoolMinimum,  \* straight-line assets considered at least (8)
    Halvings,     \* bound: steps of a bisection (16 and 28)
    Searches      \* objectives the optimizer may have had time for (0..5)

ASSUME GoalsAssumption ==
    /\ PoolMinimum \in Nat
    /\ Halvings \in Nat \ {0}
    /\ Searches \subseteq 0..5
    /\ \A goal \in Goals : goal.change \in Int /\ goal.target \in Int \cup {None}

\* None is neither a number nor the name of a field, and companies are named
\* by numbers as all targets are.
ASSUME NamesAssumption ==
    /\ None \notin Int \cup {"amount", "production", "total"}
    /\ \A wb \in Workbooks : \A i \in DOMAIN wb.rows : wb.rows[i].company \in Int

VARIABLES
    plan,      \* the plan being answered, None before there is one
    group,     \* whose options are combined, "none" before, "answered" after,
               \* "taken" when a scenario is made of a recommendation
    prepared,  \* measured options of the group
    patterns,  \* sets of options the optimizer has returned for the group
    found,     \* recommendations so far
    taken      \* the recommendation a scenario is made of

rvars == <<plan, group, prepared, patterns, found, taken>>

allVars == <<vars, rvars>>

MaxActions == 3

Recommendations(kind) == IF kind = "accounting" THEN 3 ELSE 1

-----------------------------------------------------------------------------
(* One month of one asset, computed directly (_simulate_reverse_           *)
(* assumptions runs the whole forecast and keeps the target month).  The   *)
(* ledger month is taken over where the forecast goes around it; the lines *)
(* of the ledger that a result gets beside its forecast otherwise          *)
(* (_include_customer_snapshot_lines) are in no trial.                     *)

HistoryAt(in, a, period) ==
    LET back[p \in period..Snapshot] ==
            IF p = Snapshot
            THEN [amount |-> a.snapDep, carried |-> HistoryStart(a)]
            ELSE HistoricalMonth(a, PolicyFor(a), p, back[p + 1].carried,
                                 in.drivers)
    IN  back[period].amount

SingleAt(in, a, period) ==
    LET forward[p \in (FutureStart - 1)..period] ==
            IF p < FutureStart
            THEN [amount |-> 0,
                  work |-> OpeningWork(a, PolicyFor(a), FutureStart)]
            ELSE ExistingMonth(a, PolicyFor(a), p, forward[p - 1].work,
                               in.events, in.drivers)
    IN  forward[period].amount

PoolOf(in, target) ==
    {i \in DOMAIN in.cards : /\ Depreciable(book.model, in.cards[i])
                             /\ MethodOf(in.cards[i]) = "WORKLOAD"
                             /\ WorkloadTarget(in.cards[i]) = target}

\* The month of all members of a pool.
PooledMonths(in, target, members, period) ==
    LET First(i) == FirstDepreciationMonth(in.cards[i].inService,
                                           PolicyFor(in.cards[i]).startRule)
        Amounts(net, p) ==
            WorkloadAmounts(members, net,
                            {i \in members : p >= First(i) /\ net[i] > 0},
                            Driver(in.drivers, "WORKLOAD", target, p))
        Charged(net, amounts) ==
            [i \in members |-> [amount |-> amounts[i], net |-> net[i] - amounts[i]]]
        forward[p \in (FutureStart - 1)..period] ==
            IF p < FutureStart
            THEN [i \in members |-> [amount |-> 0, net |-> CardNet(in.cards[i])]]
            ELSE LET before == forward[p - 1]
                     net == [i \in members |-> before[i].net]
                 IN  Charged(net, Amounts(net, p))
    IN  forward[period]

PooledAt(in, a, period) ==
    LET target == WorkloadTarget(a)
    IN  PooledMonths(in, target, PoolOf(in, target), period)
            [CardIndex(in.cards, a.id)].amount

AmountAt(in, a, period) ==
    IF SpansSnapshot /\ period = Snapshot THEN a.snapDep
    ELSE IF ~Depreciable(book.model, a) \/ period \notin Start..End THEN 0
    ELSE IF period < FutureStart THEN HistoryAt(in, a, period)
    ELSE IF MethodOf(a) = "WORKLOAD" THEN PooledAt(in, a, period)
    ELSE SingleAt(in, a, period)

PlannedAt(a, period) ==
    IF Depreciable(book.model, a) /\ period \in FutureStart..End
    THEN PlannedMonth(a, PolicyFor(a), period, 0).amount
    ELSE 0

InScope(x, scope) ==
    CASE scope.type = "company"        -> x.company = scope.value
      [] scope.type = "department"     -> x.department = scope.value
      [] scope.type = "asset_category" -> x.category = scope.value

ScopeAmount(in, p) ==
    LET cards == {i \in DOMAIN in.cards : InScope(in.cards[i], p.scope)}
        planned == {i \in DOMAIN in.planned : InScope(in.planned[i], p.scope)}
    IN  MapThenSumSet(LAMBDA i : AmountAt(in, in.cards[i], p.period), cards)
          + MapThenSumSet(LAMBDA i : PlannedAt(in.planned[i], p.period), planned)

\* MUTANT: what the scenario the plan is for already assumes is left out.
SimulateAlone(assumptions, p) == ScopeAmount(Applied(assumptions), p)

Simulate(assumptions, p) == ScopeAmount(Applied(p.inherited \o assumptions), p)

\* What the ledger adds beside the forecast to a stored result in the month.
LedgerBeside(p) ==
    IF SpansSnapshot \/ p.period # Snapshot
    THEN 0
    ELSE MapThenSumSet(LAMBDA i : book.cards[i].snapDep,
                       {i \in DOMAIN book.cards : InScope(book.cards[i], p.scope)})

-----------------------------------------------------------------------------
(***************************************************************************)
(* The options.  An option is a record                                     *)
(*   [kind, risk, affected, field, min, max, full, rising, assumption]     *)
(* field is the field of its assumption that is adjusted, None when the    *)
(* action is all or nothing; rising says that a larger value does more.    *)
(***************************************************************************)
Assumption(template, target, amount, period, fields) ==
    [template |-> template, target |-> target, amount |-> amount,
     date |-> period, startRule |-> None, code |-> None, fields |-> fields]

BaseLines == IF phase = "stored" THEN stored.SCENARIO.lines ELSE stored.BASELINE.lines

ScopeTotal(lns, period, scope) ==
    Total({l \in lns : l.period = period /\ InScope(l, scope)})

EligibleAssets(scope) ==
    {i \in DOMAIN book.cards :
        \E l \in BaseLines : /\ l.id = book.cards[i].id
                             /\ l.source = "CURRENT"
                             /\ InScope(l, scope)}

\* The members of a set of numbers, the smallest first.
Ascending(S) ==
    CHOOSE s \in [1..Cardinality(S) -> S] :
        \A i, j \in DOMAIN s : i < j => s[i] < s[j]

Monthly(id, period) == Total({l \in BaseLines : l.id = id /\ l.period = period})

\* The code of an asset is one of the workbook and its method allows the
\* action; where no asset of the scope has such a code, all are allowed.
Supports(p, a, method) ==
    LET codes == Codes(book.workbook)
    IN  \/ \A i \in EligibleAssets(p.scope) : book.cards[i].code \notin codes
        \/ /\ a.code \in codes
           /\ MethodFromName(NameOf(book.workbook, a.code))[1] = method

\* The assets that charge most, until there are enough to cover the change.
StraightAssets(p) ==
    LET Charge(i) == Monthly(book.cards[i].id, p.period)
        charging == {i \in EligibleAssets(p.scope) :
                        book.cards[i].code \in StraightLineCodes /\ Charge(i) > 0}
        Larger(i, j) == Charge(i) > Charge(j) \/ (Charge(i) = Charge(j) /\ i < j)
        sorted == CHOOSE s \in [1..Cardinality(charging) -> charging] :
                      \A i, j \in DOMAIN s : i < j => Larger(s[i], s[j])
        Enough(n) ==
            /\ n >= PoolMinimum
            /\ MapThenSumSet(LAMBDA k : Charge(sorted[k]), 1..n)
                 >= Greater(3 * (IF p.delta < 0 THEN -p.delta ELSE p.delta), 100)
        enough == {n \in 1..Cardinality(charging) : Enough(n)}
        count == IF enough = {} THEN Cardinality(charging) ELSE Min(enough)
    IN  [k \in 1..count |-> book.cards[sorted[k]]]

Impairable(a) ==
    Greater(0, (TotalDepreciable(a.cost, Blank(a.residual, 0)) \div 100)
                 - a.acc - a.imp)

ImpairmentOptions(p) ==
    LET assets == StraightAssets(p)
        chosen == {k \in DOMAIN assets :
                      Supports(p, assets[k], "STRAIGHT_LINE") /\ Impairable(assets[k]) > 0}
    IN  [k \in chosen |->
            LET a == assets[k]
            IN  [kind |-> "accounting", risk |-> 40, affected |-> {a.id},
                 field |-> "amount", min |-> 0, max |-> Impairable(a),
                 full |-> Impairable(a), rising |-> TRUE,
                 assumption |-> Assumption("straight_impairment", a.id,
                                    Impairable(a), p.period, <<>>)]]

AcceleratedOptions(p) ==
    LET assets == StraightAssets(p)
    IN  [k \in {j \in DOMAIN assets : Supports(p, assets[j], "STRAIGHT_LINE")} |->
            [kind |-> "accounting", risk |-> 70,
             affected |-> {assets[k].id}, field |-> None,
             min |-> 0, max |-> 0, full |-> None, rising |-> TRUE,
             assumption |-> Assumption("straight_accelerated", assets[k].id,
                                       0, None, <<>>)]]

ProductionOption(p, block, d) ==
    LET bound == Greater(d.production, d.reserves)
        up == p.delta >= 0
    IN  [kind |-> "operational", risk |-> 55, affected |-> {block},
         field |-> "production",
         min |-> IF up THEN d.production ELSE 0,
         max |-> IF up THEN bound ELSE d.production,
         full |-> IF up THEN bound ELSE 0, rising |-> up,
         assumption |-> Assumption("production_driver", block, 0, p.period,
                            [production |-> IF up THEN bound ELSE 0,
                             reserves |-> d.reserves])]

ProductionOptions(p) ==
    LET assets == {book.cards[i] : i \in EligibleAssets(p.scope)}
        blocks == {a.block : a \in {x \in assets :
                      /\ x.code = ProductionCode /\ x.block # None
                      /\ Supports(p, x, "PRODUCTION")}}
        DriverOf(b) == Driver(book.drivers, "PRODUCTION", b, p.period)
        usable == {b \in blocks :
                      /\ DriverOf(b).reserves > 0
                      /\ p.delta >= 0 => DriverOf(b).reserves > DriverOf(b).production}
        sorted == Ascending(usable)
    IN  [k \in DOMAIN sorted |-> ProductionOption(p, sorted[k], DriverOf(sorted[k]))]

WorkloadOptions(p) ==
    LET assets == {book.cards[i] : i \in EligibleAssets(p.scope)}
        pooled == {a \in assets : a.code = WorkloadCode}
        Pool(t) == {a \in pooled : WorkloadTarget(a) = t}
        targets == Ascending({WorkloadTarget(a) : a \in
                       {x \in pooled : Supports(p, x, "WORKLOAD")}})
        Maximum(t) == Greater(100, MapThenSumSet(LAMBDA a : a.cost, Pool(t)))
        Full(t) == IF p.delta >= 0 THEN Maximum(t) ELSE 0
    IN  [k \in DOMAIN targets |->
            LET t == targets[k]
            IN  [kind |-> "operational", risk |-> 55,
                 affected |-> {a.id : a \in Pool(t)}, field |-> "total",
                 min |-> 0, max |-> Maximum(t), full |-> Full(t),
                 rising |-> p.delta >= 0,
                 assumption |-> Assumption("workload_driver", t, 0, p.period,
                                    [workload |-> 1, fee |-> 0,
                                     total |-> Full(t)])]]

Options(p, kind) ==
    IF kind = "accounting"
    THEN IF p.delta < 0 THEN ImpairmentOptions(p) ELSE AcceleratedOptions(p)
    ELSE ProductionOptions(p) \o WorkloadOptions(p)

AssumptionAt(option, value) ==
    CASE option.field = None     -> option.assumption
      [] option.field = "amount" -> [option.assumption EXCEPT !.amount = value]
      [] OTHER -> [option.assumption EXCEPT !.fields[option.field] = value]

-----------------------------------------------------------------------------
(* _solve_group measures every option at its full value and keeps those    *)
(* that move the month in the direction of the plan.                       *)
Direction(p) == IF p.delta >= 0 THEN 1 ELSE -1

Needed(p) == p.delta * Direction(p)

EffectOf(assumptions, p) == (Simulate(assumptions, p) - p.baseline) * Direction(p)

Measured(options, p) ==
    [k \in DOMAIN options |->
        [option |-> options[k],
         usable |-> IF Accepted(Applied(p.inherited \o <<options[k].assumption>>))
                    THEN EffectOf(<<options[k].assumption>>, p)
                    ELSE 0]]

Moving(measured) ==
    LET moving == {k \in DOMAIN measured : measured[k].usable > 0}
    IN  [k \in moving |-> measured[k]]

Prepared(p, kind) ==
    IF p.delta = 0 THEN <<>> ELSE Moving(Measured(Options(p, kind), p))

(***************************************************************************)
(* _solve_one.  A selection is a set of prepared options; the effects it   *)
(* may be given add up to any number from Low to High.                     *)
(***************************************************************************)
Selections(items, excluded) ==
    {S \in SUBSET DOMAIN items :
        /\ S \notin excluded
        /\ Cardinality(S) <= MaxActions
        /\ \A i, j \in S :
              items[i].option.assumption.target = items[j].option.assumption.target
                => i = j}

Least(item) == IF item.option.field = None THEN item.usable ELSE 1

Low(items, S) == MapThenSumSet(LAMBDA i : Least(items[i]), S)

High(items, S) == MapThenSumSet(LAMBDA i : items[i].usable, S)

Reach(items, S, needed) ==
    Lesser(Greater(needed, Low(items, S)), High(items, S))

\* The objectives, in the order they are minimized one after the other.
Objectives(items, S, needed) ==
    LET reach == Reach(items, S, needed)
    IN  <<IF reach >= needed THEN reach - needed ELSE needed - reach,
          MapThenSumSet(LAMBDA i : items[i].option.risk, S),
          Cardinality(S),
          MapThenSumSet(LAMBDA i : Cardinality(items[i].option.affected), S),
          reach>>

\* The selections left when there was time for the first k objectives.
Best(items, excluded, needed, k) ==
    LET all == Selections(items, excluded)
        score == [S \in all |-> Objectives(items, S, needed)]
        left[n \in 0..k] ==
            IF n = 0
            THEN all
            ELSE LET before == left[n - 1]
                     least == Min({score[S][n] : S \in before})
                 IN  {S \in before : score[S][n] = least}
    IN  left[k]

\* How total may be divided: all actions but one at an end of their range.
Divisions(items, S, total) ==
    LET Ends(i) == {Least(items[i]), items[i].usable}
        ends == {f \in [S -> UNION {Ends(i) : i \in S}] :
                    \A i \in S : f[i] \in Ends(i)}
        Rest(f, last) ==
            total - MapThenSumSet(LAMBDA i : f[i], S \ {last})
    IN  {f \in {[g EXCEPT ![last] = Rest(g, last)] : g \in ends, last \in S} :
            \A i \in S : f[i] \in Least(items[i])..items[i].usable}

\* OPTIMAL: every objective there was time for was minimized.  FEASIBLE: the
\* time ran out during one of them; the extremes stand for any total.
Solutions(items, excluded, needed) ==
    LET optimal ==
            {S \in UNION {Best(items, excluded, needed, k) :
                             k \in Searches \ {0}} : S # {}}
        feasible == IF 0 \in Searches
                    THEN Selections(items, excluded) \ {{}} ELSE {}
        Totals(S) == {Low(items, S), High(items, S)}
    IN  (UNION {{[selection |-> S, effects |-> e, label |-> "OPTIMAL"] :
                   e \in Divisions(items, S, Reach(items, S, needed))} :
                S \in optimal})
          \cup
        (UNION {{[selection |-> S, effects |-> e, label |-> "FEASIBLE"] :
                   e \in UNION {Divisions(items, S, t) : t \in Totals(S)}} :
                S \in feasible})

-----------------------------------------------------------------------------
(* Amounts are found by trial: _calibrate_option and _correct_combination. *)

Apart(a, b) == IF a >= b THEN a - b ELSE b - a

Clamp(option, value) == Lesser(option.max, Greater(option.min, value))

\* n / d to the nearest unit, a half to the even one (Decimal.quantize).
HalfEven(n, d) ==
    LET down == n \div d
        rest == 2 * (n % d)
    IN  IF rest > d \/ (rest = d /\ down % 2 = 1) THEN down + 1 ELSE down

\* The assumptions with a value for the k-th, which is made of the option.
With(assumptions, k, option, value) ==
    [j \in DOMAIN assumptions |->
        IF j = k THEN AssumptionAt(option, value) ELSE assumptions[j]]

\* A guess from the neutral value or, when one was tried, from there: effects
\* grow in proportion.
Guess(item, effect, tried) ==
    LET option == item.option
        neutral == IF option.full <= option.min THEN option.max ELSE option.min
        start == IF tried = None THEN neutral ELSE tried.value
        missing == IF tried = None THEN Lesser(effect, item.usable)
                                   ELSE effect - tried.effect
    IN  Clamp(option, start + HalfEven((option.full - neutral) * missing, item.usable))

\* What the trial of a value leaves of a search: the best trial, the earliest
\* of equals, and, unless it was a guess, the half of the range to go on with.
\* A guess that is right ends the search.
Tried(search, isGuess, value, result, effect, rising) ==
    LET more == (result < effect) = rising
        error == Apart(result, effect)
    IN  [low |-> IF ~isGuess /\ more THEN value ELSE search.low,
         high |-> IF ~isGuess /\ ~more THEN value ELSE search.high,
         best |-> IF search.best = None \/ error < search.best.error
                  THEN [value |-> value, effect |-> result, error |-> error]
                  ELSE search.best,
         over |-> isGuess /\ error <= 1]

\* The value of the k-th assumption with which all of them have an effect:
\* some guesses, then the range is halved.
Search(assumptions, k, item, effect, guesses, p) ==
    LET option == item.option
        Value(search, n) == IF n <= guesses THEN Guess(item, effect, search.best)
                                            ELSE (search.low + search.high) \div 2
        Trial(search, isGuess, value) ==
            Tried(search, isGuess, value,
                  EffectOf(With(assumptions, k, option, value), p),
                  effect, option.rising)
        after[n \in 0..(guesses + Halvings)] ==
            IF n = 0
            THEN [low |-> option.min, high |-> option.max, best |-> None, over |-> FALSE]
            ELSE LET search == after[n - 1]
                 IN  IF search.over THEN search
                     ELSE Trial(search, n <= guesses, Value(search, n))
    IN  after[guesses + Halvings].best.value

\* _calibrate_option: an action alone, interpolated and corrected once before
\* it is searched.
Calibrate(item, effect, p) ==
    Search(<<item.option.assumption>>, 1, item, effect, 2, p)

\* MUTANT: the last action is searched instead of the first adjustable one.
CorrectedLast(assumptions, k, item, p) ==
    LET last == Len(assumptions)
        own == CHOOSE i \in DOMAIN prepared :
                prepared[i].option.assumption.target = assumptions[last].target
    IN  With(assumptions, last, prepared[own].option,
             Search(assumptions, last, prepared[own], Needed(p), 0, p))

\* _correct_combination: the first adjustable action is searched anew with
\* the others as they are.
Corrected(assumptions, k, item, p) ==
    With(assumptions, k, item.option,
         Search(assumptions, k, item, Needed(p), 0, p))

\* What is shown with an action is its calibrated amount; the assumptions may
\* be corrected after that.
Recommendation(items, solution, order, shown, p) ==
    LET calibrated == [k \in DOMAIN order |->
                          AssumptionAt(items[order[k]].option, shown[k])]
        adjustable == {k \in DOMAIN order : shown[k] # None}
        first == Min(adjustable)
        Of(assumptions) ==
            [kind |-> items[order[1]].option.kind, label |-> solution.label,
             selection |-> solution.selection, shown |-> shown,
             assumptions |-> assumptions, amount |-> Simulate(assumptions, p)]
    IN  Of(IF adjustable = {} \/ Apart(Simulate(calibrated, p), p.target) <= 1
           THEN calibrated
           ELSE Corrected(calibrated, first, items[order[first]], p))

Materialize(items, solution, p) ==
    LET order == Ascending(solution.selection)
        Shown(i) == IF items[i].option.field = None
                    THEN None
                    ELSE Calibrate(items[i], solution.effects[i], p)
    IN  Recommendation(items, solution, order,
                       [k \in DOMAIN order |-> Shown(order[k])], p)

-----------------------------------------------------------------------------
(* The steps of an answer *)

Gap(r) == Apart(r.amount, plan.target)

Exact == plan.delta = 0 \/ \E k \in DOMAIN found : Gap(found[k]) <= 1

Groups == {"accounting", "operational"}

InitR ==
    /\ Init
    /\ plan = None
    /\ group = "none"
    /\ prepared = <<>>
    /\ patterns = {}
    /\ found = <<>>
    /\ taken = None

Consider(p, kind) ==
    /\ group' = kind
    /\ prepared' = Prepared(p, kind)
    /\ patterns' = {}

\* _execute_plan up to the optimizer: the baseline is what the lines of the
\* scenario add up to; a goal is an amount or a change.
Ask(goal) ==
    /\ group = "none"
    /\ phase = "stored" \/ (phase = "choosing" /\ request = <<>>)
    /\ \E l \in BaseLines : InScope(l, goal.scope)
    /\ goal.period \in Periods(BaseLines)
    /\ LET baseline == ScopeTotal(BaseLines, goal.period, goal.scope)
           target == IF goal.target = None THEN baseline + goal.change
                                           ELSE goal.target
           p == [scope |-> goal.scope, period |-> goal.period,
                 baseline |-> baseline, target |-> target,
                 delta |-> target - baseline,
                 inherited |-> IF phase = "stored" THEN request ELSE <<>>]
       IN  /\ plan' = p
           /\ Consider(p, "accounting")
    /\ UNCHANGED <<vars, found, taken>>

Recommend ==
    /\ group \in Groups
    /\ Cardinality(patterns) < Recommendations(group)
    /\ prepared # <<>>
    /\ \E s \in Solutions(prepared, patterns, Needed(plan)) :
          /\ patterns' = patterns \cup {s.selection}
          /\ found' = Append(found, Materialize(prepared, s, plan))
    /\ UNCHANGED <<vars, plan, group, prepared, taken>>

\* MUTANT: the fallback is considered whatever the accounting group found.
EndGroupAlways ==
    /\ group \in Groups
    /\ IF group = "accounting" /\ Options(plan, "operational") # <<>>
       THEN Consider(plan, "operational")
       ELSE /\ group' = "answered"
            /\ UNCHANGED <<prepared, patterns>>
    /\ UNCHANGED <<vars, plan, found, taken>>

\* A group ends when it has enough, when doing nothing is best, or when the
\* optimizer found no solution in its time; then the fallback is considered.
EndGroup ==
    /\ group \in Groups
    /\ IF /\ group = "accounting"
          /\ ~Exact
          /\ Options(plan, "operational") # <<>>
       THEN Consider(plan, "operational")
       ELSE /\ group' = "answered"
            /\ UNCHANGED <<prepared, patterns>>
    /\ UNCHANGED <<vars, plan, found, taken>>

\* MUTANT: the scenario is made on the baseline.
TakeRecommendationAlone ==
    /\ group = "answered"
    /\ group' = "taken"
    /\ \E k \in DOMAIN found :
          /\ taken' = found[k]
          /\ request' = found[k].assumptions
    /\ phase' = "choosing"
    /\ found' = <<>>
    /\ prepared' = <<>>
    /\ patterns' = {}
    /\ UNCHANGED <<book, input, todo, carry, lines, stored, plan>>

\* create_chat_draft_from_reverse_plan and the confirmation of its draft: a
\* scenario on top of the one the plan is for.  The other recommendations are
\* of no use in the model after that and forgotten.
TakeRecommendation ==
    /\ group = "answered"
    /\ group' = "taken"
    /\ \E k \in DOMAIN found :
          /\ taken' = found[k]
          /\ request' = plan.inherited \o found[k].assumptions
    /\ phase' = "choosing"
    /\ found' = <<>>
    /\ prepared' = <<>>
    /\ patterns' = {}
    /\ UNCHANGED <<book, input, todo, carry, lines, stored, plan>>

Inherit ==
    /\ group = "none"
    /\ AddAssumption
    /\ UNCHANGED rvars

Forecasting ==
    /\ \/ ComputeBaseline \/ Submit
       \/ HistoricalStep \/ TakeSnapshotLines \/ ExistingStep
       \/ WorkloadStep \/ PlannedStep \/ Store
    /\ UNCHANGED rvars

NextR ==
    \/ Forecasting
    \/ Inherit
    \/ \E goal \in Goals : Ask(goal)
    \/ Recommend
    \/ EndGroup
    \/ TakeRecommendation

SpecR == InitR /\ [][NextR]_allVars

-----------------------------------------------------------------------------
(* Properties *)

\* The scenario made of a recommendation is not refused, though its actions
\* were measured one by one, and charges in the planned month and scope exactly
\* the amount the recommendation was shown with, also on top of a scenario that
\* has assumptions of its own; the lines the ledger adds to a month the forecast
\* does not go around are all it charges more
\* (_simulate_reverse_assumptions against create_customer_scenario).
RecommendationDelivers ==
    group = "taken" =>
        /\ phase # "refused"
        /\ phase = "stored" =>
              ScopeTotal(stored.SCENARIO.lines, plan.period, plan.scope)
                = taken.amount + LedgerBeside(plan)

\* What a plan calls its baseline is what its own trials say when nothing is
\* assumed, and the ledger's lines where the forecast does not go around them:
\* the lines in the store and the direct calculation agree, so that effects
\* are measured from the right point everywhere but in that month.
TrialsStartAtBaseline ==
    group \in Groups /\ found = <<>> =>
        plan.baseline = Simulate(<<>>, plan) + LedgerBeside(plan)

\* An operating parameter is recommended only after the accounting actions,
\* once, and only when none of them meets the target to the unit; accounting
\* recommendations are at most three different combinations (optimize).
FallbackOnlyWhenNeeded ==
    \A k \in DOMAIN found :
        /\ found[k].kind = "operational" =>
              /\ k = Len(found)
              /\ \A j \in 1..(k - 1) :
                    found[j].kind = "accounting" /\ ~(Gap(found[j]) <= 1)
        /\ found[k].kind = "accounting" =>
              /\ k <= 3
              /\ \A j \in 1..(k - 1) : found[j].selection # found[k].selection

\* The amounts shown with the actions (recommended_parameters) are computed
\* before a combination is corrected.  What is assumed differs from what is
\* shown in the first adjustable action only, and only if the amounts shown
\* miss the target.
AdjustedValue(s) ==
    CASE s.template = "production_driver" -> s.fields.production
      [] s.template = "workload_driver" -> s.fields.total
      [] OTHER -> s.amount

OnlyFirstIsCorrected ==
    \A i \in DOMAIN found :
        LET r == found[i]
            Stale(k) == r.shown[k] # None /\ r.shown[k] # AdjustedValue(r.assumptions[k])
            Option(k) == prepared[Ascending(r.selection)[k]].option
            shown == [k \in DOMAIN r.shown |->
                        IF r.shown[k] = None
                        THEN r.assumptions[k]
                        ELSE AssumptionAt(Option(k), r.shown[k])]
        IN  r.kind = group /\ (\E k \in DOMAIN r.shown : Stale(k)) =>
                /\ \A k \in DOMAIN r.shown : Stale(k) =>
                      \A j \in 1..(k - 1) : r.shown[j] = None
                /\ ~(Apart(Simulate(shown, plan), plan.target) <= 1)
=============================================================================
