------------------------- MODULE DepreciationRules -------------------------
(***************************************************************************)
(* The depreciation rules as functions of their inputs: amounts and        *)
(* months, the policy an asset resolves to, one month of an asset of each  *)
(* method, of a planned asset and of the reconstructed history.            *)
(*                                                                         *)
(* Amounts are integers in the unit of MONEY_QUANT (cents), residual rates *)
(* are whole percentages, months are counted on the absolute scale of      *)
(* Month.add.  An asset is a record                                        *)
(*   [id, company, department, category, code, cost, inService, acc, imp,  *)
(*    block, org, life, residual, startRule, snapDep, snapNet]             *)
(* whose optional fields hold None when they are absent.                   *)
(***************************************************************************)
EXTENDS Integers, Sequences, FiniteSets, FiniteSetsExt, Functions

CONSTANT None     \* an absent optional value

Lesser(a, b) == IF a <= b THEN a ELSE b

Greater(a, b) == IF a >= b THEN a ELSE b

(* money: n / d rounded half up (away from zero) to the unit. *)
Money(n, d) ==
    IF n >= 0 THEN (2 * n + d) \div (2 * d) ELSE -((d - 2 * n) \div (2 * d))

FirstDepreciationMonth(inService, startRule) ==
    IF startRule = "NEXT_MONTH" THEN inService + 1 ELSE inService

(***************************************************************************)
(* The semantic model sm = [parents, policies, codes]: the parent of each  *)
(* category, the policies in the order they are held, the policy of each   *)
(* code.  The perspective is the same everywhere and left out.             *)
(***************************************************************************)
AncestorsIncludingSelf(sm, category) ==
    LET Parent(c) == IF c \in DOMAIN sm.parents THEN sm.parents[c] ELSE None
        path[n \in 0..Cardinality(DOMAIN sm.parents)] ==
            IF n = 0
            THEN <<category>>
            ELSE LET below == path[n - 1]
                     up == Parent(below[Len(below)])
                 IN  IF up = None THEN below ELSE Append(below, up)
    IN  path[Cardinality(DOMAIN sm.parents)]

IsCategoryOrDescendant(sm, category, ancestor) ==
    LET path == AncestorsIncludingSelf(sm, category)
    IN  \E i \in DOMAIN path : path[i] = ancestor

(* match_policy: the nearest ancestor wins, then the earliest policy. *)
Nearest(sm, candidates, path) ==
    LET Distance(k) == CHOOSE i \in DOMAIN path : path[i] = sm.policies[k].category
    IN  IF candidates = {}
        THEN None
        ELSE sm.policies[CHOOSE k \in candidates : \A l \in candidates :
                            \/ Distance(k) < Distance(l)
                            \/ Distance(k) = Distance(l) /\ k <= l]

MatchPolicy(sm, company, category) ==
    Nearest(sm, {k \in DOMAIN sm.policies :
                    /\ sm.policies[k].company = company
                    /\ IsCategoryOrDescendant(sm, category,
                                              sm.policies[k].category)},
            AncestorsIncludingSelf(sm, category))

PolicyForCode(sm, code) ==
    LET held == {k \in DOMAIN sm.policies :
                    code \in DOMAIN sm.codes /\ sm.policies[k].id = sm.codes[code]}
    IN  IF held = {} THEN None ELSE sm.policies[CHOOSE k \in held : TRUE]

ResolveForAsset(sm, a) ==
    LET byCode == PolicyForCode(sm, a.code)
    IN  IF byCode # None /\ byCode.company = a.company
        THEN byCode
        ELSE MatchPolicy(sm, a.company, a.category)

(* _policy: what the ledger card says overrides the policy's parameters. *)
Overridden(p, a) ==
    LET Override(value, otherwise) == IF value = None THEN otherwise ELSE value
    IN  IF p = None
        THEN None
        ELSE [p EXCEPT !.life = Override(a.life, @),
                       !.residual = Override(a.residual, @),
                       !.startRule = Override(a.startRule, @)]

Policy(sm, a) == Overridden(ResolveForAsset(sm, a), a)

Depreciable(sm, a) == a.inService # None /\ ResolveForAsset(sm, a) # None

-----------------------------------------------------------------------------
(* Drivers: a function of <<type, target, period>>, the _driver_index. *)
NoDriver == [production |-> 0, reserves |-> 0, workload |-> 0, fee |-> 0,
             total |-> None, pool |-> None]

Driver(drivers, type, target, period) ==
    IF <<type, target, period>> \in DOMAIN drivers
    THEN drivers[<<type, target, period>>]
    ELSE NoDriver

WorkloadTarget(a) == IF a.org = None THEN a.company ELSE a.org

(* The depletion rate of a month as a fraction, with the branch it took. *)
DepletionRate(d) ==
    IF d.reserves <= 0
    THEN [n |-> 1, d |-> 1]
    ELSE CASE d.production <= 0          -> [n |-> 0, d |-> 1]
           [] d.production >= d.reserves -> [n |-> 1, d |-> 1]
           [] OTHER                      -> [n |-> d.production, d |-> d.reserves]

-----------------------------------------------------------------------------
(***************************************************************************)
(* _forecast_existing_asset.  TotalDepreciable is in hundredths of a unit. *)
(* A work record [acc, imp, disposed] carries an asset from month to month.*)
(***************************************************************************)
TotalDepreciable(cost, residual) == cost * (100 - residual)

ElapsedMonths(p, first, start) ==
    Greater(0, Lesser(p.life, start - first))

ScheduledDepreciation(a, p, start) ==
    LET first == FirstDepreciationMonth(a.inService, p.startRule)
    IN  Money(TotalDepreciable(a.cost, p.residual) * ElapsedMonths(p, first, start),
              100 * p.life)

OpeningWork(a, p, start) ==
    [acc |-> IF p.method = "PRODUCTION"
             THEN a.acc
             ELSE Greater(a.acc, ScheduledDepreciation(a, p, start)),
     imp |-> a.imp,
     disposed |-> FALSE]

SumAmounts(events, type) ==
    SumFunction([e \in events |-> IF e.type = type THEN e.amount ELSE 0])

\* MUTANT: the amount of the first month is kept, never divided anew.
MonthlyAmountKept(a, p, period, w, opening, drivers) ==
    LET index == period - FirstDepreciationMonth(a.inService, p.startRule)
    IN  IF w.disposed \/ index \notin 0..(p.life - 1)
        THEN 0
        ELSE Money(TotalDepreciable(a.cost, p.residual), 100 * p.life)

(* _monthly_amount; opening is the net value before this month's events. *)
MonthlyAmount(a, p, period, w, opening, drivers) ==
    LET first == FirstDepreciationMonth(a.inService, p.startRule)
        index == period - first
        rate == DepletionRate(Driver(drivers, "PRODUCTION", a.block, period))
        base == Greater(opening, 0)
        remaining == TotalDepreciable(a.cost, p.residual) - 100 * (w.acc + w.imp)
    IN  IF w.disposed \/ period < first
        THEN 0
        ELSE IF p.method = "PRODUCTION"
        THEN Lesser(Greater(Money(base * rate.n, rate.d), 0), base)
        ELSE IF index >= p.life
        THEN 0
        ELSE Money(Greater(remaining, 0), 100 * (p.life - index))

\* MUTANT: the events of the month are not filtered by their asset.
ExistingMonthAnyEvent(a, p, period, w, events, drivers) ==
    LET due == {e \in events : e.period = period}
        impaired == SumAmounts(due, "IMPAIRMENT")
        opening == a.cost - w.acc - w.imp
        hit == [w EXCEPT !.imp = @ + impaired]
        amount == MonthlyAmount(a, p, period, hit, opening, drivers)
    IN  [opening |-> opening, impairment |-> impaired, disposal |-> 0,
         addition |-> 0, amount |-> amount,
         closing |-> a.cost - (w.acc + amount) - hit.imp,
         work |-> [hit EXCEPT !.acc = w.acc + amount]]

ExistingMonth(a, p, period, w, events, drivers) ==
    LET due == {e \in events : e.target = a.id /\ e.period = period}
        impaired == SumAmounts(due, "IMPAIRMENT")
        disposal == SumAmounts(due, "DISPOSAL")
        opening == a.cost - w.acc - w.imp
        hit == [acc |-> w.acc, imp |-> w.imp + impaired,
                disposed |-> w.disposed \/ \E e \in due : e.type = "DISPOSAL"]
        amount == MonthlyAmount(a, p, period, hit, opening, drivers)
    IN  [opening |-> opening, impairment |-> impaired, disposal |-> disposal,
         addition |-> 0, amount |-> amount,
         closing |-> a.cost - (w.acc + amount) - hit.imp - disposal,
         work |-> [hit EXCEPT !.acc = w.acc + amount]]

-----------------------------------------------------------------------------
(***************************************************************************)
(* _forecast_workload_assets: one month of one pool.  net maps each member *)
(* to its opening net value, dues are the members that take part.          *)
(***************************************************************************)
TotalAmortization(d) == IF d.total # None THEN d.total ELSE d.workload * d.fee

PoolNetValue(d, ledgerPool) ==
    LET configured == IF d.pool # None THEN d.pool ELSE ledgerPool
    IN  IF configured > 0 THEN configured ELSE ledgerPool

\* MUTANT: the share is not capped at what is left of the asset.
WorkloadAmountUncapped(opening, eligible, total, pool) ==
    IF opening <= 0 \/ ~eligible \/ pool <= 0 \/ total <= 0
    THEN 0
    ELSE Money(total * opening, pool)

WorkloadAmount(opening, eligible, total, pool) ==
    IF opening <= 0 \/ ~eligible \/ pool <= 0 \/ total <= 0
    THEN 0
    ELSE Lesser(Money(total * opening, pool), opening)

WorkloadAmounts(pool, net, dues, d) ==
    LET ledgerPool == SumFunctionOnSet(net, dues)
    IN  [id \in pool |->
            WorkloadAmount(net[id], id \in dues, TotalAmortization(d),
                           PoolNetValue(d, ledgerPool))]

-----------------------------------------------------------------------------
(* _forecast_planned_asset: one month, acc depreciated before it. *)
PlannedMonth(a, p, period, acc) ==
    LET first == FirstDepreciationMonth(a.inService, p.startRule)
        amount == IF period \in first .. (first + p.life - 1)
                  THEN Money(TotalDepreciable(a.cost, p.residual), 100 * p.life)
                  ELSE 0
    IN  [opening |-> a.cost - acc, impairment |-> 0, disposal |-> 0,
         addition |-> IF period = first THEN a.cost ELSE 0,
         amount |-> amount, closing |-> a.cost - acc - amount]

-----------------------------------------------------------------------------
(***************************************************************************)
(* _reconstruct_historical_lines: one month of one asset, computed         *)
(* backwards from closing, the opening net value of the month after it.    *)
(***************************************************************************)
MaximumNet(a) == Greater(0, a.cost - a.imp)

Grossed(closing, n, d) == IF n < d THEN Money(closing * d, d - n) ELSE closing

ReversedOpening(a, p, period, closing, drivers) ==
    LET production == Driver(drivers, "PRODUCTION", a.block, period)
        rate == DepletionRate(production)
        d == Driver(drivers, "WORKLOAD", WorkloadTarget(a), period)
        total == IF d.total = None THEN 0 ELSE d.total
        pool == IF d.pool = None THEN 0 ELSE d.pool
    IN  IF period < FirstDepreciationMonth(a.inService, p.startRule)
        THEN closing
        ELSE CASE p.method = "PRODUCTION" -> Grossed(closing, rate.n, rate.d)
               [] p.method = "WORKLOAD" ->
                     IF pool > 0 /\ total > 0
                     THEN Grossed(closing, Lesser(total, pool), pool)
                     ELSE closing
               [] OTHER ->
                     closing + Money(TotalDepreciable(a.cost, p.residual),
                                     100 * p.life)

\* MUTANT: the reconstructed opening is not capped at the asset's cost.
HistoricalMonthUncapped(a, p, period, closing, drivers) ==
    LET opening == Greater(ReversedOpening(a, p, period, closing, drivers), closing)
        before == period < a.inService
    IN  [opening |-> IF before THEN 0 ELSE opening,
         impairment |-> 0, disposal |-> 0, addition |-> 0,
         amount |-> IF before THEN 0 ELSE opening - closing,
         closing |-> IF before THEN 0 ELSE closing,
         carried |-> IF before THEN closing ELSE opening]

HistoricalMonth(a, p, period, closing, drivers) ==
    LET opening == Lesser(Greater(ReversedOpening(a, p, period, closing, drivers),
                                  closing),
                          MaximumNet(a))
        before == period < a.inService
    IN  [opening |-> IF before THEN 0 ELSE opening,
         impairment |-> 0, disposal |-> 0, addition |-> 0,
         amount |-> IF before THEN 0 ELSE opening - closing,
         closing |-> IF before THEN 0 ELSE closing,
         carried |-> IF before THEN closing ELSE opening]
=============================================================================
