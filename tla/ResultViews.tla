---------------------------- MODULE ResultViews ----------------------------
(***************************************************************************)
(* What the service reads back from the stored results: pages of lines,    *)
(* summaries, the wide table and its tree, the comparison of scenarios,    *)
(* asset totals, the dashboard, and the attribution of a difference to the *)
(* assumptions of a scenario.  Lines are a set of records                  *)
(*   [kind, id, source, company, department, category, code, method,       *)
(*    period, opening, addition, disposal, impairment, amount, closing]    *)
(* with the asset or planned asset as id.  Amounts come out of the         *)
(* database rounded to two places, which an integer already is.            *)
(***************************************************************************)
EXTENDS DepreciationRules, SequencesExt

Year(period) == period \div 12

Total(lines) == SumFunction([l \in lines |-> l.amount])

Periods(lines) == {l.period : l \in lines}

(* The where clause: a filter is [department, category, from, to]. *)
Filtered(lines, filter) ==
    {l \in lines : /\ filter.department \in {None, l.department}
                   /\ filter.category \in {None, l.category}
                   /\ filter.from = None \/ l.period >= filter.from
                   /\ filter.to = None \/ l.period <= filter.to}

NoFilter == [department |-> None, category |-> None, from |-> None, to |-> None]

(* order by period, department, asset; limit and offset *)
Before(l, m) ==
    \/ l.period < m.period
    \/ l.period = m.period /\ l.department < m.department
    \/ l.period = m.period /\ l.department = m.department /\ l.id < m.id

\* MUTANT: a page holds one line more than its limit.
ForecastLinesOneMore(lines, filter, limit, offset) ==
    LET chosen == Filtered(lines, filter)
        Place(l) == Cardinality({m \in chosen : Before(m, l)})
    IN  {l \in chosen : Place(l) \in offset .. (offset + limit)}

ForecastLines(lines, filter, limit, offset) ==
    LET chosen == Filtered(lines, filter)
        Place(l) == Cardinality({m \in chosen : Before(m, l)})
    IN  {l \in chosen : Place(l) \in offset .. (offset + limit - 1)}

-----------------------------------------------------------------------------
(* Aggregation *)

EventType(l) ==
    IF l.disposal # 0 THEN "DISPOSAL"
    ELSE IF l.impairment # 0 THEN "IMPAIRMENT"
    ELSE IF l.addition # 0 THEN "ADDITION"
    ELSE "BASE"

SummaryKey(l) ==
    [period |-> l.period, company |-> l.company, department |-> l.department,
     category |-> l.category, source |-> l.source, event |-> EventType(l),
     policy |-> l.code]

Summarize(lines) ==
    LET Group(k) == {l \in lines : SummaryKey(l) = k}
    IN  {[key |-> k, sum |-> Total(Group(k)),
          addition |-> Total({l \in Group(k) : l.addition # 0}),
          disposal |-> Total({l \in Group(k) : l.disposal # 0}),
          impairment |-> Total({l \in Group(k) : l.impairment # 0})] :
            k \in {SummaryKey(l) : l \in lines}}

SumOf(s) == s.sum

(* The ways GET /api/summaries groups; anything else is department_category. *)
SummaryField(key, field) ==
    CASE field = "period"     -> key.period
      [] field = "year"       -> Year(key.period)
      [] field = "department" -> key.department
      [] field = "category"   -> key.category
      [] field = "policy"     -> key.policy
      [] OTHER                -> <<key.department, key.category>>

Summaries(summaries, field) ==
    LET Member(v) == {s \in summaries : SummaryField(s.key, field) = v}
    IN  [v \in {SummaryField(s.key, field) : s \in summaries} |->
            MapThenSumSet(SumOf, Member(v))]

-----------------------------------------------------------------------------
(* The wide table: rows keyed by the values of the requested dimensions.   *)

DimensionValue(l, dimension) ==
    CASE dimension = "department"        -> l.department
      [] dimension = "asset_category"    -> l.category
      [] dimension = "depreciation_code" -> l.code
      [] dimension = "asset"             -> l.id

RowKey(l, dimensions) ==
    [i \in DOMAIN dimensions |-> DimensionValue(l, dimensions[i])]

SumMonths(months) == MapThenSumSet(LAMBDA p : months[p], DOMAIN months)

WideRow(lines, periods) ==
    LET months == [p \in periods |-> Total({l \in lines : l.period = p})]
    IN  [annual |-> SumMonths(months), months |-> months]

\* Columns are all months of the scenario, whatever the filter leaves.
WideTable(lines, filter, dimensions) ==
    LET chosen == Filtered(lines, [filter EXCEPT !.from = None, !.to = None])
    IN  [k \in {RowKey(l, dimensions) : l \in chosen} |->
            WideRow({l \in chosen : RowKey(l, dimensions) = k}, Periods(lines))]

(* A node of the tree stands for the rows whose key begins with path. *)
Beneath(table, path) == {k \in DOMAIN table : IsPrefix(path, k)}

WideTreeNode(table, path, periods) ==
    LET rows == Beneath(table, path)
    IN  [annual |-> MapThenSumSet(LAMBDA k : table[k].annual, rows),
         months |-> [p \in periods |->
                        MapThenSumSet(LAMBDA k : table[k].months[p], rows)]]

Paths(table, depth) == {SubSeq(k, 1, depth) : k \in DOMAIN table}

-----------------------------------------------------------------------------
(***************************************************************************)
(* wide_table_compare: base and others (a sequence) are sets of lines.     *)
(* The annual columns cover the whole horizon, the months only the window. *)
(***************************************************************************)
Normalized(table, key, periods) ==
    IF key \in DOMAIN table
    THEN [annual |-> table[key].annual,
          months |-> [p \in periods |->
                         IF p \in DOMAIN table[key].months
                         THEN table[key].months[p] ELSE 0]]
    ELSE [annual |-> 0, months |-> [p \in periods |-> 0]]

ComparePeriods(base, others, filter) ==
    LET all == Periods(base) \cup UNION {Periods(others[i]) : i \in DOMAIN others}
    IN  {p \in all : /\ filter.from = None \/ p >= filter.from
                     /\ filter.to = None \/ p <= filter.to}

Minus(scenario, baseline) ==
    [annual |-> scenario.annual - baseline.annual,
     months |-> [p \in DOMAIN baseline.months |->
                    scenario.months[p] - baseline.months[p]]]

CompareRows(base, others, filter, dimensions) ==
    LET periods == ComparePeriods(base, others, filter)
        baseline == WideTable(base, filter, dimensions)
        tables == [i \in DOMAIN others |-> WideTable(others[i], filter, dimensions)]
        keys == DOMAIN baseline \cup UNION {DOMAIN tables[i] : i \in DOMAIN tables}
    IN  [k \in keys |->
            [baseline |-> Normalized(baseline, k, periods),
             scenarios |-> [i \in DOMAIN tables |->
                               Normalized(tables[i], k, periods)]]]

\* _validate_period_range: both ends of a window lie within the baseline.
AcceptsWindow(base, filter) ==
    LET periods == Periods(base)
    IN  periods = {} \/ {filter.from, filter.to} \subseteq
                          (Min(periods)..Max(periods)) \cup {None}

\* What a row shows as the difference of a month: the last scenario's.
RowDifference(row, period) ==
    IF row.scenarios = <<>>
    THEN 0
    ELSE Minus(Last(row.scenarios), row.baseline).months[period]

CompareNode(rows, path, periods) ==
    LET under == Beneath(rows, path)
        Merge(Part(_)) ==
            [annual |-> MapThenSumSet(LAMBDA k : Part(rows[k]).annual, under),
             months |-> [p \in periods |->
                MapThenSumSet(LAMBDA k : Part(rows[k]).months[p], under)]]
        baseline == Merge(LAMBDA r : r.baseline)
        count == Len(rows[CHOOSE k \in under : TRUE].scenarios)
    IN  [baseline |-> baseline,
         scenarios |-> [i \in 1..count |-> Merge(LAMBDA r : r.scenarios[i])]]

\* A node of the tree shows the first scenario's difference.
NodeDifference(node, period) ==
    IF node.scenarios = <<>>
    THEN 0
    ELSE Minus(Head(node.scenarios), node.baseline).months[period]

\* In hundredths of a per cent.
PercentDifference(scenario, baseline) ==
    IF baseline = 0
    THEN IF scenario = 0 THEN 0 ELSE 10000
    ELSE Money((scenario - baseline) * 10000, baseline)

-----------------------------------------------------------------------------
(* Asset cards and the dashboard *)

AssetCardAmounts(lines) ==
    LET Of(id) == {l \in lines : l.id = id}
        LastOf(id) == Max(Periods(Of(id)))
        Charged(id) == {p \in Periods(Of(id)) :
                          \E l \in Of(id) : l.period = p /\ l.amount > 0}
    IN  [id \in {l.id : l \in lines} |->
            [total |-> Total(Of(id)),
             addition |-> MapThenSumSet(LAMBDA l : l.addition, Of(id)),
             disposal |-> MapThenSumSet(LAMBDA l : l.disposal, Of(id)),
             impairment |-> MapThenSumSet(LAMBDA l : l.impairment, Of(id)),
             first |-> IF Charged(id) = {} THEN None ELSE Min(Charged(id)),
             last |-> LastOf(id),
             months |-> Cardinality(Of(id)),
             ending |-> (CHOOSE l \in Of(id) : l.period = LastOf(id)).closing]]

\* Totals of lines by a key of theirs.
By(lines, key) ==
    [v \in {key[l] : l \in lines} |-> Total({l \in lines : key[l] = v})]

Dashboard(lines, summaries) ==
    [total |-> Total(lines),
     planned |-> Total({l \in lines : l.source = "PLANNED"}),
     current |-> Total({l \in lines : l.source = "CURRENT"}),
     count |-> Cardinality(lines),
     annual |-> By(lines, [l \in lines |-> Year(l.period)]),
     monthly |-> By(lines, [l \in lines |-> l.period]),
     departments |-> By(lines, [l \in lines |-> l.department]),
     drivers |-> [e \in {s.key.event : s \in summaries} |->
                    MapThenSumSet(SumOf, {s \in summaries : s.key.event = e})]]

ExplainChange(lines, summaries, department, year) ==
    LET Fits(d, p) == department \in {None, d} /\ year \in {None, Year(p)}
        kept == {s \in summaries : Fits(s.key.department, s.key.period)}
        shown == {l \in lines : Fits(l.department, l.period)}
    IN  [drivers |->
            [e \in {<<s.key.event, s.key.source>> : s \in kept} |->
                MapThenSumSet(SumOf, {s \in kept :
                                        <<s.key.event, s.key.source>> = e})],
         contributors |-> By(shown, [l \in shown |-> l.id])]

-----------------------------------------------------------------------------
(***************************************************************************)
(* attribute_what_if_difference.  changes is the sequence of what the      *)
(* assumptions changed, [change, target, field]; of several changes with   *)
(* one target the last counts.                                             *)
(***************************************************************************)
ObjectPeriodTotals(lines) ==
    [k \in {<<l.source, l.period, l.id>> : l \in lines} |->
        Total({l \in lines : <<l.source, l.period, l.id>> = k})]

DriverType(field) ==
    IF field = "impairment_amount" THEN "IMPAIRMENT_EVENT" ELSE "WHAT_IF_CHANGE"

\* MUTANT: of several changes with one target the first counts.
ChangeOfFirst(changes, id) ==
    SelectInSeq(changes, LAMBDA c : c.target = id)

ChangeOf(changes, id) ==
    SelectLastInSeq(changes, LAMBDA c : c.target = id)

\* MUTANT: only what the baseline knows is compared.
AttributeKnown(base, scenario, changes) ==
    LET before == ObjectPeriodTotals(base)
        after == ObjectPeriodTotals(scenario)
    IN  {[key |-> k, driver |-> "WHAT_IF_CHANGE", difference |-> after[k] - before[k]] :
            k \in {j \in DOMAIN before \cap DOMAIN after : after[j] # before[j]}}

Attribute(base, scenario, changes) ==
    LET before == ObjectPeriodTotals(base)
        after == ObjectPeriodTotals(scenario)
        At(totals, k) == IF k \in DOMAIN totals THEN totals[k] ELSE 0
        Driver_(id) ==
            IF ChangeOf(changes, id) = 0
            THEN "UNCLASSIFIED"
            ELSE DriverType(changes[ChangeOf(changes, id)].field)
    IN  {[key |-> k, driver |-> Driver_(k[3]), difference |-> At(after, k) - At(before, k)] :
            k \in {j \in DOMAIN before \cup DOMAIN after :
                      At(after, j) # At(before, j)}}

DifferenceOf(a) == a.difference
=============================================================================
