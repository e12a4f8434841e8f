-------------------------- MODULE CustomerWorkbook --------------------------
(***************************************************************************)
(* What CustomerExcelRepository makes of the workbooks: the ledger cards   *)
(* that take part, the policies, the drivers of the baseline, the horizon  *)
(* and the ledger month.  A workbook is a record                           *)
(*   [snapshot, rows, codes, blocks, workloads]                            *)
(* rows is the sequence of ledger rows, codes the sequence of pairs of a   *)
(* depreciation code and the kind of its name, blocks and workloads are    *)
(* sets of driver rows.  What the cells look like (headings, numbers as    *)
(* text, date serials) is parsing and left out; a blank cell is None.      *)
(***************************************************************************)
EXTENDS DepreciationRules

Blank(value, otherwise) == IF value = None THEN otherwise ELSE value

(* The cells as _decimal, _int and _date_value read them: amounts are        *)
(* numbers, zero when blank; lives are not negative.  The number of an asset *)
(* and its department, "unassigned" when blank, are texts results are        *)
(* ordered by: numbers here.                                                 *)
IsLedgerRow(row) ==
    /\ {row.id, row.department} \subseteq Int
    /\ {row.cost, row.acc, row.imp, row.dep, row.net, row.residual} \subseteq Int
    /\ {row.years, row.months} \subseteq Nat
    /\ {row.inService, row.company, row.org, row.block} \subseteq Int \cup {None}

IsBlockRow(row) ==
    /\ {row.production, row.reserves} \subseteq Int
    /\ row.period \in Int \cup {None}

IsWorkloadRow(row) ==
    /\ {row.total, row.pool} \subseteq Int
    /\ row.period \in Int \cup {None}

IsSequence(s) == s \in Seq({s[i] : i \in DOMAIN s})

IsWorkbook(wb) ==
    /\ wb.snapshot \in Int
    /\ IsSequence(wb.rows) /\ IsSequence(wb.codes)
    /\ IsFiniteSet(wb.blocks) /\ IsFiniteSet(wb.workloads)
    /\ \A i \in DOMAIN wb.rows : IsLedgerRow(wb.rows[i])
    /\ \A row \in wb.blocks : IsBlockRow(row)
    /\ \A row \in wb.workloads : IsWorkloadRow(row)

(* The depreciation codes the repository knows by their number. *)
ProductionCode == "Z802"

WorkloadCode == "Z901"

StraightLineCodes == {"Z111", "Z112"}

(* A name that says nothing about its method is straight line. *)
MethodFromName(name) ==
    CASE name = "STRAIGHT_CURRENT" -> <<"STRAIGHT_LINE", "CURRENT_MONTH">>
      [] name = "PRODUCTION_NEXT"  -> <<"PRODUCTION", "NEXT_MONTH">>
      [] name = "WORKLOAD_CURRENT" -> <<"WORKLOAD", "CURRENT_MONTH">>
      [] OTHER                     -> <<"STRAIGHT_LINE", "NEXT_MONTH">>

-----------------------------------------------------------------------------
(* The ledger *)

\* flagged: disabled, removed or with a date of inactivity.
Excluded(row) == row.code = None \/ row.flagged \/ row.net <= 0

LifeOf(row) == IF row.years > 0 THEN 12 * row.years + row.months ELSE None

CardOf(row) ==
    [id |-> row.id,
     company |-> Blank(row.company, "DEFAULT"),
     department |-> row.department,
     category |-> Blank(row.category, "CUSTOMER_ASSET"),
     code |-> row.code,
     cost |-> row.cost, inService |-> row.inService,
     acc |-> row.acc, imp |-> row.imp,
     block |-> row.block, org |-> row.org,
     life |-> LifeOf(row), residual |-> row.residual, startRule |-> None,
     snapDep |-> row.dep, snapNet |-> row.net]

LoadAssets(wb) ==
    LET result[n \in 0..Len(wb.rows)] ==
            IF n = 0
            THEN <<>>
            ELSE IF Excluded(wb.rows[n])
                 THEN result[n - 1]
                 ELSE Append(result[n - 1], CardOf(wb.rows[n]))
    IN  result[Len(wb.rows)]

-----------------------------------------------------------------------------
(***************************************************************************)
(* _load_policies writes one policy per code and company, all companies    *)
(* under the same policy_id, and the semantic model keeps policies by id:  *)
(* of the companies, the one the set yields last owns every policy.  That  *)
(* order changes from process to process, so owner is any of them.         *)
(***************************************************************************)
Companies(wb) == {Blank(wb.rows[i].company, "DEFAULT") : i \in DOMAIN wb.rows}

Codes(wb) == {wb.codes[k][1] : k \in DOMAIN wb.codes}

PolicyOf(code, name, owner) ==
    [id |-> code, company |-> owner, category |-> "CUSTOMER_ASSET",
     method |-> MethodFromName(name)[1], life |-> 120, residual |-> 0,
     startRule |-> MethodFromName(name)[2]]

LoadSemanticModel(wb, owner) ==
    LET categories == {wb.rows[i].category : i \in DOMAIN wb.rows} \ {None}
    IN  [parents |-> [c \in categories |-> "CUSTOMER_ASSET"],
         policies |-> [k \in DOMAIN wb.codes |->
                          PolicyOf(wb.codes[k][1], wb.codes[k][2], owner)],
         codes |-> [c \in Codes(wb) |-> c]]

-----------------------------------------------------------------------------
(* The drivers.  A driver row is [code, target, period, production,        *)
(* reserves] or [target, period, total, pool]; period is None when the     *)
(* year or the month is missing.                                           *)

Average(rows, field) ==
    IF rows = {}
    THEN 0
    ELSE SumFunction([r \in rows |-> r[field]]) \div Cardinality(rows)

BlockRows(wb, block, period) ==
    {r \in wb.blocks : /\ r.code = ProductionCode
                       /\ r.target = block
                       /\ r.period = period}

WorkloadRows(wb, target, period) ==
    {r \in wb.workloads : r.target = target /\ r.period = period}

\* A month without a row is a driver of zeros, not a missing driver.
BlockDriver(wb, block, period) ==
    LET rows == BlockRows(wb, block, period)
    IN  [NoDriver EXCEPT !.production = Average(rows, "production"),
                         !.reserves = Average(rows, "reserves")]

WorkloadDriver(wb, target, period) ==
    LET rows == WorkloadRows(wb, target, period)
    IN  IF rows = {}
        THEN NoDriver
        ELSE [NoDriver EXCEPT !.total = Average(rows, "total"),
                              !.pool = Average(rows, "pool")]

BaselineDrivers(wb, cards, start, end) ==
    LET months == start..end
        blocks == {r.target : r \in {s \in wb.blocks :
                                        /\ s.code = ProductionCode
                                        /\ s.target # None /\ s.period # None}}
        pools == {WorkloadTarget(cards[i]) :
                    i \in {j \in DOMAIN cards : cards[j].code = WorkloadCode}}
        production == {<<"PRODUCTION", b, p>> : b \in blocks, p \in months}
        workload == {<<"WORKLOAD", t, p>> : t \in pools, p \in months}
    IN  [key \in production \cup workload |->
            IF key[1] = "PRODUCTION"
            THEN BlockDriver(wb, key[2], key[3])
            ELSE WorkloadDriver(wb, key[2], key[3])]

(* baseline_period_range: the first and the last month of any driver row. *)
DriverPeriods(wb) ==
    ({r.period : r \in wb.blocks} \cup {r.period : r \in wb.workloads}) \ {None}

BaselinePeriodRange(wb) ==
    IF DriverPeriods(wb) = {}
    THEN <<wb.snapshot, wb.snapshot>>
    ELSE <<Min(DriverPeriods(wb)), Max(DriverPeriods(wb))>>

-----------------------------------------------------------------------------
NameOf(wb, code) ==
    IF code \in Codes(wb)
    THEN wb.codes[CHOOSE k \in DOMAIN wb.codes : wb.codes[k][1] = code][2]
    ELSE None

(* ledger_snapshot_lines: the ledger month is taken over, not calculated. *)
SnapshotLine(wb, card) ==
    [kind |-> "SNAPSHOT", id |-> card.id, source |-> "CURRENT",
     company |-> card.company, department |-> card.department,
     category |-> card.category, code |-> card.code,
     method |-> MethodFromName(NameOf(wb, card.code))[1],
     period |-> wb.snapshot,
     opening |-> card.snapNet + card.snapDep,
     addition |-> 0, disposal |-> 0, impairment |-> 0,
     amount |-> card.snapDep, closing |-> card.snapNet]
=============================================================================
