-------------------------- MODULE MCWhatIfForecast --------------------------
(* Workbooks and assumptions for model checking.  Months are 22 to 27, but *)
(* for the long horizon, the ledger month is 24, the year changes at 24.   *)
EXTENDS WhatIfForecast

\* Two companies, a block and an organization: numbers, as all targets are.
A == 71
B == 72
B1 == 51
O1 == 61

Row ==
    [id |-> 1, code |-> "Z112", company |-> A, category |-> "C1",
     department |-> 1, cost |-> 1205, inService |-> 15, acc |-> 810, imp |-> 0,
     dep |-> 90, net |-> 395, block |-> None, org |-> None,
     years |-> 1, months |-> 0, residual |-> 10, flagged |-> FALSE]

Names ==
    << <<"Z111", "STRAIGHT_CURRENT">>, <<"Z112", "STRAIGHT_NEXT">>,
       <<"Z802", "PRODUCTION_NEXT">>, <<"Z901", "WORKLOAD_CURRENT">> >>

Produced(period, production, reserves) ==
    [code |-> "Z802", target |-> B1, period |-> period,
     production |-> production, reserves |-> reserves]

Worked(target, period, total, pool) ==
    [target |-> target, period |-> period, total |-> total, pool |-> pool]

\* All three methods in one company; no reserves are given for month 26.
Field ==
    [snapshot |-> 24, codes |-> Names,
     rows |-> <<Row,
        [Row EXCEPT !.id = 2, !.code = "Z802", !.category = "C2",
            !.cost = 1000, !.acc = 300, !.imp = 50, !.dep = 37, !.net = 650,
            !.block = B1, !.years = 0, !.residual = 0],
        [Row EXCEPT !.id = 3, !.code = "Z901", !.department = 2, !.cost = 900,
            !.acc = 203, !.dep = 40, !.net = 697, !.org = O1, !.years = 0],
        [Row EXCEPT !.id = 4, !.code = "Z901", !.department = 2, !.cost = 500,
            !.acc = 333, !.dep = 9, !.net = 167, !.org = O1, !.years = 0,
            !.inService = 25],
        [Row EXCEPT !.id = 5, !.flagged = TRUE]>>,
     blocks |-> {Produced(22, 30, 1000), Produced(23, 0, 900),
                 Produced(25, 333, 1000), Produced(27, 50, 900)},
     workloads |-> {Worked(O1, 22, 20, 900), Worked(O1, 25, 101, 0),
                    Worked(O1, 26, 99, 300), Worked(O1, 27, 50, 5000)}]

\* Two companies, an impaired asset behind its schedule, one without a known code,
\* one put into service during the history, a pool named by its company.
Group ==
    [snapshot |-> 24, codes |-> Names,
     rows |-> <<[Row EXCEPT !.inService = 14, !.acc = 505, !.imp = 350, !.net = 350],
        [Row EXCEPT !.id = 2, !.company = B, !.code = "Z111",
            !.inService = 23, !.cost = 605, !.imp = 100, !.acc = 77,
            !.dep = 38, !.net = 428, !.residual = 3],
        [Row EXCEPT !.id = 3, !.code = "Z901", !.company = B, !.cost = 300,
            !.acc = 100, !.dep = 11, !.net = 200],
        [Row EXCEPT !.id = 4, !.code = "Z900", !.category = "C3"],
        [Row EXCEPT !.id = 5, !.inService = None]>>,
     blocks |-> {},
     workloads |-> {Worked(B, 22, 30, 0), Worked(B, 27, 40, 0)}]

\* One asset, and a horizon that begins with the ledger month and is longer
\* than a planned asset of half a unit a month needs to be written off.
Long ==
    [snapshot |-> 24, codes |-> Names, rows |-> <<[Row EXCEPT !.cost = 1100,
        !.acc = 705]>>, blocks |-> {},
     workloads |-> {Worked(B, 24, 30, 0), Worked(B, 88, 40, 0)}]

NoFields == <<>>

Assume(template, target, amount, date, fields) ==
    [template |-> template, target |-> target, amount |-> amount, date |-> date,
     startRule |-> None, code |-> None, fields |-> fields]

Catalogue ==
    {Assume("straight_new_asset", None, 60, 25, NoFields),
     [Assume("straight_new_asset", 3, 1000, 26, NoFields) EXCEPT !.code = "Z901"],
     Assume("straight_new_asset", 2, 70, None, NoFields),
     Assume("straight_impairment", 1, 350, 26, NoFields),
     Assume("straight_impairment", 3, 50, 25, NoFields),
     Assume("straight_impairment", 2, 9999, 25, NoFields),
     Assume("straight_accelerated", 1, 0, None, NoFields),
     [Assume("straight_start_rule", 1, 0, None, NoFields)
        EXCEPT !.startRule = "CURRENT_MONTH"],
     Assume("straight_start_rule", 4, 0, None, NoFields),
     [Assume("straight_start_rule", 3, 0, None, NoFields)
        EXCEPT !.startRule = "NEXT_YEAR"],
     Assume("production_driver", B1, 0, 25, [production |-> 2000]),
     Assume("production_driver", B1, 0, 23, [production |-> 90]),
     Assume("production_driver", B1, 0, 26, [production |-> 9, reserves |-> 80]),
     Assume("workload_driver", O1, 0, 25, [total |-> 2000]),
     Assume("workload_driver", B, 0, 26, [workload |-> 7, fee |-> 5]),
     Assume("unknown", 1, 0, 25, NoFields)}

MCWorkbooks == {Field, Group, Long}

\* The hypotheses of the theorems hold of these workbooks.
ASSUME TheoremsApply ==
    /\ SoundLedger /\ BalancedLedger /\ DepreciatedLedger /\ CodesGiven
    /\ SomethingToForecast
=============================================================================
