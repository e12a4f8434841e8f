-------------------------- MODULE MCReversePlanning --------------------------
(* Two small workbooks and goals for them: two straight-line assets, a     *)
(* block and a pool of two.  In one the horizon lies around the ledger     *)
(* month, in the other it begins with it and one asset has a code the      *)
(* workbook does not explain.                                              *)
EXTENDS ReversePlanning

A == 71
B1 == 51
O1 == 61

Row ==
    [id |-> 1, code |-> "Z112", company |-> A, category |-> "C1",
     department |-> 1, cost |-> 500, inService |-> 14, acc |-> 150, imp |-> 0,
     dep |-> 15, net |-> 350, block |-> None, org |-> None,
     years |-> 2, months |-> 0, residual |-> 10, flagged |-> FALSE]

Mine ==
    [snapshot |-> 24,
     codes |-> << <<"Z112", "STRAIGHT_NEXT">>, <<"Z802", "PRODUCTION_NEXT">>,
                  <<"Z901", "WORKLOAD_CURRENT">> >>,
     rows |-> <<Row,
        [Row EXCEPT !.id = 2, !.cost = 305, !.acc = 100, !.dep = 9, !.net = 205,
            !.residual = 0],
        [Row EXCEPT !.id = 3, !.code = "Z802", !.category = "C2", !.cost = 400,
            !.acc = 100, !.dep = 7, !.net = 300, !.block = B1, !.years = 0],
        [Row EXCEPT !.id = 4, !.code = "Z901", !.category = "C2", !.cost = 200,
            !.department = 2, !.acc = 60, !.dep = 5, !.net = 140, !.org = O1,
            !.years = 0],
        [Row EXCEPT !.id = 5, !.code = "Z901", !.category = "C2", !.cost = 90,
            !.department = 2, !.acc = 20, !.dep = 3, !.net = 70, !.org = O1,
            !.years = 0]>>,
     blocks |-> {[code |-> "Z802", target |-> B1, period |-> p,
                  production |-> 11, reserves |-> 150] : p \in {23, 25, 26}},
     workloads |-> {[target |-> O1, period |-> p, total |-> 21, pool |-> 0] :
                       p \in {23, 25, 26}}]

Late ==
    [Mine EXCEPT
        !.rows[2].code = "Z111", !.rows[2].department = 3,
        !.blocks = {[code |-> "Z802", target |-> B1, period |-> p,
                     production |-> 11, reserves |-> 150] : p \in {24, 25}},
        !.workloads = {[target |-> O1, period |-> p, total |-> 21, pool |-> 0] :
                          p \in {24, 25}}]

Company == [type |-> "company", value |-> A]

Goal(period, change) ==
    [scope |-> Company, period |-> period, target |-> None, change |-> change]

\* Reachable with an impairment, beyond every impairment, beyond everything,
\* up by less and more than an acceleration, nothing to do, the past, the
\* ledger month, a department whose code is not explained, one of pooled
\* assets, a category of the block.
MCGoals ==
    {Goal(26, -4), Goal(25, -20), [Goal(26, 0) EXCEPT !.target = 1],
     Goal(26, 5), Goal(25, 90), Goal(25, 0), Goal(23, -3), Goal(24, -5),
     [Goal(25, -2) EXCEPT !.scope = [type |-> "department", value |-> 3]],
     [Goal(26, -6) EXCEPT !.scope = [type |-> "department", value |-> 2]],
     [Goal(25, 33) EXCEPT !.scope = [type |-> "asset_category", value |-> "C2"]]}

MCWorkbooks == {Mine, Late}

MCAssumptions ==
    {[template |-> "straight_new_asset", target |-> 2, amount |-> 240, date |-> 24,
      startRule |-> None, code |-> None, fields |-> <<>>],
     [template |-> "workload_driver", target |-> O1, amount |-> 0, date |-> 25,
      startRule |-> None, code |-> None, fields |-> [total |-> 40]]}
=============================================================================
