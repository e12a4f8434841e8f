------------------------ MODULE ReversePlanningProofs ------------------------
(***************************************************************************)
(* Theorems of ReversePlanning, for every workbook, whatever goals are set *)
(* and whatever the optimizer returns: an operating parameter is           *)
(* recommended only when no accounting action meets the target; what is    *)
(* assumed differs from what is shown in one action at most; trials begin  *)
(* at what the store says; the scenario made of a recommendation charges   *)
(* the amount it was shown with.                                           *)
(*                                                                         *)
(* Three inductive invariants carry them.  PlanInv counts recommendations  *)
(* and patterns.  TrialInv: until a recommendation is taken, the forecast  *)
(* at the side of a plan keeps its invariants, and the plan fits the       *)
(* scenario it is for.  DeliverInv: actions are measured in numbers, a     *)
(* recommendation supposes what its amount was measured with, and the      *)
(* scenario made of it asks for that.  Between them and the lines in the   *)
(* store stands ResultIsTrial: a month of a result is the month computed   *)
(* directly and, in a ledger month the forecast does not go around, the    *)
(* lines the ledger adds beside it.                                        *)
(***************************************************************************)
EXTENDS ReversePlanning, WhatIfForecastProofs

-----------------------------------------------------------------------------
(* Trials depend on the book alone, which no step changes. *)

LEMMA SamePolicies ==
    ASSUME book' = book, NEW a
    PROVE  /\ PolicyFor(a)' = PolicyFor(a)
           /\ MethodOf(a)' = MethodOf(a)
           /\ Depreciable(book.model, a)' = Depreciable(book.model, a)
           /\ Snapshot' = Snapshot
           /\ FutureStart' = FutureStart
           /\ SpansSnapshot' = SpansSnapshot
           /\ Start' = Start /\ End' = End
    BY DEF PolicyFor, MethodOf, Snapshot, FutureStart, SpansSnapshot, Start, End

LEMMA SameHistory ==
    ASSUME book' = book, NEW in, NEW a, NEW period
    PROVE  HistoryAt(in, a, period)' = HistoryAt(in, a, period)
    BY DEF HistoryAt, PolicyFor, Snapshot

LEMMA SameSingle ==
    ASSUME book' = book, NEW in, NEW a, NEW period
    PROVE  SingleAt(in, a, period)' = SingleAt(in, a, period)
    BY DEF SingleAt, PolicyFor, FutureStart, Snapshot, SpansSnapshot, Start, End

LEMMA SamePool ==
    ASSUME book' = book, NEW in, NEW a, NEW period
    PROVE  PooledAt(in, a, period)' = PooledAt(in, a, period)
    BY DEF PooledAt, PooledMonths, PoolOf, MethodOf, PolicyFor, FutureStart,
           Snapshot, SpansSnapshot, Start, End

LEMMA SameAmount ==
    ASSUME book' = book, NEW in, NEW a, NEW period
    PROVE  AmountAt(in, a, period)' = AmountAt(in, a, period)
    BY SamePolicies, SameHistory, SameSingle, SamePool DEF AmountAt

LEMMA SamePlanned ==
    ASSUME book' = book, NEW a, NEW period
    PROVE  PlannedAt(a, period)' = PlannedAt(a, period)
    BY SamePolicies DEF PlannedAt

LEMMA SameBeside ==
    ASSUME book' = book, NEW p
    PROVE  LedgerBeside(p)' = LedgerBeside(p)
    BY DEF LedgerBeside, MapThenSumSet, MapThenFoldSet, Snapshot, SpansSnapshot, Start, End

LEMMA SameScope ==
    ASSUME book' = book, NEW in, NEW p
    PROVE  ScopeAmount(in, p)' = ScopeAmount(in, p)
    BY DEF MapThenSumSet, MapThenFoldSet, ScopeAmount, AmountAt, PlannedAt, HistoryAt, SingleAt, PooledAt,
           PooledMonths, PoolOf, MethodOf, PolicyFor, FutureStart,
           Snapshot, SpansSnapshot, Start, End

LEMMA SameTrial ==
    ASSUME book' = book, NEW assumptions, NEW p
    PROVE  Simulate(assumptions, p)' = Simulate(assumptions, p)
<1> DEFINE all == p.inherited \o assumptions
<1>1. Applied(all)' = Applied(all)
    BY SameApplied
<1> QED
    BY <1>1 DEF Simulate, MapThenSumSet, MapThenFoldSet, ScopeAmount, AmountAt,
       PlannedAt, HistoryAt, SingleAt, PooledAt, PooledMonths, PoolOf, MethodOf,
       PolicyFor, FutureStart, Snapshot, SpansSnapshot, Start, End

-----------------------------------------------------------------------------
(* Numbers in order *)

Increasing(s) == \A i, j \in DOMAIN s : i < j => s[i] < s[j]

LEMMA OrderExists ==
    ASSUME NEW S \in SUBSET Int, IsFiniteSet(S)
    PROVE  \E s \in [1..Cardinality(S) -> S] : Increasing(s)
<1> DEFINE Q == {n \in Nat : \A T \in SUBSET S : Cardinality(T) = n =>
                    \E s \in [1..n -> T] : Increasing(s)}
<1>1. \A T \in SUBSET S : IsFiniteSet(T) /\ Cardinality(T) \in Nat
    BY FS_Subset, FS_CardinalityType
<1>2. 0 \in Q
  <2>1. \A T : [i \in 1..0 |-> 0] \in [1..0 -> T] /\ Increasing([i \in 1..0 |-> 0])
      BY DEF Increasing
  <2> QED
      BY <2>1
<1>3. ASSUME NEW n \in Nat, n \in Q PROVE n + 1 \in Q
  <2> SUFFICES ASSUME NEW T \in SUBSET S, Cardinality(T) = n + 1
               PROVE  \E s \in [1..(n + 1) -> T] : Increasing(s)
      OBVIOUS
  <2>1. T # {} /\ IsFiniteSet(T)
      BY <1>1, <1>3, FS_EmptySet
  <2>2. PICK m \in T : \A y \in T : y <= m
      BY <2>1, GreatestMember
  <2>3. Cardinality(T \ {m}) = Cardinality(T) - 1
      BY <2>1, FS_RemoveElement
  <2>4. PICK s \in [1..n -> T \ {m}] : Increasing(s)
      BY <1>3, <2>3
  <2> DEFINE t == [i \in 1..(n + 1) |-> IF i <= n THEN s[i] ELSE m]
  <2>5. t \in [1..(n + 1) -> T]
      OBVIOUS
  <2>6. ASSUME NEW i \in 1..n PROVE s[i] < m
    <3>1. s[i] \in T \ {m}
        BY <2>4
    <3>2. s[i] <= m /\ s[i] # m
        BY <2>2, <3>1
    <3>3. s[i] \in Int /\ m \in Int
        BY <3>1
    <3> QED
        BY <3>2, <3>3
  <2>7. ASSUME NEW i \in 1..(n + 1), NEW j \in 1..(n + 1), i < j
        PROVE  t[i] < t[j]
    <3>1. i <= n /\ i \in 1..n
        BY <2>7
    <3>2. CASE j <= n
      <4>1. s[i] < s[j]
          BY <2>4, <2>7, <3>1, <3>2 DEF Increasing
      <4> QED
          BY <3>1, <3>2, <4>1
    <3>3. CASE ~(j <= n)
        BY <2>6, <3>1, <3>3
    <3> QED
        BY <3>2, <3>3
  <2> QED
      BY <2>5, <2>7 DEF Increasing
<1> HIDE DEF Q
<1>4. Nat \subseteq Q
    BY <1>2, <1>3, InductionOnNat
<1>5. Cardinality(S) \in Q
    BY <1>1, <1>4
<1> QED
    BY <1>5 DEF Q

\* Ascending lists a finite set of integers.
LEMMA AscendingLists ==
    ASSUME NEW S \in SUBSET Int, IsFiniteSet(S)
    PROVE  /\ Cardinality(S) \in Nat
           /\ Ascending(S) \in [1..Cardinality(S) -> S]
           /\ Ascending(S) \in Seq(S)
<1>1. PICK s \in [1..Cardinality(S) -> S] :
          \A i, j \in DOMAIN s : i < j => s[i] < s[j]
    BY OrderExists DEF Increasing
<1>2. Cardinality(S) \in Nat
    BY FS_CardinalityType
<1>3. Ascending(S) \in [1..Cardinality(S) -> S]
    BY <1>1 DEF Ascending
<1> QED
    BY <1>2, <1>3

-----------------------------------------------------------------------------
(* The options *)

BookOK ==
    /\ book.workbook \in Workbooks
    /\ book.cards = LoadAssets(book.workbook)

LEMMA Cards ==
    ASSUME BookOK
    PROVE  /\ IsFiniteSet(DOMAIN book.cards)
           /\ \A i \in DOMAIN book.cards :
                 /\ WorkloadTarget(book.cards[i]) \in Int
                 /\ book.cards[i].block \in Int \cup {None}
<1> DEFINE wb == book.workbook
<1>1. IsWorkbook(wb) /\ wb \in Workbooks
    BY WorkbooksAssumption DEF BookOK
<1>2. book.cards \in Seq(Ledger(wb))
    BY <1>1, CardsLoaded DEF BookOK
<1>3. IsFiniteSet(DOMAIN book.cards)
  <2>1. Len(book.cards) \in Nat /\ DOMAIN book.cards = 1..Len(book.cards)
      BY <1>2
  <2> QED
      BY <2>1, FS_Interval
<1>4. ASSUME NEW a \in Ledger(wb)
      PROVE  WorkloadTarget(a) \in Int /\ a.block \in Int \cup {None}
  <2>1. PICK i \in DOMAIN wb.rows : a = CardOf(wb.rows[i])
      BY DEF Ledger
  <2>2. /\ wb.rows[i].company \in Int
        /\ wb.rows[i].org \in Int \cup {None}
        /\ wb.rows[i].block \in Int \cup {None}
      BY <1>1, NamesAssumption DEF IsWorkbook, IsLedgerRow
  <2>3. None \notin Int
      BY NamesAssumption
  <2> QED
      BY <2>1, <2>2, <2>3 DEF CardOf, WorkloadTarget, Blank
<1> QED
    BY <1>2, <1>3, <1>4

\* Filling in the amount of an adjustable option sets its amount.
OptionOK(o, kind) ==
    /\ o.kind = kind
    /\ o.field # None => \A v : AdjustedValue(AssumptionAt(o, v)) = v

LEMMA StraightAssetsCounted ==
    ASSUME BookOK, NEW p
    PROVE  /\ DOMAIN StraightAssets(p) \subseteq Nat
           /\ IsFiniteSet(DOMAIN StraightAssets(p))
<1> DEFINE Charge(i) == Monthly(book.cards[i].id, p.period)
           charging == {i \in EligibleAssets(p.scope) :
                           book.cards[i].code \in StraightLineCodes /\ Charge(i) > 0}
<1>1. Cardinality(charging) \in Nat
  <2>1. charging \subseteq DOMAIN book.cards
      BY DEF EligibleAssets
  <2> HIDE DEF charging
  <2> QED
      BY <2>1, Cards, FS_Subset, FS_CardinalityType
<1>2. PICK n \in Nat : DOMAIN StraightAssets(p) = 1..n
  <2> DEFINE Larger(i, j) == Charge(i) > Charge(j) \/ (Charge(i) = Charge(j) /\ i < j)
             sorted == CHOOSE s \in [1..Cardinality(charging) -> charging] :
                           \A i, j \in DOMAIN s : i < j => Larger(s[i], s[j])
             Enough(n) ==
                 /\ n >= PoolMinimum
                 /\ MapThenSumSet(LAMBDA k : Charge(sorted[k]), 1..n)
                      >= Greater(3 * (IF p.delta < 0 THEN -p.delta ELSE p.delta), 100)
             enough == {n \in 1..Cardinality(charging) : Enough(n)}
             count == IF enough = {} THEN Cardinality(charging) ELSE Min(enough)
  <2>1. StraightAssets(p) = [k \in 1..count |-> book.cards[sorted[k]]]
      BY DEF StraightAssets
  <2> HIDE DEF charging, sorted, Enough
  <2>2. enough \in SUBSET Nat
      BY <1>1
  <2> HIDE DEF enough
  <2>3. enough # {} => Min(enough) \in Nat
      BY <2>2, LeastMember DEF Min
  <2> QED
      BY <1>1, <2>1, <2>3
<1> QED
    BY <1>2, FS_Interval

LEMMA AccountingOptions ==
    ASSUME BookOK, NEW p
    PROVE  /\ DOMAIN Options(p, "accounting") \subseteq Nat
           /\ IsFiniteSet(DOMAIN Options(p, "accounting"))
           /\ \A k \in DOMAIN Options(p, "accounting") :
                 OptionOK(Options(p, "accounting")[k], "accounting")
<1> DEFINE D == DOMAIN StraightAssets(p)
<1>1. D \subseteq Nat /\ IsFiniteSet(D)
    BY StraightAssetsCounted
<1>2. /\ DOMAIN ImpairmentOptions(p) \subseteq D
      /\ \A k \in DOMAIN ImpairmentOptions(p) :
            OptionOK(ImpairmentOptions(p)[k], "accounting")
  <2>1. ASSUME NEW k \in DOMAIN ImpairmentOptions(p)
        PROVE  OptionOK(ImpairmentOptions(p)[k], "accounting")
    <3> DEFINE o == ImpairmentOptions(p)[k]
    <3>1. /\ o.kind = "accounting" /\ o.field = "amount"
          /\ o.assumption = Assumption("straight_impairment",
                                StraightAssets(p)[k].id,
                                Impairable(StraightAssets(p)[k]), p.period, <<>>)
        BY DEF ImpairmentOptions
    <3> HIDE DEF o
    <3>2. ASSUME NEW v PROVE AdjustedValue(AssumptionAt(o, v)) = v
      <4>1. AssumptionAt(o, v) = [o.assumption EXCEPT !.amount = v]
          BY <3>1, NamesAssumption DEF AssumptionAt
      <4> QED
          BY <3>1, <4>1 DEF Assumption, AdjustedValue
    <3> QED
        BY <3>1, <3>2 DEF OptionOK, o
  <2> QED
      BY <2>1 DEF ImpairmentOptions
<1>3. /\ DOMAIN AcceleratedOptions(p) \subseteq D
      /\ \A k \in DOMAIN AcceleratedOptions(p) :
            OptionOK(AcceleratedOptions(p)[k], "accounting")
    BY DEF AcceleratedOptions, OptionOK
<1> HIDE DEF D
<1> QED
    BY <1>1, <1>2, <1>3, FS_Subset DEF Options

LEMMA BlockOptions ==
    ASSUME BookOK, NEW p
    PROVE  \E n \in Nat :
              /\ ProductionOptions(p) \in
                    [1..n -> {ProductionOptions(p)[k] : k \in 1..n}]
              /\ \A k \in 1..n : OptionOK(ProductionOptions(p)[k], "operational")
<1> DEFINE assets == {book.cards[i] : i \in EligibleAssets(p.scope)}
           blocks == {a.block : a \in {x \in assets :
                         /\ x.code = ProductionCode /\ x.block # None
                         /\ Supports(p, x, "PRODUCTION")}}
           DriverOf(b) == Driver(book.drivers, "PRODUCTION", b, p.period)
           usable == {b \in blocks :
                         /\ DriverOf(b).reserves > 0
                         /\ p.delta >= 0 => DriverOf(b).reserves > DriverOf(b).production}
           sorted == Ascending(usable)
<1>1. usable \in SUBSET Int /\ IsFiniteSet(usable)
  <2>1. EligibleAssets(p.scope) \subseteq DOMAIN book.cards
      BY DEF EligibleAssets
  <2>2. IsFiniteSet(EligibleAssets(p.scope))
      BY <2>1, Cards, FS_Subset
  <2>3. IsFiniteSet({book.cards[i].block : i \in EligibleAssets(p.scope)})
    <3> DEFINE f == [i \in DOMAIN book.cards |-> book.cards[i].block]
    <3>1. IsFiniteSet({f[i] : i \in EligibleAssets(p.scope)})
        BY <2>2, FiniteImage
    <3> QED
        BY <2>1, <3>1
  <2>4. usable \subseteq {book.cards[i].block : i \in EligibleAssets(p.scope)}
      OBVIOUS
  <2>5. usable \subseteq Int
      BY <2>1, Cards
  <2> HIDE DEF usable
  <2> QED
      BY <2>3, <2>4, <2>5, FS_Subset
<1>2. ProductionOptions(p) =
          [k \in DOMAIN sorted |-> ProductionOption(p, sorted[k], DriverOf(sorted[k]))]
    BY DEF ProductionOptions
<1> HIDE DEF usable
<1>3. Cardinality(usable) \in Nat /\ DOMAIN sorted = 1..Cardinality(usable)
    BY <1>1, AscendingLists
<1>4. ASSUME NEW b, NEW d PROVE OptionOK(ProductionOption(p, b, d), "operational")
  <2> DEFINE o == ProductionOption(p, b, d)
  <2>1. /\ o.kind = "operational" /\ o.field = "production"
        /\ \E x : o.assumption = Assumption("production_driver", b, 0, p.period,
                                    [production |-> x, reserves |-> d.reserves])
      BY DEF ProductionOption
  <2> HIDE DEF o
  <2>2. ASSUME NEW v PROVE AdjustedValue(AssumptionAt(o, v)) = v
    <3>1. AssumptionAt(o, v) = [o.assumption EXCEPT !.fields["production"] = v]
        BY <2>1, NamesAssumption DEF AssumptionAt
    <3> QED
        BY <2>1, <3>1 DEF Assumption, AdjustedValue
  <2> QED
      BY <2>1, <2>2 DEF OptionOK, o
<1> QED
    BY <1>2, <1>3, <1>4

LEMMA PoolOptions ==
    ASSUME BookOK, NEW p
    PROVE  \E n \in Nat :
              /\ WorkloadOptions(p) \in
                    [1..n -> {WorkloadOptions(p)[k] : k \in 1..n}]
              /\ \A k \in 1..n : OptionOK(WorkloadOptions(p)[k], "operational")
<1> DEFINE assets == {book.cards[i] : i \in EligibleAssets(p.scope)}
           pooled == {a \in assets : a.code = WorkloadCode}
           named == {WorkloadTarget(a) : a \in {x \in pooled : Supports(p, x, "WORKLOAD")}}
           targets == Ascending(named)
           Pool(t) == {a \in pooled : WorkloadTarget(a) = t}
           Maximum(t) == Greater(100, MapThenSumSet(LAMBDA a : a.cost, Pool(t)))
           Full(t) == IF p.delta >= 0 THEN Maximum(t) ELSE 0
           Option(t) ==
               [kind |-> "operational", risk |-> 55,
                affected |-> {a.id : a \in Pool(t)}, field |-> "total",
                min |-> 0, max |-> Maximum(t), full |-> Full(t),
                rising |-> p.delta >= 0,
                assumption |-> Assumption("workload_driver", t, 0, p.period,
                                   [workload |-> 1, fee |-> 0, total |-> Full(t)])]
<1>1. named \in SUBSET Int /\ IsFiniteSet(named)
  <2>1. EligibleAssets(p.scope) \subseteq DOMAIN book.cards
      BY DEF EligibleAssets
  <2>2. IsFiniteSet(EligibleAssets(p.scope))
      BY <2>1, Cards, FS_Subset
  <2> DEFINE f == [i \in DOMAIN book.cards |-> WorkloadTarget(book.cards[i])]
  <2>3. IsFiniteSet({f[i] : i \in EligibleAssets(p.scope)})
      BY <2>2, FiniteImage
  <2>4. named \subseteq {f[i] : i \in EligibleAssets(p.scope)}
      BY <2>1
  <2>5. named \subseteq Int
      BY <2>1, Cards
  <2> HIDE DEF named
  <2> QED
      BY <2>3, <2>4, <2>5, FS_Subset
<1>2. WorkloadOptions(p) = [k \in DOMAIN targets |-> Option(targets[k])]
    BY DEF WorkloadOptions
<1> HIDE DEF named
<1>3. Cardinality(named) \in Nat /\ DOMAIN targets = 1..Cardinality(named)
    BY <1>1, AscendingLists
<1>4. ASSUME NEW t PROVE OptionOK(Option(t), "operational")
  <2> DEFINE o == Option(t)
  <2>1. /\ o.kind = "operational" /\ o.field = "total"
        /\ \E x : o.assumption = Assumption("workload_driver", t, 0, p.period,
                                    [workload |-> 1, fee |-> 0, total |-> x])
      OBVIOUS
  <2> HIDE DEF o
  <2>2. ASSUME NEW v PROVE AdjustedValue(AssumptionAt(o, v)) = v
    <3>1. AssumptionAt(o, v) = [o.assumption EXCEPT !.fields["total"] = v]
        BY <2>1, NamesAssumption DEF AssumptionAt
    <3> QED
        BY <2>1, <3>1 DEF Assumption, AdjustedValue
  <2>3. OptionOK(o, "operational")
      BY <2>1, <2>2 DEF OptionOK
  <2> QED
      BY <2>3 DEF o
<1> HIDE DEF Option
<1> QED
    BY <1>2, <1>3, <1>4

LEMMA OperationalOptions ==
    ASSUME BookOK, NEW p
    PROVE  /\ DOMAIN Options(p, "operational") \subseteq Nat
           /\ IsFiniteSet(DOMAIN Options(p, "operational"))
           /\ \A k \in DOMAIN Options(p, "operational") :
                 OptionOK(Options(p, "operational")[k], "operational")
<1> DEFINE P == ProductionOptions(p)
           W == WorkloadOptions(p)
<1>1. PICK n \in Nat : /\ P \in [1..n -> {P[k] : k \in 1..n}]
                       /\ \A k \in 1..n : OptionOK(P[k], "operational")
    BY BlockOptions
<1>2. PICK m \in Nat : /\ W \in [1..m -> {W[k] : k \in 1..m}]
                       /\ \A k \in 1..m : OptionOK(W[k], "operational")
    BY PoolOptions
<1>3. Options(p, "operational") = P \o W
    BY DEF Options
<1> HIDE DEF P, W
<1> DEFINE X == {P[k] : k \in 1..n} \cup {W[k] : k \in 1..m}
<1>4. P \in Seq(X) /\ Len(P) = n /\ W \in Seq(X) /\ Len(W) = m
  <2>1. P \in [1..n -> X] /\ W \in [1..m -> X]
      BY <1>1, <1>2
  <2> HIDE DEF X
  <2> QED
      BY <2>1
<1> HIDE DEF X
<1>5. DOMAIN (P \o W) = 1..(n + m)
    BY <1>4
<1>6. ASSUME NEW k \in 1..(n + m) PROVE OptionOK((P \o W)[k], "operational")
  <2>1. CASE k <= n
    <3>1. (P \o W)[k] = P[k]
        BY <1>4, <2>1
    <3> QED
        BY <1>1, <2>1, <3>1
  <2>2. CASE ~(k <= n)
    <3>1. (P \o W)[k] = W[k - n] /\ k - n \in 1..m
        BY <1>4, <2>2
    <3> QED
        BY <1>2, <3>1
  <2> QED
      BY <2>1, <2>2
<1>7. IsFiniteSet(1..(n + m))
    BY FS_Interval
<1> QED
    BY <1>3, <1>5, <1>6, <1>7

\* The options of a group, measured.
PreparedOK(items, kind) ==
    /\ DOMAIN items \subseteq Nat
    /\ IsFiniteSet(DOMAIN items)
    /\ \A i \in DOMAIN items : OptionOK(items[i].option, kind)

LEMMA PreparedAre ==
    ASSUME BookOK, NEW p, NEW kind \in Groups
    PROVE  PreparedOK(Prepared(p, kind), kind)
<1> DEFINE options == Options(p, kind)
           usable(k) == IF Accepted(Applied(p.inherited \o <<options[k].assumption>>))
                        THEN EffectOf(<<options[k].assumption>>, p)
                        ELSE 0
           measured == [k \in DOMAIN options |->
                           [option |-> options[k], usable |-> usable(k)]]
           moving == {k \in DOMAIN options : measured[k].usable > 0}
<1>1. /\ DOMAIN options \subseteq Nat
      /\ IsFiniteSet(DOMAIN options)
      /\ \A k \in DOMAIN options : OptionOK(options[k], kind)
    BY AccountingOptions, OperationalOptions DEF Groups
<1>2. Prepared(p, kind) = IF p.delta = 0 THEN <<>> ELSE [k \in moving |-> measured[k]]
    BY DEF Prepared, Moving, Measured
<1> HIDE DEF options, usable
<1>3. moving \subseteq DOMAIN options
    OBVIOUS
<1>4. \A k \in moving : measured[k].option = options[k]
    OBVIOUS
<1>5. IsFiniteSet(moving)
    BY <1>1, <1>3, FS_Subset
<1> HIDE DEF moving, measured
<1>6. IsFiniteSet(DOMAIN <<>>)
    BY FS_EmptySet
<1> QED
    BY <1>1, <1>2, <1>3, <1>4, <1>5, <1>6 DEF PreparedOK

-----------------------------------------------------------------------------
(* What the optimizer may return *)

LEMMA BestAreSelections ==
    ASSUME NEW items, NEW excluded, NEW needed, NEW n \in Nat
    PROVE  Best(items, excluded, needed, n) \subseteq Selections(items, excluded)
<1> DEFINE all == Selections(items, excluded)
           score == [S \in all |-> Objectives(items, S, needed)]
           Keep(before, i) ==
               {S \in before : score[S][i] = Min({score[R][i] : R \in before})}
           Loop(f) == [i \in 0..n |-> IF i = 0 THEN all ELSE Keep(f[i - 1], i)]
           left == CHOOSE f : f = Loop(f)
           step == [i \in 1..n |-> [b \in SUBSET all |-> Keep(b, i)]]
<1>1. Best(items, excluded, needed, n) = left[n]
    BY DEF Best
<1> HIDE DEF all, score
<1>2. \A b \in SUBSET all : \A i : Keep(b, i) \in SUBSET all
    OBVIOUS
<1> HIDE DEF Keep
<1>3. step \in [1..n -> [SUBSET all -> SUBSET all]] /\ all \in SUBSET all
    BY <1>2
<1>4. PICK g \in [0..n -> SUBSET all] :
          g[0] = all /\ \A i \in 1..n : g[i] = step[i][g[i - 1]]
  <2> HIDE DEF step
  <2>1. HasRecursion(n, SUBSET all, all, step)
      BY <1>3, RecursionUpTo
  <2> QED
      BY <2>1 DEF HasRecursion
<1>5. ASSUME NEW i \in 1..n PROVE g[i] = Keep(g[i - 1], i)
  <2>1. g[i - 1] \in SUBSET all
      BY <1>4
  <2> QED
      BY <1>4, <2>1
<1>6. g = Loop(g)
    BY <1>4, <1>5
<1>7. left = Loop(left)
    BY <1>6
<1> HIDE DEF left
<1>8. left[0] = all /\ \A i \in 1..n : left[i] = Keep(left[i - 1], i)
    BY <1>7
<1> DEFINE Q == {i \in 0..n : left[i] \in SUBSET all}
<1>9. 0 \in Q
    BY <1>8
<1>10. ASSUME NEW i \in 1..n, i - 1 \in Q PROVE i \in Q
    BY <1>2, <1>8, <1>10
<1> HIDE DEF Q
<1>11. n \in Q
    BY <1>9, <1>10, InductionUpTo
<1> QED
    BY <1>1, <1>11 DEF Q, all

LEMMA SolutionsSelect ==
    ASSUME NEW items, NEW excluded, NEW needed,
           NEW s \in Solutions(items, excluded, needed)
    PROVE  /\ s.selection \in Selections(items, excluded)
           /\ s.selection # {}
<1>1. \A k \in Searches \ {0} :
          Best(items, excluded, needed, k) \subseteq Selections(items, excluded)
    BY BestAreSelections, GoalsAssumption
<1> DEFINE optimal ==
               {S \in UNION {Best(items, excluded, needed, k) :
                                k \in Searches \ {0}} : S # {}}
           feasible == IF 0 \in Searches
                       THEN Selections(items, excluded) \ {{}} ELSE {}
<1>2. s.selection \in optimal \/ s.selection \in feasible
  <2>1. \/ \E S \in optimal : s.selection = S
        \/ \E S \in feasible : s.selection = S
    <3> DEFINE Ends(S) == Divisions(items, S, Reach(items, S, needed))
               Early(S) == UNION {Divisions(items, S, t) :
                                     t \in {Low(items, S), High(items, S)}}
               Full(S) == {[selection |-> S, effects |-> e, label |-> "OPTIMAL"] :
                              e \in Ends(S)}
               Partial(S) == {[selection |-> S, effects |-> e, label |-> "FEASIBLE"] :
                              e \in Early(S)}
    <3>1. s \in (UNION {Full(S) : S \in optimal})
                \cup (UNION {Partial(S) : S \in feasible})
        BY DEF Solutions
    <3> HIDE DEF Ends, Early, optimal, feasible
    <3>2. ASSUME NEW S PROVE /\ s \in Full(S) => s.selection = S
                             /\ s \in Partial(S) => s.selection = S
        OBVIOUS
    <3> HIDE DEF Full, Partial
    <3>3. CASE s \in UNION {Full(S) : S \in optimal}
      <4>1. PICK X \in {Full(S) : S \in optimal} : s \in X
          BY <3>3
      <4> QED
          BY <3>2, <4>1
    <3>4. CASE s \in UNION {Partial(S) : S \in feasible}
      <4>1. PICK X \in {Partial(S) : S \in feasible} : s \in X
          BY <3>4
      <4> QED
          BY <3>2, <4>1
    <3> QED
        BY <3>1, <3>3, <3>4
  <2> HIDE DEF optimal, feasible
  <2> QED
      BY <2>1
<1> QED
    BY <1>1, <1>2

-----------------------------------------------------------------------------
(* What a recommendation shows and assumes *)

CorrectedOnce(r, items, p) ==
    LET Stale(k) == r.shown[k] # None /\ r.shown[k] # AdjustedValue(r.assumptions[k])
        Option(k) == items[Ascending(r.selection)[k]].option
        shown == [k \in DOMAIN r.shown |->
                    IF r.shown[k] = None
                    THEN r.assumptions[k]
                    ELSE AssumptionAt(Option(k), r.shown[k])]
    IN  (\E k \in DOMAIN r.shown : Stale(k)) =>
            /\ \A k \in DOMAIN r.shown : Stale(k) =>
                  \A j \in 1..(k - 1) : r.shown[j] = None
            /\ ~(Apart(Simulate(shown, p), p.target) <= 1)

LEMMA Materialized ==
    ASSUME NEW items, NEW kind, PreparedOK(items, kind), NEW s, NEW p,
           s.selection \in SUBSET DOMAIN items, s.selection # {}
    PROVE  /\ Materialize(items, s, p).kind = kind
           /\ Materialize(items, s, p).selection = s.selection
           /\ CorrectedOnce(Materialize(items, s, p), items, p)
<1> DEFINE S == s.selection
           order == Ascending(S)
           Shown(i) == IF items[i].option.field = None
                       THEN None
                       ELSE Calibrate(items[i], s.effects[i], p)
           shown == [k \in DOMAIN order |-> Shown(order[k])]
           calibrated == [k \in DOMAIN order |->
                             AssumptionAt(items[order[k]].option, shown[k])]
           adjustable == {k \in DOMAIN order : shown[k] # None}
           first == Min(adjustable)
           assumptions ==
               IF adjustable = {} \/ Apart(Simulate(calibrated, p), p.target) <= 1
               THEN calibrated
               ELSE Corrected(calibrated, first, items[order[first]], p)
           r == Materialize(items, s, p)
<1>1. /\ r.kind = items[order[1]].option.kind
      /\ r.selection = S
      /\ r.shown = shown
      /\ r.assumptions = assumptions
    BY DEF Materialize, Recommendation
<1> HIDE DEF Shown, r
<1>2. S \in SUBSET Int /\ IsFiniteSet(S)
    BY FS_Subset DEF PreparedOK
<1>3. PICK n \in Nat : n = Cardinality(S) /\ order \in [1..n -> S]
    BY <1>2, AscendingLists
<1>4. n # 0
    BY <1>2, <1>3, FS_EmptySet
<1>5. \A k \in 1..n : order[k] \in DOMAIN items
    BY <1>3
<1>6. r.kind = kind
  <2>1. order[1] \in DOMAIN items
      BY <1>3, <1>4, <1>5
  <2> QED
      BY <1>1, <2>1 DEF PreparedOK, OptionOK
<1> HIDE DEF order
<1>7. ASSUME NEW k \in 1..n, shown[k] # None PROVE AdjustedValue(calibrated[k]) = shown[k]
  <2>1. items[order[k]].option.field # None
      BY <1>3, <1>7 DEF Shown
  <2>2. \A v : AdjustedValue(AssumptionAt(items[order[k]].option, v)) = v
      BY <1>5, <2>1 DEF PreparedOK, OptionOK
  <2>3. calibrated[k] = AssumptionAt(items[order[k]].option, shown[k])
      BY <1>3
  <2> QED
      BY <2>2, <2>3
<1>8. DOMAIN shown = 1..n /\ DOMAIN calibrated = 1..n /\ adjustable \in SUBSET (1..n)
    BY <1>3
<1> HIDE DEF shown
<1>9. CorrectedOnce(r, items, p)
  <2> DEFINE Stale(k) == r.shown[k] # None /\ r.shown[k] # AdjustedValue(r.assumptions[k])
             Option(k) == items[Ascending(r.selection)[k]].option
             asShown == [k \in DOMAIN r.shown |->
                           IF r.shown[k] = None
                           THEN r.assumptions[k]
                           ELSE AssumptionAt(Option(k), r.shown[k])]
  <2> SUFFICES ASSUME \E k \in DOMAIN r.shown : Stale(k)
               PROVE  /\ \A k \in DOMAIN r.shown : Stale(k) =>
                            \A j \in 1..(k - 1) : r.shown[j] = None
                      /\ ~(Apart(Simulate(asShown, p), p.target) <= 1)
      BY DEF CorrectedOnce
  <2>1. /\ adjustable # {} /\ ~(Apart(Simulate(calibrated, p), p.target) <= 1)
        /\ assumptions = Corrected(calibrated, first, items[order[first]], p)
      BY <1>1, <1>7, <1>8
  <2>2. first \in adjustable /\ \A j \in adjustable : first <= j
    <3>1. adjustable \in SUBSET Nat
        BY <1>8
    <3> HIDE DEF adjustable
    <3> QED
        BY <2>1, <3>1, LeastMember DEF Min
  <2> HIDE DEF first
  <2>3. \A j \in 1..n : j # first => assumptions[j] = calibrated[j]
      BY <1>8, <2>1 DEF Corrected, With
  <2> HIDE DEF assumptions, calibrated
  <2>4. ASSUME NEW k \in 1..n, Stale(k) PROVE k = first
      BY <1>1, <1>7, <2>3, <2>4
  <2>5. ASSUME NEW k \in DOMAIN r.shown, Stale(k), NEW j \in 1..(k - 1)
        PROVE  r.shown[j] = None
    <3>1. k \in 1..n /\ k = first
        BY <1>1, <1>8, <2>4, <2>5
    <3>2. j \in 1..n /\ ~(first <= j)
        BY <3>1
    <3> QED
        BY <1>1, <1>3, <2>2, <3>2
  <2>6. asShown = calibrated
    <3>1. ASSUME NEW k \in 1..n PROVE asShown[k] = calibrated[k]
      <4>1. CASE shown[k] = None
        <5>1. k # first
            BY <2>2, <4>1
        <5> QED
            BY <1>1, <1>8, <2>3, <4>1, <5>1
      <4>2. CASE shown[k] # None
        <5>1. asShown[k] = AssumptionAt(items[order[k]].option, shown[k])
            BY <1>1, <1>8, <4>2 DEF order
        <5> QED
            BY <1>3, <5>1 DEF calibrated
      <4> QED
          BY <4>1, <4>2
    <3>2. DOMAIN asShown = 1..n
        BY <1>1, <1>8
    <3>3. calibrated = [k \in 1..n |-> calibrated[k]]
        BY <1>3 DEF calibrated
    <3>4. asShown = [k \in 1..n |-> asShown[k]]
        BY <3>2
    <3> QED
        BY <3>1, <3>3, <3>4
  <2> QED
      BY <2>1, <2>5, <2>6
<1> QED
    BY <1>1, <1>6, <1>9 DEF r

-----------------------------------------------------------------------------
(***************************************************************************)
(* The inductive invariant.  Accounting recommendations are made of        *)
(* different patterns, one each; when the fallback begins there are only   *)
(* accounting recommendations and none of them meets the target; after the *)
(* one operational recommendation its group has all it may have.           *)
(***************************************************************************)
PlanInv ==
    /\ BookOK
    /\ group \in Groups \cup {"none", "answered", "taken"}
    /\ IsSequence(found)
    /\ group = "none" => found = <<>>
    /\ \A k \in DOMAIN found : found[k].kind \in Groups
    /\ group \in Groups => PreparedOK(prepared, group)
    /\ group = "accounting" =>
          /\ IsFiniteSet(patterns) /\ Cardinality(patterns) = Len(found)
          /\ Len(found) <= 3
          /\ \A k \in DOMAIN found : /\ found[k].kind = "accounting"
                                     /\ found[k].selection \in patterns
    /\ group = "operational" =>
          \/ /\ patterns = {}
             /\ \A k \in DOMAIN found : /\ found[k].kind = "accounting"
                                        /\ ~(Gap(found[k]) <= 1)
          \/ Cardinality(patterns) = 1
    /\ FallbackOnlyWhenNeeded
    /\ \A k \in DOMAIN found :
          found[k].kind = group => CorrectedOnce(found[k], prepared, plan)

LEMMA Appended ==
    ASSUME NEW s, IsSequence(s), NEW x
    PROVE  /\ IsSequence(Append(s, x))
           /\ Len(s) \in Nat /\ DOMAIN s = 1..Len(s)
           /\ Len(Append(s, x)) = Len(s) + 1
           /\ DOMAIN Append(s, x) = 1..(Len(s) + 1)
           /\ \A i \in 1..Len(s) : Append(s, x)[i] = s[i]
           /\ Append(s, x)[Len(s) + 1] = x
<1> DEFINE X == {s[i] : i \in DOMAIN s} \cup {x}
           t == Append(s, x)
<1>1. s \in Seq({s[i] : i \in DOMAIN s})
    BY DEF IsSequence
<1>2. s \in Seq(X) /\ Len(s) \in Nat /\ DOMAIN s = 1..Len(s)
    BY <1>1
<1>3. x \in X
    OBVIOUS
<1> HIDE DEF X
<1>4. /\ t \in Seq(X) /\ Len(t) = Len(s) + 1
      /\ DOMAIN t = 1..(Len(s) + 1)
      /\ \A i \in 1..Len(s) : t[i] = s[i]
      /\ t[Len(s) + 1] = x
    BY <1>2, <1>3
<1> HIDE DEF t
<1>5. t \in Seq({t[i] : i \in DOMAIN t})
  <2>1. t \in [1..Len(t) -> {t[i] : i \in DOMAIN t}] /\ Len(t) \in Nat
      BY <1>2, <1>4
  <2> QED
      BY <2>1
<1> QED
    BY <1>2, <1>4, <1>5 DEF IsSequence, t

LEMMA BookKept ==
    ASSUME [NextR]_allVars
    PROVE  book' = book
    BY DEF NextR, allVars, vars, Forecasting, Inherit, Ask, Recommend, EndGroup,
           TakeRecommendation, Consider, ComputeBaseline, AddAssumption, Submit,
           HistoricalStep, TakeSnapshotLines, ExistingStep, WorkloadStep,
           PlannedStep, Store

\* What was said of a recommendation stays true as long as its group's
\* options are the ones at hand.
LEMMA CorrectedStays ==
    ASSUME book' = book, NEW r, NEW items, NEW p
    PROVE  CorrectedOnce(r, items, p)' = CorrectedOnce(r, items, p)
<1> DEFINE shown == [k \in DOMAIN r.shown |->
                        IF r.shown[k] = None
                        THEN r.assumptions[k]
                        ELSE AssumptionAt(items[Ascending(r.selection)[k]].option,
                                          r.shown[k])]
<1>1. Simulate(shown, p)' = Simulate(shown, p)
    BY SameTrial
<1> QED
    BY <1>1 DEF CorrectedOnce

LEMMA PlanInit == InitR => PlanInv
<1> SUFFICES ASSUME InitR PROVE PlanInv
    OBVIOUS
<1>1. BookOK
    BY DEF InitR, Init, BookOK
<1>2. IsSequence(found)
    BY DEF InitR, IsSequence
<1> QED
    BY <1>1, <1>2 DEF InitR, PlanInv, Groups, FallbackOnlyWhenNeeded

LEMMA PlanKept ==
    ASSUME PlanInv, book' = book,
           UNCHANGED <<plan, group, prepared, patterns, found>>
    PROVE  PlanInv'
<1>1. BookOK'
    BY DEF PlanInv, BookOK
<1>2. FallbackOnlyWhenNeeded'
    BY DEF PlanInv, FallbackOnlyWhenNeeded, Gap
<1>3. (\A k \in DOMAIN found :
          found[k].kind = group => CorrectedOnce(found[k], prepared, plan))'
    BY CorrectedStays DEF PlanInv
<1> QED
    BY <1>1, <1>2, <1>3 DEF PlanInv, Gap

LEMMA PlanAsk ==
    ASSUME PlanInv, NEW goal \in Goals, Ask(goal), book' = book
    PROVE  PlanInv'
<1>1. group = "none" /\ found = <<>> /\ found' = <<>>
    BY DEF Ask, PlanInv
<1>2. PICK p : Consider(p, "accounting")
    BY DEF Ask
<1>3. group' = "accounting" /\ patterns' = {}
    BY <1>2 DEF Consider
<1>4. PreparedOK(prepared', "accounting")
  <2>1. prepared' = Prepared(p, "accounting") /\ "accounting" \in Groups
      BY <1>2 DEF Consider, Groups
  <2> QED
      BY <2>1, PreparedAre DEF PlanInv
<1>5. PreparedOK(prepared, group)'
    BY <1>3, <1>4 DEF PreparedOK, OptionOK, AdjustedValue, AssumptionAt
<1>6. IsSequence(found') /\ Len(found') = 0 /\ DOMAIN found' = {}
    BY <1>1 DEF IsSequence
<1>7. IsFiniteSet(patterns') /\ Cardinality(patterns') = 0
    BY <1>3, FS_EmptySet
<1>8. BookOK'
    BY DEF PlanInv, BookOK
<1>9. FallbackOnlyWhenNeeded'
    BY <1>6 DEF FallbackOnlyWhenNeeded
<1> QED
    BY <1>3, <1>5, <1>6, <1>7, <1>8, <1>9 DEF PlanInv, Groups

LEMMA PlanTake ==
    ASSUME PlanInv, TakeRecommendation, book' = book
    PROVE  PlanInv'
<1>1. group' = "taken" /\ found' = <<>>
    BY DEF TakeRecommendation
<1>2. IsSequence(found') /\ DOMAIN found' = {}
    BY <1>1 DEF IsSequence
<1>3. BookOK'
    BY DEF PlanInv, BookOK
<1>4. FallbackOnlyWhenNeeded'
    BY <1>2 DEF FallbackOnlyWhenNeeded
<1> QED
    BY <1>1, <1>2, <1>3, <1>4 DEF PlanInv, Groups

LEMMA PlanEndGroup ==
    ASSUME PlanInv, EndGroup, book' = book
    PROVE  PlanInv'
<1>1. group \in Groups /\ found' = found /\ plan' = plan
    BY DEF EndGroup
<1>2. BookOK'
    BY DEF PlanInv, BookOK
<1>3. FallbackOnlyWhenNeeded'
    BY <1>1 DEF PlanInv, FallbackOnlyWhenNeeded, Gap
<1>4. CASE group' = "answered"
    BY <1>1, <1>2, <1>3, <1>4 DEF PlanInv, Groups
<1>5. CASE group' # "answered"
  <2>1. group = "accounting" /\ ~Exact /\ Consider(plan, "operational")
      BY <1>5 DEF EndGroup
  <2>2. group' = "operational" /\ patterns' = {}
      BY <2>1 DEF Consider
  <2>3. PreparedOK(prepared', "operational")
    <3>1. prepared' = Prepared(plan, "operational") /\ "operational" \in Groups
        BY <2>1 DEF Consider, Groups
    <3> QED
        BY <3>1, PreparedAre DEF PlanInv
  <2>4. PreparedOK(prepared, group)'
      BY <2>2, <2>3 DEF PreparedOK, OptionOK, AdjustedValue, AssumptionAt
  <2>5. \A k \in DOMAIN found : found[k].kind = "accounting" /\ ~(Gap(found[k]) <= 1)
      BY <2>1 DEF PlanInv, Exact
  <2>6. (\A k \in DOMAIN found : found[k].kind = "accounting" /\ ~(Gap(found[k]) <= 1))'
      BY <1>1, <2>5 DEF Gap
  <2> QED
      BY <1>1, <1>2, <1>3, <2>2, <2>4, <2>6 DEF PlanInv, Groups
<1> QED
    BY <1>4, <1>5

LEMMA PlanRecommend ==
    ASSUME PlanInv, Recommend, book' = book
    PROVE  PlanInv'
<1>1. /\ group \in Groups /\ Cardinality(patterns) < Recommendations(group)
      /\ UNCHANGED <<plan, group, prepared>>
    BY DEF Recommend
<1>2. PICK s \in Solutions(prepared, patterns, Needed(plan)) :
          /\ patterns' = patterns \cup {s.selection}
          /\ found' = Append(found, Materialize(prepared, s, plan))
    BY DEF Recommend
<1> DEFINE r == Materialize(prepared, s, plan)
<1> PICK n : n = Len(found)
    OBVIOUS
<1>3. /\ s.selection \in SUBSET DOMAIN prepared
      /\ s.selection \notin patterns /\ s.selection # {}
    BY <1>2, SolutionsSelect DEF Selections
<1>4. PreparedOK(prepared, group)
    BY <1>1 DEF PlanInv
<1>5. PICK new : /\ new = r /\ new.kind = group /\ new.selection = s.selection
                 /\ CorrectedOnce(new, prepared, plan)
    BY <1>3, <1>4, Materialized
<1> HIDE DEF r
<1>6. found' = Append(found, new)
    BY <1>2, <1>5 DEF r
<1>7. /\ IsSequence(found')
      /\ n \in Nat /\ DOMAIN found = 1..n
      /\ Len(found') = n + 1 /\ DOMAIN found' = 1..(n + 1)
      /\ \A i \in 1..n : found'[i] = found[i]
      /\ found'[n + 1] = new
    BY <1>6, Appended DEF PlanInv
<1>8. \A k \in 1..(n + 1) : k \in 1..n \/ k = n + 1
    BY <1>7
<1>9. BookOK'
    BY DEF PlanInv, BookOK
<1>10. PreparedOK(prepared, group)'
    BY <1>1, <1>4 DEF PreparedOK, OptionOK, AdjustedValue, AssumptionAt
<1>11. (\A k \in DOMAIN found : found[k].kind \in Groups)'
    BY <1>1, <1>5, <1>7, <1>8 DEF PlanInv
<1>12. (\A k \in DOMAIN found :
           found[k].kind = group => CorrectedOnce(found[k], prepared, plan))'
  <2>1. CorrectedOnce(new, prepared, plan)'
      BY <1>1, <1>5, CorrectedStays
  <2>2. \A k \in 1..n :
            found[k].kind = group => CorrectedOnce(found[k], prepared, plan)
      BY <1>7 DEF PlanInv
  <2>3. ASSUME NEW k \in 1..n
        PROVE  (found[k].kind = group => CorrectedOnce(found[k], prepared, plan))'
    <3>1. found'[k] = found[k]
        BY <1>7
    <3> QED
        BY <1>1, <2>2, <3>1, CorrectedStays
  <2>4. found[n + 1]' = new
      BY <1>7
  <2>5. CorrectedOnce(found[n + 1], prepared, plan)'
      BY <2>1, <2>4
  <2>6. ASSUME NEW k \in 1..(n + 1)
        PROVE  (found[k].kind = group => CorrectedOnce(found[k], prepared, plan))'
      BY <1>8, <2>3, <2>5
  <2>7. DOMAIN found' = 1..(n + 1)
      BY <1>7
  <2> QED
      BY <2>6, <2>7
<1>13. CASE group = "accounting"
  <2>1. /\ IsFiniteSet(patterns) /\ Cardinality(patterns) = n
        /\ \A k \in 1..n : /\ found[k].kind = "accounting"
                           /\ found[k].selection \in patterns
      BY <1>7, <1>13 DEF PlanInv
  <2>2. n + 1 <= 3
      BY <1>1, <1>7, <1>13, <2>1 DEF Recommendations
  <2>3. IsFiniteSet(patterns') /\ Cardinality(patterns') = n + 1
      BY <1>2, <1>3, <2>1, FS_AddElement
  <2>4. \A k \in 1..(n + 1) : /\ found'[k].kind = "accounting"
                              /\ found'[k].selection \in patterns'
      BY <1>2, <1>5, <1>7, <1>8, <1>13, <2>1
  <2>5. \A j, k \in 1..n : j < k => found[j].selection # found[k].selection
      BY <1>7, <2>1 DEF PlanInv, FallbackOnlyWhenNeeded
  <2>6. FallbackOnlyWhenNeeded'
    <3>1. ASSUME NEW k \in 1..(n + 1), NEW j \in 1..(k - 1)
          PROVE  found'[j].selection # found'[k].selection
      <4>1. j \in 1..n /\ j < k
          BY <1>7, <3>1
      <4>2. CASE k \in 1..n
          BY <1>7, <2>5, <4>1, <4>2
      <4>3. CASE k = n + 1
          BY <1>3, <1>5, <1>7, <2>1, <4>1, <4>3
      <4> QED
          BY <1>8, <4>2, <4>3
    <3>2. \A k \in 1..(n + 1) : k <= 3
        BY <1>7, <2>2
    <3> QED
        BY <1>7, <2>4, <3>1, <3>2 DEF FallbackOnlyWhenNeeded
  <2>7. group' = "accounting"
      BY <1>1, <1>13
  <2> QED
      BY <1>7, <1>9, <1>10, <1>11, <1>12, <2>2, <2>3, <2>4, <2>6, <2>7
      DEF PlanInv, Groups
<1>14. CASE group = "operational"
  <2>1. patterns = {}
    <3>1. ~(Cardinality(patterns) = 1)
        BY <1>1, <1>14 DEF Recommendations
    <3> QED
        BY <1>14, <3>1 DEF PlanInv
  <2>2. \A k \in 1..n : found[k].kind = "accounting" /\ ~(Gap(found[k]) <= 1)
    <3>1. Cardinality(patterns) # 1
        BY <1>1, <1>14 DEF Recommendations
    <3> QED
        BY <1>7, <1>14, <3>1 DEF PlanInv
  <2>3. Cardinality(patterns') = 1
      BY <1>2, <2>1, FS_Singleton
  <2>4. \A k \in 1..n : found'[k].kind = "accounting" /\ ~(Apart(found'[k].amount, plan'.target) <= 1)
      BY <1>1, <1>7, <2>2 DEF Gap
  <2>5. FallbackOnlyWhenNeeded'
    <3>1. \A k \in 1..n : /\ k <= 3
                          /\ \A j \in 1..(k - 1) :
                                found'[j].selection # found'[k].selection
      <4>1. ASSUME NEW k \in 1..n
            PROVE  /\ k <= 3
                   /\ \A j \in 1..(k - 1) : found[j].selection # found[k].selection
          BY <1>7, <2>2 DEF PlanInv, FallbackOnlyWhenNeeded
      <4>2. \A k \in 1..n : \A j \in 1..(k - 1) : j \in 1..n
          BY <1>7
      <4> QED
          BY <1>7, <4>1, <4>2
    <3>2. ASSUME NEW k \in DOMAIN found', found'[k].kind = "operational"
          PROVE  /\ k = Len(found')
                 /\ \A j \in 1..(k - 1) :
                       found'[j].kind = "accounting" /\ ~(Apart(found'[j].amount, plan'.target) <= 1)
      <4>1. k = n + 1
          BY <1>7, <1>8, <2>4, <3>2
      <4> QED
          BY <1>7, <2>4, <4>1
    <3>3. ASSUME NEW k \in DOMAIN found', found'[k].kind = "accounting"
          PROVE  k \in 1..n
          BY <1>5, <1>7, <1>8, <1>14, <3>3
    <3> QED
        BY <3>1, <3>2, <3>3 DEF FallbackOnlyWhenNeeded, Gap
  <2>6. group' = "operational"
      BY <1>1, <1>14
  <2> QED
      BY <1>7, <1>9, <1>10, <1>11, <1>12, <2>3, <2>5, <2>6 DEF PlanInv, Groups
<1> QED
    BY <1>1, <1>13, <1>14 DEF Groups

-----------------------------------------------------------------------------
LEMMA PlanInvariant == SpecR => []PlanInv
<1>1. InitR => PlanInv
    BY PlanInit
<1>2. PlanInv /\ [NextR]_allVars => PlanInv'
  <2> SUFFICES ASSUME PlanInv, [NextR]_allVars PROVE PlanInv'
      OBVIOUS
  <2>1. book' = book
      BY BookKept
  <2>2. CASE Forecasting \/ Inherit \/ UNCHANGED allVars
    <3>1. UNCHANGED <<plan, group, prepared, patterns, found>>
        BY <2>2 DEF Forecasting, Inherit, allVars, rvars
    <3> QED
        BY <2>1, <3>1, PlanKept
  <2>3. ASSUME NEW goal \in Goals, Ask(goal) PROVE PlanInv'
      BY <2>1, <2>3, PlanAsk
  <2>4. CASE Recommend
      BY <2>1, <2>4, PlanRecommend
  <2>5. CASE EndGroup
      BY <2>1, <2>5, PlanEndGroup
  <2>6. CASE TakeRecommendation
      BY <2>1, <2>6, PlanTake
  <2> QED
      BY <2>2, <2>3, <2>4, <2>5, <2>6 DEF NextR
<1> QED
    BY <1>1, <1>2, PTL DEF SpecR

\* An operating parameter is recommended last, once, and only when no
\* accounting recommendation meets the target to the unit; accounting
\* recommendations are at most three different combinations (optimize).
THEOREM FallbackIsLastResort == SpecR => []FallbackOnlyWhenNeeded
<1>1. PlanInv => FallbackOnlyWhenNeeded
    BY DEF PlanInv
<1> QED
    BY <1>1, PlanInvariant, PTL

\* What is assumed differs from what is shown in the first adjustable action
\* only, and only if the amounts shown miss the target (_calibrate_option,
\* _correct_combination).
THEOREM CorrectionIsConfined == SpecR => []OnlyFirstIsCorrected
<1>1. PlanInv => OnlyFirstIsCorrected
    BY DEF PlanInv, OnlyFirstIsCorrected, CorrectedOnce
<1> QED
    BY <1>1, PlanInvariant, PTL

-----------------------------------------------------------------------------
(* A month computed directly is the month of the forecast *)

\* Month by month from the first one.
LEMMA MonthByMonth ==
    ASSUME BookInv, NEW kind, NEW Q, FirstMonth(kind) \in Q,
           \A p \in MonthsOf(kind) : p \in Q => NextMonth(kind, p) \in Q
    PROVE  MonthsOf(kind) \subseteq Q
<1> SUFFICES ASSUME NEW x \in MonthsOf(kind)
             PROVE  x \in Q
    OBVIOUS
<1>1. Start \in Int /\ End \in Int /\ Snapshot \in Int /\ FutureStart \in Int
    BY BookIs
<1> DEFINE At(i) == IF kind = "HISTORY" THEN Snapshot - 1 - i ELSE FutureStart + i
           n == IF kind = "HISTORY" THEN Snapshot - 1 - Start ELSE End - FutureStart
           S == {i \in Int : At(i) \in Q}
<1>2. 0 \in S
    BY <1>1 DEF FirstMonth
<1>3. ASSUME NEW p \in MonthsOf(kind)
      PROVE  n \in Nat /\ \E i \in 0..n : p = At(i)
  <2>1. CASE kind = "HISTORY"
    <3>1. p \in Start..(Snapshot - 1)
        BY <1>3, <2>1 DEF MonthsOf, HistoryMonths
    <3>2. n \in Nat /\ Snapshot - 1 - p \in 0..n /\ p = At(Snapshot - 1 - p)
        BY <1>1, <2>1, <3>1
    <3> QED
        BY <3>2
  <2>2. CASE kind # "HISTORY"
    <3>1. p \in FutureStart..End
        BY <1>3, <2>2 DEF MonthsOf, ForecastMonths
    <3>2. n \in Nat /\ p - FutureStart \in 0..n /\ p = At(p - FutureStart)
        BY <1>1, <2>2, <3>1
    <3> QED
        BY <3>2
  <2> QED
      BY <2>1, <2>2
<1>4. ASSUME n \in Nat, NEW i \in 1..n, i - 1 \in S PROVE i \in S
  <2>1. At(i - 1) \in MonthsOf(kind) /\ NextMonth(kind, At(i - 1)) = At(i)
    <3>1. CASE kind = "HISTORY"
      <4>1. SpansSnapshot
          BY <3>1 DEF MonthsOf, HistoryMonths
      <4> QED
          BY <1>1, <1>4, <3>1, <4>1 DEF MonthsOf, HistoryMonths, NextMonth
    <3>2. CASE kind # "HISTORY"
        BY <1>1, <1>4, <3>2 DEF MonthsOf, ForecastMonths, NextMonth
    <3> QED
        BY <3>1, <3>2
  <2>2. At(i) \in Q
      BY <1>4, <2>1
  <2> QED
      BY <1>4, <2>2
<1>5. ASSUME NEW p \in MonthsOf(kind) PROVE p \in Q
  <2>1. n \in Nat /\ \E i \in 0..n : p = At(i)
      BY <1>3
  <2>2. 0..n \subseteq S
    <3> HIDE DEF n, S
    <3> QED
        BY <1>2, <1>4, <2>1, InductionUpTo
  <2> HIDE DEF n, At
  <2> QED
      BY <2>1, <2>2
<1> QED
    BY <1>5

\* Backwards from the ledger month (_reconstruct_historical_lines).
LEMMA HistoryDirect ==
    ASSUME BookInv, NEW in, NEW id, NEW period \in HistoryMonths
    PROVE  LET a == AssetById(in.cards, id)
           IN  HistoryAt(in, a, period)
                 = HistoricalMonth(a, PolicyFor(a), period,
                                   Trail(in, "HISTORY", id)[period], in.drivers).amount
<1> DEFINE a == AssetById(in.cards, id)
           t == Trail(in, "HISTORY", id)
           Month(p, s) == HistoricalMonth(a, PolicyFor(a), p, s, in.drivers)
           last == [amount |-> a.snapDep, carried |-> HistoryStart(a)]
           Loop(f) == [p \in period..Snapshot |->
                         IF p = Snapshot THEN last ELSE Month(p, f[p + 1].carried)]
           back == CHOOSE f : f = Loop(f)
           g == [p \in period..Snapshot |-> IF p = Snapshot THEN last ELSE Month(p, t[p])]
<1>1. HistoryAt(in, a, period) = back[period].amount
    BY DEF HistoryAt
<1>2. /\ Start \in Int /\ Snapshot \in Int /\ period \in Int
      /\ Start <= period /\ period < Snapshot
      /\ HistoryMonths = Start..(Snapshot - 1)
    BY BookIs DEF HistoryMonths
<1>3. /\ t[Snapshot - 1] = HistoryStart(a)
      /\ \A p \in HistoryMonths : t[p - 1] = Month(p, t[p]).carried
  <2>1. IsTrail(t, in, "HISTORY", id)
      BY TrailExists
  <2>2. t[FirstMonth("HISTORY")] = StartOf(in, "HISTORY", id)
      BY <2>1 DEF IsTrail
  <2>3. \A p \in MonthsOf("HISTORY") :
            t[NextMonth("HISTORY", p)] = After(in, "HISTORY", id, p, t[p])
      BY <2>1 DEF IsTrail
  <2> HIDE DEF t
  <2> QED
      BY <2>2, <2>3 DEF FirstMonth, StartOf, NextMonth, MonthsOf, After
<1>4. last.carried = HistoryStart(a)
    OBVIOUS
<1> HIDE DEF t, Month, a, last
<1>5. g = Loop(g)
  <2>1. ASSUME NEW p \in period..Snapshot, p # Snapshot PROVE g[p + 1].carried = t[p]
    <3>1. CASE p + 1 = Snapshot
      <4>1. g[p + 1] = last
          BY <1>2, <3>1
      <4>2. p = Snapshot - 1
          BY <1>2, <3>1
      <4> QED
          BY <1>3, <1>4, <4>1, <4>2
    <3>2. CASE p + 1 # Snapshot
      <4>1. p + 1 \in period..Snapshot /\ p + 1 \in HistoryMonths
          BY <1>2, <2>1, <3>2
      <4>2. g[p + 1] = Month(p + 1, t[p + 1])
          BY <3>2, <4>1
      <4>3. t[(p + 1) - 1] = Month(p + 1, t[p + 1]).carried
          BY <1>3, <4>1
      <4>4. (p + 1) - 1 = p
          BY <1>2
      <4> QED
          BY <4>2, <4>3, <4>4
    <3> QED
        BY <3>1, <3>2
  <2>2. \A p \in period..Snapshot :
            g[p] = IF p = Snapshot THEN last ELSE Month(p, g[p + 1].carried)
      BY <2>1
  <2> QED
      BY <2>2
<1>6. back = Loop(back)
    BY <1>5
<1> HIDE DEF back, g
<1>7. \A p \in period..Snapshot :
          back[p] = IF p = Snapshot THEN last ELSE Month(p, back[p + 1].carried)
    BY <1>6
<1> DEFINE Q == {p \in Int : p < period \/ back[p + 1].carried = t[p]}
<1>8. MonthsOf("HISTORY") \subseteq Q
  <2>1. FirstMonth("HISTORY") \in Q
    <3>1. back[Snapshot] = last
        BY <1>2, <1>7
    <3>2. (Snapshot - 1) + 1 = Snapshot
        BY <1>2
    <3>3. Snapshot - 1 \in Q
        BY <1>2, <1>3, <1>4, <3>1, <3>2
    <3> QED
        BY <3>3 DEF FirstMonth
  <2>2. ASSUME NEW p \in MonthsOf("HISTORY"), p \in Q
        PROVE  NextMonth("HISTORY", p) \in Q
    <3>1. p \in HistoryMonths /\ p \in Int
        BY <1>2, <2>2 DEF MonthsOf
    <3>2. p - 1 \in Q
      <4>1. CASE p <= period
          BY <3>1, <4>1, <1>2
      <4>2. CASE ~(p <= period)
        <5>1. p \in period..Snapshot /\ p # Snapshot
            BY <1>2, <3>1, <4>2
        <5>2. back[p] = Month(p, back[p + 1].carried)
            BY <1>7, <5>1
        <5>3. back[p + 1].carried = t[p]
            BY <2>2, <4>2, <1>2, <3>1
        <5>4. back[p].carried = t[p - 1]
            BY <1>3, <3>1, <5>2, <5>3
        <5>5. (p - 1) + 1 = p /\ p - 1 \in Int
            BY <3>1
        <5> QED
            BY <5>4, <5>5
      <4> QED
          BY <4>1, <4>2
    <3> QED
        BY <3>2 DEF NextMonth
  <2> HIDE DEF Q
  <2> QED
      BY <2>1, <2>2, MonthByMonth
<1>9. back[period] = Month(period, t[period])
  <2>1. period \in Q
      BY <1>8 DEF MonthsOf
  <2>2. back[period + 1].carried = t[period]
      BY <1>2, <2>1
  <2>3. period \in period..Snapshot /\ period # Snapshot
      BY <1>2
  <2> QED
      BY <1>7, <2>2, <2>3
<1> QED
    BY <1>1, <1>9 DEF a, t, Month

\* Forwards from the opening of the forecast (_forecast_existing_asset).
LEMMA SingleDirect ==
    ASSUME BookInv, NEW in, NEW id, NEW period \in ForecastMonths
    PROVE  LET a == AssetById(in.cards, id)
           IN  SingleAt(in, a, period)
                 = ExistingMonth(a, PolicyFor(a), period,
                                 Trail(in, "EXISTING", id)[period],
                                 in.events, in.drivers).amount
<1> DEFINE a == AssetById(in.cards, id)
           t == Trail(in, "EXISTING", id)
           Month(p, s) == ExistingMonth(a, PolicyFor(a), p, s, in.events, in.drivers)
           opening == [amount |-> 0, work |-> OpeningWork(a, PolicyFor(a), FutureStart)]
           Loop(f) == [p \in (FutureStart - 1)..period |->
                         IF p < FutureStart THEN opening ELSE Month(p, f[p - 1].work)]
           forward == CHOOSE f : f = Loop(f)
           g == [p \in (FutureStart - 1)..period |->
                   IF p < FutureStart THEN opening ELSE Month(p, t[p])]
<1>1. SingleAt(in, a, period) = forward[period].amount
    BY DEF SingleAt
<1>2. /\ FutureStart \in Int /\ End \in Int /\ period \in Int
      /\ FutureStart <= period /\ period <= End
      /\ ForecastMonths = FutureStart..End
    BY BookIs DEF ForecastMonths
<1>3. /\ t[FutureStart] = opening.work
      /\ \A p \in ForecastMonths : t[p + 1] = Month(p, t[p]).work
  <2>1. IsTrail(t, in, "EXISTING", id)
      BY TrailExists
  <2>2. t[FirstMonth("EXISTING")] = StartOf(in, "EXISTING", id)
      BY <2>1 DEF IsTrail
  <2>3. \A p \in MonthsOf("EXISTING") :
            t[NextMonth("EXISTING", p)] = After(in, "EXISTING", id, p, t[p])
      BY <2>1 DEF IsTrail
  <2> HIDE DEF t
  <2> QED
      BY <2>2, <2>3 DEF FirstMonth, StartOf, NextMonth, MonthsOf, After
<1> HIDE DEF t, Month, a, opening
<1>5. g = Loop(g)
  <2>1. ASSUME NEW p \in (FutureStart - 1)..period, ~(p < FutureStart)
        PROVE  g[p - 1].work = t[p]
    <3>1. CASE p = FutureStart
      <4>1. g[p - 1] = opening
          BY <1>2, <3>1
      <4> QED
          BY <1>3, <3>1, <4>1
    <3>2. CASE p # FutureStart
      <4>1. /\ p - 1 \in (FutureStart - 1)..period /\ ~(p - 1 < FutureStart)
            /\ p - 1 \in ForecastMonths
          BY <1>2, <2>1, <3>2
      <4>2. g[p - 1] = Month(p - 1, t[p - 1])
          BY <4>1
      <4>3. t[(p - 1) + 1] = Month(p - 1, t[p - 1]).work
          BY <1>3, <4>1
      <4>4. (p - 1) + 1 = p
          BY <1>2
      <4> QED
          BY <4>2, <4>3, <4>4
    <3> QED
        BY <3>1, <3>2
  <2>2. \A p \in (FutureStart - 1)..period :
            g[p] = IF p < FutureStart THEN opening ELSE Month(p, g[p - 1].work)
      BY <2>1
  <2> QED
      BY <2>2
<1>6. forward = Loop(forward)
    BY <1>5
<1> HIDE DEF forward, g
<1>7. \A p \in (FutureStart - 1)..period :
          forward[p] = IF p < FutureStart THEN opening ELSE Month(p, forward[p - 1].work)
    BY <1>6
<1> DEFINE Q == {p \in Int : p > period \/ forward[p - 1].work = t[p]}
<1>8. MonthsOf("EXISTING") \subseteq Q
  <2>1. FirstMonth("EXISTING") \in Q
    <3>1. forward[FutureStart - 1] = opening
        BY <1>2, <1>7
    <3>2. FutureStart \in Q
        BY <1>2, <1>3, <3>1
    <3> QED
        BY <3>2 DEF FirstMonth
  <2>2. ASSUME NEW p \in MonthsOf("EXISTING"), p \in Q
        PROVE  NextMonth("EXISTING", p) \in Q
    <3>1. p \in ForecastMonths /\ p \in Int /\ FutureStart <= p
        BY <1>2, <2>2 DEF MonthsOf
    <3>2. p + 1 \in Q
      <4>1. CASE p >= period
          BY <3>1, <4>1, <1>2
      <4>2. CASE ~(p >= period)
        <5>1. p \in (FutureStart - 1)..period /\ ~(p < FutureStart)
            BY <1>2, <3>1, <4>2
        <5>2. forward[p] = Month(p, forward[p - 1].work)
            BY <1>7, <5>1
        <5>3. forward[p - 1].work = t[p]
            BY <2>2, <4>2, <1>2, <3>1
        <5>4. forward[p].work = t[p + 1]
            BY <1>3, <3>1, <5>2, <5>3
        <5>5. (p + 1) - 1 = p /\ p + 1 \in Int
            BY <3>1
        <5> QED
            BY <5>4, <5>5
      <4> QED
          BY <4>1, <4>2
    <3> QED
        BY <3>2 DEF NextMonth
  <2> HIDE DEF Q
  <2> QED
      BY <2>1, <2>2, MonthByMonth
<1>9. forward[period] = Month(period, t[period])
  <2>1. period \in Q
      BY <1>8 DEF MonthsOf
  <2>2. forward[period - 1].work = t[period]
      BY <1>2, <2>1
  <2>3. period \in (FutureStart - 1)..period /\ ~(period < FutureStart)
      BY <1>2
  <2> QED
      BY <1>7, <2>2, <2>3
<1> QED
    BY <1>1, <1>9 DEF a, t, Month

\* What the members of the pools are worth before each month.
LEMMA PoolTrail ==
    ASSUME BookInv, NEW in, NEW n, InputAfter(in, n), NEW p \in ForecastMonths
    PROVE  Trail(in, "WORKLOAD", None)[p] \in [IdsOf(in.cards, Pooled(in.cards)) -> Int]
<1> DEFINE P == IdsOf(in.cards, Pooled(in.cards))
           t == Trail(in, "WORKLOAD", None)
           Q == {q \in Int : t[q] \in [P -> Int]}
<1>1. IsTrail(t, in, "WORKLOAD", None)
    BY TrailExists
<1>2. ForecastMonths \subseteq Int /\ FutureStart \in Int
    BY MonthsInt, BookIs
<1>3. /\ t[FutureStart] = [i \in P |-> CardNet(AssetById(in.cards, i))]
      /\ \A q \in ForecastMonths : t[q + 1] = After(in, "WORKLOAD", None, q, t[q])
  <2>1. t[FirstMonth("WORKLOAD")] = StartOf(in, "WORKLOAD", None)
      BY <1>1 DEF IsTrail
  <2>2. \A q \in MonthsOf("WORKLOAD") :
            t[NextMonth("WORKLOAD", q)] = After(in, "WORKLOAD", None, q, t[q])
      BY <1>1 DEF IsTrail
  <2> HIDE DEF t
  <2> QED
      BY <2>1, <2>2 DEF FirstMonth, StartOf, NextMonth, MonthsOf
<1> HIDE DEF t
<1>4. FirstMonth("WORKLOAD") \in Q
  <2>1. \A i \in P : CardNet(AssetById(in.cards, i)) \in Int
    <3>1. \A i \in P : IsCard(AssetById(in.cards, i))
        BY CardOfJob
    <3> HIDE DEF P
    <3> QED
        BY <3>1 DEF IsCard, CardNet
  <2> HIDE DEF P
  <2> QED
      BY <1>2, <1>3, <2>1 DEF FirstMonth
<1>5. ASSUME NEW q \in MonthsOf("WORKLOAD"), q \in Q
      PROVE  NextMonth("WORKLOAD", q) \in Q
  <2>1. t[q] \in [P -> Int] /\ q \in ForecastMonths
      BY <1>5 DEF MonthsOf
  <2>2. t[q + 1] = [i \in P |-> t[q][i] - AmountFrom(t[q], in, i, q)]
      BY <1>3, <2>1 DEF After
  <2>3. \A i \in P : AmountFrom(t[q], in, i, q) \in 0..Greater(t[q][i], 0)
    <3>1. DOMAIN t[q] = P
        BY <2>1
    <3> QED
        BY <2>1, <3>1, ShareIs
  <2>4. t[q + 1] \in [P -> Int]
    <3> HIDE DEF P
    <3> QED
        BY <2>1, <2>2, <2>3
  <2> HIDE DEF P
  <2> QED
      BY <1>2, <2>1, <2>4 DEF NextMonth
<1>6. MonthsOf("WORKLOAD") \subseteq Q
  <2> HIDE DEF Q
  <2> QED
      BY <1>4, <1>5, MonthByMonth
<1> QED
    BY <1>6 DEF MonthsOf, t

\* The members of a pool by their place instead of their number.
ByPlace(in, net, members) == [k \in members |-> net[in.cards[k].id]]

DueMembers(in, members, net, p) ==
    {k \in members :
        /\ p >= FirstDepreciationMonth(in.cards[k].inService,
                                       PolicyFor(in.cards[k]).startRule)
        /\ net[k] > 0}

LEMMA MembersAre ==
    ASSUME BookInv, NEW in, NEW n, InputAfter(in, n), NEW target, NEW i,
           NEW net \in [IdsOf(in.cards, Pooled(in.cards)) -> Int]
    PROVE  /\ i \in MembersOf(net, in, target) <=>
                  \E k \in PoolOf(in, target) : i = in.cards[k].id
           /\ \A k \in PoolOf(in, target) :
                 /\ k \in DOMAIN in.cards /\ in.cards[k].id \in DOMAIN net
                 /\ AssetById(in.cards, in.cards[k].id) = in.cards[k]
                 /\ CardIndex(in.cards, in.cards[k].id) = k
                 /\ WorkloadTarget(in.cards[k]) = target
           /\ \A k, l \in PoolOf(in, target) : in.cards[k].id = in.cards[l].id => k = l
           /\ IsFiniteSet(PoolOf(in, target))
<1>1. AreCards(in.cards) /\ Distinct(in.cards)
    BY InputCards DEF InputAfter
<1>2. \A k \in DOMAIN in.cards :
          /\ AssetById(in.cards, in.cards[k].id) = in.cards[k]
          /\ CardIndex(in.cards, in.cards[k].id) = k
    BY <1>1, FoundById
<1>3. IsFiniteSet(DOMAIN in.cards)
  <2>1. Len(in.cards) \in Nat /\ DOMAIN in.cards = 1..Len(in.cards)
      BY <1>1 DEF AreCards, IsSequence
  <2> QED
      BY <2>1, FS_Interval
<1>4. PoolOf(in, target) =
          {k \in Pooled(in.cards) : WorkloadTarget(in.cards[k]) = target}
    BY DEF PoolOf, Pooled, Included
<1>5. Pooled(in.cards) \subseteq DOMAIN in.cards
    BY DEF Pooled, Included
<1>6. IsFiniteSet(PoolOf(in, target))
    BY <1>3, <1>4, <1>5, FS_Subset
<1>7. \A k \in PoolOf(in, target) :
          k \in DOMAIN in.cards /\ in.cards[k].id \in DOMAIN net
    BY <1>4, <1>5 DEF IdsOf
<1>8. i \in MembersOf(net, in, target) <=>
          \E k \in PoolOf(in, target) : i = in.cards[k].id
    BY <1>2, <1>4, <1>5 DEF MembersOf, IdsOf
<1> QED
    BY <1>1, <1>2, <1>4, <1>6, <1>7, <1>8 DEF Distinct

\* What a member is charged is the same by place and by number.
LEMMA PlaceAmounts ==
    ASSUME BookInv, NEW in, NEW n, InputAfter(in, n), NEW target, NEW p,
           NEW net \in [IdsOf(in.cards, Pooled(in.cards)) -> Int],
           NEW k \in PoolOf(in, target)
    PROVE  LET members == PoolOf(in, target)
               known == ByPlace(in, net, members)
           IN  WorkloadAmounts(members, known, DueMembers(in, members, known, p),
                               Driver(in.drivers, "WORKLOAD", target, p))[k]
                 = AmountFrom(net, in, in.cards[k].id, p)
<1> DEFINE members == PoolOf(in, target)
           known == ByPlace(in, net, members)
           dues == DueMembers(in, members, known, p)
           d == Driver(in.drivers, "WORKLOAD", target, p)
           id == in.cards[k].id
           numbers == [j \in members |-> in.cards[j].id]
           due == DuesFrom(net, in, target, p)
<1>1. \A j \in members :
          /\ in.cards[j].id \in DOMAIN net
          /\ AssetById(in.cards, in.cards[j].id) = in.cards[j]
          /\ WorkloadTarget(in.cards[j]) = target
    BY MembersAre
<1>2. \A j, l \in members : numbers[j] = numbers[l] => j = l
  <2>1. \A j, l \in members : in.cards[j].id = in.cards[l].id => j = l
      BY MembersAre
  <2> HIDE DEF members
  <2> QED
      BY <2>1
<1>3. IsFiniteSet(members)
    BY MembersAre
<1>4. \A i : i \in MembersOf(net, in, target) <=> \E j \in members : i = in.cards[j].id
    BY MembersAre
<1> HIDE DEF members
<1>5. \A j \in members : known[j] = net[in.cards[j].id]
    BY DEF ByPlace
<1>6. due = {numbers[j] : j \in dues}
  <2>1. ASSUME NEW i \in due PROVE i \in {numbers[j] : j \in dues}
    <3>1. PICK j \in members : i = in.cards[j].id
        BY <1>4, <2>1 DEF DuesFrom
    <3>2. AssetById(in.cards, i) = in.cards[j]
        BY <1>1, <3>1
    <3>3. j \in dues
        BY <1>5, <2>1, <3>1, <3>2 DEF DuesFrom, DueMembers
    <3> QED
        BY <3>1, <3>3
  <2>2. ASSUME NEW j \in dues PROVE numbers[j] \in due
    <3>1. j \in members
        BY <2>2 DEF DueMembers
    <3>2. AssetById(in.cards, in.cards[j].id) = in.cards[j]
        BY <1>1, <3>1
    <3>3. in.cards[j].id \in MembersOf(net, in, target)
        BY <1>4, <3>1
    <3> QED
        BY <1>5, <2>2, <3>1, <3>2, <3>3 DEF DuesFrom, DueMembers
  <2> QED
      BY <2>1, <2>2
<1>7. dues \subseteq members /\ IsFiniteSet(dues)
  <2>1. dues \subseteq members
      BY DEF DueMembers
  <2> QED
      BY <1>3, <2>1, FS_Subset
<1>8. SumFunctionOnSet(net, due) = SumFunctionOnSet(known, dues)
  <2>1. \A j \in dues : net[numbers[j]] \in Int
      BY <1>1, <1>7
  <2>2. \A j, l \in dues : numbers[j] = numbers[l] => j = l
      BY <1>2, <1>7
  <2>3. \A j \in dues : known[j] = net[numbers[j]]
      BY <1>5, <1>7
  <2> DEFINE f == [j \in dues |-> net[numbers[j]]]
  <2> HIDE DEF dues, known, numbers
  <2>4. SumFunctionOnSet(net, {numbers[j] : j \in dues}) = SumFunctionOnSet(f, dues)
      BY <1>7, <2>1, <2>2, SumRenamed
  <2>5. SumFunctionOnSet(known, dues) = SumFunctionOnSet(f, dues)
    <3>1. \A j \in dues : known[j] \in Int /\ known[j] = f[j]
        BY <2>1, <2>3
    <3> HIDE DEF f
    <3> QED
        BY <1>7, <3>1, SumOfSame
  <2> HIDE DEF f, due
  <2> QED
      BY <1>6, <2>4, <2>5
<1>9. AmountFrom(net, in, id, p) =
          WorkloadAmount(net[id], id \in due, TotalAmortization(d),
                         PoolNetValue(d, SumFunctionOnSet(net, due)))
  <2>1. AssetById(in.cards, id) = in.cards[k] /\ WorkloadTarget(in.cards[k]) = target
      BY <1>1 DEF members
  <2>2. id \in MembersOf(net, in, target)
      BY <1>4 DEF members
  <2> QED
      BY <2>1, <2>2 DEF AmountFrom, WorkloadAmounts
<1>10. id \in due <=> k \in dues
  <2>1. k \in members /\ numbers[k] = id
      BY DEF members
  <2>2. ASSUME id \in due PROVE k \in dues
    <3>1. PICK j \in dues : id = numbers[j]
        BY <1>6, <2>2
    <3> QED
        BY <1>2, <1>7, <2>1, <3>1
  <2>3. ASSUME k \in dues PROVE id \in due
      BY <1>6, <2>1, <2>3
  <2> QED
      BY <2>2, <2>3
<1>11. WorkloadAmounts(members, known, dues, d)[k] =
          WorkloadAmount(known[k], k \in dues, TotalAmortization(d),
                         PoolNetValue(d, SumFunctionOnSet(known, dues)))
    BY DEF WorkloadAmounts, members
<1>12. known[k] = net[id]
    BY <1>5 DEF members
<1>13. (id \in due) = (k \in dues)
    BY <1>10
<1>14. AmountFrom(net, in, id, p) = WorkloadAmounts(members, known, dues, d)[k]
  <2> HIDE DEF known, dues, due, d, id
  <2> QED
      BY <1>8, <1>9, <1>11, <1>12, <1>13
<1> QED
    BY <1>14 DEF members

\* Pool by pool (_forecast_workload_assets).
LEMMA PooledDirect ==
    ASSUME BookInv, NEW in, NEW n, InputAfter(in, n), NEW period \in ForecastMonths,
           NEW k \in Pooled(in.cards)
    PROVE  PooledAt(in, in.cards[k], period)
             = AmountFrom(Trail(in, "WORKLOAD", None)[period], in, in.cards[k].id, period)
<1> DEFINE target == WorkloadTarget(in.cards[k])
           members == PoolOf(in, target)
           t == Trail(in, "WORKLOAD", None)
           P == IdsOf(in.cards, Pooled(in.cards))
           Nets(before) == [i \in members |-> before[i].net]
           Charge(net, p) == WorkloadAmounts(members, net, DueMembers(in, members, net, p),
                                             Driver(in.drivers, "WORKLOAD", target, p))
           Month(net, p) == [i \in members |-> [amount |-> Charge(net, p)[i],
                                                net |-> net[i] - Charge(net, p)[i]]]
           opening == [i \in members |-> [amount |-> 0, net |-> CardNet(in.cards[i])]]
           Loop(f) == [p \in (FutureStart - 1)..period |->
                         IF p < FutureStart THEN opening ELSE Month(Nets(f[p - 1]), p)]
           forward == CHOOSE f : f = Loop(f)
           Share(p, i) == AmountFrom(t[p], in, in.cards[i].id, p)
           Shares(p) == [i \in members |-> [amount |-> Share(p, i),
                                            net |-> t[p][in.cards[i].id] - Share(p, i)]]
           Known(p) == ByPlace(in, t[p], members)
           g == [p \in (FutureStart - 1)..period |->
                   IF p < FutureStart THEN opening ELSE Shares(p)]
<1>1. PooledAt(in, in.cards[k], period)
        = forward[period][CardIndex(in.cards, in.cards[k].id)].amount
    BY DEF PooledAt, PooledMonths, DueMembers
<1>2. /\ FutureStart \in Int /\ End \in Int /\ period \in Int
      /\ FutureStart <= period /\ period <= End
      /\ ForecastMonths = FutureStart..End /\ FutureStart \in ForecastMonths
    BY BookIs DEF ForecastMonths
<1>3. /\ t[FutureStart] = [i \in P |-> CardNet(AssetById(in.cards, i))]
      /\ \A p \in ForecastMonths : t[p + 1] = After(in, "WORKLOAD", None, p, t[p])
  <2>1. IsTrail(t, in, "WORKLOAD", None)
      BY TrailExists
  <2>2. t[FirstMonth("WORKLOAD")] = StartOf(in, "WORKLOAD", None)
      BY <2>1 DEF IsTrail
  <2>3. \A p \in MonthsOf("WORKLOAD") :
            t[NextMonth("WORKLOAD", p)] = After(in, "WORKLOAD", None, p, t[p])
      BY <2>1 DEF IsTrail
  <2> HIDE DEF t
  <2> QED
      BY <2>2, <2>3 DEF FirstMonth, StartOf, NextMonth, MonthsOf
<1>4. \A p \in ForecastMonths : t[p] \in [P -> Int]
    BY PoolTrail
<1>5. \A i \in members : /\ in.cards[i].id \in P
                         /\ AssetById(in.cards, in.cards[i].id) = in.cards[i]
  <2>1. t[FutureStart] \in [P -> Int]
      BY <1>2, <1>4
  <2>2. \A i \in members : /\ in.cards[i].id \in DOMAIN t[FutureStart]
                           /\ AssetById(in.cards, in.cards[i].id) = in.cards[i]
    <3> HIDE DEF t
    <3> QED
        BY <2>1, MembersAre
  <2> HIDE DEF t, P, members
  <2> QED
      BY <2>1, <2>2
<1>6. \A p \in ForecastMonths, i \in members : Charge(Known(p), p)[i] = Share(p, i)
  <2> HIDE DEF t
  <2> QED
      BY <1>4, PlaceAmounts
<1>7. k \in members /\ CardIndex(in.cards, in.cards[k].id) = k
  <2>1. k \in members
      BY DEF PoolOf, Pooled, Included
  <2>2. t[FutureStart] \in [P -> Int]
      BY <1>2, <1>4
  <2> HIDE DEF t
  <2> QED
      BY <2>1, <2>2, MembersAre
<1> HIDE DEF t, P, members, Charge, Share
<1>8. Nets(opening) = Known(FutureStart)
    BY <1>3, <1>5 DEF ByPlace
<1>9. ASSUME NEW p \in ForecastMonths PROVE Month(Known(p), p) = Shares(p)
    BY <1>6 DEF ByPlace
<1>10. ASSUME NEW p \in ForecastMonths PROVE Nets(Shares(p)) = Known(p + 1)
  <2>1. t[p] \in [P -> Int]
      BY <1>4
  <2>2. t[p + 1] = [i \in P |-> t[p][i] - AmountFrom(t[p], in, i, p)]
      BY <1>3, <2>1 DEF After
  <2>3. \A i \in members : t[p + 1][in.cards[i].id] = t[p][in.cards[i].id] - Share(p, i)
      BY <1>5, <2>2 DEF Share
  <2> QED
      BY <2>3 DEF ByPlace
<1>11. Shares(period)[k].amount = Share(period, k)
    BY <1>7
<1> HIDE DEF Nets, Month, Known, Shares, opening
<1>12. g = Loop(g)
  <2>1. ASSUME NEW p \in (FutureStart - 1)..period, ~(p < FutureStart)
        PROVE  Month(Nets(g[p - 1]), p) = Shares(p)
    <3>1. p \in ForecastMonths /\ p \in Int
        BY <1>2, <2>1
    <3>2. Nets(g[p - 1]) = Known(p)
      <4>1. CASE p = FutureStart
        <5>1. g[p - 1] = opening
            BY <1>2, <4>1
        <5> QED
            BY <1>8, <4>1, <5>1
      <4>2. CASE p # FutureStart
        <5>1. /\ p - 1 \in (FutureStart - 1)..period /\ ~(p - 1 < FutureStart)
              /\ p - 1 \in ForecastMonths /\ (p - 1) + 1 = p
            BY <1>2, <2>1, <4>2
        <5>2. g[p - 1] = Shares(p - 1)
            BY <5>1
        <5> QED
            BY <1>10, <5>1, <5>2
      <4> QED
          BY <4>1, <4>2
    <3> QED
        BY <1>9, <3>1, <3>2
  <2>2. \A p \in (FutureStart - 1)..period :
            g[p] = IF p < FutureStart THEN opening ELSE Month(Nets(g[p - 1]), p)
      BY <2>1
  <2> QED
      BY <2>2
<1>13. forward = Loop(forward)
    BY <1>12
<1> HIDE DEF forward, g
<1>14. \A p \in (FutureStart - 1)..period :
           forward[p] = IF p < FutureStart THEN opening
                                           ELSE Month(Nets(forward[p - 1]), p)
    BY <1>13
<1> DEFINE Q == {p \in Int : p > period \/ Nets(forward[p - 1]) = Known(p)}
<1>15. MonthsOf("WORKLOAD") \subseteq Q
  <2>1. FirstMonth("WORKLOAD") \in Q
    <3>1. forward[FutureStart - 1] = opening
        BY <1>2, <1>14
    <3>2. FutureStart \in Q
        BY <1>2, <1>8, <3>1
    <3> QED
        BY <3>2 DEF FirstMonth
  <2>2. ASSUME NEW p \in MonthsOf("WORKLOAD"), p \in Q
        PROVE  NextMonth("WORKLOAD", p) \in Q
    <3>1. p \in ForecastMonths /\ p \in Int /\ FutureStart <= p
        BY <1>2, <2>2 DEF MonthsOf
    <3>2. p + 1 \in Q
      <4>1. CASE p >= period
          BY <3>1, <4>1, <1>2
      <4>2. CASE ~(p >= period)
        <5>1. p \in (FutureStart - 1)..period /\ ~(p < FutureStart)
            BY <1>2, <3>1, <4>2
        <5>2. forward[p] = Month(Nets(forward[p - 1]), p)
            BY <1>14, <5>1
        <5>3. Nets(forward[p - 1]) = Known(p)
            BY <2>2, <4>2, <1>2, <3>1
        <5>4. forward[p] = Shares(p)
            BY <1>9, <3>1, <5>2, <5>3
        <5>5. (p + 1) - 1 = p /\ p + 1 \in Int
            BY <3>1
        <5> QED
            BY <1>10, <3>1, <5>4, <5>5
      <4> QED
          BY <4>1, <4>2
    <3> QED
        BY <3>2 DEF NextMonth
  <2> HIDE DEF Q
  <2> QED
      BY <2>1, <2>2, MonthByMonth
<1>16. forward[period] = Shares(period)
  <2>1. period \in Q
      BY <1>15 DEF MonthsOf
  <2>2. Nets(forward[period - 1]) = Known(period)
      BY <1>2, <2>1
  <2>3. period \in (FutureStart - 1)..period /\ ~(period < FutureStart)
      BY <1>2
  <2> QED
      BY <1>9, <1>14, <2>2, <2>3
<1> QED
    BY <1>1, <1>7, <1>11, <1>16 DEF Share, t

\* What every month finds is an amount, or a work record.
LEMMA TrailTyped ==
    ASSUME BookInv, NEW in, NEW n, InputAfter(in, n), NEW job \in JobsDue(in)
    PROVE  /\ job.kind \in {"HISTORY", "PLANNED"} => FoundIn(in, job) \in Int
           /\ job.kind = "EXISTING" => IsWork(FoundIn(in, job))
<1> DEFINE kind == job.kind
           id == job.id
           a == AssetById(in.cards, id)
           planned == AssetById(in.planned, id)
           t == Trail(in, kind, id)
           Values == IF kind = "EXISTING" THEN [acc : Int, imp : Int, disposed : {FALSE}]
                                          ELSE Int
           Q == {q \in Int : t[q] \in Values}
<1>1. IsTrail(t, in, kind, id)
    BY TrailExists
<1>2. /\ t[FirstMonth(kind)] = StartOf(in, kind, id)
      /\ \A q \in MonthsOf(kind) : t[NextMonth(kind, q)] = After(in, kind, id, q, t[q])
    BY <1>1 DEF IsTrail
<1> HIDE DEF t
<1>3. AreDrivers(in.drivers) /\ AreImpairments(in.events)
    BY DEF InputAfter
<1>4. FirstMonth(kind) \in Int /\ MonthsOf(kind) \subseteq Int
      /\ \A q \in MonthsOf(kind) : NextMonth(kind, q) \in Int
    BY BookIs, MonthsInt DEF FirstMonth, MonthsOf, NextMonth
<1>5. \A q \in MonthsOf(kind) : q \in Int
    BY <1>4
<1>6. kind \in {"HISTORY", "EXISTING"} =>
          /\ IsCard(a) /\ a.inService \in Int /\ IsPolicy(PolicyFor(a))
  <2>1. kind \in {"HISTORY", "EXISTING"} => IsCard(a) /\ Depreciable(book.model, a)
      BY JobOfKind, CardOfJob
  <2> HIDE DEF a
  <2> QED
      BY <2>1, PolicyOfDepreciable
<1>7. kind = "PLANNED" =>
          /\ IsCard(planned) /\ planned.inService \in Int /\ IsPolicy(PolicyFor(planned))
          /\ PolicyFor(planned).residual = 0
  <2>1. kind = "PLANNED" => /\ IsCard(planned) /\ Depreciable(book.model, planned)
                            /\ planned.residual = None
      BY JobOfKind, CardOfJob
  <2> HIDE DEF planned
  <2> QED
      BY <2>1, PolicyOfDepreciable
<1> HIDE DEF a, planned
<1>8. ASSUME NEW q \in MonthsOf(kind), NEW s \in Values,
             kind \in {"HISTORY", "EXISTING", "PLANNED"}
      PROVE  After(in, kind, id, q, s) \in Values
  <2>1. CASE kind = "HISTORY"
    <3>1. HistoricalLaw(a, q, s, HistoricalMonth(a, PolicyFor(a), q, s, in.drivers))
        BY <1>3, <1>5, <1>6, <1>8, <2>1, HistoricalMonthIs
    <3>2. After(in, kind, id, q, s)
            = HistoricalMonth(a, PolicyFor(a), q, s, in.drivers).carried
        BY <2>1 DEF After, a
    <3> QED
        BY <2>1, <3>1, <3>2 DEF HistoricalLaw
  <2>2. CASE kind = "EXISTING"
    <3>1. IsWork(s)
        BY <1>8, <2>2 DEF IsWork
    <3>2. ExistingLaw(a, PolicyFor(a), q, s, in.events, in.drivers,
                      ExistingMonth(a, PolicyFor(a), q, s, in.events, in.drivers))
        BY <1>3, <1>5, <1>6, <2>2, <3>1, ExistingMonthIs
    <3>3. After(in, kind, id, q, s)
            = ExistingMonth(a, PolicyFor(a), q, s, in.events, in.drivers).work
        BY <2>2 DEF After, a
    <3> QED
        BY <2>2, <3>2, <3>3 DEF ExistingLaw, IsWork
  <2>3. CASE kind = "PLANNED"
    <3>1. PlannedLaw(planned, PolicyFor(planned), s,
                     PlannedMonth(planned, PolicyFor(planned), q, s))
        BY <1>5, <1>7, <1>8, <2>3, PlannedMonthIs
    <3>2. After(in, kind, id, q, s)
            = s + PlannedMonth(planned, PolicyFor(planned), q, s).amount
        BY <2>3 DEF After, planned
    <3> QED
        BY <1>8, <2>3, <3>1, <3>2 DEF PlannedLaw
  <2> QED
      BY <1>8, <2>1, <2>2, <2>3
<1>9. kind \in {"HISTORY", "EXISTING", "PLANNED"} => StartOf(in, kind, id) \in Values
  <2>1. CASE kind = "HISTORY"
      BY <1>6, <2>1 DEF StartOf, HistoryStart, IsCard, a
  <2>2. CASE kind = "EXISTING"
    <3>1. IsWork(OpeningWork(a, PolicyFor(a), FutureStart))
        BY <1>6, <2>2, BookIs, OpeningWorkIs
    <3> QED
        BY <2>2, <3>1 DEF StartOf, IsWork, a
  <2> QED
      BY <2>1, <2>2 DEF StartOf
<1>10. job.kind \in {"HISTORY", "EXISTING", "PLANNED"} => job.period \in MonthsOf(kind)
    BY JobOfKind DEF MonthsOf
<1>11. kind \in {"HISTORY", "EXISTING", "PLANNED"} => MonthsOf(kind) \subseteq Q
  <2> SUFFICES ASSUME kind \in {"HISTORY", "EXISTING", "PLANNED"}
               PROVE  MonthsOf(kind) \subseteq Q
      OBVIOUS
  <2>1. FirstMonth(kind) \in Q
      BY <1>2, <1>4, <1>9
  <2>2. ASSUME NEW q \in MonthsOf(kind), q \in Q PROVE NextMonth(kind, q) \in Q
      BY <1>2, <1>4, <1>8, <2>2
  <2> HIDE DEF Q, kind
  <2> QED
      BY <2>1, <2>2, MonthByMonth
<1>12. FoundIn(in, job) = t[job.period]
    BY DEF FoundIn, t
<1> QED
    BY <1>10, <1>11, <1>12 DEF IsWork

\* The lines an input leads to are lines as the views find them.
LEMMA DirectAmounts ==
    ASSUME BookInv, NEW in, InputAfter(in, MaxAssumptions),
           NEW job \in JobsDue(in), NEW i \in AssetsOf(job, in)
    PROVE  Amounts(LineDue(in, job, i)) \subseteq Int
<1> DEFINE l == LineDue(in, job, i)
           s == FoundIn(in, job)
           p == job.period
           a == AssetById(in.cards, i)
           planned == AssetById(in.planned, i)
           Figs(m) == {m.opening, m.addition, m.disposal, m.impairment,
                          m.amount, m.closing}
<1>0. SUFFICES Amounts(l) \subseteq Int
    OBVIOUS
<1>1. CASE job.kind = "SNAPSHOT"
  <2>1. i \in IdsOf(book.cards, DOMAIN book.cards)
      BY <1>1 DEF AssetsOf
  <2>2. PICK k \in DOMAIN book.cards : AssetById(book.cards, i) = book.cards[k]
      BY <2>1, BookIs, FoundById DEF IdsOf
  <2>3. l = SnapshotLine(book.workbook, book.cards[k])
      BY <1>1, <2>2 DEF LineDue, LineFrom
  <2> QED
      BY <2>3, SnapshotLineIs
<1>2. AreDrivers(in.drivers) /\ AreImpairments(in.events)
    BY DEF InputAfter
<1>3. job.kind \in {"HISTORY", "EXISTING"} =>
          /\ i = job.id /\ p \in Int
          /\ IsCard(a) /\ a.inService \in Int /\ IsPolicy(PolicyFor(a))
  <2>1. job.kind \in {"HISTORY", "EXISTING"} =>
            i = job.id /\ p \in Int /\ IsCard(a) /\ Depreciable(book.model, a)
      BY JobOfKind, CardOfJob, MonthsInt DEF AssetsOf
  <2> HIDE DEF a, p
  <2> QED
      BY <2>1, PolicyOfDepreciable
<1>4. CASE job.kind = "HISTORY"
  <2> DEFINE m == HistoricalMonth(a, PolicyFor(a), p, s, in.drivers)
  <2>1. s \in Int
      BY <1>4, TrailTyped
  <2>2. HistoricalLaw(a, p, s, m)
    <3> HIDE DEF a, p, s
    <3> QED
        BY <1>2, <1>3, <1>4, <2>1, HistoricalMonthIs
  <2>3. l = Line("HISTORY", "CURRENT", a, p, m)
      BY <1>4 DEF LineDue, LineFrom
  <2> HIDE DEF m, l, s
  <2>4. Amounts(l) = Figs(m)
      BY <2>3, LineIs
  <2> QED
      BY <2>2, <2>4 DEF HistoricalLaw
<1>5. CASE job.kind = "EXISTING"
  <2> DEFINE m == ExistingMonth(a, PolicyFor(a), p, s, in.events, in.drivers)
  <2>1. IsWork(s)
      BY <1>5, TrailTyped
  <2>2. ExistingLaw(a, PolicyFor(a), p, s, in.events, in.drivers, m)
    <3> HIDE DEF a, p, s
    <3> QED
        BY <1>2, <1>3, <1>5, <2>1, ExistingMonthIs
  <2>3. l = Line("FORECAST", "CURRENT", a, p, m)
      BY <1>5 DEF LineDue, LineFrom
  <2> HIDE DEF m, l, s
  <2>4. Amounts(l) = Figs(m)
      BY <2>3, LineIs
  <2>5. a.cost \in Int /\ s.acc \in Int /\ s.imp \in Int
    <3> HIDE DEF a
    <3> QED
        BY <1>3, <1>5, <2>1 DEF IsCard, IsWork
  <2> HIDE DEF a
  <2> QED
      BY <2>2, <2>4, <2>5 DEF ExistingLaw
<1>6. CASE job.kind = "WORKLOAD"
  <2> DEFINE share == AmountFrom(s, in, i, p)
             m == [opening |-> s[i], addition |-> 0, disposal |-> 0, impairment |-> 0,
                   amount |-> share, closing |-> s[i] - share]
  <2>1. /\ i \in IdsOf(in.cards, Pooled(in.cards)) /\ p \in ForecastMonths
        /\ job = Job("WORKLOAD", None, p)
      BY <1>6, JobOfKind DEF AssetsOf
  <2>2. s \in [IdsOf(in.cards, Pooled(in.cards)) -> Int]
    <3>1. s = Trail(in, "WORKLOAD", None)[p]
        BY <2>1 DEF FoundIn, Job
    <3> QED
        BY <2>1, <3>1, PoolTrail
  <2>3. share \in 0..Greater(s[i], 0)
    <3>1. i \in DOMAIN s
        BY <2>1, <2>2
    <3> HIDE DEF s, p
    <3> QED
        BY <2>2, <3>1, ShareIs
  <2>4. l = Line("FORECAST", "CURRENT", a, p, m)
      BY <1>6 DEF LineDue, LineFrom, PoolLine
  <2> HIDE DEF l, s, share
  <2>5. Amounts(l) = Figs(m)
      BY <2>4, LineIs
  <2>6. s[i] \in Int /\ share \in Int
      BY <2>1, <2>2, <2>3
  <2> QED
      BY <2>5, <2>6
<1>7. CASE job.kind = "PLANNED"
  <2> DEFINE m == PlannedMonth(planned, PolicyFor(planned), p, s)
  <2>1. s \in Int
      BY <1>7, TrailTyped
  <2>2. /\ p \in Int /\ IsCard(planned) /\ Depreciable(book.model, planned)
        /\ planned.residual = None
      BY <1>7, JobOfKind, CardOfJob, MonthsInt DEF AssetsOf
  <2>3. l = Line("FORECAST", "PLANNED", planned, p, m)
      BY <1>7 DEF LineDue, LineFrom
  <2> HIDE DEF planned, p, s, l
  <2>4. planned.inService \in Int /\ IsPolicy(PolicyFor(planned))
        /\ PolicyFor(planned).residual = 0
      BY <2>2, PolicyOfDepreciable
  <2>5. PlannedLaw(planned, PolicyFor(planned), s, m)
      BY <2>1, <2>2, <2>4, PlannedMonthIs
  <2>6. planned.cost \in Int
      BY <2>2 DEF IsCard
  <2> HIDE DEF m
  <2>7. Amounts(l) = Figs(m)
      BY <2>3, LineIs
  <2> QED
      BY <2>1, <2>5, <2>6, <2>7 DEF PlannedLaw
<1> HIDE DEF l
<1> QED
    BY <1>1, <1>4, <1>5, <1>6, <1>7, JobOfKind DEF l

LEMMA DirectLinesAre ==
    ASSUME BookInv, NEW in, InputAfter(in, MaxAssumptions)
    PROVE  AreLines(DirectLines(in))
<1>1. ASSUME NEW l \in DirectLines(in) PROVE Amounts(l) \subseteq Int
  <2>1. /\ JobOf(l) \in JobsDue(in) /\ l.id \in AssetsOf(JobOf(l), in)
        /\ l = LineDue(in, JobOf(l), l.id)
      BY LineOfInput
  <2>2. Amounts(LineDue(in, JobOf(l), l.id)) \subseteq Int
      BY <2>1, DirectAmounts
  <2> QED
      BY <2>1, <2>2
<1> QED
    BY <1>1, FiniteLines, LineNumbers, LineOfInput DEF AreLines

\* The lines a trial sees: without those the ledger adds to a forecast that
\* does not go around its month.
Seen(l) == SpansSnapshot \/ l.kind # "SNAPSHOT"

\* The job that writes the line of the k-th card in a month, and that line.
CardJob(in, k, p) ==
    IF SpansSnapshot /\ p = Snapshot THEN Job("SNAPSHOT", None, Snapshot)
    ELSE IF p < FutureStart THEN Job("HISTORY", in.cards[k].id, p)
    ELSE IF k \in Pooled(in.cards) THEN Job("WORKLOAD", None, p)
    ELSE Job("EXISTING", in.cards[k].id, p)

CardLine(in, k, p) == LineDue(in, CardJob(in, k, p), in.cards[k].id)

PlannedLine(in, k, p) ==
    LineDue(in, Job("PLANNED", in.planned[k].id, p), in.planned[k].id)

\* Which cards and which planned assets have a line in a month.
CardsIn(in, p) ==
    IF SpansSnapshot /\ p = Snapshot THEN DOMAIN in.cards
    ELSE IF p \in Start..End THEN Included(in.cards) ELSE {}

PlannedIn(in, p) == IF p \in FutureStart..End THEN Included(in.planned) ELSE {}

\* The months of a trial, whether the forecast goes around the ledger month
\* or not.
LEMMA TrialMonths ==
    ASSUME BookInv
    PROVE  /\ \A p \in HistoryMonths : /\ p \in Start..End /\ p < FutureStart
                                       /\ ~(SpansSnapshot /\ p = Snapshot)
           /\ \A p \in ForecastMonths : /\ p \in Start..End /\ ~(p < FutureStart)
                                        /\ ~(SpansSnapshot /\ p = Snapshot)
           /\ \A p \in Start..End : \/ p \in HistoryMonths
                                     \/ p \in ForecastMonths
                                     \/ (SpansSnapshot /\ p = Snapshot)
           /\ Start..End \subseteq Int /\ Snapshot \in Int
<1>1. Start \in Int /\ End \in Int /\ Snapshot \in Int
    BY BookIs
<1>2. CASE SpansSnapshot
  <2>1. /\ HistoryMonths = Start..(Snapshot - 1) /\ FutureStart = Snapshot + 1
        /\ ForecastMonths = (Snapshot + 1)..End
        /\ Start < Snapshot /\ Snapshot <= End
      BY <1>2 DEF HistoryMonths, ForecastMonths, FutureStart, SpansSnapshot
  <2> QED
      BY <1>1, <1>2, <2>1
<1>3. CASE ~SpansSnapshot
  <2>1. HistoryMonths = {} /\ FutureStart = Start /\ ForecastMonths = Start..End
      BY <1>3 DEF HistoryMonths, ForecastMonths, FutureStart
  <2> QED
      BY <1>1, <1>3, <2>1
<1> QED
    BY <1>2, <1>3

LEMMA PartsOfCards ==
    ASSUME BookInv, NEW in, NEW n, InputAfter(in, n)
    PROVE  /\ \A k \in DOMAIN in.cards :
                 /\ CardIndex(in.cards, in.cards[k].id) = k
                 /\ AssetById(in.cards, in.cards[k].id) = in.cards[k]
                 /\ IsCard(in.cards[k]) /\ SameAsset(in.cards[k], book.cards[k])
                 /\ AssetById(book.cards, in.cards[k].id) = book.cards[k]
                 /\ k \in DOMAIN book.cards
                 /\ k \in Included(in.cards) <=> Depreciable(book.model, in.cards[k])
                 /\ k \in Pooled(in.cards) <=>
                       k \in Included(in.cards) /\ MethodOf(in.cards[k]) = "WORKLOAD"
                 /\ k \in Single(in.cards) <=>
                       k \in Included(in.cards) /\ k \notin Pooled(in.cards)
           /\ Single(in.cards) \subseteq DOMAIN in.cards
           /\ Pooled(in.cards) \subseteq Included(in.cards)
           /\ Included(in.cards) \subseteq DOMAIN in.cards
           /\ \A k \in DOMAIN in.planned :
                 /\ AssetById(in.planned, in.planned[k].id) = in.planned[k]
                 /\ IsCard(in.planned[k]) /\ in.planned[k].residual = None
                 /\ k \in Included(in.planned) <=> Depreciable(book.model, in.planned[k])
           /\ Included(in.planned) \subseteq DOMAIN in.planned
<1>1. /\ AreCards(in.cards) /\ DOMAIN in.cards = DOMAIN book.cards
      /\ \A k \in DOMAIN in.cards : SameAsset(in.cards[k], book.cards[k])
      /\ AreCards(in.planned) /\ Distinct(in.planned)
      /\ \A k \in DOMAIN in.planned : in.planned[k].residual = None
    BY DEF InputAfter
<1>2. Distinct(in.cards)
    BY InputCards
<1>3. \A k \in DOMAIN in.cards :
         /\ CardIndex(in.cards, in.cards[k].id) = k
         /\ AssetById(in.cards, in.cards[k].id) = in.cards[k]
    BY <1>1, <1>2, FoundById
<1>4. \A k \in DOMAIN in.planned :
         AssetById(in.planned, in.planned[k].id) = in.planned[k]
    BY <1>1, FoundById
<1>5. \A k \in DOMAIN book.cards :
         /\ in.cards[k].id = book.cards[k].id
         /\ AssetById(book.cards, book.cards[k].id) = book.cards[k]
    BY SameParts
<1> QED
    BY <1>1, <1>3, <1>4, <1>5 DEF AreCards, Included, Pooled, Single

LEMMA CardJobIs ==
    ASSUME BookInv, NEW in, InputAfter(in, MaxAssumptions),
           NEW p, NEW k \in CardsIn(in, p)
    PROVE  /\ CardJob(in, k, p) \in JobsDue(in)
           /\ in.cards[k].id \in AssetsOf(CardJob(in, k, p), in)
           /\ CardJob(in, k, p).kind # "PLANNED" /\ CardJob(in, k, p).period = p
<1> DEFINE i == in.cards[k].id
<1> DEFINE around == SpansSnapshot /\ p = Snapshot
<1>1. k \in DOMAIN in.cards /\ (~around => k \in Included(in.cards))
    BY PartsOfCards DEF CardsIn
<1>2. /\ (p \in HistoryMonths \/ around \/ p \in ForecastMonths)
      /\ p \in HistoryMonths => p < FutureStart /\ ~around
      /\ p \in ForecastMonths => ~(p < FutureStart) /\ ~around
    BY TrialMonths DEF CardsIn
<1>3. CASE around
  <2>1. CardJob(in, k, p) = Job("SNAPSHOT", None, Snapshot)
      BY <1>3 DEF CardJob
  <2>2. i = book.cards[k].id /\ k \in DOMAIN book.cards
      BY <1>1, SameParts DEF InputAfter
  <2> QED
      BY <1>3, <2>1, <2>2 DEF JobsDue, SnapshotDue, AssetsOf, Job, IdsOf
<1>4. CASE p \in HistoryMonths
  <2>1. CardJob(in, k, p) = Job("HISTORY", i, p)
      BY <1>2, <1>4 DEF CardJob
  <2>2. i \in IdsOf(in.cards, Included(in.cards))
      BY <1>1, <1>2, <1>4 DEF IdsOf
  <2>3. Job("HISTORY", i, p) \in HistoryDue(in)
      BY <1>4, <2>2, DueMeans
  <2> QED
      BY <2>1, <2>3 DEF JobsDue, AssetsOf, Job
<1>5. CASE p \in ForecastMonths /\ k \in Pooled(in.cards)
  <2>1. CardJob(in, k, p) = Job("WORKLOAD", None, p)
      BY <1>2, <1>5 DEF CardJob
  <2>2. i \in IdsOf(in.cards, Pooled(in.cards)) /\ Pooled(in.cards) # {}
      BY <1>5 DEF IdsOf
  <2>3. Job("WORKLOAD", None, p) \in PoolDue(in)
      BY <1>5, <2>2 DEF PoolDue
  <2> QED
      BY <2>1, <2>2, <2>3 DEF JobsDue, AssetsOf, Job
<1>6. CASE p \in ForecastMonths /\ k \notin Pooled(in.cards)
  <2>1. CardJob(in, k, p) = Job("EXISTING", i, p)
      BY <1>2, <1>6 DEF CardJob
  <2>2. i \in IdsOf(in.cards, Single(in.cards))
      BY <1>1, <1>2, <1>6 DEF IdsOf, Single
  <2>3. Job("EXISTING", i, p) \in ExistingDue(in)
      BY <1>6, <2>2, DueMeans
  <2> QED
      BY <2>1, <2>3 DEF JobsDue, AssetsOf, Job
<1> QED
    BY <1>2, <1>3, <1>4, <1>5, <1>6

\* What the line of a card and the card have in common.
LineOfAsset(l, a) ==
    /\ l.id = a.id /\ l.company = a.company
    /\ l.department = a.department /\ l.category = a.category

LEMMA LineOfAssetIs ==
    ASSUME NEW kind, NEW source, NEW a, NEW period, NEW m
    PROVE  LineOfAsset(Line(kind, source, a, period, m), a)
BY DEF Line, LineOfAsset

\* The line of a card in a month has the amount that is computed directly.
LEMMA CardLineIs ==
    ASSUME BookInv, NEW in, InputAfter(in, MaxAssumptions),
           NEW p, NEW k \in CardsIn(in, p)
    PROVE  LET l == CardLine(in, k, p)
           IN  /\ l \in DirectLines(in) /\ Seen(l)
               /\ l.period = p /\ l.source = "CURRENT"
               /\ LineOfAsset(l, in.cards[k])
               /\ l.amount = AmountAt(in, in.cards[k], p)
<1> DEFINE c == in.cards[k]
           i == c.id
           job == CardJob(in, k, p)
           l == CardLine(in, k, p)
           around == SpansSnapshot /\ p = Snapshot
<1>1. /\ job \in JobsDue(in) /\ i \in AssetsOf(job, in)
      /\ job.kind # "PLANNED" /\ job.period = p
    BY CardJobIs
<1>2. /\ k \in DOMAIN in.cards /\ (~around => k \in Included(in.cards))
      /\ AssetById(in.cards, i) = c
      /\ ~around => Depreciable(book.model, c) /\ p \in Start..End
      /\ k \in Pooled(in.cards) <=>
            k \in Included(in.cards) /\ MethodOf(c) = "WORKLOAD"
      /\ SameAsset(c, book.cards[k]) /\ k \in DOMAIN book.cards
      /\ AssetById(book.cards, i) = book.cards[k]
    BY PartsOfCards DEF CardsIn
<1>3. /\ (p \in HistoryMonths \/ around \/ p \in ForecastMonths)
      /\ p \in HistoryMonths => p < FutureStart /\ ~around
      /\ p \in ForecastMonths => ~(p < FutureStart) /\ ~around
    BY TrialMonths DEF CardsIn
<1>4. l \in DirectLines(in)
    BY <1>1 DEF DirectLines, CardLine
<1>5. l.id = i /\ JobOf(l) = job
  <2>1. l = LineFrom(in, job.kind, i, job.period, FoundIn(in, job))
      BY DEF LineDue, CardLine
  <2> HIDE DEF job, i, l
  <2> QED
      BY <1>1, <2>1, LineFromIs
<1>6. l.source = "CURRENT"
    BY <1>1, SourceIs DEF CardLine
<1>7. l.period = p
    BY <1>1, <1>5 DEF JobOf, Job
<1>9. Seen(l)
  <2>1. CASE around
      BY <2>1 DEF Seen
  <2>2. CASE ~around
    <3>1. job.kind # "SNAPSHOT"
        BY <1>3, <2>2 DEF CardJob, Job
    <3> HIDE DEF job, l
    <3> QED
        BY <1>5, <3>1 DEF JobOf, Job, Seen
  <2> QED
      BY <2>1, <2>2
<1>8. LineOfAsset(l, c) /\ l.amount = AmountAt(in, c, p)
  <2>1. CASE around
    <3>1. job.kind = "SNAPSHOT"
        BY <2>1 DEF CardJob, Job
    <3>2. l = SnapshotLine(book.workbook, book.cards[k])
        BY <1>2, <3>1 DEF LineDue, LineFrom, CardLine
    <3>3. LineOfAsset(l, book.cards[k]) /\ l.amount = book.cards[k].snapDep
        BY <3>2 DEF SnapshotLine, LineOfAsset
    <3>4. /\ c.id = book.cards[k].id /\ c.company = book.cards[k].company
          /\ c.department = book.cards[k].department
          /\ c.category = book.cards[k].category /\ c.snapDep = book.cards[k].snapDep
        BY <1>2 DEF SameAsset, CardFields
    <3> QED
        BY <2>1, <3>3, <3>4 DEF LineOfAsset, AmountAt
  <2>2. CASE p \in HistoryMonths
    <3>1. job = Job("HISTORY", i, p)
        BY <1>3, <2>2 DEF CardJob
    <3> DEFINE m == HistoricalMonth(c, PolicyFor(c), p, Trail(in, "HISTORY", i)[p],
                                    in.drivers)
    <3>2. l = Line("HISTORY", "CURRENT", c, p, m)
        BY <1>2, <3>1 DEF LineDue, LineFrom, CardLine, FoundIn, Job
    <3>3. HistoryAt(in, c, p) = m.amount
        BY <1>2, <2>2, HistoryDirect
    <3>4. AmountAt(in, c, p) = HistoryAt(in, c, p)
        BY <1>2, <1>3, <2>2 DEF AmountAt
    <3> HIDE DEF m, c, l
    <3> QED
        BY <3>2, <3>3, <3>4, LineIs, LineOfAssetIs
  <2>3. CASE p \in ForecastMonths /\ k \in Pooled(in.cards)
    <3>1. job = Job("WORKLOAD", None, p)
        BY <1>3, <2>3 DEF CardJob
    <3> DEFINE s == Trail(in, "WORKLOAD", None)[p]
               m == [opening |-> s[i], addition |-> 0, disposal |-> 0, impairment |-> 0,
                     amount |-> AmountFrom(s, in, i, p),
                     closing |-> s[i] - AmountFrom(s, in, i, p)]
    <3>2. l = PoolLine(s, in, i, p)
        BY <1>2, <3>1 DEF LineDue, LineFrom, CardLine, FoundIn, Job
    <3>3. PoolLine(s, in, i, p) = Line("FORECAST", "CURRENT", c, p, m)
        BY <1>2 DEF PoolLine
    <3>4. PooledAt(in, c, p) = m.amount
        BY <2>3, PooledDirect
    <3>5. AmountAt(in, c, p) = PooledAt(in, c, p)
        BY <1>2, <1>3, <2>3 DEF AmountAt
    <3> HIDE DEF m, c, l, s
    <3> QED
        BY <3>2, <3>3, <3>4, <3>5, LineIs, LineOfAssetIs
  <2>4. CASE p \in ForecastMonths /\ k \notin Pooled(in.cards)
    <3>1. job = Job("EXISTING", i, p)
        BY <1>3, <2>4 DEF CardJob
    <3> DEFINE m == ExistingMonth(c, PolicyFor(c), p, Trail(in, "EXISTING", i)[p],
                                  in.events, in.drivers)
    <3>2. l = Line("FORECAST", "CURRENT", c, p, m)
        BY <1>2, <3>1 DEF LineDue, LineFrom, CardLine, FoundIn, Job
    <3>3. SingleAt(in, c, p) = m.amount
        BY <1>2, <2>4, SingleDirect
    <3>4. AmountAt(in, c, p) = SingleAt(in, c, p)
        BY <1>2, <1>3, <2>4 DEF AmountAt
    <3> HIDE DEF m, c, l
    <3> QED
        BY <3>2, <3>3, <3>4, LineIs, LineOfAssetIs
  <2> QED
      BY <1>3, <2>1, <2>2, <2>3, <2>4
<1> QED
    BY <1>4, <1>6, <1>7, <1>8, <1>9

\* So has the line of a planned asset.
LEMMA PlannedLineIs ==
    ASSUME BookInv, NEW in, InputAfter(in, MaxAssumptions),
           NEW p, NEW k \in PlannedIn(in, p)
    PROVE  LET l == PlannedLine(in, k, p)
           IN  /\ l \in DirectLines(in) /\ Seen(l)
               /\ l.period = p /\ l.source = "PLANNED"
               /\ LineOfAsset(l, in.planned[k])
               /\ l.amount = PlannedAt(in.planned[k], p)
<1> DEFINE c == in.planned[k]
           i == c.id
           job == Job("PLANNED", i, p)
           s == Trail(in, "PLANNED", i)[p]
           m == PlannedMonth(c, PolicyFor(c), p, s)
           l == PlannedLine(in, k, p)
<1>1. /\ k \in Included(in.planned) /\ k \in DOMAIN in.planned
      /\ p \in FutureStart..End
      /\ AssetById(in.planned, i) = c /\ Depreciable(book.model, c)
    BY PartsOfCards DEF PlannedIn
<1>2. p \in ForecastMonths
    BY <1>1 DEF ForecastMonths
<1>3. job \in JobsDue(in) /\ i \in AssetsOf(job, in)
  <2>1. i \in IdsOf(in.planned, Included(in.planned))
      BY <1>1 DEF IdsOf
  <2> QED
      BY <1>2, <2>1, DueMeans DEF JobsDue, AssetsOf, Job
<1>4. l \in DirectLines(in)
    BY <1>3 DEF DirectLines, PlannedLine
<1>5. l = Line("FORECAST", "PLANNED", c, p, m)
    BY <1>1 DEF LineDue, LineFrom, PlannedLine, FoundIn, Job
<1>6. m.amount = PlannedAt(c, p)
    BY <1>1 DEF PlannedAt, PlannedMonth
<1> HIDE DEF m, c, l
<1>7. /\ l.source = "PLANNED" /\ l.period = p /\ l.amount = m.amount
      /\ LineOfAsset(l, c) /\ Seen(l)
    BY <1>5, LineIs, LineOfAssetIs DEF Seen
<1> QED
    BY <1>4, <1>6, <1>7 DEF l, c

LEMMA SameInScope ==
    ASSUME NEW l, NEW a, LineOfAsset(l, a), NEW scope
    PROVE  InScope(l, scope) <=> InScope(a, scope)
BY DEF LineOfAsset, InScope

\* A trial sees no other lines in a month.
LEMMA LinesOfMonth ==
    ASSUME BookInv, NEW in, InputAfter(in, MaxAssumptions),
           NEW p, NEW l \in DirectLines(in), Seen(l), l.period = p
    PROVE  /\ l.source = "CURRENT" => \E k \in CardsIn(in, p) : l = CardLine(in, k, p)
           /\ l.source # "CURRENT" => \E k \in PlannedIn(in, p) : l = PlannedLine(in, k, p)
<1> DEFINE job == JobOf(l)
           i == l.id
<1>1. job \in JobsDue(in) /\ i \in AssetsOf(job, in) /\ l = LineDue(in, job, i)
    BY LineOfInput
<1>2. l.source = IF job.kind = "PLANNED" THEN "PLANNED" ELSE "CURRENT"
    BY <1>1, SourceIs
<1>3. job.period = p
    BY <1>1 DEF JobOf, Job
<1>4. /\ \A q \in HistoryMonths : /\ q \in Start..End /\ q < FutureStart
                                  /\ ~(SpansSnapshot /\ q = Snapshot)
      /\ \A q \in ForecastMonths : /\ q \in Start..End /\ ~(q < FutureStart)
                                   /\ ~(SpansSnapshot /\ q = Snapshot)
    BY TrialMonths
<1>11. job.kind = "SNAPSHOT" => SpansSnapshot
    BY DEF Seen, JobOf, Job
<1>5. /\ Included(in.cards) \subseteq DOMAIN in.cards
      /\ Single(in.cards) \subseteq Included(in.cards)
      /\ Pooled(in.cards) \subseteq Included(in.cards)
      /\ \A k \in Single(in.cards) : k \notin Pooled(in.cards)
    BY DEF Included, Single, Pooled
<1> HIDE DEF job, i
<1>6. CASE job.kind = "SNAPSHOT"
  <2>1. job = Job("SNAPSHOT", None, Snapshot) /\ i \in IdsOf(in.cards, DOMAIN in.cards)
      BY <1>1, <1>6, JobOfKind, SameParts DEF AssetsOf
  <2>2. p = Snapshot
      BY <1>3, <2>1 DEF Job
  <2>3. PICK k \in DOMAIN in.cards : i = in.cards[k].id
      BY <2>1 DEF IdsOf
  <2>4. k \in CardsIn(in, p) /\ CardJob(in, k, p) = job
      BY <1>6, <1>11, <2>1, <2>2 DEF CardsIn, CardJob
  <2> QED
      BY <1>1, <1>2, <1>6, <2>3, <2>4 DEF CardLine
<1>7. CASE job.kind = "HISTORY"
  <2>1. /\ job = Job("HISTORY", job.id, job.period) /\ job.period \in HistoryMonths
        /\ job.id \in IdsOf(in.cards, Included(in.cards)) /\ i = job.id
      BY <1>1, <1>7, JobOfKind DEF AssetsOf
  <2>2. PICK k \in Included(in.cards) : i = in.cards[k].id
      BY <2>1 DEF IdsOf
  <2>3. k \in CardsIn(in, p) /\ CardJob(in, k, p) = job
      BY <1>3, <1>4, <2>1, <2>2 DEF CardsIn, CardJob
  <2> QED
      BY <1>1, <1>2, <1>7, <2>2, <2>3 DEF CardLine
<1>8. CASE job.kind = "EXISTING"
  <2>1. /\ job = Job("EXISTING", job.id, job.period) /\ job.period \in ForecastMonths
        /\ job.id \in IdsOf(in.cards, Single(in.cards)) /\ i = job.id
      BY <1>1, <1>8, JobOfKind DEF AssetsOf
  <2>2. PICK k \in Single(in.cards) : i = in.cards[k].id
      BY <2>1 DEF IdsOf
  <2>3. k \in CardsIn(in, p) /\ CardJob(in, k, p) = job
      BY <1>3, <1>4, <1>5, <2>1, <2>2 DEF CardsIn, CardJob
  <2> QED
      BY <1>1, <1>2, <1>8, <2>2, <2>3 DEF CardLine
<1>9. CASE job.kind = "WORKLOAD"
  <2>1. /\ job = Job("WORKLOAD", None, job.period) /\ job.period \in ForecastMonths
        /\ i \in IdsOf(in.cards, Pooled(in.cards))
      BY <1>1, <1>9, JobOfKind DEF AssetsOf
  <2>2. PICK k \in Pooled(in.cards) : i = in.cards[k].id
      BY <2>1 DEF IdsOf
  <2>3. k \in CardsIn(in, p) /\ CardJob(in, k, p) = job
      BY <1>3, <1>4, <1>5, <2>1, <2>2 DEF CardsIn, CardJob
  <2> QED
      BY <1>1, <1>2, <1>9, <2>2, <2>3 DEF CardLine
<1>10. CASE job.kind = "PLANNED"
  <2>1. /\ job = Job("PLANNED", job.id, job.period) /\ job.period \in ForecastMonths
        /\ job.id \in IdsOf(in.planned, Included(in.planned)) /\ i = job.id
      BY <1>1, <1>10, JobOfKind DEF AssetsOf
  <2>2. PICK k \in Included(in.planned) : i = in.planned[k].id
      BY <2>1 DEF IdsOf
  <2>3. k \in PlannedIn(in, p) /\ Job("PLANNED", i, p) = job
      BY <1>3, <2>1, <2>2 DEF PlannedIn, ForecastMonths
  <2> QED
      BY <1>1, <1>2, <1>10, <2>2, <2>3 DEF PlannedLine
<1> QED
    BY <1>1, <1>6, <1>7, <1>8, <1>9, <1>10, JobOfKind

\* Sums over cards, as ScopeAmount writes them.
CardAmounts(in, p, S) == [k \in S |-> AmountAt(in, in.cards[k], p)]

PlannedAmounts(in, p, S) == [k \in S |-> PlannedAt(in.planned[k], p)]

CardSum(in, p, S) == MapThenSumSet(LAMBDA i : AmountAt(in, in.cards[i], p.period), S)

PlannedSum(in, p, S) == MapThenSumSet(LAMBDA i : PlannedAt(in.planned[i], p.period), S)

LEMMA CardSumIs ==
    ASSUME NEW in, NEW p, NEW S
    PROVE  CardSum(in, p, S) = SumFunctionOnSet(CardAmounts(in, p.period, S), S)
<1> DEFINE f == CardAmounts(in, p.period, S)
           L(h) == [T \in SUBSET S |->
                       IF T = {} THEN 0
                       ELSE LET x == CHOOSE x \in T : TRUE
                            IN  AmountAt(in, in.cards[x], p.period) + h[T \ {x}]]
<1>1. CardSum(in, p, S) = (CHOOSE h : h = L(h))[S]
    BY DEF CardSum, MapThenSumSet, MapThenFoldSet
<1>2. ASSUME NEW h PROVE L(h) = Fold(f, S, h)
  <2>1. \A T \in SUBSET S : T # {} => (CHOOSE x \in T : TRUE) \in S
      OBVIOUS
  <2> QED
      BY <2>1 DEF Fold, CardAmounts
<1> HIDE DEF f, L
<1>3. (CHOOSE h : h = L(h)) = (CHOOSE h : h = Fold(f, S, h))
    BY <1>2
<1> QED
    BY <1>1, <1>3, FoldIs DEF f

LEMMA PlannedSumIs ==
    ASSUME NEW in, NEW p, NEW S
    PROVE  PlannedSum(in, p, S) = SumFunctionOnSet(PlannedAmounts(in, p.period, S), S)
<1> DEFINE f == PlannedAmounts(in, p.period, S)
           L(h) == [T \in SUBSET S |->
                       IF T = {} THEN 0
                       ELSE LET x == CHOOSE x \in T : TRUE
                            IN  PlannedAt(in.planned[x], p.period) + h[T \ {x}]]
<1>1. PlannedSum(in, p, S) = (CHOOSE h : h = L(h))[S]
    BY DEF PlannedSum, MapThenSumSet, MapThenFoldSet
<1>2. ASSUME NEW h PROVE L(h) = Fold(f, S, h)
  <2>1. \A T \in SUBSET S : T # {} => (CHOOSE x \in T : TRUE) \in S
      OBVIOUS
  <2> QED
      BY <2>1 DEF Fold, PlannedAmounts
<1> HIDE DEF f, L
<1>3. (CHOOSE h : h = L(h)) = (CHOOSE h : h = Fold(f, S, h))
    BY <1>2
<1> QED
    BY <1>1, <1>3, FoldIs DEF f

\* The lines M stand for numbers f: one line for each of T, the others are zero.
StandFor(M, f, S, T, key) ==
    /\ T \in SUBSET S
    /\ M = {key[k] : k \in T}
    /\ \A k \in T : key[k].amount = f[k]
    /\ \A j, k \in T : key[j] = key[k] => j = k
    /\ \A k \in S \ T : f[k] = 0

\* Then they add up as the numbers do.
LEMMA StandIn ==
    ASSUME NEW L, AreLines(L), NEW M \in SUBSET L, NEW S, IsFiniteSet(S),
           NEW f, NEW T, NEW key, StandFor(M, f, S, T, key)
    PROVE  Total(M) = SumFunctionOnSet(f, S)
<1> USE DEF StandFor
<1> DEFINE g == AmountsOf(L)
           h == [k \in T |-> g[key[k]]]
<1>1. IsFiniteSet(T) /\ T \in SUBSET S
    BY FS_Subset
<1>2. /\ M \in SUBSET L /\ Total(M) = SumFunctionOnSet(g, M) /\ Numbers(g, L)
    BY TotalIs
<1>3. \A k \in T : g[key[k]] = f[k] /\ g[key[k]] \in Int
    BY <1>2 DEF AmountsOf, Numbers
<1> HIDE DEF g
<1>4. SumFunctionOnSet(g, M) = SumFunctionOnSet(h, T)
    BY <1>1, <1>3, SumRenamed
<1>5. SumFunctionOnSet(h, T) = SumFunctionOnSet(f, T)
  <2>1. \A k \in T : h[k] \in Int /\ h[k] = f[k]
      BY <1>3
  <2> HIDE DEF h
  <2> QED
      BY <1>1, <2>1, SumOfSame
<1>6. SumFunctionOnSet(f, S) = SumFunctionOnSet(f, T)
  <2>1. Numbers(f, S)
      BY <1>3 DEF Numbers
  <2> QED
      BY <2>1, SumInside
<1> QED
    BY <1>2, <1>4, <1>5, <1>6

\* The lines of a month and a scope.
LinesIn(in, period, scope) ==
    {l \in DirectLines(in) : l.period = period /\ InScope(l, scope)}

\* What a trial computes directly is what the lines it sees add up to
\* (_simulate_reverse_assumptions keeps the lines of the month and the scope).
LEMMA TrialIsTotal ==
    ASSUME BookInv, NEW in, InputAfter(in, MaxAssumptions), NEW p
    PROVE  /\ ScopeAmount(in, p) = Total({l \in LinesIn(in, p.period, p.scope) : Seen(l)})
           /\ ScopeAmount(in, p) \in Int
<1> DEFINE L == DirectLines(in)
           t == p.period
           M == {l \in LinesIn(in, t, p.scope) : Seen(l)}
           Current == {l \in M : l.source = "CURRENT"}
           cards == {i \in DOMAIN in.cards : InScope(in.cards[i], p.scope)}
           planned == {i \in DOMAIN in.planned : InScope(in.planned[i], p.scope)}
           S == {k \in CardsIn(in, t) : InScope(in.cards[k], p.scope)}
           T == {k \in PlannedIn(in, t) : InScope(in.planned[k], p.scope)}
           card == [k \in S |-> CardLine(in, k, t)]
           coming == [k \in T |-> PlannedLine(in, k, t)]
<1>1. AreLines(L) /\ IsFiniteSet(cards) /\ IsFiniteSet(planned)
  <2>1. IsFiniteSet(DOMAIN in.cards) /\ IsFiniteSet(DOMAIN in.planned)
    <3>1. IsSequence(in.cards) /\ IsSequence(in.planned)
        BY DEF InputAfter, AreCards
    <3>2. ASSUME NEW s, IsSequence(s) PROVE IsFiniteSet(DOMAIN s)
      <4>1. DOMAIN s = 1..Len(s) /\ 1 \in Int /\ Len(s) \in Int
          BY <3>2 DEF IsSequence
      <4>2. IsFiniteSet(1..Len(s))
          BY <4>1, FS_Interval
      <4> QED
          BY <4>1, <4>2
    <3> QED
        BY <3>1, <3>2
  <2>2. cards \subseteq DOMAIN in.cards /\ planned \subseteq DOMAIN in.planned
      OBVIOUS
  <2> QED
      BY <2>1, <2>2, FS_Subset, DirectLinesAre
<1>2. S \in SUBSET cards /\ T \in SUBSET planned
    BY PartsOfCards DEF CardsIn, PlannedIn
<1>3. \A k \in S : LET l == CardLine(in, k, t)
                   IN  /\ l \in L /\ Seen(l)
                       /\ l.period = t /\ l.source = "CURRENT"
                       /\ LineOfAsset(l, in.cards[k])
                       /\ l.amount = AmountAt(in, in.cards[k], t)
    BY CardLineIs
<1>4. \A k \in T : LET l == PlannedLine(in, k, t)
                   IN  /\ l \in L /\ Seen(l)
                       /\ l.period = t /\ l.source = "PLANNED"
                       /\ LineOfAsset(l, in.planned[k])
                       /\ l.amount = PlannedAt(in.planned[k], t)
    BY PlannedLineIs
<1>5. /\ \A j, k \in S : card[j] = card[k] => j = k
      /\ \A j, k \in T : coming[j] = coming[k] => j = k
  <2>1. \A k \in S : card[k].id = in.cards[k].id /\ k \in DOMAIN in.cards
      BY <1>2, <1>3 DEF LineOfAsset
  <2>2. \A k \in T : coming[k].id = in.planned[k].id /\ k \in DOMAIN in.planned
      BY <1>2, <1>4 DEF LineOfAsset
  <2>3. Distinct(in.cards) /\ Distinct(in.planned)
      BY InputCards DEF InputAfter
  <2> HIDE DEF card, coming, S, T
  <2> QED
      BY <2>1, <2>2, <2>3 DEF Distinct
<1>6. Current = {card[k] : k \in S}
  <2>1. ASSUME NEW k \in S PROVE card[k] \in Current
      BY <1>3, SameInScope DEF LinesIn
  <2>2. ASSUME NEW l \in Current PROVE \E k \in S : l = card[k]
    <3>1. PICK k \in CardsIn(in, t) : l = CardLine(in, k, t)
        BY LinesOfMonth DEF LinesIn
    <3>2. LineOfAsset(l, in.cards[k])
        BY <3>1, CardLineIs
    <3>3. k \in S
        BY <3>2, SameInScope DEF LinesIn
    <3> QED
        BY <3>1, <3>3
  <2> HIDE DEF Current, S, card
  <2> QED
      BY <2>1, <2>2
<1>7. M \ Current = {coming[k] : k \in T}
  <2>1. ASSUME NEW k \in T PROVE coming[k] \in M \ Current
      BY <1>4, SameInScope DEF LinesIn
  <2>2. ASSUME NEW l \in M \ Current PROVE \E k \in T : l = coming[k]
    <3>1. PICK k \in PlannedIn(in, t) : l = PlannedLine(in, k, t)
        BY LinesOfMonth DEF LinesIn
    <3>2. LineOfAsset(l, in.planned[k])
        BY <3>1, PlannedLineIs
    <3>3. k \in T
        BY <3>2, SameInScope DEF LinesIn
    <3> QED
        BY <3>1, <3>3
  <2> HIDE DEF Current, M, T, coming
  <2> QED
      BY <2>1, <2>2
<1>8. /\ \A k \in S : card[k] \in L /\ card[k].amount = CardAmounts(in, t, cards)[k]
      /\ \A k \in T : coming[k] \in L /\ coming[k].amount = PlannedAmounts(in, t, planned)[k]
    BY <1>2, <1>3, <1>4 DEF CardAmounts, PlannedAmounts
<1>9. /\ \A k \in cards \ S : CardAmounts(in, t, cards)[k] = 0
      /\ \A k \in planned \ T : PlannedAmounts(in, t, planned)[k] = 0
  <2>1. \A k \in cards \ S :
           /\ ~(SpansSnapshot /\ t = Snapshot)
           /\ ~Depreciable(book.model, in.cards[k]) \/ t \notin Start..End
      BY PartsOfCards DEF CardsIn
  <2>2. \A k \in planned \ T :
           ~(Depreciable(book.model, in.planned[k]) /\ t \in FutureStart..End)
      BY PartsOfCards DEF PlannedIn
  <2> QED
      BY <2>1, <2>2 DEF CardAmounts, PlannedAmounts, AmountAt, PlannedAt
<1>10. M \in SUBSET L /\ Current \in SUBSET M
    BY DEF LinesIn
<1>11. ScopeAmount(in, p) = CardSum(in, p, cards) + PlannedSum(in, p, planned)
    BY DEF ScopeAmount, CardSum, PlannedSum
<1> HIDE DEF L, M, Current, S, T, card, coming, cards, planned
<1>12. Total(Current) = CardSum(in, p, cards)
  <2> DEFINE f == CardAmounts(in, t, cards)
  <2>1. StandFor(Current, f, cards, S, card)
      BY <1>2, <1>5, <1>6, <1>8, <1>9 DEF StandFor
  <2>2. Current \in SUBSET L
      BY <1>10
  <2> HIDE DEF f
  <2>3. Total(Current) = SumFunctionOnSet(f, cards)
      BY <1>1, <2>1, <2>2, StandIn
  <2> QED
      BY <2>3, CardSumIs DEF f
<1>13. Total(M \ Current) = PlannedSum(in, p, planned)
  <2> DEFINE f == PlannedAmounts(in, t, planned)
  <2>1. StandFor(M \ Current, f, planned, T, coming)
      BY <1>2, <1>5, <1>7, <1>8, <1>9 DEF StandFor
  <2>2. M \ Current \in SUBSET L
      BY <1>10
  <2> HIDE DEF f
  <2>3. Total(M \ Current) = SumFunctionOnSet(f, planned)
      BY <1>1, <2>1, <2>2, StandIn
  <2> QED
      BY <2>3, PlannedSumIs DEF f
<1>14. /\ Total(M) = Total(Current) + Total(M \ Current) /\ Total(M) \in Int
  <2>1. /\ Total(M) = SumFunctionOnSet(AmountsOf(L), M) /\ Total(M) \in Int
        /\ IsFiniteSet(M) /\ Numbers(AmountsOf(L), L)
      BY <1>1, <1>10, TotalIs
  <2>2. Total(Current) = SumFunctionOnSet(AmountsOf(L), Current)
        /\ Total(M \ Current) = SumFunctionOnSet(AmountsOf(L), M \ Current)
    <3>1. Current \in SUBSET L /\ M \ Current \in SUBSET L
        BY <1>10
    <3> QED
        BY <1>1, <3>1, TotalIs
  <2>3. Numbers(AmountsOf(L), M)
      BY <1>10, <2>1 DEF Numbers
  <2> QED
      BY <1>10, <2>1, <2>2, <2>3, SumSplit
<1> QED
    BY <1>11, <1>12, <1>13, <1>14 DEF M

\* The charges of the ledger month, as LedgerBeside writes their sum.
LedgerSum(S) == MapThenSumSet(LAMBDA i : book.cards[i].snapDep, S)

LedgerAmounts(S) == [k \in S |-> book.cards[k].snapDep]

LEMMA LedgerSumIs ==
    ASSUME NEW S
    PROVE  LedgerSum(S) = SumFunctionOnSet(LedgerAmounts(S), S)
<1> DEFINE f == LedgerAmounts(S)
           L(h) == [T \in SUBSET S |->
                       IF T = {} THEN 0
                       ELSE LET x == CHOOSE x \in T : TRUE
                            IN  book.cards[x].snapDep + h[T \ {x}]]
<1>1. LedgerSum(S) = (CHOOSE h : h = L(h))[S]
    BY DEF LedgerSum, MapThenSumSet, MapThenFoldSet
<1>2. ASSUME NEW h PROVE L(h) = Fold(f, S, h)
  <2>1. \A T \in SUBSET S : T # {} => (CHOOSE x \in T : TRUE) \in S
      OBVIOUS
  <2> QED
      BY <2>1 DEF Fold, LedgerAmounts
<1> HIDE DEF f, L
<1>3. (CHOOSE h : h = L(h)) = (CHOOSE h : h = Fold(f, S, h))
    BY <1>2
<1> QED
    BY <1>1, <1>3, FoldIs DEF f

\* What a trial does not see are the lines the ledger adds.
LEMMA UnseenIsBeside ==
    ASSUME BookInv, NEW in, InputAfter(in, MaxAssumptions), NEW p,
           ~SpansSnapshot, p.period = Snapshot
    PROVE  Total({l \in LinesIn(in, p.period, p.scope) : ~Seen(l)}) = LedgerBeside(p)
<1> DEFINE L == DirectLines(in)
           M == {l \in LinesIn(in, p.period, p.scope) : ~Seen(l)}
           S == {k \in DOMAIN book.cards : InScope(book.cards[k], p.scope)}
           key == [k \in S |-> SnapshotLine(book.workbook, book.cards[k])]
           f == LedgerAmounts(S)
           job == Job("SNAPSHOT", None, Snapshot)
<1>1. AreLines(L) /\ IsFiniteSet(S)
  <2>1. BookOK
      BY DEF BookOK, BookInv
  <2>2. IsFiniteSet(DOMAIN book.cards)
      BY <2>1, Cards
  <2> QED
      BY <2>2, FS_Subset, DirectLinesAre
<1>2. \A k \in DOMAIN book.cards :
         LET l == SnapshotLine(book.workbook, book.cards[k])
         IN  /\ l = LineDue(in, job, book.cards[k].id)
             /\ l.kind = "SNAPSHOT" /\ l.period = Snapshot /\ l.id = book.cards[k].id
             /\ l.amount = book.cards[k].snapDep
             /\ LineOfAsset(l, book.cards[k])
  <2> SUFFICES ASSUME NEW k \in DOMAIN book.cards
               PROVE  LET l == SnapshotLine(book.workbook, book.cards[k])
                      IN  /\ l = LineDue(in, job, book.cards[k].id)
                          /\ l.kind = "SNAPSHOT" /\ l.period = Snapshot
                          /\ l.id = book.cards[k].id
                          /\ l.amount = book.cards[k].snapDep
                          /\ LineOfAsset(l, book.cards[k])
      OBVIOUS
  <2>1. AssetById(book.cards, book.cards[k].id) = book.cards[k]
      BY SameParts
  <2>2. LineDue(in, job, book.cards[k].id) = SnapshotLine(book.workbook, book.cards[k])
      BY <2>1 DEF LineDue, LineFrom, Job
  <2>3. LineOfAsset(SnapshotLine(book.workbook, book.cards[k]), book.cards[k])
      BY DEF SnapshotLine, LineOfAsset
  <2> QED
      BY <2>2, <2>3, SnapshotLineIs
<1>3. ASSUME NEW k \in S PROVE key[k] \in M
  <2>1. job \in JobsDue(in) /\ book.cards[k].id \in AssetsOf(job, in)
      BY DEF JobsDue, SnapshotDue, AssetsOf, Job, IdsOf
  <2>2. key[k] \in L
      BY <1>2, <2>1 DEF DirectLines
  <2>3. InScope(key[k], p.scope)
      BY <1>2, SameInScope
  <2> QED
      BY <1>2, <2>2, <2>3 DEF LinesIn, Seen
<1>4. ASSUME NEW l \in M PROVE \E k \in S : l = key[k]
  <2>1. l \in L /\ l.kind = "SNAPSHOT" /\ InScope(l, p.scope)
      BY DEF LinesIn, Seen
  <2> HIDE DEF M, L
  <2>2. /\ JobOf(l) \in JobsDue(in) /\ l.id \in AssetsOf(JobOf(l), in)
        /\ l = LineDue(in, JobOf(l), l.id) /\ JobOf(l).kind = "SNAPSHOT"
      BY <2>1, LineOfInput DEF JobOf, Job, L
  <2>3. JobOf(l) = job
      BY <2>2, JobOfKind
  <2>4. PICK k \in DOMAIN book.cards : l.id = book.cards[k].id
      BY <2>2 DEF AssetsOf, IdsOf
  <2>5. l = SnapshotLine(book.workbook, book.cards[k]) /\ LineOfAsset(l, book.cards[k])
      BY <1>2, <2>2, <2>3, <2>4
  <2>6. k \in S
      BY <2>1, <2>5, SameInScope
  <2> QED
      BY <2>5, <2>6
<1>5. \A j, k \in S : key[j] = key[k] => j = k
  <2>1. \A k \in S : key[k].id = book.cards[k].id /\ k \in DOMAIN book.cards
      BY <1>2
  <2> HIDE DEF key, S
  <2> QED
      BY <2>1, BookIs DEF Distinct
<1>6. \A k \in S : key[k].amount = f[k]
    BY <1>2 DEF LedgerAmounts
<1>7. M \in SUBSET L
    BY DEF LinesIn
<1>8. LedgerBeside(p) = LedgerSum(S)
    BY DEF LedgerBeside, LedgerSum
<1> HIDE DEF L, M, S, key, f
<1>9. StandFor(M, f, S, S, key)
    BY <1>3, <1>4, <1>5, <1>6 DEF StandFor
<1>10. Total(M) = SumFunctionOnSet(f, S)
    BY <1>1, <1>7, <1>9, StandIn
<1> QED
    BY <1>8, <1>10, LedgerSumIs DEF M, f

\* A result charges what a trial computes directly, and what the ledger adds
\* beside the forecast.
LEMMA ResultIsTrial ==
    ASSUME BookInv, NEW in, InputAfter(in, MaxAssumptions), NEW p
    PROVE  /\ ScopeTotal(DirectLines(in), p.period, p.scope)
                 = ScopeAmount(in, p) + LedgerBeside(p)
           /\ ScopeAmount(in, p) \in Int
           /\ ScopeTotal(DirectLines(in), p.period, p.scope) \in Int
<1> DEFINE L == DirectLines(in)
           M == LinesIn(in, p.period, p.scope)
           A == {l \in M : Seen(l)}
           B == {l \in M : ~Seen(l)}
<1>1. ScopeTotal(L, p.period, p.scope) = Total(M)
    BY DEF ScopeTotal, LinesIn
<1>2. ScopeAmount(in, p) = Total(A) /\ ScopeAmount(in, p) \in Int
    BY TrialIsTotal
<1>3. AreLines(L) /\ M \in SUBSET L /\ A \in SUBSET L /\ B \in SUBSET L
    BY DirectLinesAre DEF LinesIn
<1>4. CASE SpansSnapshot \/ p.period # Snapshot
  <2>1. A = M
    <3>1. ASSUME NEW l \in M PROVE Seen(l)
      <4>1. l \in DirectLines(in) /\ l.period = p.period
          BY DEF LinesIn
      <4> HIDE DEF M
      <4>2. JobOf(l) \in JobsDue(in) /\ JobOf(l).period = l.period
            /\ (l.kind = "SNAPSHOT" => JobOf(l).kind = "SNAPSHOT")
          BY <4>1, LineOfInput DEF JobOf, Job
      <4>3. l.kind = "SNAPSHOT" => l.period = Snapshot
          BY <4>2, JobOfKind DEF Job
      <4> QED
          BY <1>4, <4>1, <4>3 DEF Seen
    <3> QED
        BY <3>1
  <2>2. LedgerBeside(p) = 0
      BY <1>4 DEF LedgerBeside
  <2> HIDE DEF A, M
  <2> QED
      BY <1>1, <1>2, <2>1, <2>2
<1>5. CASE ~(SpansSnapshot \/ p.period # Snapshot)
  <2>1. Total(B) = LedgerBeside(p)
      BY <1>5, UnseenIsBeside
  <2>2. B = M \ A /\ A \in SUBSET M
      OBVIOUS
  <2> HIDE DEF A, B, M, L
  <2>3. /\ Total(M) = SumFunctionOnSet(AmountsOf(L), M) /\ Total(M) \in Int
        /\ Total(A) = SumFunctionOnSet(AmountsOf(L), A)
        /\ Total(B) = SumFunctionOnSet(AmountsOf(L), B)
        /\ IsFiniteSet(M) /\ Numbers(AmountsOf(L), L)
      BY <1>3, TotalIs
  <2>4. Numbers(AmountsOf(L), M)
      BY <1>3, <2>3 DEF Numbers
  <2>5. Total(M) = Total(A) + Total(B)
      BY <2>2, <2>3, <2>4, SumSplit
  <2> QED
      BY <1>1, <1>2, <2>1, <2>3, <2>5 DEF L
<1> QED
    BY <1>4, <1>5

-----------------------------------------------------------------------------
(* What a plan starts from *)

LEMMA AppliedNothing == Applied(<<>>) = BaselineInput
<1>1. PICK after : IsApplied(after, <<>>) /\ Applied(<<>>) = after[Len(<<>>)]
    BY AppliedInSteps
<1> QED
    BY <1>1 DEF IsApplied

LEMMA TrialOfNothing ==
    ASSUME NEW p, p.inherited \in Seq(Assumptions)
    PROVE  Simulate(<<>>, p) = ScopeAmount(Applied(p.inherited), p)
<1>1. p.inherited \o <<>> = p.inherited
    OBVIOUS
<1> QED
    BY <1>1 DEF Simulate

\* The lines of an input are of months.
LEMMA LinesOfMonths ==
    ASSUME BookInv, NEW in, InputAfter(in, MaxAssumptions), NEW l \in DirectLines(in)
    PROVE  l.period \in Int
<1>1. JobOf(l) \in JobsDue(in) /\ JobOf(l).period = l.period
    BY LineOfInput DEF JobOf, Job
<1>2. \/ JobOf(l).period \in HistoryMonths \/ JobOf(l).period \in ForecastMonths
      \/ JobOf(l).kind = "SNAPSHOT" /\ JobOf(l) = Job("SNAPSHOT", None, Snapshot)
    BY <1>1, JobOfKind
<1>3. l.period \in HistoryMonths \/ l.period \in ForecastMonths \/ l.period = Snapshot
    BY <1>1, <1>2 DEF Job
<1> QED
    BY <1>3, TrialMonths

\* What a plan says of the scenario it is for: that can be computed, and its
\* own trials begin with what its lines add up to but those of the ledger.
PlanFits(p) ==
    /\ p.inherited \in Seq(Assumptions) /\ Len(p.inherited) <= MaxAssumptions
    /\ InputAfter(Applied(p.inherited), MaxAssumptions)
    /\ p.period \in Int
    /\ p.baseline \in Int
    /\ p.baseline = Simulate(<<>>, p) + LedgerBeside(p)

LEMMA PlanBegins ==
    ASSUME ForecastInv, RequestTyped, ResultInv, NEW goal, Ask(goal)
    PROVE  PlanFits(plan')
<1> DEFINE baseline == ScopeTotal(BaseLines, goal.period, goal.scope)
           target == IF goal.target = None THEN baseline + goal.change
                                           ELSE goal.target
           p == [scope |-> goal.scope, period |-> goal.period,
                 baseline |-> baseline, target |-> target,
                 delta |-> target - baseline,
                 inherited |-> IF phase = "stored" THEN request ELSE <<>>]
           in == Applied(p.inherited)
<1>1. /\ goal.period \in Periods(BaseLines)
      /\ phase = "stored" \/ (phase = "choosing" /\ request = <<>>)
      /\ plan' = p
    BY DEF Ask
<1>2. BookInv
    BY DEF ForecastInv
<1>3. InputAfter(BaselineInput, MaxAssumptions)
    BY <1>2, BaselineInputFits
<1>4. /\ p.inherited \in Seq(Assumptions) /\ Len(p.inherited) <= MaxAssumptions
      /\ InputAfter(in, MaxAssumptions)
      /\ BaseLines = DirectLines(in)
  <2>1. CASE phase = "stored"
    <3>1. /\ stored.SCENARIO.lines = DirectLines(input)
          /\ InputAfter(input, MaxAssumptions)
        BY <2>1, WhatIsStored
    <3>2. input = Applied(request)
        BY <2>1 DEF ResultInv
    <3> QED
        BY <2>1, <3>1, <3>2 DEF RequestTyped, BaseLines
  <2>2. CASE phase = "choosing" /\ request = <<>>
    <3>1. stored.BASELINE = Results(DirectLines(BaselineInput), BaselineInput, {})
        BY <2>2 DEF ResultInv
    <3>2. stored.BASELINE.lines = DirectLines(BaselineInput)
        BY <3>1 DEF Results
    <3>3. p.inherited = <<>> /\ in = BaselineInput
        BY <2>2, AppliedNothing
    <3> QED
        BY <1>3, <2>2, <3>2, <3>3 DEF RequestTyped, BaseLines
  <2> QED
      BY <1>1, <2>1, <2>2
<1>5. p.period \in Int
    BY <1>1, <1>2, <1>4, LinesOfMonths DEF Periods
<1> DEFINE s == p.scope
<1>6. /\ ScopeTotal(DirectLines(in), p.period, s) = ScopeAmount(in, p) + LedgerBeside(p)
      /\ ScopeTotal(DirectLines(in), p.period, s) \in Int
  <2> HIDE DEF in, p
  <2> QED
      BY <1>2, <1>4, ResultIsTrial
<1>7. p.baseline = ScopeTotal(DirectLines(in), p.period, s)
    BY <1>4
<1>8. Simulate(<<>>, p) = ScopeAmount(in, p)
  <2> HIDE DEF p
  <2> QED
      BY <1>4, TrialOfNothing DEF in
<1> HIDE DEF p, in
<1> QED
    BY <1>1, <1>4, <1>5, <1>6, <1>7, <1>8 DEF PlanFits, in

\* What is said of a plan depends on the book alone.
LEMMA SamePlan ==
    ASSUME book' = book, NEW p
    PROVE  PlanFits(p)' = PlanFits(p)
<1>1. Applied(p.inherited)' = Applied(p.inherited)
    BY SameApplied
<1>2. \A in : InputAfter(in, MaxAssumptions)' = InputAfter(in, MaxAssumptions)
    BY SameMeaning
<1>3. InputAfter(Applied(p.inherited), MaxAssumptions)'
        = InputAfter(Applied(p.inherited), MaxAssumptions)
    BY <1>1, <1>2
<1>4. Simulate(<<>>, p)' = Simulate(<<>>, p)
    BY SameTrial
<1>5. LedgerBeside(p)' = LedgerBeside(p)
    BY SameBeside
<1> QED
    BY <1>3, <1>4, <1>5 DEF PlanFits

\* The forecast at the side of a plan.
SideInv == ForecastInv /\ AgendaInv /\ LedgerInv /\ ResultInv

LEMMA SideNext ==
    ASSUME SideInv, RequestFits', [Next]_vars
    PROVE  SideInv'
BY StepsMove, ForecastMoves, AgendaNext, LedgerNext, ResultNext DEF SideInv

\* Until a scenario is made of a recommendation the client may only have asked
\* for what is on offer, and the plan begins where the store is.
TrialInv ==
    /\ group # "taken" => SideInv /\ RequestTyped
    /\ group \notin {"none", "taken"} => PlanFits(plan)

LEMMA TrialInit == InitR => TrialInv
<1> SUFFICES ASSUME InitR PROVE TrialInv
    OBVIOUS
<1>1. Init /\ group = "none"
    BY DEF InitR
<1>2. RequestTyped
    BY <1>1, LimitsAssumption DEF Init, RequestTyped
<1>3. BookInv
    BY <1>1 DEF Init, BookInv, Start, End
<1>4. ForecastInv
    BY <1>1, <1>2, <1>3, TypedFits, ForecastInit
<1>5. AgendaInv /\ LedgerInv /\ ResultInv
    BY <1>1 DEF Init, AgendaInv, LedgerInv, ResultInv
<1> QED
    BY <1>1, <1>2, <1>4, <1>5 DEF TrialInv, SideInv

\* A request that is on offer still fits when it has grown.
LEMMA TypedFitsNext ==
    ASSUME BookInv, book' = book, RequestTyped'
    PROVE  RequestFits'
<1> DEFINE next == request'
<1>1. next \in Seq(Assumptions) /\ Len(next) <= MaxAssumptions
    BY DEF RequestTyped
<1>2. Applied(next) = Refused \/ InputAfter(Applied(next), MaxAssumptions)
  <2> HIDE DEF next
  <2> QED
      BY <1>1, AppliedIs
<1>3. Applied(request)' = Applied(next)
    BY SameApplied
<1>4. \A in : InputAfter(in, MaxAssumptions)' = InputAfter(in, MaxAssumptions)
    BY SameMeaning
<1> QED
    BY <1>2, <1>3, <1>4 DEF RequestFits

LEMMA TrialNext ==
    ASSUME TrialInv, [NextR]_allVars
    PROVE  TrialInv'
<1>1. book' = book
    BY BookKept
<1>2. PlanFits(plan) /\ plan' = plan => PlanFits(plan)'
    BY <1>1, SamePlan
<1>3. ASSUME group # "taken", [Next]_vars PROVE (SideInv /\ RequestTyped)'
  <2>1. SideInv /\ RequestTyped /\ BookInv
      BY <1>3 DEF TrialInv, SideInv, ForecastInv
  <2>2. RequestTyped'
      BY <1>3, <2>1, RequestNext
  <2>3. RequestFits'
      BY <1>1, <2>1, <2>2, TypedFitsNext
  <2> QED
      BY <1>3, <2>1, <2>2, <2>3, SideNext
<1>4. CASE Forecasting \/ Inherit \/ UNCHANGED allVars
  <2>1. [Next]_vars /\ plan' = plan /\ group' = group
      BY <1>4 DEF Forecasting, Inherit, Next, allVars, rvars
  <2> QED
      BY <1>2, <1>3, <2>1 DEF TrialInv
<1>5. ASSUME NEW goal \in Goals, Ask(goal) PROVE TrialInv'
  <2>1. group = "none" /\ [Next]_vars /\ group' = "accounting"
      BY <1>5 DEF Ask, Consider
  <2>2. PlanFits(plan')
      BY <1>5, <2>1, PlanBegins DEF TrialInv, SideInv
  <2>3. PlanFits(plan)'
      BY <1>1, <2>2, SamePlan
  <2> QED
      BY <1>3, <2>1, <2>3 DEF TrialInv
<1>6. CASE Recommend \/ EndGroup
  <2>1. group \in Groups /\ [Next]_vars /\ plan' = plan
      BY <1>6 DEF Recommend, EndGroup
  <2> QED
      BY <1>2, <1>3, <2>1 DEF TrialInv, Groups
<1>7. CASE TakeRecommendation
    BY <1>7 DEF TakeRecommendation, TrialInv
<1> QED
    BY <1>4, <1>5, <1>6, <1>7 DEF NextR

\* What a plan calls its baseline is what its own trials say when nothing is
\* assumed, and the lines the ledger adds to a month the forecast does not go
\* around (_execute_plan against _simulate_reverse_assumptions): for every
\* workbook, horizon and goal.
THEOREM TrialsBeginAtTheStore == SpecR => []TrialsStartAtBaseline
<1>1. TrialInv => TrialsStartAtBaseline
    BY DEF TrialInv, TrialsStartAtBaseline, Groups, PlanFits
<1>2. TrialInv /\ [NextR]_allVars => TrialInv'
    BY TrialNext
<1> QED
    BY <1>1, <1>2, TrialInit, PTL DEF SpecR

-----------------------------------------------------------------------------
(* What a recommendation assumes *)

\* What comes first is applied first.
LEMMA AppliedOn ==
    ASSUME NEW X, NEW q \in Seq(X), NEW r \in Seq(X)
    PROVE  \E after : /\ IsApplied(after, q \o r)
                      /\ after[Len(q)] = Applied(q)
                      /\ after[Len(q) + Len(r)] = Applied(q \o r)
<1> DEFINE s == q \o r
           m == Len(q)
           n == Len(r)
<1>1. /\ m \in Nat /\ n \in Nat /\ Len(s) = m + n
      /\ \A i \in 1..m : s[i] = q[i]
    OBVIOUS
<1> HIDE DEF s, m, n
<1>2. PICK after : IsApplied(after, s) /\ Applied(s) = after[Len(s)]
    BY <1>1, AppliedInSteps
<1>3. PICK first : IsApplied(first, q) /\ Applied(q) = first[m]
    BY <1>1, AppliedInSteps DEF m
<1> DEFINE Q == {i \in 0..m : after[i] = first[i]}
<1>4. 0 \in Q
    BY <1>1, <1>2, <1>3 DEF IsApplied
<1>5. ASSUME NEW i \in 1..m, i - 1 \in Q PROVE i \in Q
  <2>1. i \in 1..Len(s) /\ i \in 1..Len(q) /\ s[i] = q[i] /\ i \in 0..m
      BY <1>1 DEF m
  <2>2. after[i] = IF after[i - 1] = Refused
                   THEN Refused ELSE ApplyOne(after[i - 1], s[i], i)
      BY <1>2, <2>1 DEF IsApplied
  <2>3. first[i] = IF first[i - 1] = Refused
                   THEN Refused ELSE ApplyOne(first[i - 1], q[i], i)
      BY <1>3, <2>1 DEF IsApplied
  <2> QED
      BY <1>5, <2>1, <2>2, <2>3
<1>6. m \in Q
  <2>1. 0..m \subseteq Q
    <3> HIDE DEF Q
    <3> QED
        BY <1>1, <1>4, <1>5, InductionUpTo
  <2> HIDE DEF Q
  <2> QED
      BY <1>1, <2>1
<1> QED
    BY <1>1, <1>2, <1>3, <1>6 DEF s, m, n

\* An assumption of the kinds that are recommended.
Sound(s) ==
    /\ IsAssumption(s)
    /\ s.template \in {"straight_impairment", "straight_accelerated",
                       "production_driver", "workload_driver"}

\* What an input must have for an assumption not to be refused.
Allowed(in, s) ==
    CASE s.template = "straight_impairment" -> ImpairAllowed(in, s)
      [] s.template = "straight_accelerated" -> ReplaceAllowed(in, s)
      [] OTHER -> DriverAllowed(s)

LEMMA SoundKeeps ==
    ASSUME BookInv, NEW in, InputAfter(in, MaxAssumptions), NEW s, Sound(s), NEW n
    PROVE  /\ ApplyOne(in, s, n) # Refused => Allowed(in, s)
           /\ Allowed(in, s) => InputAfter(ApplyOne(in, s, n), MaxAssumptions)
<1>1. IsAssumption(s)
    BY DEF Sound
<1>2. CASE s.template = "straight_impairment"
  <2>1. ApplyOne(in, s, n) = Impair(in, s, n) /\ (Allowed(in, s) <=> ImpairAllowed(in, s))
      BY <1>2 DEF ApplyOne, Allowed
  <2> QED
      BY <1>1, <2>1, NotRefused, ImpairKeeps
<1>3. CASE s.template = "straight_accelerated"
  <2>1. ApplyOne(in, s, n) = Replace(in, s, n) /\ (Allowed(in, s) <=> ReplaceAllowed(in, s))
      BY <1>3 DEF ApplyOne, Allowed
  <2> QED
      BY <1>1, <2>1, NotRefused, ReplaceKeeps
<1>4. CASE s.template \in {"production_driver", "workload_driver"}
  <2>1. ApplyOne(in, s, n) = SetDriver(in, s, n) /\ (Allowed(in, s) <=> DriverAllowed(s))
      BY <1>4 DEF ApplyOne, Allowed
  <2> QED
      BY <1>1, <2>1, NotRefused, SetDriverKeeps
<1> QED
    BY <1>2, <1>3, <1>4 DEF Sound

\* None of them changes the start rule of a card.
RulesKept(in, other) ==
    \A k \in DOMAIN in.cards : other.cards[k].startRule = in.cards[k].startRule

LEMMA SoundKeepsRules ==
    ASSUME BookInv, NEW in, InputAfter(in, MaxAssumptions), NEW s, Sound(s),
           Allowed(in, s), NEW n
    PROVE  RulesKept(in, ApplyOne(in, s, n))
<1>1. DOMAIN in = {"cards", "planned", "events", "drivers", "changes"}
    BY DEF InputAfter
<1>2. CASE s.template = "straight_impairment"
  <2>1. ApplyOne(in, s, n) = Impair(in, s, n) /\ ImpairAllowed(in, s)
      BY <1>2 DEF ApplyOne, Allowed
  <2>2. Impair(in, s, n).cards = in.cards
      BY <1>1, <2>1 DEF Impair, ImpairAllowed
  <2> QED
      BY <2>1, <2>2 DEF RulesKept
<1>3. CASE s.template = "straight_accelerated"
  <2> DEFINE k == CardIndex(in.cards, s.target)
             faster == [in.cards[k] EXCEPT !.life = ShorterLife(in.cards[k])]
             change == Change(n, s.target, "accelerated_life_months")
             out == [in EXCEPT !.cards = [in.cards EXCEPT ![k] = faster],
                               !.changes = Append(@, change)]
  <2>1. ApplyOne(in, s, n) = Replace(in, s, n) /\ k # 0
      BY <1>3 DEF ApplyOne, Allowed, ReplaceAllowed
  <2>2. k \in DOMAIN in.cards
      BY <2>1, InputCards, FoundById DEF InputAfter
  <2>3. Replace(in, s, n) = out
      BY <1>1, <1>3, <2>1, <2>2 DEF Replace
  <2>4. out.cards = [in.cards EXCEPT ![k] = faster]
      BY <1>1
  <2>5. faster.startRule = in.cards[k].startRule
      OBVIOUS
  <2> HIDE DEF k, faster, out
  <2>6. \A j \in DOMAIN in.cards :
            out.cards[j] = IF j = k THEN faster ELSE in.cards[j]
      BY <2>2, <2>4
  <2> QED
      BY <2>1, <2>3, <2>5, <2>6 DEF RulesKept
<1>4. CASE s.template \in {"production_driver", "workload_driver"}
  <2>1. ApplyOne(in, s, n) = SetDriver(in, s, n) /\ DriverAllowed(s)
      BY <1>4 DEF ApplyOne, Allowed
  <2>2. SetDriver(in, s, n).cards = in.cards
      BY <1>1, <2>1 DEF SetDriver, DriverAllowed
  <2> QED
      BY <2>1, <2>2 DEF RulesKept
<1> QED
    BY <1>2, <1>3, <1>4 DEF Sound

\* The rule of an asset's policy is the card's or that of the policy it has.
LEMMA SameRule ==
    ASSUME BookInv, NEW a, IsCard(a), NEW b, IsCard(b), SameAsset(a, b),
           a.startRule = b.startRule, Depreciable(book.model, b)
    PROVE  PolicyFor(a).startRule = PolicyFor(b).startRule
<1> DEFINE sm == book.model
           r == ResolveForAsset(sm, b)
<1>1. a.code = b.code /\ a.company = b.company /\ a.category = b.category
    BY DEF SameAsset, CardFields
<1>2. ResolveForAsset(sm, a) = r /\ r # None
    BY <1>1 DEF ResolveForAsset, Depreciable
<1>3. IsPolicy(Policy(sm, b))
    BY <1>2, PolicyIsTyped, BookIs
<1> HIDE DEF r
<1>4. Policy(sm, a) = Overridden(r, a) /\ Policy(sm, b) = Overridden(r, b)
    BY <1>2 DEF Policy, r
<1>5. DOMAIN Overridden(r, b) = DOMAIN r
    BY <1>2 DEF Overridden
<1>6. "startRule" \in DOMAIN r
    BY <1>3, <1>4, <1>5 DEF IsPolicy, PolicyFields
<1>7. \A c : Overridden(r, c).startRule = IF c.startRule = None THEN r.startRule
                                          ELSE c.startRule
    BY <1>2, <1>6 DEF Overridden
<1> QED
    BY <1>4, <1>7 DEF PolicyFor

\* Inputs with the same rules are refused for their rules together.
LEMMA SameSupport ==
    ASSUME BookInv, NEW in, InputAfter(in, MaxAssumptions),
           NEW other, InputAfter(other, MaxAssumptions), RulesKept(in, other)
    PROVE  Unsupported(other) <=> Unsupported(in)
<1>1. /\ DOMAIN other.cards = DOMAIN in.cards
      /\ \A k \in DOMAIN in.cards :
            /\ IsCard(in.cards[k]) /\ IsCard(other.cards[k])
            /\ SameAsset(other.cards[k], in.cards[k])
            /\ other.cards[k].startRule = in.cards[k].startRule
    BY DEF InputAfter, AreCards, SameAsset, RulesKept
<1>2. ASSUME NEW k \in DOMAIN in.cards
      PROVE  /\ Depreciable(book.model, other.cards[k])
                    <=> Depreciable(book.model, in.cards[k])
             /\ Depreciable(book.model, in.cards[k]) =>
                    PolicyFor(other.cards[k]).startRule
                        = PolicyFor(in.cards[k]).startRule
    BY <1>1, SameMethods, SameRule
<1> QED
    BY <1>1, <1>2 DEF Unsupported, Included

\* What is refused is no input.
LEMMA InputsAreGiven ==
    ASSUME NEW in, NEW n, InputAfter(in, n)
    PROVE  in # Refused
<1>1. "cards" \in DOMAIN in
    BY DEF InputAfter
<1>2. "cards" \notin DOMAIN Refused
    BY DEF Refused
<1> QED
    BY <1>1, <1>2

\* Assumptions leave alone what decides whether one is refused.
LEMMA AllowedOnAny ==
    ASSUME BookInv, NEW in, InputAfter(in, MaxAssumptions),
           NEW other, InputAfter(other, MaxAssumptions), NEW s, Allowed(in, s)
    PROVE  Allowed(other, s)
<1> DEFINE k == CardIndex(in.cards, s.target)
           l == CardIndex(other.cards, s.target)
<1>1. /\ AreCards(in.cards) /\ Distinct(in.cards)
      /\ AreCards(other.cards) /\ Distinct(other.cards)
    BY InputCards DEF InputAfter
<1>2. ASSUME k # 0
      PROVE  l # 0 /\ Available(AssetById(other.cards, s.target))
                        = Available(AssetById(in.cards, s.target))
  <2>1. k \in DOMAIN in.cards /\ in.cards[k].id = s.target
      BY <1>1, <1>2, FoundById DEF AssetById
  <2>2. k \in DOMAIN other.cards /\ SameAsset(other.cards[k], book.cards[k])
        /\ SameAsset(in.cards[k], book.cards[k])
      BY <2>1 DEF InputAfter
  <2>3. /\ other.cards[k].id = in.cards[k].id /\ other.cards[k].cost = in.cards[k].cost
        /\ other.cards[k].acc = in.cards[k].acc /\ other.cards[k].imp = in.cards[k].imp
      BY <2>2 DEF SameAsset, CardFields
  <2> HIDE DEF k
  <2>4. l = k
      BY <1>1, <2>1, <2>2, <2>3, FoundById
  <2>5. AssetById(other.cards, s.target) = other.cards[k]
      BY <2>4 DEF AssetById
  <2>6. AssetById(in.cards, s.target) = in.cards[k]
      BY DEF AssetById, k
  <2> QED
      BY <1>2, <2>3, <2>4, <2>5, <2>6 DEF Available
<1> QED
    BY <1>2 DEF Allowed, ImpairAllowed, ReplaceAllowed, DriverAllowed

\* A scenario on top of another one is not refused if none of what it adds
\* would be.
LEMMA AppliedAfter ==
    ASSUME BookInv, NEW q \in Seq(Assumptions), InputAfter(Applied(q), MaxAssumptions),
           NEW X, NEW r \in Seq(X), \A s \in X : Sound(s) /\ Allowed(Applied(q), s)
    PROVE  /\ InputAfter(Applied(q \o r), MaxAssumptions)
           /\ Unsupported(Applied(q \o r)) <=> Unsupported(Applied(q))
<1> DEFINE m == Len(q)
           n == Len(r)
           t == q \o r
<1>1. /\ m \in Nat /\ n \in Nat /\ Len(t) = m + n
      /\ \A i \in 1..n : t[m + i] = r[i] /\ r[i] \in X
  <2>1. q \in Seq(Assumptions \cup X) /\ r \in Seq(Assumptions \cup X)
      OBVIOUS
  <2> QED
      BY <2>1
<1>2. PICK after : /\ IsApplied(after, t)
                   /\ after[m] = Applied(q) /\ after[m + n] = Applied(t)
  <2>1. q \in Seq(Assumptions \cup X) /\ r \in Seq(Assumptions \cup X)
      OBVIOUS
  <2> QED
      BY <2>1, AppliedOn
<1> HIDE DEF m, n, t
<1> DEFINE Like(in) == Unsupported(in) <=> Unsupported(Applied(q))
           Q == {i \in 0..n : /\ InputAfter(after[m + i], MaxAssumptions)
                              /\ Like(after[m + i])}
<1>3. 0 \in Q
    BY <1>1, <1>2
<1>4. ASSUME NEW i \in 1..n, i - 1 \in Q PROVE i \in Q
  <2> DEFINE before == after[m + (i - 1)]
  <2>1. /\ m + i \in 1..Len(t) /\ (m + i) - 1 = m + (i - 1) /\ i \in 0..n
        /\ t[m + i] = r[i] /\ Sound(r[i]) /\ Allowed(Applied(q), r[i])
      BY <1>1
  <2>2. after[m + i] = IF before = Refused THEN Refused
                       ELSE ApplyOne(before, r[i], m + i)
      BY <1>2, <2>1 DEF IsApplied
  <2>3. InputAfter(before, MaxAssumptions) /\ Like(before)
      BY <1>4
  <2> HIDE DEF before
  <2>4. before # Refused /\ Allowed(before, r[i])
      BY <2>1, <2>3, InputsAreGiven, AllowedOnAny
  <2>5. after[m + i] = ApplyOne(before, r[i], m + i)
      BY <2>2, <2>4
  <2>6. InputAfter(after[m + i], MaxAssumptions)
      BY <2>1, <2>3, <2>4, <2>5, SoundKeeps
  <2>7. RulesKept(before, after[m + i])
      BY <2>1, <2>3, <2>4, <2>5, SoundKeepsRules
  <2>8. Unsupported(after[m + i]) <=> Unsupported(before)
      BY <2>3, <2>6, <2>7, SameSupport
  <2>9. Like(after[m + i])
      BY <2>3, <2>8
  <2> HIDE DEF Like
  <2> QED
      BY <2>1, <2>6, <2>9
<1>5. n \in Q
  <2>1. 0..n \subseteq Q
    <3> HIDE DEF Q
    <3> QED
        BY <1>1, <1>3, <1>4, InductionUpTo
  <2> HIDE DEF Q
  <2> QED
      BY <1>1, <2>1
<1> QED
    BY <1>1, <1>2, <1>5 DEF t

\* One assumption more.
LEMMA OneMore ==
    ASSUME NEW X, NEW q \in Seq(X), NEW s \in X
    PROVE  Applied(q \o <<s>>) = IF Applied(q) = Refused THEN Refused
                                 ELSE ApplyOne(Applied(q), s, Len(q) + 1)
<1>1. /\ <<s>> \in Seq(X) /\ Len(<<s>>) = 1 /\ Len(q) \in Nat
      /\ Len(q \o <<s>>) = Len(q) + 1 /\ (q \o <<s>>)[Len(q) + 1] = s
    OBVIOUS
<1>2. PICK after : /\ IsApplied(after, q \o <<s>>)
                   /\ after[Len(q)] = Applied(q)
                   /\ after[Len(q) + 1] = Applied(q \o <<s>>)
    BY <1>1, AppliedOn
<1>3. Len(q) + 1 \in 1..Len(q \o <<s>>) /\ (Len(q) + 1) - 1 = Len(q)
    BY <1>1
<1> QED
    BY <1>1, <1>2, <1>3 DEF IsApplied

\* A set of numbers can be put in the order of their charges, the largest
\* first.
ByCharge(c, i, j) == c[i] > c[j] \/ (c[i] = c[j] /\ i < j)

LEMMA SortedExists ==
    ASSUME NEW m \in Nat, NEW S \in SUBSET (1..m), NEW c \in [S -> Int]
    PROVE  \E s \in [1..Cardinality(S) -> S] :
              \A i, j \in DOMAIN s : i < j => ByCharge(c, s[i], s[j])
<1> DEFINE key == [i \in S |-> i - c[i] * (m + 1)]
           K == {key[i] : i \in S}
           place == [k \in K |-> CHOOSE i \in S : key[i] = k]
<1>1. \A i, j \in S : /\ c[i] < c[j] => key[i] > key[j]
                      /\ c[i] = c[j] => key[i] - key[j] = i - j
  <2> SUFFICES ASSUME NEW i \in S, NEW j \in S
               PROVE  /\ c[i] < c[j] => key[i] > key[j]
                      /\ c[i] = c[j] => key[i] - key[j] = i - j
      OBVIOUS
  <2> DEFINE u == c[i] * (m + 1)
             v == c[j] * (m + 1)
  <2>1. i \in 1..m /\ j \in 1..m /\ c[i] \in Int /\ c[j] \in Int
      OBVIOUS
  <2>2. u \in Int /\ v \in Int /\ key[i] = i - u /\ key[j] = j - v
      BY <2>1
  <2>3. ASSUME c[i] < c[j] PROVE u + (m + 1) <= v
    <3> DEFINE d == c[j] - c[i] - 1
    <3>1. d \in Nat /\ m + 1 \in Nat
        BY <2>1, <2>3
    <3>2. \A x, y \in Nat : x * y >= 0
        OBVIOUS
    <3>3. d * (m + 1) = v - u - (m + 1)
        BY <2>1
    <3>4. d * (m + 1) >= 0
      <4> HIDE DEF d
      <4> QED
          BY <3>1, <3>2
    <3> HIDE DEF d, u, v
    <3> QED
        BY <2>2, <3>3, <3>4
  <2>4. c[i] = c[j] => u = v
      OBVIOUS
  <2> HIDE DEF u, v, key
  <2> QED
      BY <2>1, <2>2, <2>3, <2>4
<1>2. key \in [S -> Int]
    OBVIOUS
<1>3. IsFiniteSet(S)
  <2>1. IsFiniteSet(1..m)
      BY FS_Interval
  <2> QED
      BY <2>1, FS_Subset
<1> HIDE DEF key
<1>4. \A i, j \in S : key[i] = key[j] => i = j
  <2> SUFFICES ASSUME NEW i \in S, NEW j \in S, key[i] = key[j], i # j PROVE FALSE
      OBVIOUS
  <2>1. i \in 1..m /\ j \in 1..m /\ c[i] \in Int /\ c[j] \in Int
      OBVIOUS
  <2>2. key[i] \in Int /\ key[j] \in Int
      BY <1>2
  <2> QED
      BY <1>1, <2>1, <2>2
<1>5. K \in SUBSET Int /\ IsFiniteSet(K) /\ Cardinality(K) = Cardinality(S)
  <2>1. K \in SUBSET Int
      BY <1>2
  <2>2. key \in Bijection(S, K)
      BY <1>2, <1>4 DEF Bijection, Injection, IsInjective, Surjection
  <2>3. ExistsBijection(S, K)
      BY <2>2 DEF ExistsBijection
  <2> QED
      BY <1>3, <2>1, <2>3, FS_Bijection
<1>6. PICK t \in [1..Cardinality(K) -> K] : Increasing(t)
    BY <1>5, OrderExists
<1>7. \A k \in K : place[k] \in S /\ key[place[k]] = k
    OBVIOUS
<1> HIDE DEF K, place
<1> DEFINE s == [i \in 1..Cardinality(S) |-> place[t[i]]]
<1>8. s \in [1..Cardinality(S) -> S]
    BY <1>5, <1>6, <1>7
<1>9. ASSUME NEW i \in DOMAIN s, NEW j \in DOMAIN s, i < j
      PROVE  ByCharge(c, s[i], s[j])
  <2>1. t[i] < t[j] /\ t[i] \in K /\ t[j] \in K
      BY <1>5, <1>6, <1>9 DEF Increasing
  <2>2. s[i] = place[t[i]] /\ s[j] = place[t[j]]
      OBVIOUS
  <2>3. s[i] \in 1..m /\ s[j] \in 1..m /\ c[s[i]] \in Int /\ c[s[j]] \in Int
      BY <1>8, <1>9
  <2>4. key[s[i]] < key[s[j]] /\ s[i] \in S /\ s[j] \in S
      BY <1>7, <2>1, <2>2
  <2>5. key[s[i]] \in Int /\ key[s[j]] \in Int
      BY <1>2, <2>4
  <2> HIDE DEF s
  <2> QED
      BY <1>1, <2>3, <2>4, <2>5 DEF ByCharge
<1> QED
    BY <1>8, <1>9

\* Values an option is tried with, and an assumption that is not refused where
\* another one is not.
Values(o) == {v \in Int : o.field = "amount" => v <= o.max}

AsAllowed(s, t) ==
    /\ t.template = s.template /\ t.target = s.target /\ t.date = s.date
    /\ s.template = "straight_impairment" => t.amount <= s.amount

\* What an option may assume.
OptionSound(o) ==
    /\ Sound(o.assumption)
    /\ o.field # None =>
          /\ {o.min, o.max, o.full} \subseteq Int
          /\ o.field = "amount" => o.min <= o.max
          /\ \A v \in Int : Sound(AssumptionAt(o, v))
          /\ \A v \in Values(o) : AsAllowed(o.assumption, AssumptionAt(o, v))

LEMMA AllowedAlso ==
    ASSUME NEW in, AreCards(in.cards), Distinct(in.cards),
           NEW s, NEW t, Sound(s), Sound(t), AsAllowed(s, t), Allowed(in, s)
    PROVE  Allowed(in, t)
<1> DEFINE a == AssetById(in.cards, s.target)
<1>1. CASE s.template = "straight_impairment"
  <2>1. ImpairAllowed(in, s)
      BY <1>1 DEF Allowed
  <2>2. CardIndex(in.cards, s.target) \in DOMAIN in.cards
      BY <2>1, FoundById DEF ImpairAllowed
  <2>3. Available(a) \in Int
      BY <2>2 DEF AreCards, IsCard, AssetById, Available, Greater
  <2>4. t.amount <= s.amount /\ t.amount \in Int /\ s.amount \in Int
      BY <1>1 DEF AsAllowed, Sound, IsAssumption
  <2> HIDE DEF a
  <2>5. ~(s.amount > Available(a))
      BY <2>1 DEF ImpairAllowed, a
  <2>6. ~(t.amount > Available(a))
      BY <2>3, <2>4, <2>5
  <2>7. ImpairAllowed(in, t)
      BY <2>1, <2>6 DEF ImpairAllowed, AsAllowed, a
  <2> QED
      BY <1>1, <2>7 DEF Allowed, AsAllowed
<1>2. CASE s.template # "straight_impairment"
    BY <1>2 DEF Allowed, AsAllowed, Sound, ReplaceAllowed, DriverAllowed
<1> QED
    BY <1>1, <1>2

LEMMA DriverOptionSound ==
    ASSUME NEW o, o.field \in {"production", "total"},
           {o.min, o.max, o.full} \subseteq Int,
           o.assumption.template \in {"production_driver", "workload_driver"},
           o.assumption.date \in Int, o.assumption.amount = 0,
           NEW D, o.assumption.fields \in [D -> Int],
           o.assumption = Assumption(o.assumption.template, o.assumption.target,
                              o.assumption.amount, o.assumption.date,
                              o.assumption.fields)
    PROVE  OptionSound(o)
<1> DEFINE s == o.assumption
<1>1. Sound(s)
    BY DEF Sound, IsAssumption
<1>2. ASSUME NEW v \in Int
      PROVE  Sound(AssumptionAt(o, v)) /\ AsAllowed(s, AssumptionAt(o, v))
  <2> DEFINE t == AssumptionAt(o, v)
             fields == [s.fields EXCEPT ![o.field] = v]
  <2>1. t = [s EXCEPT !.fields = fields]
    <3>1. o.field # None /\ o.field # "amount"
        BY NamesAssumption
    <3> QED
        BY <3>1 DEF AssumptionAt
  <2>2. fields \in [D -> Int]
      OBVIOUS
  <2> HIDE DEF fields
  <2>3. /\ t.template = s.template /\ t.target = s.target /\ t.date = s.date
        /\ t.amount = s.amount /\ t.fields = fields
      BY <2>1 DEF Assumption
  <2> HIDE DEF t
  <2>4. Sound(t)
      BY <1>1, <2>2, <2>3 DEF Sound, IsAssumption
  <2>5. AsAllowed(s, t)
      BY <2>3 DEF AsAllowed
  <2> QED
      BY <2>4, <2>5 DEF t
<1>3. o.field # "amount"
    OBVIOUS
<1> QED
    BY <1>1, <1>2, <1>3 DEF OptionSound, Values

LEMMA BlockOptionSound ==
    ASSUME NEW p, p.period \in Int, NEW b, NEW d, IsDriver(d)
    PROVE  OptionSound(ProductionOption(p, b, d))
<1> DEFINE o == ProductionOption(p, b, d)
           bound == Greater(d.production, d.reserves)
           x == IF p.delta >= 0 THEN bound ELSE 0
           fields == [production |-> x, reserves |-> d.reserves]
<1>1. bound \in Int /\ d.production \in Int /\ d.reserves \in Int
    BY DEF IsDriver, Greater
<1> HIDE DEF bound
<1>2. x \in Int
    BY <1>1
<1>3. /\ o.field = "production"
      /\ o.assumption = Assumption("production_driver", b, 0, p.period, fields)
      /\ {o.min, o.max, o.full} \subseteq Int
    BY <1>1 DEF ProductionOption, bound
<1> HIDE DEF o, x
<1>4. fields \in [{"production", "reserves"} -> Int]
    BY <1>1, <1>2
<1> HIDE DEF fields
<1>5. /\ o.assumption.template = "production_driver" /\ o.assumption.target = b
      /\ o.assumption.amount = 0 /\ o.assumption.date = p.period
      /\ o.assumption.fields = fields
    BY <1>3 DEF Assumption
<1>6. OptionSound(o)
    BY <1>3, <1>4, <1>5, DriverOptionSound
<1> QED
    BY <1>6 DEF o

\* What the members of a pool have cost.
CostSum(S) == MapThenSumSet(LAMBDA a : a.cost, S)

LEMMA CostSumIs ==
    ASSUME NEW S, IsFiniteSet(S), \A a \in S : a.cost \in Int
    PROVE  CostSum(S) \in Int
<1> DEFINE f == [a \in S |-> a.cost]
           L(h) == [T \in SUBSET S |->
                       IF T = {} THEN 0
                       ELSE LET x == CHOOSE x \in T : TRUE
                            IN  x.cost + h[T \ {x}]]
<1>1. CostSum(S) = (CHOOSE h : h = L(h))[S]
    BY DEF CostSum, MapThenSumSet, MapThenFoldSet
<1>2. ASSUME NEW h PROVE L(h) = Fold(f, S, h)
  <2>1. \A T \in SUBSET S : T # {} => (CHOOSE x \in T : TRUE) \in S
      OBVIOUS
  <2> QED
      BY <2>1 DEF Fold
<1>4. \A a \in S : f[a] \in Int
    OBVIOUS
<1> HIDE DEF f, L
<1>3. (CHOOSE h : h = L(h)) = (CHOOSE h : h = Fold(f, S, h))
    BY <1>2
<1>5. CostSum(S) = SumFunctionOnSet(f, S)
    BY <1>1, <1>3, FoldIs
<1> QED
    BY <1>4, <1>5, SumOfNumbers

LEMMA PoolOptionsSound ==
    ASSUME BookInv, NEW p, p.period \in Int, NEW k \in DOMAIN WorkloadOptions(p)
    PROVE  OptionSound(WorkloadOptions(p)[k])
<1> DEFINE assets == {book.cards[i] : i \in EligibleAssets(p.scope)}
           pooled == {a \in assets : a.code = WorkloadCode}
           targets == Ascending({WorkloadTarget(a) : a \in
                          {x \in pooled : Supports(p, x, "WORKLOAD")}})
           Pool(t) == {a \in pooled : WorkloadTarget(a) = t}
           Maximum(t) == Greater(100, CostSum(Pool(t)))
           Full(t) == IF p.delta >= 0 THEN Maximum(t) ELSE 0
           fields(t) == [workload |-> 1, fee |-> 0, total |-> Full(t)]
           Option(t) ==
               [kind |-> "operational", risk |-> 55,
                affected |-> {a.id : a \in Pool(t)}, field |-> "total",
                min |-> 0, max |-> Maximum(t), full |-> Full(t),
                rising |-> p.delta >= 0,
                assumption |-> Assumption("workload_driver", t, 0, p.period, fields(t))]
<1>1. WorkloadOptions(p) = [j \in DOMAIN targets |-> Option(targets[j])]
    BY DEF WorkloadOptions, CostSum
<1>2. ASSUME NEW t PROVE Maximum(t) \in Int
  <2>1. EligibleAssets(p.scope) \subseteq DOMAIN book.cards
      BY DEF EligibleAssets
  <2>2. IsFiniteSet(EligibleAssets(p.scope))
    <3>1. BookOK
        BY DEF BookOK, BookInv
    <3> QED
        BY <2>1, <3>1, Cards, FS_Subset
  <2> DEFINE f == [i \in DOMAIN book.cards |-> book.cards[i]]
  <2>3. IsFiniteSet({f[i] : i \in EligibleAssets(p.scope)})
      BY <2>2, FiniteImage
  <2>4. Pool(t) \subseteq {f[i] : i \in EligibleAssets(p.scope)}
      BY <2>1
  <2>5. \A a \in Pool(t) : a.cost \in Int
      BY <2>1, BookIs DEF AreCards, IsCard
  <2> HIDE DEF Pool, f
  <2>6. IsFiniteSet(Pool(t))
      BY <2>3, <2>4, FS_Subset
  <2>7. CostSum(Pool(t)) \in Int
      BY <2>5, <2>6, CostSumIs
  <2> QED
      BY <2>7 DEF Greater
<1>3. k \in DOMAIN targets
    BY <1>1
<1> HIDE DEF targets, Pool, Maximum
<1>4. ASSUME NEW t PROVE OptionSound(Option(t))
  <2> DEFINE o == Option(t)
             g == fields(t)
  <2>1. Full(t) \in Int /\ Maximum(t) \in Int
      BY <1>2
  <2>2. /\ o.field = "total" /\ o.min = 0 /\ o.max = Maximum(t) /\ o.full = Full(t)
        /\ o.assumption = Assumption("workload_driver", t, 0, p.period, g)
      OBVIOUS
  <2> HIDE DEF o, Full
  <2>3. g \in [{"workload", "fee", "total"} -> Int]
      BY <2>1
  <2> HIDE DEF g, fields
  <2>4. /\ o.assumption.template = "workload_driver" /\ o.assumption.target = t
        /\ o.assumption.amount = 0 /\ o.assumption.date = p.period
        /\ o.assumption.fields = g
      BY <2>2 DEF Assumption
  <2>5. OptionSound(o)
      BY <2>1, <2>2, <2>3, <2>4, DriverOptionSound
  <2> QED
      BY <2>5 DEF o
<1> HIDE DEF Option
<1> QED
    BY <1>1, <1>3, <1>4

LEMMA BlockOptionsSound ==
    ASSUME BookInv, NEW p, p.period \in Int, NEW k \in DOMAIN ProductionOptions(p)
    PROVE  OptionSound(ProductionOptions(p)[k])
<1>1. PICK b : ProductionOptions(p)[k] =
                  ProductionOption(p, b, Driver(book.drivers, "PRODUCTION", b, p.period))
    BY DEF ProductionOptions
<1>2. IsDriver(Driver(book.drivers, "PRODUCTION", b, p.period))
    BY BookIs, DriverIsTyped
<1> QED
    BY <1>1, <1>2, BlockOptionSound

ChargesTyped(p) ==
    \A i \in DOMAIN book.cards : Monthly(book.cards[i].id, p.period) \in Int

\* The straight-line assets considered are cards of the book.
LEMMA StraightAssetsAre ==
    ASSUME BookInv, NEW p, ChargesTyped(p), NEW k \in DOMAIN StraightAssets(p)
    PROVE  IsCard(StraightAssets(p)[k])
<1> DEFINE Charge(i) == Monthly(book.cards[i].id, p.period)
           charging == {i \in EligibleAssets(p.scope) :
                           book.cards[i].code \in StraightLineCodes /\ Charge(i) > 0}
           n == Cardinality(charging)
           Larger(i, j) == Charge(i) > Charge(j) \/ (Charge(i) = Charge(j) /\ i < j)
           sorted == CHOOSE s \in [1..n -> charging] :
                         \A i, j \in DOMAIN s : i < j => Larger(s[i], s[j])
           Enough(m) ==
               /\ m >= PoolMinimum
               /\ MapThenSumSet(LAMBDA i : Charge(sorted[i]), 1..m)
                    >= Greater(3 * (IF p.delta < 0 THEN -p.delta ELSE p.delta), 100)
           enough == {m \in 1..n : Enough(m)}
           count == IF enough = {} THEN n ELSE Min(enough)
<1>1. StraightAssets(p) = [i \in 1..count |-> book.cards[sorted[i]]]
    BY DEF StraightAssets
<1>2. charging \subseteq DOMAIN book.cards
    BY DEF EligibleAssets
<1>3. PICK m \in Nat : DOMAIN book.cards = 1..m
    BY BookIs DEF AreCards, IsSequence
<1>4. n \in Nat
  <2> HIDE DEF charging
  <2>1. IsFiniteSet(1..m)
      BY FS_Interval
  <2> QED
      BY <1>2, <1>3, <2>1, FS_Subset, FS_CardinalityType
<1>5. sorted \in [1..n -> charging]
  <2> DEFINE c == [i \in charging |-> Charge(i)]
  <2>1. c \in [charging -> Int] /\ \A i \in charging : c[i] = Charge(i)
      BY <1>2 DEF ChargesTyped
  <2> HIDE DEF c, charging
  <2>2. PICK s \in [1..n -> charging] :
            \A i, j \in DOMAIN s : i < j => ByCharge(c, s[i], s[j])
      BY <1>2, <1>3, <2>1, SortedExists
  <2>3. \A i, j \in DOMAIN s : i < j => Larger(s[i], s[j])
    <3>1. \A i, j \in charging : ByCharge(c, i, j) => Larger(i, j)
        BY <2>1 DEF ByCharge
    <3> QED
        BY <2>2, <3>1
  <2> HIDE DEF Larger
  <2> QED
      BY <2>2, <2>3
<1> HIDE DEF sorted, charging, Enough
<1>6. count <= n /\ count \in Int
  <2>1. enough \in SUBSET Int /\ IsFiniteSet(enough) /\ enough \subseteq 1..n
    <3>1. IsFiniteSet(1..n)
        BY <1>4, FS_Interval
    <3>2. enough \subseteq 1..n
        OBVIOUS
    <3> HIDE DEF enough, n
    <3>3. IsFiniteSet(enough)
        BY <3>1, <3>2, FS_Subset
    <3>4. 1..n \subseteq Int
        OBVIOUS
    <3> QED
        BY <3>2, <3>3, <3>4
  <2> HIDE DEF enough
  <2>2. enough # {} => Min(enough) \in 1..n
      BY <2>1, EndsOfPeriods
  <2> QED
      BY <1>4, <2>2
<1>7. k \in 1..n
    BY <1>1, <1>4, <1>6
<1>8. sorted[k] \in DOMAIN book.cards /\ StraightAssets(p)[k] = book.cards[sorted[k]]
    BY <1>1, <1>2, <1>5, <1>7
<1> QED
    BY <1>8, BookIs DEF AreCards

LEMMA ImpairmentOptionsSound ==
    ASSUME BookInv, NEW p, p.period \in Int, ChargesTyped(p),
           NEW k \in DOMAIN ImpairmentOptions(p)
    PROVE  OptionSound(ImpairmentOptions(p)[k])
<1> DEFINE o == ImpairmentOptions(p)[k]
           a == StraightAssets(p)[k]
           x == Impairable(a)
           s == Assumption("straight_impairment", a.id, x, p.period, <<>>)
<1>1. /\ o.field = "amount" /\ o.min = 0 /\ o.max = x /\ o.full = x
      /\ o.assumption = s /\ x > 0 /\ k \in DOMAIN StraightAssets(p)
    BY DEF ImpairmentOptions
<1>2. x \in Int
  <2>1. IsCard(a)
      BY <1>1, StraightAssetsAre
  <2> HIDE DEF a
  <2>2. Blank(a.residual, 0) \in Int
      BY <2>1 DEF Blank, IsCard
  <2>3. a.cost * (100 - Blank(a.residual, 0)) \in Int
      BY <2>1, <2>2 DEF IsCard
  <2>4. a.acc \in Int /\ a.imp \in Int
      BY <2>1 DEF IsCard
  <2> QED
      BY <2>3, <2>4 DEF Impairable, TotalDepreciable, Greater
<1> HIDE DEF o, x, a
<1>3. /\ s.template = "straight_impairment" /\ s.target = a.id /\ s.amount = x
      /\ s.date = p.period /\ s.fields = <<>>
    BY DEF Assumption
<1>4. ASSUME NEW v \in Int
      PROVE  /\ Sound([s EXCEPT !.amount = v])
             /\ v <= x => AsAllowed(s, [s EXCEPT !.amount = v])
  <2> DEFINE t == [s EXCEPT !.amount = v]
  <2>1. /\ t.template = "straight_impairment" /\ t.target = a.id /\ t.amount = v
        /\ t.date = p.period /\ t.fields = <<>>
      BY DEF Assumption
  <2> HIDE DEF t, s
  <2>2. Sound(t)
      BY <2>1 DEF Sound, IsAssumption
  <2>3. v <= x => AsAllowed(s, t)
      BY <1>3, <2>1 DEF AsAllowed
  <2> QED
      BY <2>2, <2>3 DEF t
<1>5. Sound(s)
  <2> HIDE DEF s
  <2> QED
      BY <1>2, <1>3 DEF Sound, IsAssumption
<1>6. \A v : AssumptionAt(o, v) = [s EXCEPT !.amount = v]
    BY <1>1, NamesAssumption DEF AssumptionAt
<1> HIDE DEF s
<1>7. OptionSound(o)
    BY <1>1, <1>2, <1>4, <1>5, <1>6 DEF OptionSound, Values
<1> QED
    BY <1>7 DEF o

LEMMA AcceleratedOptionsSound ==
    ASSUME NEW p, NEW k \in DOMAIN AcceleratedOptions(p)
    PROVE  OptionSound(AcceleratedOptions(p)[k])
<1> DEFINE o == AcceleratedOptions(p)[k]
           s == Assumption("straight_accelerated", StraightAssets(p)[k].id, 0, None, <<>>)
<1>1. o.field = None /\ o.assumption = s
    BY DEF AcceleratedOptions
<1>2. Sound(s)
    BY DEF Sound, IsAssumption, Assumption
<1> HIDE DEF o, s
<1>3. OptionSound(o)
    BY <1>1, <1>2 DEF OptionSound
<1> QED
    BY <1>3 DEF o

LEMMA OptionsSound ==
    ASSUME BookInv, NEW p, p.period \in Int, NEW kind \in Groups,
           kind = "accounting" => ChargesTyped(p),
           NEW k \in DOMAIN Options(p, kind)
    PROVE  OptionSound(Options(p, kind)[k])
<1>1. CASE kind = "accounting"
    BY <1>1, ImpairmentOptionsSound, AcceleratedOptionsSound DEF Options
<1>2. CASE kind = "operational"
  <2> DEFINE P == ProductionOptions(p)
             W == WorkloadOptions(p)
  <2>1. Options(p, kind) = P \o W
      BY <1>2 DEF Options
  <2>2. BookOK
      BY DEF BookOK, BookInv
  <2>3. PICK n \in Nat : P \in [1..n -> {P[i] : i \in 1..n}]
      BY <2>2, BlockOptions
  <2>4. PICK m \in Nat : W \in [1..m -> {W[i] : i \in 1..m}]
      BY <2>2, PoolOptions
  <2>5. /\ \A i \in 1..n : OptionSound(P[i])
        /\ \A i \in 1..m : OptionSound(W[i])
      BY <2>3, <2>4, BlockOptionsSound, PoolOptionsSound
  <2> HIDE DEF P, W
  <2> DEFINE X == {P[i] : i \in 1..n} \cup {W[i] : i \in 1..m}
  <2>6. P \in Seq(X) /\ Len(P) = n /\ W \in Seq(X) /\ Len(W) = m
    <3>1. P \in [1..n -> X] /\ W \in [1..m -> X]
        BY <2>3, <2>4
    <3> HIDE DEF X
    <3> QED
        BY <3>1
  <2>7. \A o \in X : OptionSound(o)
      BY <2>5
  <2> HIDE DEF X
  <2>8. P \o W \in Seq(X)
      BY <2>6
  <2>9. (P \o W)[k] \in X
      BY <2>1, <2>8
  <2> QED
      BY <2>1, <2>7, <2>9
<1> QED
    BY <1>1, <1>2 DEF Groups

\* An assumption that is not refused on top of what the plan inherits, and
\* leaves an input the forecast takes.
Admitted(s, p) ==
    /\ Sound(s)
    /\ Allowed(Applied(p.inherited), s)
    /\ ~Unsupported(Applied(p.inherited))

\* A trial of one assumption that is not refused, and of those allowed with it.
LEMMA TrialOfOne ==
    ASSUME BookInv, NEW p, PlanFits(p), NEW s, NEW t, Sound(s), Sound(t),
           AsAllowed(s, t), Accepted(Applied(p.inherited \o <<s>>))
    PROVE  Admitted(t, p) /\ EffectOf(<<t>>, p) \in Int
<1> DEFINE q == p.inherited
           X == Assumptions \cup {s, t}
           before == Applied(q)
           in == Applied(q \o <<t>>)
           measured == Applied(q \o <<s>>)
<1>1. q \in Seq(X) /\ s \in X /\ t \in X /\ InputAfter(before, MaxAssumptions)
    BY DEF PlanFits
<1> HIDE DEF X
<1>2. /\ before # Refused /\ ApplyOne(before, s, Len(q) + 1) # Refused
      /\ measured = ApplyOne(before, s, Len(q) + 1) /\ ~Unsupported(measured)
    BY <1>1, OneMore DEF Accepted
<1>3. in = ApplyOne(before, t, Len(q) + 1)
    BY <1>1, <1>2, OneMore
<1> HIDE DEF measured
<1> HIDE DEF before, in
<1>4. Allowed(before, s)
    BY <1>1, <1>2, SoundKeeps
<1>5. Distinct(before.cards) /\ AreCards(before.cards)
    BY <1>1, InputCards DEF InputAfter
<1>6. Allowed(before, t)
    BY <1>4, <1>5, AllowedAlso
<1>7. InputAfter(in, MaxAssumptions)
    BY <1>1, <1>3, <1>6, SoundKeeps
<1>8. ScopeAmount(in, p) \in Int
    BY <1>7, TrialIsTotal DEF PlanFits
<1>9. Simulate(<<t>>, p) \in Int
    BY <1>8 DEF Simulate, in
<1>10. EffectOf(<<t>>, p) \in Int
    BY <1>9 DEF EffectOf, Direction, PlanFits
<1>11. InputAfter(measured, MaxAssumptions) /\ RulesKept(before, measured)
    BY <1>1, <1>2, <1>4, SoundKeeps, SoundKeepsRules
<1>12. ~Unsupported(before)
    BY <1>1, <1>2, <1>11, SameSupport
<1> QED
    BY <1>6, <1>10, <1>12 DEF Admitted, before

\* What the optimizer is given.
ItemSound(item, p) ==
    /\ OptionSound(item.option)
    /\ item.usable \in Nat \ {0}
    /\ Admitted(item.option.assumption, p)
    /\ item.option.field # None =>
          \A v \in Values(item.option) :
              /\ Admitted(AssumptionAt(item.option, v), p)
              /\ EffectOf(<<AssumptionAt(item.option, v)>>, p) \in Int

LEMMA PreparedSound ==
    ASSUME BookInv, NEW p, PlanFits(p), NEW kind \in Groups,
           kind = "accounting" => ChargesTyped(p),
           NEW k \in DOMAIN Prepared(p, kind)
    PROVE  ItemSound(Prepared(p, kind)[k], p)
<1> DEFINE options == Options(p, kind)
           usable(j) == IF Accepted(Applied(p.inherited \o <<options[j].assumption>>))
                        THEN EffectOf(<<options[j].assumption>>, p)
                        ELSE 0
           measured == [j \in DOMAIN options |->
                           [option |-> options[j], usable |-> usable(j)]]
           moving == {j \in DOMAIN options : measured[j].usable > 0}
           o == options[k]
           s == o.assumption
<1>1. Prepared(p, kind) = IF p.delta = 0 THEN <<>> ELSE [j \in moving |-> measured[j]]
    BY DEF Prepared, Moving, Measured
<1>2. k \in DOMAIN options /\ Prepared(p, kind)[k] = [option |-> o, usable |-> usable(k)]
      /\ usable(k) > 0
  <2> HIDE DEF options, usable
  <2>1. k \in moving
      BY <1>1
  <2> QED
      BY <1>1, <2>1
<1>3. p.period \in Int
    BY BookIs DEF PlanFits
<1>4. OptionSound(o)
    BY <1>2, <1>3, OptionsSound
<1> HIDE DEF options
<1>5. Sound(s) /\ AsAllowed(s, s)
    BY <1>4 DEF OptionSound, AsAllowed, Sound, IsAssumption
<1>6. Accepted(Applied(p.inherited \o <<s>>)) /\ usable(k) = EffectOf(<<s>>, p)
    BY <1>2
<1>7. Admitted(s, p) /\ EffectOf(<<s>>, p) \in Int
    BY <1>5, <1>6, TrialOfOne
<1>8. usable(k) \in Nat \ {0}
    BY <1>2, <1>6, <1>7
<1>9. ASSUME o.field # None, NEW v \in Values(o)
      PROVE  /\ Admitted(AssumptionAt(o, v), p)
             /\ EffectOf(<<AssumptionAt(o, v)>>, p) \in Int
  <2>1. Sound(AssumptionAt(o, v)) /\ AsAllowed(s, AssumptionAt(o, v))
      BY <1>4, <1>9 DEF OptionSound, Values
  <2> QED
      BY <1>5, <1>6, <2>1, TrialOfOne
<1> HIDE DEF o, usable
<1> QED
    BY <1>2, <1>4, <1>7, <1>8, <1>9 DEF ItemSound, o

-----------------------------------------------------------------------------
(* Amounts that are found by trial *)

\* A search goes on from trial to trial.
SearchStart(o) == [low |-> o.min, high |-> o.max, best |-> None, over |-> FALSE]

TriedValue(item, effect, guesses, z, n) ==
    IF n <= guesses THEN Guess(item, effect, z.best) ELSE (z.low + z.high) \div 2

SearchStep(assumptions, k, item, effect, guesses, p, z, n) ==
    LET value == TriedValue(item, effect, guesses, z, n)
    IN  IF z.over THEN z
        ELSE Tried(z, n <= guesses, value,
                   EffectOf(With(assumptions, k, item.option, value), p),
                   effect, item.option.rising)

IsSearch(after, assumptions, k, item, effect, guesses, p) ==
    /\ after[0] = SearchStart(item.option)
    /\ \A n \in 1..(guesses + Halvings) :
          after[n] = SearchStep(assumptions, k, item, effect, guesses, p,
                                after[n - 1], n)

LEMMA SearchInSteps ==
    ASSUME NEW assumptions, NEW k, NEW item, NEW effect, NEW guesses \in Nat, NEW p
    PROVE  \E after : /\ IsSearch(after, assumptions, k, item, effect, guesses, p)
                      /\ Search(assumptions, k, item, effect, guesses, p)
                            = after[guesses + Halvings].best.value
<1> DEFINE n == guesses + Halvings
           start == SearchStart(item.option)
           One(z, i) == SearchStep(assumptions, k, item, effect, guesses, p, z, i)
           Loop(f) == [i \in 0..n |-> IF i = 0 THEN start ELSE One(f[i - 1], i)]
           after == CHOOSE f : f = Loop(f)
<1>1. Search(assumptions, k, item, effect, guesses, p) = after[n].best.value
    BY DEF Search, SearchStep, SearchStart, TriedValue
<1>2. n \in Nat
    BY GoalsAssumption
<1> HIDE DEF One, n, start
<1> DEFINE Filled(m, f) == /\ f = [i \in 0..m |-> f[i]] /\ f[0] = start
                          /\ \A i \in 1..m : f[i] = One(f[i - 1], i)
           M == {m \in 0..n : \E f : Filled(m, f)}
<1>3. 0 \in M
  <2>1. Filled(0, [i \in 0..0 |-> start]) /\ 0 \in 0..n
      BY <1>2
  <2> HIDE DEF Filled
  <2> QED
      BY <2>1
<1>4. ASSUME NEW m \in 1..n, m - 1 \in M PROVE m \in M
  <2>1. PICK f : Filled(m - 1, f)
      BY <1>4
  <2> DEFINE h == [i \in 0..m |-> IF i = m THEN One(f[m - 1], m) ELSE f[i]]
  <2>2. \A i \in 0..m : h[i] = IF i = m THEN One(f[m - 1], m) ELSE f[i]
      OBVIOUS
  <2>3. h = [i \in 0..m |-> h[i]]
      OBVIOUS
  <2> HIDE DEF h
  <2>4. h[0] = start
    <3>1. 0 \in 0..m /\ 0 # m
        BY <1>2
    <3>2. f[0] = start
        BY <2>1
    <3> QED
        BY <2>2, <3>1, <3>2
  <2>5. ASSUME NEW i \in 1..m PROVE h[i] = One(h[i - 1], i)
    <3>1. h[i - 1] = f[i - 1]
        BY <1>2, <2>2
    <3>2. CASE i = m
        BY <2>2, <3>1, <3>2
    <3>3. CASE i # m
      <4>1. i \in 1..(m - 1)
          BY <1>2, <3>3
      <4>2. f[i] = One(f[i - 1], i)
          BY <2>1, <4>1
      <4>3. h[i] = f[i]
          BY <2>2, <3>3
      <4> QED
          BY <3>1, <4>2, <4>3
    <3> QED
        BY <3>2, <3>3
  <2>6. Filled(m, h)
      BY <2>3, <2>4, <2>5
  <2>7. m \in 0..n
      BY <1>2
  <2> HIDE DEF Filled
  <2> QED
      BY <2>6, <2>7
<1>5. PICK g : Filled(n, g)
  <2>1. 0..n \subseteq M
    <3> HIDE DEF M
    <3> QED
        BY <1>2, <1>3, <1>4, InductionUpTo
  <2>2. n \in M
    <3> HIDE DEF M
    <3> QED
        BY <1>2, <2>1
  <2> QED
      BY <2>2
<1>6. g = Loop(g)
  <2>1. ASSUME NEW i \in 0..n
        PROVE  g[i] = IF i = 0 THEN start ELSE One(g[i - 1], i)
    <3>1. i # 0 => i \in 1..n
        BY <1>2
    <3> QED
        BY <1>5, <3>1
  <2> QED
      BY <1>5, <2>1
<1>7. after = Loop(after)
    BY <1>6
<1> HIDE DEF after
<1>8. after[0] = start /\ \A i \in 1..n : after[i] = One(after[i - 1], i)
    BY <1>2, <1>7
<1>9. IsSearch(after, assumptions, k, item, effect, guesses, p)
    BY <1>8 DEF IsSearch, One, start, n
<1> QED
    BY <1>1, <1>9 DEF n

\* A guess needs trials that are numbers, halving the range does not.
Guessing(assumptions, k, item, effect, guesses, p) ==
    guesses # 0 =>
        /\ effect \in Int /\ item.usable \in Nat \ {0}
        /\ \A v \in Values(item.option) :
              EffectOf(With(assumptions, k, item.option, v), p) \in Int

BestOK(best, o, guesses) ==
    best.value \in Values(o) /\ (guesses # 0 => best.effect \in Int)

SearchOK(z, o, guesses) ==
    /\ z.low \in Values(o) /\ z.high \in Values(o)
    /\ z.best = None \/ BestOK(z.best, o, guesses)

LEMMA ValueTried ==
    ASSUME NEW assumptions, NEW k, NEW item, NEW effect, NEW guesses \in Nat, NEW p,
           OptionSound(item.option), item.option.field # None,
           Guessing(assumptions, k, item, effect, guesses, p),
           NEW z, SearchOK(z, item.option, guesses), NEW n \in Nat \ {0}
    PROVE  TriedValue(item, effect, guesses, z, n) \in Values(item.option)
<1> DEFINE o == item.option
<1>1. {o.min, o.max, o.full} \subseteq Int
    BY DEF OptionSound
<1>2. CASE n <= guesses
  <2> DEFINE tried == z.best
             neutral == IF o.full <= o.min THEN o.max ELSE o.min
             start == IF tried = None THEN neutral ELSE tried.value
             missing == IF tried = None THEN Lesser(effect, item.usable)
                                        ELSE effect - tried.effect
             share == (o.full - neutral) * missing
  <2>1. guesses # 0 /\ effect \in Int /\ item.usable \in Nat \ {0}
      BY <1>2 DEF Guessing
  <2>2. tried # None => tried.value \in Int /\ tried.effect \in Int
      BY <2>1 DEF SearchOK, BestOK, Values
  <2> HIDE DEF tried, o
  <2>3. neutral \in Int
      BY <1>1
  <2>4. start \in Int /\ missing \in Int
      BY <2>1, <2>2, <2>3 DEF Lesser
  <2>5. share \in Int
      BY <1>1, <2>3, <2>4
  <2>6. HalfEven(share, item.usable) \in Int
    <3> HIDE DEF share
    <3>1. share \div item.usable \in Int
        BY <2>1, <2>5, Quotient
    <3> QED
        BY <3>1 DEF HalfEven
  <2>7. TriedValue(item, effect, guesses, z, n)
          = Clamp(o, start + HalfEven(share, item.usable))
      BY <1>2 DEF TriedValue, Guess, tried, o
  <2> HIDE DEF start, missing, share, neutral
  <2>8. \A v \in Int : Clamp(o, v) \in Int /\ Clamp(o, v) <= o.max
      BY <1>1 DEF Clamp, Lesser, Greater
  <2> QED
      BY <2>4, <2>6, <2>7, <2>8 DEF Values, o
<1>3. CASE ~(n <= guesses)
  <2> DEFINE sum == z.low + z.high
  <2>1. TriedValue(item, effect, guesses, z, n) = sum \div 2
      BY <1>3 DEF TriedValue
  <2>2. /\ z.low \in Int /\ z.high \in Int
        /\ o.field = "amount" => z.low <= o.max /\ z.high <= o.max
      BY DEF SearchOK, Values
  <2>3. sum \in Int /\ (o.field = "amount" => sum <= 2 * o.max)
      BY <1>1, <2>2
  <2> HIDE DEF sum
  <2>4. sum \div 2 \in Int /\ 2 * (sum \div 2) <= sum
      BY <2>3, Quotient
  <2>5. o.field = "amount" => sum \div 2 <= o.max
      BY <1>1, <2>3, <2>4
  <2> QED
      BY <2>1, <2>4, <2>5 DEF Values
<1> QED
    BY <1>2, <1>3

LEMMA SearchMoves ==
    ASSUME NEW assumptions, NEW k, NEW item, NEW effect, NEW guesses \in Nat, NEW p,
           OptionSound(item.option), item.option.field # None,
           Guessing(assumptions, k, item, effect, guesses, p),
           NEW z, SearchOK(z, item.option, guesses),
           NEW n \in 1..(guesses + Halvings), n # 1 => BestOK(z.best, item.option, guesses),
           n = 1 => ~z.over
    PROVE  LET y == SearchStep(assumptions, k, item, effect, guesses, p, z, n)
           IN  SearchOK(y, item.option, guesses) /\ BestOK(y.best, item.option, guesses)
<1> DEFINE o == item.option
           value == TriedValue(item, effect, guesses, z, n)
           result == EffectOf(With(assumptions, k, o, value), p)
           y == SearchStep(assumptions, k, item, effect, guesses, p, z, n)
           error == Apart(result, effect)
           try == [value |-> value, effect |-> result, error |-> error]
<1>1. n \in Nat \ {0}
    BY GoalsAssumption
<1>2. value \in Values(o)
    BY <1>1, ValueTried
<1>3. guesses # 0 => result \in Int
    BY <1>2 DEF Guessing
<1>4. CASE z.over
    BY <1>4 DEF SearchStep
<1>5. CASE ~z.over
  <2>1. y = Tried(z, n <= guesses, value, result, effect, o.rising)
      BY <1>5 DEF SearchStep
  <2> HIDE DEF y, value, result, o
  <2>2. /\ y.low \in {value, z.low} /\ y.high \in {value, z.high}
        /\ y.best = IF z.best = None \/ error < z.best.error THEN try ELSE z.best
      BY <2>1 DEF Tried
  <2>3. BestOK(try, o, guesses)
      BY <1>2, <1>3 DEF BestOK
  <2> HIDE DEF try, error
  <2>4. BestOK(y.best, o, guesses)
      BY <2>2, <2>3 DEF SearchOK, o
  <2>5. SearchOK(y, o, guesses)
      BY <1>2, <2>2, <2>4 DEF SearchOK, o
  <2> QED
      BY <2>4, <2>5 DEF y, o
<1> QED
    BY <1>4, <1>5

\* The best trial is one of a value the option may be given.
LEMMA SearchFits ==
    ASSUME NEW assumptions, NEW k, NEW item, NEW effect, NEW guesses \in Nat, NEW p,
           OptionSound(item.option), item.option.field # None,
           Guessing(assumptions, k, item, effect, guesses, p)
    PROVE  Search(assumptions, k, item, effect, guesses, p) \in Values(item.option)
<1> DEFINE o == item.option
           n == guesses + Halvings
           Good(i, z) == /\ SearchOK(z, o, guesses)
                         /\ IF i = 0 THEN z.over = FALSE ELSE BestOK(z.best, o, guesses)
<1>1. PICK after : /\ IsSearch(after, assumptions, k, item, effect, guesses, p)
                   /\ Search(assumptions, k, item, effect, guesses, p) = after[n].best.value
    BY SearchInSteps
<1>2. n \in Nat \ {0}
    BY GoalsAssumption
<1>3. Good(0, after[0])
  <2>1. after[0] = SearchStart(o)
      BY <1>1 DEF IsSearch
  <2>2. o.min \in Values(o) /\ o.max \in Values(o)
      BY DEF OptionSound, Values
  <2> HIDE DEF o
  <2> QED
      BY <2>1, <2>2 DEF SearchStart, SearchOK
<1>4. \A i \in 1..n : after[i] = SearchStep(assumptions, k, item, effect, guesses, p,
                                            after[i - 1], i)
    BY <1>1 DEF IsSearch
<1>5. ASSUME NEW i \in 1..n, Good(i - 1, after[i - 1]) PROVE Good(i, after[i])
  <2> DEFINE z == after[i - 1]
  <2>1. /\ SearchOK(z, o, guesses) /\ (i # 1 => BestOK(z.best, o, guesses))
        /\ (i = 1 => ~z.over)
      BY <1>2, <1>5
  <2>2. after[i] = SearchStep(assumptions, k, item, effect, guesses, p, z, i)
      BY <1>4
  <2> HIDE DEF z
  <2>3. SearchOK(after[i], o, guesses) /\ BestOK(after[i].best, o, guesses)
      BY <2>1, <2>2, SearchMoves
  <2>4. i # 0
      BY <1>2
  <2> QED
      BY <2>3, <2>4
<1> DEFINE Q == {i \in 0..n : Good(i, after[i])}
<1> HIDE DEF Good, n
<1>6. 0 \in Q
    BY <1>2, <1>3
<1>7. ASSUME NEW i \in 1..n, i - 1 \in Q PROVE i \in Q
    BY <1>2, <1>5, <1>7
<1>8. n \in Q
  <2>1. 0..n \subseteq Q
    <3> HIDE DEF Q
    <3> QED
        BY <1>2, <1>6, <1>7, InductionUpTo
  <2> HIDE DEF Q
  <2> QED
      BY <1>2, <2>1
<1>9. BestOK(after[n].best, o, guesses)
    BY <1>2, <1>8 DEF Good
<1> QED
    BY <1>1, <1>9 DEF BestOK

\* An action alone is calibrated to a value of its range.
LEMMA CalibrateFits ==
    ASSUME NEW item, NEW p, ItemSound(item, p), item.option.field # None,
           NEW effect \in Int
    PROVE  Calibrate(item, effect, p) \in Values(item.option)
<1> DEFINE s == item.option.assumption
<1>1. ASSUME NEW v \in Values(item.option)
      PROVE  EffectOf(With(<<s>>, 1, item.option, v), p) \in Int
  <2> DEFINE x == AssumptionAt(item.option, v)
  <2>1. With(<<s>>, 1, item.option, v) = <<x>>
    <3> HIDE DEF s, x
    <3>1. DOMAIN <<s>> = {1} /\ \A f : f = [j \in {1} |-> x] => f = <<x>>
        OBVIOUS
    <3>2. With(<<s>>, 1, item.option, v) = [j \in {1} |-> x]
        BY <3>1 DEF With, x
    <3> QED
        BY <3>1, <3>2
  <2> QED
      BY <2>1 DEF ItemSound
<1>2. Guessing(<<s>>, 1, item, effect, 2, p)
  <2> HIDE DEF s
  <2> QED
      BY <1>1 DEF Guessing, ItemSound
<1>3. OptionSound(item.option)
    BY DEF ItemSound
<1>4. Search(<<s>>, 1, item, effect, 2, p) \in Values(item.option)
  <2> HIDE DEF s
  <2> QED
      BY <1>2, <1>3, SearchFits
<1> QED
    BY <1>4 DEF Calibrate

-----------------------------------------------------------------------------
(* What is assumed is what the amount was measured with *)

\* An action of a solution is given an effect of its range.
LEMMA EffectsInRange ==
    ASSUME NEW items, NEW excluded, NEW needed,
           NEW s \in Solutions(items, excluded, needed)
    PROVE  \A i \in s.selection : s.effects[i] \in Least(items[i])..items[i].usable
<1> DEFINE InRange(e, S) == \A i \in S : e[i] \in Least(items[i])..items[i].usable
           optimal == {S \in UNION {Best(items, excluded, needed, k) :
                                       k \in Searches \ {0}} : S # {}}
           feasible == IF 0 \in Searches
                       THEN Selections(items, excluded) \ {{}} ELSE {}
           Ends(S) == Divisions(items, S, Reach(items, S, needed))
           Early(S) == UNION {Divisions(items, S, t) :
                                 t \in {Low(items, S), High(items, S)}}
           Full(S) == {[selection |-> S, effects |-> e, label |-> "OPTIMAL"] :
                          e \in Ends(S)}
           Partial(S) == {[selection |-> S, effects |-> e, label |-> "FEASIBLE"] :
                          e \in Early(S)}
<1>1. ASSUME NEW S, NEW t, NEW e \in Divisions(items, S, t) PROVE InRange(e, S)
    BY <1>1 DEF Divisions
<1>2. s \in (UNION {Full(S) : S \in optimal}) \cup (UNION {Partial(S) : S \in feasible})
    BY DEF Solutions
<1> HIDE DEF InRange, optimal, feasible
<1>3. ASSUME NEW S, s \in Full(S) PROVE InRange(s.effects, s.selection)
  <2>1. PICK e \in Ends(S) : s = [selection |-> S, effects |-> e, label |-> "OPTIMAL"]
      BY <1>3
  <2> QED
      BY <1>1, <2>1
<1>4. ASSUME NEW S, s \in Partial(S) PROVE InRange(s.effects, s.selection)
  <2>1. PICK e \in Early(S) : s = [selection |-> S, effects |-> e, label |-> "FEASIBLE"]
      BY <1>4
  <2>2. InRange(e, S)
      BY <1>1
  <2> QED
      BY <2>1, <2>2
<1> HIDE DEF Full, Partial
<1>5. InRange(s.effects, s.selection)
  <2>1. CASE s \in UNION {Full(S) : S \in optimal}
    <3>1. PICK X \in {Full(S) : S \in optimal} : s \in X
        BY <2>1
    <3> QED
        BY <1>3, <3>1
  <2>2. CASE s \in UNION {Partial(S) : S \in feasible}
    <3>1. PICK X \in {Partial(S) : S \in feasible} : s \in X
        BY <2>2
    <3> QED
        BY <1>4, <3>1
  <2> QED
      BY <1>2, <2>1, <2>2
<1> QED
    BY <1>5 DEF InRange

\* What a recommendation supposes is allowed to be asked for, and its amount
\* is the one measured with it.
Supposes(r, p) ==
    /\ IsSequence(r.assumptions)
    /\ \A k \in DOMAIN r.assumptions : Admitted(r.assumptions[k], p)
    /\ ~Unsupported(Applied(p.inherited))
    /\ r.amount = Simulate(r.assumptions, p)

LEMMA MaterializedSound ==
    ASSUME NEW items, NEW kind, PreparedOK(items, kind), NEW s, NEW p,
           s.selection \in SUBSET DOMAIN items, s.selection # {},
           \A i \in DOMAIN items : ItemSound(items[i], p),
           \A i \in s.selection : s.effects[i] \in Int
    PROVE  Supposes(Materialize(items, s, p), p)
<1> DEFINE S == s.selection
           order == Ascending(S)
           Shown(i) == IF items[i].option.field = None
                       THEN None
                       ELSE Calibrate(items[i], s.effects[i], p)
           shown == [k \in DOMAIN order |-> Shown(order[k])]
           calibrated == [k \in DOMAIN order |->
                             AssumptionAt(items[order[k]].option, shown[k])]
           adjustable == {k \in DOMAIN order : shown[k] # None}
           first == Min(adjustable)
           item == items[order[first]]
           assumptions ==
               IF adjustable = {} \/ Apart(Simulate(calibrated, p), p.target) <= 1
               THEN calibrated
               ELSE Corrected(calibrated, first, item, p)
           r == Materialize(items, s, p)
<1>1. r.assumptions = assumptions /\ r.amount = Simulate(assumptions, p)
    BY DEF Materialize, Recommendation
<1> HIDE DEF r
<1>2. S \in SUBSET Int /\ IsFiniteSet(S)
    BY FS_Subset DEF PreparedOK
<1>3. PICK n \in Nat : n = Cardinality(S) /\ order \in [1..n -> S]
    BY <1>2, AscendingLists
<1>4. \A k \in 1..n : order[k] \in S /\ order[k] \in DOMAIN items
    BY <1>3
<1> HIDE DEF order
<1>5. ASSUME NEW o, NEW v, o.field = None PROVE AssumptionAt(o, v) = o.assumption
    BY <1>5, NamesAssumption, Zenon DEF AssumptionAt
<1>6. \A x : ItemSound(x, p) /\ x.option.field = None => Admitted(x.option.assumption, p)
    BY DEF ItemSound
<1>7. ASSUME NEW x, ItemSound(x, p), x.option.field # None, NEW v \in Values(x.option)
      PROVE  Admitted(AssumptionAt(x.option, v), p)
    BY <1>7 DEF ItemSound
<1>8. ASSUME NEW k \in 1..n
      PROVE  Admitted(calibrated[k], p) /\ ItemSound(items[order[k]], p)
  <2> DEFINE x == items[order[k]]
  <2>1. calibrated[k] = AssumptionAt(x.option, shown[k]) /\ shown[k] = Shown(order[k])
      BY <1>3
  <2>2. ItemSound(x, p) /\ s.effects[order[k]] \in Int
      BY <1>4
  <2>3. CASE x.option.field = None
    <3>1. calibrated[k] = x.option.assumption
        BY <1>5, <2>1, <2>3
    <3> QED
        BY <1>6, <2>2, <2>3, <3>1
  <2>4. CASE x.option.field # None
    <3>1. shown[k] = Calibrate(x, s.effects[order[k]], p)
        BY <2>1, <2>4
    <3> HIDE DEF x, shown, calibrated
    <3>2. shown[k] \in Values(x.option)
        BY <2>2, <2>4, <3>1, CalibrateFits
    <3>3. Admitted(AssumptionAt(x.option, shown[k]), p)
        BY <1>7, <2>2, <2>4, <3>2
    <3> QED
        BY <2>1, <2>2, <3>3 DEF x
  <2> QED
      BY <2>3, <2>4
<1>9. DOMAIN calibrated = 1..n /\ adjustable \in SUBSET (1..n)
      /\ \A k \in adjustable : items[order[k]].option.field # None
    BY <1>3
<1>10. IsSequence(calibrated)
  <2>1. calibrated = [k \in 1..n |-> calibrated[k]]
      BY <1>3
  <2> HIDE DEF calibrated
  <2> QED
      BY <2>1 DEF IsSequence
<1>13. ~Unsupported(Applied(p.inherited))
  <2>1. PICK i \in S : ItemSound(items[i], p)
      OBVIOUS
  <2>2. Admitted(items[i].option.assumption, p)
      BY <2>1 DEF ItemSound
  <2> QED
      BY <2>2 DEF Admitted
<1> HIDE DEF shown, calibrated
<1>11. ASSUME assumptions = calibrated PROVE Supposes(r, p)
    BY <1>1, <1>8, <1>9, <1>10, <1>11, <1>13 DEF Supposes
<1>12. ASSUME adjustable # {}, assumptions = Corrected(calibrated, first, item, p)
       PROVE  Supposes(r, p)
  <2>1. first \in adjustable
    <3>1. adjustable \in SUBSET Nat
        BY <1>9
    <3> HIDE DEF adjustable
    <3> QED
        BY <1>12, <3>1, LeastMember DEF Min
  <2>2. ItemSound(item, p) /\ OptionSound(item.option) /\ item.option.field # None
      BY <1>8, <1>9, <2>1 DEF ItemSound
  <2> HIDE DEF first, adjustable, item
  <2> DEFINE v == Search(calibrated, first, item, Needed(p), 0, p)
  <2>3. v \in Values(item.option)
    <3>1. Guessing(calibrated, first, item, Needed(p), 0, p)
        BY DEF Guessing
    <3> QED
        BY <2>2, <3>1, SearchFits
  <2>4. Admitted(AssumptionAt(item.option, v), p)
      BY <1>7, <2>2, <2>3
  <2>5. assumptions = [k \in 1..n |-> IF k = first THEN AssumptionAt(item.option, v)
                                      ELSE calibrated[k]]
      BY <1>9, <1>12 DEF Corrected, With
  <2> HIDE DEF v, assumptions
  <2>6. \A k \in DOMAIN assumptions : Admitted(assumptions[k], p)
      BY <1>8, <2>4, <2>5
  <2>7. IsSequence(assumptions)
      BY <2>5 DEF IsSequence
  <2> QED
      BY <1>1, <1>13, <2>6, <2>7 DEF Supposes
<1> QED
    BY <1>11, <1>12 DEF r

\* The charges a plan looks at are numbers.
LEMMA ChargesAreTyped ==
    ASSUME ForecastInv, RequestTyped, ResultInv,
           phase = "stored" \/ (phase = "choosing" /\ request = <<>>), NEW p
    PROVE  ChargesTyped(p)
<1>1. BookInv
    BY DEF ForecastInv
<1>2. AreLines(BaseLines)
  <2>1. CASE phase = "stored"
    <3>1. BaseLines = DirectLines(input) /\ InputAfter(input, MaxAssumptions)
        BY <2>1, WhatIsStored DEF BaseLines
    <3> QED
        BY <1>1, <3>1, DirectLinesAre
  <2>2. CASE phase = "choosing"
    <3>1. stored.BASELINE = Results(DirectLines(BaselineInput), BaselineInput, {})
        BY <2>2 DEF ResultInv
    <3>2. BaseLines = DirectLines(BaselineInput)
        BY <2>2, <3>1 DEF Results, BaseLines
    <3>3. InputAfter(BaselineInput, MaxAssumptions)
        BY <1>1, BaselineInputFits
    <3> QED
        BY <1>1, <3>2, <3>3, DirectLinesAre
  <2> QED
      BY <2>1, <2>2
<1> HIDE DEF BaseLines
<1>3. ASSUME NEW id PROVE Monthly(id, p.period) \in Int
  <2> DEFINE L == {l \in BaseLines : l.id = id /\ l.period = p.period}
  <2>1. L \in SUBSET BaseLines
      OBVIOUS
  <2> HIDE DEF L
  <2>2. Total(L) \in Int
      BY <1>2, <2>1, TotalIs
  <2> QED
      BY <2>2 DEF Monthly, L
<1> QED
    BY <1>3 DEF ChargesTyped

\* What is measured depends on the book alone.
LEMMA SameMeasures ==
    ASSUME book' = book, NEW x, NEW p
    PROVE  /\ ItemSound(x, p)' = ItemSound(x, p)
           /\ Supposes(x, p)' = Supposes(x, p)
<1>1. \A assumptions : Simulate(assumptions, p)' = Simulate(assumptions, p)
    BY SameTrial
<1>2. \A assumptions : EffectOf(assumptions, p)' = EffectOf(assumptions, p)
    BY <1>1 DEF EffectOf
<1>3. OptionSound(x.option)' = OptionSound(x.option)
    BY DEF OptionSound, Sound
<1>7. Applied(p.inherited)' = Applied(p.inherited)
    BY SameApplied
<1>8. Unsupported(Applied(p.inherited))' <=> Unsupported(Applied(p.inherited))
    BY <1>7 DEF Unsupported, Included, PolicyFor
<1>4. \A s : Admitted(s, p)' = Admitted(s, p)
    BY <1>7, <1>8 DEF Admitted, Sound, Allowed, ImpairAllowed
<1>5. ItemSound(x, p)' = ItemSound(x, p)
    BY <1>2, <1>3, <1>4 DEF ItemSound
<1>6. Supposes(x, p)' = Supposes(x, p)
    BY <1>1, <1>4, <1>8 DEF Supposes
<1> QED
    BY <1>5, <1>6

(***************************************************************************)
(* The inductive invariant, on top of the two before: while there is a     *)
(* plan its scenario stays as it is, actions are measured in numbers, and  *)
(* a recommendation supposes what was measured; the scenario that is made  *)
(* of one asks for that and for nothing else.                              *)
(***************************************************************************)
DeliverInv ==
    /\ group \notin {"none", "taken"} =>
          /\ phase = "stored" \/ (phase = "choosing" /\ request = <<>>)
          /\ \A k \in DOMAIN found : Supposes(found[k], plan)
    /\ group \in Groups => \A i \in DOMAIN prepared : ItemSound(prepared[i], plan)
    /\ group = "taken" =>
          /\ SideInv /\ PlanFits(plan)
          /\ request = plan.inherited \o taken.assumptions
          /\ Supposes(taken, plan)
          /\ Accepted(Applied(request)) /\ phase # "refused"

LEMMA DeliverStays ==
    ASSUME DeliverInv, book' = book, UNCHANGED rvars,
           group \notin {"none", "taken"} => UNCHANGED <<phase, request>>,
           group = "taken" => request' = request /\ SideInv' /\ phase' # "refused"
    PROVE  DeliverInv'
<1>1. /\ plan' = plan /\ group' = group /\ prepared' = prepared
      /\ found' = found /\ taken' = taken
    BY DEF rvars
<1>2. PlanFits(plan) => PlanFits(plan)'
    BY <1>1, SamePlan
<1>3. /\ \A k \in DOMAIN found : Supposes(found[k], plan) => Supposes(found[k], plan)'
      /\ \A i \in DOMAIN prepared : ItemSound(prepared[i], plan) => ItemSound(prepared[i], plan)'
      /\ Supposes(taken, plan) => Supposes(taken, plan)'
    BY <1>1, SameMeasures
<1>4. request' = request => Accepted(Applied(request))' = Accepted(Applied(request))
  <2>1. request' = request => Applied(request)' = Applied(request)
      BY SameApplied
  <2> QED
      BY <2>1 DEF Accepted, Refused, Unsupported, Included, PolicyFor
<1>5. (group \notin {"none", "taken"} =>
          /\ phase = "stored" \/ (phase = "choosing" /\ request = <<>>)
          /\ \A k \in DOMAIN found : Supposes(found[k], plan))'
    BY <1>1, <1>3 DEF DeliverInv
<1>6. (group \in Groups => \A i \in DOMAIN prepared : ItemSound(prepared[i], plan))'
    BY <1>1, <1>3 DEF DeliverInv, Groups
<1>7. (group = "taken" =>
          /\ SideInv /\ PlanFits(plan)
          /\ request = plan.inherited \o taken.assumptions
          /\ Supposes(taken, plan)
          /\ Accepted(Applied(request)) /\ phase # "refused")'
    BY <1>1, <1>2, <1>3, <1>4 DEF DeliverInv
<1> QED
    BY <1>5, <1>6, <1>7 DEF DeliverInv

LEMMA DeliverForecasting ==
    ASSUME DeliverInv, TrialInv, Forecasting
    PROVE  DeliverInv'
<1>1. UNCHANGED rvars /\ request' = request /\ book' = book /\ [Next]_vars
    BY DEF Forecasting, Next, ComputeBaseline, Submit, HistoricalStep,
       TakeSnapshotLines, ExistingStep, WorkloadStep, PlannedStep, Store
<1>2. CASE group = "taken"
  <2>1. SideInv
      BY <1>2 DEF DeliverInv
  <2>2. RequestFits'
      BY <1>1, <2>1, RequestStays DEF SideInv
  <2>3. phase' # "refused"
    <3>1. Accepted(Applied(request)) /\ phase # "refused"
        BY <1>2 DEF DeliverInv
    <3> QED
        BY <3>1 DEF Forecasting, ComputeBaseline, Submit, HistoricalStep,
           TakeSnapshotLines, ExistingStep, WorkloadStep, PlannedStep, Store
  <2> QED
      BY <1>1, <1>2, <2>1, <2>2, <2>3, SideNext, DeliverStays
<1>3. CASE group = "none"
    BY <1>1, <1>3, DeliverStays
<1>4. CASE group \notin {"none", "taken"}
  <2>1. ForecastInv /\ (phase = "stored" \/ (phase = "choosing" /\ request = <<>>))
      BY <1>4 DEF DeliverInv, TrialInv, SideInv
  <2>2. todo = <<>> /\ phase \notin {"ready", "baseline", "scenario"}
      BY <2>1 DEF ForecastInv, Running
  <2> QED
      BY <2>1, <2>2 DEF Forecasting, ComputeBaseline, Submit, HistoricalStep,
         TakeSnapshotLines, ExistingStep, WorkloadStep, PlannedStep, Store, Next_
<1> QED
    BY <1>2, <1>3, <1>4

LEMMA DeliverAsk ==
    ASSUME DeliverInv, PlanInv, TrialInv, NEW goal, Ask(goal)
    PROVE  DeliverInv'
<1>1. /\ group = "none" /\ group' = "accounting" /\ prepared' = Prepared(plan', "accounting")
      /\ phase = "stored" \/ (phase = "choosing" /\ request = <<>>)
      /\ book' = book /\ phase' = phase /\ request' = request /\ found' = found
    BY DEF Ask, Consider, vars
<1>2. found' = <<>>
    BY <1>1 DEF PlanInv
<1>3. SideInv /\ RequestTyped /\ BookInv
    BY <1>1 DEF TrialInv, SideInv, ForecastInv
<1>4. PlanFits(plan') /\ ChargesTyped(plan')
    BY <1>1, <1>3, PlanBegins, ChargesAreTyped DEF SideInv
<1>5. \A i \in DOMAIN prepared' : ItemSound(prepared'[i], plan')
    BY <1>1, <1>3, <1>4, PreparedSound DEF Groups
<1>6. (\A i \in DOMAIN prepared : ItemSound(prepared[i], plan))'
    BY <1>1, <1>5, SameMeasures
<1> QED
    BY <1>1, <1>2, <1>6 DEF DeliverInv, Groups

LEMMA DeliverRecommend ==
    ASSUME DeliverInv, PlanInv, Recommend
    PROVE  DeliverInv'
<1>1. /\ group \in Groups /\ group' = group /\ plan' = plan /\ prepared' = prepared
      /\ book' = book /\ phase' = phase /\ request' = request
    BY DEF Recommend, vars
<1>2. PICK s \in Solutions(prepared, patterns, Needed(plan)) :
          found' = Append(found, Materialize(prepared, s, plan))
    BY DEF Recommend
<1> DEFINE r == Materialize(prepared, s, plan)
<1>3. /\ PreparedOK(prepared, group)
      /\ \A i \in DOMAIN prepared : ItemSound(prepared[i], plan)
      /\ \A k \in DOMAIN found : Supposes(found[k], plan)
      /\ IsSequence(found)
    BY <1>1 DEF PlanInv, DeliverInv, Groups
<1>4. s.selection \in SUBSET DOMAIN prepared /\ s.selection # {}
    BY SolutionsSelect DEF Selections
<1>5. \A i \in s.selection : s.effects[i] \in Int
  <2>1. ASSUME NEW i \in s.selection PROVE s.effects[i] \in Int
    <3>1. s.effects[i] \in Least(prepared[i])..prepared[i].usable
        BY EffectsInRange
    <3>2. ItemSound(prepared[i], plan)
        BY <1>3, <1>4
    <3>3. Least(prepared[i]) \in Int /\ prepared[i].usable \in Int
        BY <3>2 DEF ItemSound, Least
    <3> QED
        BY <3>1, <3>3
  <2> QED
      BY <2>1
<1>6. Supposes(r, plan)
    BY <1>3, <1>4, <1>5, MaterializedSound
<1> HIDE DEF r
<1>7. ASSUME NEW k \in DOMAIN found' PROVE Supposes(found'[k], plan)
  <2>1. CASE k \in DOMAIN found
      BY <1>2, <1>3, <2>1, Appended DEF r
  <2>2. CASE k \notin DOMAIN found
    <3>1. found' = Append(found, r)
        BY <1>2 DEF r
    <3>2. k = Len(found) + 1
        BY <1>3, <2>2, <3>1, Appended
    <3> QED
        BY <1>3, <1>6, <3>1, <3>2, Appended
  <2> QED
      BY <2>1, <2>2
<1>8. (\A k \in DOMAIN found : Supposes(found[k], plan))'
    BY <1>1, <1>7, SameMeasures
<1>9. (\A i \in DOMAIN prepared : ItemSound(prepared[i], plan))'
    BY <1>1, <1>3, SameMeasures
<1>10. phase = "stored" \/ (phase = "choosing" /\ request = <<>>)
    BY <1>1 DEF DeliverInv, Groups
<1> QED
    BY <1>1, <1>8, <1>9, <1>10 DEF DeliverInv, Groups

LEMMA DeliverEndGroup ==
    ASSUME DeliverInv, TrialInv, EndGroup
    PROVE  DeliverInv'
<1>1. /\ group \in Groups /\ plan' = plan /\ found' = found
      /\ book' = book /\ phase' = phase /\ request' = request
      /\ \/ group' = "operational" /\ prepared' = Prepared(plan, "operational")
         \/ group' = "answered"
    BY DEF EndGroup, Consider, vars
<1>2. /\ phase = "stored" \/ (phase = "choosing" /\ request = <<>>)
      /\ \A k \in DOMAIN found : Supposes(found[k], plan)
    BY <1>1 DEF DeliverInv, Groups
<1>3. (\A k \in DOMAIN found : Supposes(found[k], plan))'
    BY <1>1, <1>2, SameMeasures
<1>4. group' = "operational" => (\A i \in DOMAIN prepared : ItemSound(prepared[i], plan))'
  <2> SUFFICES ASSUME group' = "operational"
               PROVE  (\A i \in DOMAIN prepared : ItemSound(prepared[i], plan))'
      OBVIOUS
  <2>1. prepared' = Prepared(plan, "operational")
      BY <1>1
  <2>2. BookInv /\ PlanFits(plan)
      BY <1>1 DEF TrialInv, SideInv, ForecastInv, Groups
  <2>3. \A i \in DOMAIN prepared' : ItemSound(prepared'[i], plan)
      BY <2>1, <2>2, PreparedSound DEF Groups
  <2> QED
      BY <1>1, <2>3, SameMeasures
<1> QED
    BY <1>1, <1>2, <1>3, <1>4 DEF DeliverInv, Groups

LEMMA DeliverTake ==
    ASSUME DeliverInv, TrialInv, TakeRecommendation
    PROVE  DeliverInv'
<1>1. /\ group = "answered" /\ group' = "taken" /\ phase' = "choosing"
      /\ UNCHANGED <<book, input, todo, carry, lines, stored, plan>>
    BY DEF TakeRecommendation
<1>2. PICK k \in DOMAIN found :
          taken' = found[k] /\ request' = plan.inherited \o found[k].assumptions
    BY DEF TakeRecommendation
<1> DEFINE r == found[k]
<1>3. /\ SideInv /\ PlanFits(plan) /\ Supposes(r, plan)
      /\ phase \in {"stored", "choosing"}
    BY <1>1 DEF DeliverInv, TrialInv
<1> HIDE DEF r
<1>4. ForecastInv /\ AgendaInv /\ LedgerInv /\ ResultInv /\ BookInv
    BY <1>3 DEF SideInv, ForecastInv
<1>5. /\ InputAfter(Applied(request), MaxAssumptions)'
      /\ ~Unsupported(Applied(request))'
  <2> DEFINE X == {r.assumptions[i] : i \in DOMAIN r.assumptions}
             next == plan.inherited \o r.assumptions
  <2>1. /\ r.assumptions \in Seq(X)
        /\ \A s \in X : Sound(s) /\ Allowed(Applied(plan.inherited), s)
      BY <1>3 DEF Supposes, IsSequence, Admitted
  <2>2. /\ plan.inherited \in Seq(Assumptions)
        /\ InputAfter(Applied(plan.inherited), MaxAssumptions)
      BY <1>3 DEF PlanFits
  <2> HIDE DEF X
  <2>3. /\ InputAfter(Applied(next), MaxAssumptions)
        /\ Unsupported(Applied(next)) <=> Unsupported(Applied(plan.inherited))
      BY <1>4, <2>1, <2>2, AppliedAfter
  <2>4. request' = next
      BY <1>2 DEF r
  <2> HIDE DEF next
  <2>5. Applied(request)' = Applied(next)
      BY <1>1, <2>4, SameApplied
  <2>6. \A in : InputAfter(in, MaxAssumptions)' = InputAfter(in, MaxAssumptions)
      BY <1>1, SameMeaning
  <2>7. \A in : Unsupported(in)' <=> Unsupported(in)
      BY <1>1 DEF Unsupported, Included, PolicyFor
  <2>8. ~Unsupported(Applied(plan.inherited))
      BY <1>3 DEF Supposes
  <2> QED
      BY <2>3, <2>5, <2>6, <2>7, <2>8
<1>6. Aside
    BY <1>1, <1>3, <1>4 DEF Aside, Phases, ForecastInv, Running
<1>7. ForecastInv' /\ AgendaInv' /\ LedgerInv' /\ Accepted(Applied(request))'
  <2>1. RequestFits'
      BY <1>5 DEF RequestFits
  <2>2. (BookInv /\ InputAfter(Applied(request), MaxAssumptions) => Applied(request) # Refused)'
    <3>1. \A in : InputAfter(in, MaxAssumptions) => in # Refused
        BY InputsAreGiven
    <3>2. \A in : InputAfter(in, MaxAssumptions)' = InputAfter(in, MaxAssumptions)
        BY <1>1, SameMeaning
    <3> QED
        BY <3>1, <3>2 DEF Refused
  <2> QED
      BY <1>4, <1>5, <1>6, <2>1, <2>2, AsideKeeps, AgendaNext, LedgerNext
         DEF Moves, ForecastInv, Accepted
<1>8. ResultInv'
    BY <1>1, <1>3, <1>4, ResultStays
<1>9. PlanFits(plan)' /\ Supposes(taken, plan)'
    BY <1>1, <1>2, <1>3, SamePlan, SameMeasures DEF r
<1> QED
    BY <1>1, <1>2, <1>7, <1>8, <1>9 DEF DeliverInv, SideInv, Groups

LEMMA DeliverNext ==
    ASSUME DeliverInv, PlanInv, TrialInv, [NextR]_allVars
    PROVE  DeliverInv'
<1>1. CASE Inherit
    BY <1>1, BookKept, DeliverStays DEF Inherit
<1>2. CASE UNCHANGED allVars
  <2>1. /\ UNCHANGED rvars /\ book' = book /\ phase' = phase /\ request' = request
        /\ [Next]_vars
      BY <1>2 DEF allVars, vars
  <2>2. group = "taken" => SideInv' /\ phase' # "refused"
    <3> SUFFICES ASSUME group = "taken" PROVE SideInv' /\ phase' # "refused"
        OBVIOUS
    <3>1. SideInv /\ phase # "refused"
        BY DEF DeliverInv
    <3>2. RequestFits'
        BY <2>1, <3>1, RequestStays DEF SideInv
    <3> QED
        BY <2>1, <3>1, <3>2, SideNext
  <2> QED
      BY <2>1, <2>2, DeliverStays
<1> QED
    BY <1>1, <1>2, DeliverForecasting, DeliverAsk, DeliverRecommend, DeliverEndGroup,
       DeliverTake DEF NextR

\* The scenario made of a recommendation is not refused and charges in the
\* planned month and scope exactly the amount the recommendation was shown with
\* and, in a ledger month the forecast does not go around, the lines the ledger
\* adds to it; for every workbook, horizon and goal
\* (_simulate_reverse_assumptions against create_customer_scenario).
THEOREM RecommendationsDeliver == SpecR => []RecommendationDelivers
<1>1. InitR => DeliverInv
    BY DEF InitR, DeliverInv, Groups
<1>2. DeliverInv => RecommendationDelivers
  <2> SUFFICES ASSUME DeliverInv, phase = "stored", group = "taken"
               PROVE  ScopeTotal(stored.SCENARIO.lines, plan.period, plan.scope)
                          = taken.amount + LedgerBeside(plan)
      BY DEF RecommendationDelivers, DeliverInv
  <2> DEFINE in == Applied(plan.inherited \o taken.assumptions)
             s == plan.scope
  <2>1. /\ SideInv /\ PlanFits(plan)
        /\ request = plan.inherited \o taken.assumptions
        /\ taken.amount = Simulate(taken.assumptions, plan)
      BY DEF DeliverInv, Supposes
  <2>2. BookInv /\ InputAfter(input, MaxAssumptions)
      BY <2>1 DEF SideInv, ForecastInv
  <2>3. input = in /\ stored.SCENARIO.lines = DirectLines(input)
      BY <2>1 DEF SideInv, ResultInv, ScenarioResult, Results
  <2>4. taken.amount = ScopeAmount(in, plan)
      BY <2>1 DEF Simulate
  <2> HIDE DEF in
  <2>5. ScopeTotal(DirectLines(in), plan.period, s)
            = ScopeAmount(in, plan) + LedgerBeside(plan)
      BY <2>1, <2>2, <2>3, ResultIsTrial DEF PlanFits
  <2> QED
      BY <2>3, <2>4, <2>5
<1>3. DeliverInv /\ PlanInv /\ TrialInv /\ [NextR]_allVars => DeliverInv'
    BY DeliverNext
<1>4. TrialInv /\ [NextR]_allVars => TrialInv'
    BY TrialNext
<1> QED
    BY <1>1, <1>2, <1>3, <1>4, TrialInit, PlanInvariant, PTL DEF SpecR
=============================================================================
