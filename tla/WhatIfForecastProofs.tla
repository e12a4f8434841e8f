------------------------ MODULE WhatIfForecastProofs ------------------------
(***************************************************************************)
(* Theorems of one forecast after another, for every set of workbooks and  *)
(* assumptions: types, balances that only fall, the end of an asset's      *)
(* life, one line in each month, months that join up, values within the    *)
(* cost, pools that charge their total; a scenario that moves only what it *)
(* reaches, differences that are attributed to changes and are the same    *)
(* wherever they are told, views of a result that add up.                  *)
(*                                                                         *)
(* Inductive invariants carry them.  ForecastInv: the input is one that    *)
(* the assumptions of the request lead to, every line fits its card, every *)
(* balance carried fits the input.  AgendaInv: what is still to be done    *)
(* and what is done make up what is due, each asset's months in order.     *)
(* ChainInv and StayInv: what is carried is where the last month of an     *)
(* asset ended, and what it can still be worth.  PoolInv: the lines of a   *)
(* pool in a month were written together, from one set of balances.        *)
(* LedgerInv: a line is the one its input leads to (DirectLines), so that  *)
(* a finished forecast is a function of its input.  ResultInv and          *)
(* BaselineFits say so of what is stored; ChangesTell, of an input, that   *)
(* whatever is not as in the book is the target of a change.               *)
(***************************************************************************)
EXTENDS WhatIfForecast, DepreciationProofs

-----------------------------------------------------------------------------
(* Cards by their number *)

AreCards(cards) ==
    /\ IsSequence(cards)
    /\ \A k \in DOMAIN cards : IsCard(cards[k])

Distinct(cards) ==
    \A k, l \in DOMAIN cards : cards[k].id = cards[l].id => k = l

\* The first card of a number is the card of that number.
LEMMA FoundById ==
    ASSUME NEW cards, AreCards(cards), Distinct(cards)
    PROVE  /\ \A k \in DOMAIN cards : /\ CardIndex(cards, cards[k].id) = k
                                      /\ AssetById(cards, cards[k].id) = cards[k]
           /\ \A id : CardIndex(cards, id) # 0 =>
                 /\ CardIndex(cards, id) \in DOMAIN cards
                 /\ AssetById(cards, id).id = id
<1>1. PICK n \in Nat : n = Len(cards) /\ DOMAIN cards = 1..n
    BY DEF AreCards, IsSequence
<1>2. ASSUME NEW id PROVE
          LET I == {i \in 1..n : cards[i].id = id}
          IN  /\ I # {} => CardIndex(cards, id) \in I
              /\ I = {} => CardIndex(cards, id) = 0
  <2> DEFINE I == {i \in 1..n : cards[i].id = id}
             least == CHOOSE x \in I : \A y \in I : x <= y
  <2>1. CardIndex(cards, id) = IF I # {} THEN least ELSE 0
      BY <1>1 DEF CardIndex, SelectInSeq, Min
  <2>2. ASSUME I # {} PROVE least \in I
    <3>1. I \in SUBSET Nat
        OBVIOUS
    <3> HIDE DEF I
    <3>2. \E x \in I : \A y \in I : x <= y
        BY <2>2, <3>1, LeastMember
    <3> QED
        BY <3>2
  <2> HIDE DEF least
  <2> QED
      BY <2>1, <2>2
<1>3. ASSUME NEW k \in DOMAIN cards
      PROVE  CardIndex(cards, cards[k].id) = k
    BY <1>1, <1>2 DEF Distinct
<1>4. ASSUME NEW id, CardIndex(cards, id) # 0
      PROVE  CardIndex(cards, id) \in DOMAIN cards
             /\ cards[CardIndex(cards, id)].id = id
    BY <1>1, <1>2, <1>4
<1> QED
    BY <1>3, <1>4 DEF AssetById

-----------------------------------------------------------------------------
(* The agenda *)

JobsFor(kind, cards, which, months) ==
    {Job(kind, cards[i].id, months[k]) : i \in which, k \in DOMAIN months}

\* s holds every month of every card, each card's in the order of months.
InOrder(s, kind, cards, which, months) ==
    /\ s \in Seq(JobsFor(kind, cards, which, months))
    /\ \A job \in JobsFor(kind, cards, which, months) :
          \E x \in DOMAIN s : s[x] = job
    /\ \A x, y \in DOMAIN s :
          s[x].id = s[y].id /\ x < y =>
            \E k, l \in DOMAIN months :
                k < l /\ s[x].period = months[k] /\ s[y].period = months[l]

LEMMA EachMonthInOrder ==
    ASSUME NEW kind, NEW cards, AreCards(cards), Distinct(cards),
           NEW which \in SUBSET DOMAIN cards,
           NEW months, IsSequence(months)
    PROVE  InOrder(EachMonth(kind, cards, which, months),
                   kind, cards, which, months)
<1> DEFINE n == Len(cards)
           T == Seq(JobsFor(kind, cards, which, months))
           Part(i) == IF i \in which
                      THEN [k \in DOMAIN months |-> Job(kind, cards[i].id, months[k])]
                      ELSE <<>>
           parts == [i \in DOMAIN cards |-> Part(i)]
           Loop(f) == [i \in 1..n |-> IF i = 1 THEN parts[i] ELSE f[i - 1] \o parts[i]]
           flat == CHOOSE f : f = Loop(f)
           To(i) == which \cap (1..i)
           Good(i, s) == InOrder(s, kind, cards, To(i), months)
           step == [i \in 1..n |-> [b \in T |-> b \o parts[i]]]
<1>1. /\ n \in Nat /\ DOMAIN cards = 1..n
      /\ Len(months) \in Nat /\ DOMAIN months = 1..Len(months)
    BY DEF AreCards, IsSequence
<1>2. /\ DOMAIN parts = 1..n /\ Len(parts) = n
      /\ \A i \in 1..n : parts[i] = Part(i)
  <2>1. DOMAIN parts = 1..n
      BY <1>1
  <2>2. parts \in [1..n -> {Part(i) : i \in 1..n}]
      BY <1>1
  <2>3. Len(parts) = n
      BY <1>1, <2>1, <2>2
  <2> QED
      BY <1>1, <2>1, <2>3
<1>3. ASSUME NEW i \in 1..n PROVE Part(i) \in T
  <2>1. CASE i \in which
    <3> DEFINE q == [k \in DOMAIN months |-> Job(kind, cards[i].id, months[k])]
    <3>1. \A k \in 1..Len(months) : q[k] \in JobsFor(kind, cards, which, months)
        BY <1>1, <2>1 DEF JobsFor
    <3>2. q \in [1..Len(months) -> JobsFor(kind, cards, which, months)]
        BY <1>1, <3>1
    <3> HIDE DEF q
    <3>3. q \in T
        BY <1>1, <3>2
    <3> QED
        BY <2>1, <3>3 DEF q
  <2>2. CASE i \notin which
      BY <2>2
  <2> QED
      BY <2>1, <2>2
<1>4. EachMonth(kind, cards, which, months) = IF n = 0 THEN parts ELSE flat[n]
    BY <1>1, <1>2 DEF EachMonth, FlattenSeq
<1> HIDE DEF n, T, parts
<1>5. \A i \in 1..n : parts[i] \in T
    BY <1>2, <1>3
<1>6. <<>> \in T
    BY DEF T
<1>7. \E g \in [0..n -> T] :
          g[0] = <<>> /\ \A i \in 1..n : g[i] = g[i - 1] \o parts[i]
  <2>1. \A b \in T, c \in T : b \o c \in T
      BY DEF T
  <2>2. step \in [1..n -> [T -> T]]
      BY <1>5, <2>1
  <2>3. PICK g \in [0..n -> T] :
            g[0] = <<>> /\ \A i \in 1..n : g[i] = step[i][g[i - 1]]
    <3> HIDE DEF step
    <3>1. HasRecursion(n, T, <<>>, step)
        BY <1>1, <1>6, <2>2, RecursionUpTo
    <3> QED
        BY <3>1 DEF HasRecursion
  <2>4. \A i \in 1..n : g[i - 1] \in T
      BY <1>1
  <2>5. \A i \in 1..n : g[i] = g[i - 1] \o parts[i]
      BY <2>3, <2>4
  <2> QED
      BY <2>3, <2>5
<1>8. PICK g \in [0..n -> T] :
          g[0] = <<>> /\ \A i \in 1..n : g[i] = g[i - 1] \o parts[i]
    BY <1>7
<1>9. \A i \in 1..n : flat[i] = IF i = 1 THEN parts[i] ELSE flat[i - 1] \o parts[i]
  <2> DEFINE h == [i \in 1..n |-> g[i]]
  <2>1. h = Loop(h)
    <3>1. ASSUME NEW i \in 1..n
          PROVE  h[i] = IF i = 1 THEN parts[i] ELSE h[i - 1] \o parts[i]
      <4>1. CASE i = 1
        <5>1. <<>> \o parts[i] = parts[i]
            BY <1>5 DEF T
        <5>2. g[i] = g[0] \o parts[i]
          <6>1. g[i] = g[i - 1] \o parts[i]
              BY <1>8
          <6>2. i - 1 = 0
              BY <4>1
          <6> QED
              BY <6>1, <6>2
        <5> QED
            BY <1>8, <4>1, <5>1, <5>2
      <4>2. CASE i # 1
        <5>1. i - 1 \in 1..n
            BY <1>1, <4>2
        <5> QED
            BY <1>8, <4>2, <5>1
      <4> QED
          BY <4>1, <4>2
    <3> QED
        BY <3>1
  <2>2. flat = Loop(flat)
      BY <2>1
  <2> HIDE DEF flat
  <2> QED
      BY <2>2
<1> HIDE DEF flat, step
<1>10. ASSUME NEW i \in 1..n, NEW b, Good(i - 1, b)
       PROVE  Good(i, b \o Part(i))
  <2>1. CASE i \notin which
    <3>1. To(i) = To(i - 1)
        BY <1>1, <2>1
    <3>2. b \o Part(i) = b
        BY <1>10, <2>1 DEF InOrder
    <3> HIDE DEF To
    <3> QED
        BY <1>10, <3>1, <3>2
  <2>2. CASE i \in which
    <3> DEFINE q == [k \in DOMAIN months |-> Job(kind, cards[i].id, months[k])]
               c == b \o q
               earlier == JobsFor(kind, cards, To(i - 1), months)
               all == JobsFor(kind, cards, To(i), months)
    <3>1. /\ earlier \subseteq all
          /\ \A k \in DOMAIN months : q[k] \in all
          /\ \A job \in all : job \in earlier \/ \E k \in DOMAIN months : job = q[k]
          /\ \A job \in earlier : job.id # cards[i].id
      <4>1. i \in To(i) /\ To(i - 1) \subseteq To(i) /\ To(i) \subseteq To(i - 1) \cup {i}
          BY <1>1, <2>2
      <4>2. \A j \in To(i - 1) : cards[j].id # cards[i].id
          BY <1>1, <2>2 DEF Distinct
      <4> HIDE DEF To
      <4> QED
          BY <4>1, <4>2 DEF JobsFor, Job
    <3>2. DOMAIN q = 1..Len(months) /\ Len(q) = Len(months)
        BY <1>1
    <3>3. \A k \in DOMAIN months : q[k].id = cards[i].id /\ q[k].period = months[k]
        BY DEF Job
    <3>4. /\ b \in Seq(earlier)
          /\ \A job \in earlier : \E x \in DOMAIN b : b[x] = job
          /\ \A x, y \in DOMAIN b :
                b[x].id = b[y].id /\ x < y =>
                  \E k, l \in DOMAIN months :
                      k < l /\ b[x].period = months[k] /\ b[y].period = months[l]
        BY <1>10 DEF InOrder
    <3> HIDE DEF q, earlier, all, To
    <3>5. PICK m \in Nat : m = Len(b) /\ DOMAIN b = 1..m
        BY <3>4
    <3>6. /\ b \in Seq(all) /\ q \in Seq(all)
      <4>1. \A k \in 1..Len(months) : q[k] \in all
          BY <1>1, <3>1
      <4>2. q = [k \in 1..Len(months) |-> q[k]]
          BY <1>1 DEF q
      <4>3. q \in [1..Len(months) -> all]
          BY <4>1, <4>2
      <4> QED
          BY <1>1, <3>1, <3>4, <4>3
    <3>7. /\ c \in Seq(all) /\ DOMAIN c = 1..(m + Len(months))
          /\ \A x \in 1..m : c[x] = b[x]
          /\ \A x \in 1..Len(months) : c[m + x] = q[x]
        BY <1>1, <3>2, <3>5, <3>6
    <3> HIDE DEF c
    <3>8. ASSUME NEW job \in all PROVE \E x \in DOMAIN c : c[x] = job
      <4>1. CASE job \in earlier
        <5>1. PICK x \in 1..m : b[x] = job
            BY <3>4, <3>5, <4>1
        <5>2. x \in DOMAIN c /\ c[x] = job
            BY <1>1, <3>7, <5>1
        <5> QED
            BY <5>2
      <4>2. CASE job \notin earlier
        <5>1. PICK k \in 1..Len(months) : job = q[k]
            BY <1>1, <3>1, <4>2
        <5>2. m + k \in DOMAIN c /\ c[m + k] = job
            BY <1>1, <3>7, <5>1
        <5> QED
            BY <5>2
      <4> QED
          BY <4>1, <4>2
    <3>9. ASSUME NEW x \in DOMAIN c, NEW y \in DOMAIN c, c[x].id = c[y].id, x < y
          PROVE  \E k, l \in DOMAIN months :
                     k < l /\ c[x].period = months[k] /\ c[y].period = months[l]
      <4>1. CASE y \in 1..m
        <5>1. x \in 1..m
            BY <3>7, <3>9, <4>1
        <5> QED
            BY <3>4, <3>5, <3>7, <3>9, <4>1, <5>1
      <4>2. CASE y \notin 1..m
        <5>1. PICK l \in 1..Len(months) : y = m + l
          <6>1. y - m \in 1..Len(months) /\ y = m + (y - m)
              BY <1>1, <3>7, <4>2
          <6> QED
              BY <6>1
        <5>2. c[y].id = cards[i].id /\ c[y].period = months[l]
            BY <1>1, <3>3, <3>7, <5>1
        <5>3. x \notin 1..m
          <6> SUFFICES ASSUME x \in 1..m PROVE FALSE
              OBVIOUS
          <6>1. c[x] \in earlier
              BY <3>4, <3>5, <3>7
          <6> QED
              BY <3>1, <3>9, <5>2, <6>1
        <5>4. PICK k \in 1..Len(months) : x = m + k
          <6>1. x - m \in 1..Len(months) /\ x = m + (x - m)
              BY <1>1, <3>7, <5>3
          <6> QED
              BY <6>1
        <5>5. c[x].period = months[k] /\ k < l
            BY <1>1, <3>3, <3>7, <3>9, <5>1, <5>4
        <5> QED
            BY <1>1, <5>2, <5>5
      <4> QED
          BY <4>1, <4>2
    <3>10. Good(i, c)
        BY <3>7, <3>8, <3>9 DEF InOrder, all
    <3> QED
        BY <2>2, <3>10 DEF c, q
  <2> QED
      BY <2>1, <2>2
<1>11. Good(0, <<>>)
  <2>1. To(0) = {} /\ JobsFor(kind, cards, {}, months) = {}
      BY DEF JobsFor
  <2>2. <<>> \in Seq({}) /\ \A x : x \notin DOMAIN <<>>
      OBVIOUS
  <2> HIDE DEF To
  <2> QED
      BY <2>1, <2>2 DEF InOrder
<1> DEFINE Q == {i \in 0..n : i = 0 \/ Good(i, flat[i])}
<1>12. ASSUME NEW i \in 1..n, i - 1 \in Q PROVE i \in Q
  <2> HIDE DEF Good, Part
  <2>1. CASE i = 1
    <3>1. flat[i] = <<>> \o Part(i)
      <4>1. <<>> \o parts[i] = parts[i]
          BY <1>5 DEF T
      <4> QED
          BY <1>2, <1>9, <2>1, <4>1
    <3>2. Good(i - 1, <<>>)
        BY <1>11, <2>1
    <3>3. Good(i, flat[i])
        BY <1>10, <3>1, <3>2
    <3> QED
        BY <1>1, <3>3
  <2>2. CASE i # 1
    <3>1. flat[i] = flat[i - 1] \o Part(i)
        BY <1>2, <1>9, <2>2
    <3>2. Good(i - 1, flat[i - 1])
        BY <1>12, <2>2
    <3>3. Good(i, flat[i])
        BY <1>10, <3>1, <3>2
    <3> QED
        BY <1>1, <3>3
  <2> QED
      BY <2>1, <2>2
<1>13. 0..n \subseteq Q
  <2>1. 0 \in Q
      BY <1>1
  <2> HIDE DEF Q
  <2> QED
      BY <1>1, <1>12, <2>1, InductionUpTo
<1>14. n # 0 => Good(n, flat[n])
  <2>1. n \in Q
    <3> HIDE DEF Q
    <3> QED
        BY <1>1, <1>13
  <2> HIDE DEF Good
  <2> QED
      BY <2>1
<1>15. n = 0 => parts = <<>>
    BY <1>1 DEF parts
<1>16. To(n) = which
    BY <1>1
<1>17. CASE n = 0
  <2> HIDE DEF To
  <2> QED
      BY <1>4, <1>11, <1>15, <1>16, <1>17
<1>18. CASE n # 0
  <2> HIDE DEF To
  <2> QED
      BY <1>4, <1>14, <1>16, <1>18
<1> QED
    BY <1>17, <1>18

-----------------------------------------------------------------------------
(* The book *)

\* The book is what the repository makes of one of the workbooks.
BookInv ==
    /\ book.workbook \in Workbooks /\ book.owner \in Companies(book.workbook)
    /\ book.cards = LoadAssets(book.workbook)
    /\ book.model = LoadSemanticModel(book.workbook, book.owner)
    /\ book.drivers = BaselineDrivers(book.workbook, book.cards, Start, End)

LEMMA EndsOfPeriods ==
    ASSUME NEW S \in SUBSET Int, IsFiniteSet(S), S # {}
    PROVE  /\ Min(S) \in S /\ Max(S) \in S
           /\ \A x \in S : Min(S) <= x /\ x <= Max(S)
<1> DEFINE neg == [x \in S |-> -x]
           N == {neg[x] : x \in S}
<1>1. PICK y \in N : \A z \in N : z <= y
  <2>1. IsFiniteSet(N)
    <3> HIDE DEF neg
    <3> QED
        BY FiniteImage
  <2>2. N \in SUBSET Int
      OBVIOUS
  <2>3. N # {}
    <3>1. PICK x \in S : TRUE
        OBVIOUS
    <3>2. neg[x] \in N
        BY <3>1
    <3> HIDE DEF N
    <3> QED
        BY <3>2
  <2> HIDE DEF N
  <2> QED
      BY <2>1, <2>2, <2>3, GreatestMember
<1>2. \E x \in S : \A z \in S : x <= z
  <2>1. PICK x \in S : y = -x
      BY <1>1
  <2>2. ASSUME NEW z \in S PROVE x <= z
    <3>1. -z \in N
        OBVIOUS
    <3>2. -z <= -x
        BY <1>1, <2>1, <3>1
    <3> QED
        BY <3>2
  <2> QED
      BY <2>2
<1>3. \E x \in S : \A z \in S : x >= z
  <2>1. \E x \in S : \A z \in S : z <= x
      BY GreatestMember
  <2> QED
      BY <2>1
<1> QED
    BY <1>2, <1>3 DEF Min, Max

LEMMA HorizonInt ==
    ASSUME NEW wb, IsWorkbook(wb)
    PROVE  /\ BaselinePeriodRange(wb)[1] \in Int
           /\ BaselinePeriodRange(wb)[2] \in Int
           /\ BaselinePeriodRange(wb)[1] <= BaselinePeriodRange(wb)[2]
<1> DEFINE block == [r \in wb.blocks |-> r.period]
           work == [r \in wb.workloads |-> r.period]
           B == {block[r] : r \in wb.blocks}
           W == {work[r] : r \in wb.workloads}
           S == DriverPeriods(wb)
<1>1. wb.snapshot \in Int
    BY DEF IsWorkbook
<1>2. IsFiniteSet(B) /\ IsFiniteSet(W)
  <2> HIDE DEF block, work
  <2> QED
      BY FiniteImage DEF IsWorkbook
<1>3. S = (B \cup W) \ {None}
    BY DEF DriverPeriods
<1>4. S \in SUBSET Int
    BY <1>3 DEF IsWorkbook, IsBlockRow, IsWorkloadRow
<1> HIDE DEF B, W
<1>5. IsFiniteSet(S)
  <2>1. IsFiniteSet(B \cup W)
      BY <1>2, FS_Union
  <2>2. S \subseteq B \cup W
      BY <1>3
  <2> QED
      BY <2>1, <2>2, FS_Subset
<1> HIDE DEF S
<1>6. CASE S = {}
    BY <1>1, <1>6 DEF BaselinePeriodRange, S
<1>7. CASE S # {}
  <2>1. Min(S) \in Int /\ Max(S) \in Int /\ Min(S) <= Max(S)
      BY <1>4, <1>5, <1>7, EndsOfPeriods
  <2>2. BaselinePeriodRange(wb) = <<Min(S), Max(S)>>
      BY <1>7 DEF BaselinePeriodRange, S
  <2> QED
      BY <2>1, <2>2
<1> QED
    BY <1>6, <1>7

\* What the forecasts rely on of the book.
LEMMA BookIs ==
    ASSUME BookInv
    PROVE  /\ AreCards(book.cards) /\ Distinct(book.cards)
           /\ 1 \in DOMAIN book.cards
           /\ IsModel(book.model) /\ AreDrivers(book.drivers)
           /\ Start \in Int /\ End \in Int /\ Snapshot \in Int
           /\ FutureStart \in Int
           /\ \A k \in DOMAIN book.cards, n \in 1..MaxAssumptions :
                 book.cards[k].id # NewId(n)
           /\ \A k \in DOMAIN book.cards :
                 \E i \in DOMAIN book.workbook.rows :
                     /\ ~Excluded(book.workbook.rows[i])
                     /\ book.cards[k] = CardOf(book.workbook.rows[i])
<1> DEFINE wb == book.workbook
<1>1. /\ IsWorkbook(wb) /\ LoadAssets(wb) # <<>>
      /\ \A i, j \in DOMAIN wb.rows : wb.rows[i].id = wb.rows[j].id => i = j
      /\ \A i \in DOMAIN wb.rows, n \in 1..MaxAssumptions : wb.rows[i].id # NewId(n)
    BY WorkbooksAssumption DEF BookInv
<1> DEFINE cards == LoadAssets(wb)
<1>2. cards = book.cards
    BY DEF BookInv
<1>3. cards \in Seq(Ledger(wb)) /\ Distinct(cards)
    BY <1>1, CardsLoaded DEF Distinct
<1>4. /\ IsWorkbook(wb) /\ cards # <<>>
      /\ \A i \in DOMAIN wb.rows, n \in 1..MaxAssumptions : wb.rows[i].id # NewId(n)
    BY <1>1
<1> HIDE DEF cards
<1>5. PICK n \in Nat : n = Len(cards) /\ DOMAIN cards = 1..n
                       /\ \A k \in 1..n : cards[k] \in Ledger(wb)
    BY <1>3
<1>6. AreCards(cards)
  <2>1. \A k \in 1..n : IsCard(cards[k])
    <3>1. \A i \in DOMAIN wb.rows : IsCard(CardOf(wb.rows[i]))
        BY <1>4, RowsGiveCards DEF IsWorkbook
    <3> HIDE DEF wb
    <3> QED
        BY <1>5, <3>1 DEF Ledger
  <2>2. cards = [k \in 1..n |-> cards[k]]
      BY <1>3, <1>5
  <2>3. cards \in [1..n -> {cards[k] : k \in DOMAIN cards}]
      BY <1>5, <2>2
  <2>4. IsSequence(cards)
      BY <1>5, <2>3 DEF IsSequence
  <2> QED
      BY <1>5, <2>1, <2>4 DEF AreCards
<1>7. 1 \in DOMAIN cards
    BY <1>3, <1>4, <1>5
<1>8. ASSUME NEW k \in DOMAIN cards
      PROVE  \E i \in DOMAIN wb.rows : /\ ~Excluded(wb.rows[i])
                                       /\ cards[k] = CardOf(wb.rows[i])
    BY <1>5 DEF Ledger
<1>9. ASSUME NEW k \in DOMAIN cards, NEW m \in 1..MaxAssumptions
      PROVE  cards[k].id # NewId(m)
    BY <1>4, <1>8 DEF CardOf
<1>10. IsModel(book.model) /\ AreDrivers(book.drivers)
    BY <1>4, WorkbooksGiveModels, WorkbooksGiveDrivers DEF BookInv
<1>11. Start \in Int /\ End \in Int /\ Snapshot \in Int /\ FutureStart \in Int
  <2>1. Start \in Int /\ End \in Int
      BY <1>4, HorizonInt DEF Start, End
  <2>2. Snapshot \in Int
      BY <1>4 DEF IsWorkbook, Snapshot
  <2> QED
      BY <2>1, <2>2 DEF FutureStart
<1> QED
    BY <1>2, <1>3, <1>6, <1>7, <1>8, <1>9, <1>10, <1>11

-----------------------------------------------------------------------------
(* The inputs of a forecast *)

\* What assumptions leave of a card as it was.
SameAsset(a, b) == \A f \in CardFields \ {"life", "startRule"} : a[f] = b[f]

\* What n assumptions can have made of the inputs (_apply_customer_assumptions).
InputAfter(in, n) ==
    /\ in = [cards |-> in.cards, planned |-> in.planned, events |-> in.events,
             drivers |-> in.drivers, changes |-> in.changes]
    /\ AreCards(in.cards) /\ DOMAIN in.cards = DOMAIN book.cards
    /\ \A k \in DOMAIN in.cards : SameAsset(in.cards[k], book.cards[k])
    /\ AreCards(in.planned) /\ Distinct(in.planned)
    /\ \A k \in DOMAIN in.planned :
          /\ \E m \in 1..n : in.planned[k].id = NewId(m)
          /\ in.planned[k].residual = None
    /\ AreImpairments(in.events)
    /\ AreDrivers(in.drivers)

LEMMA InputCards ==
    ASSUME BookInv, NEW in, NEW n, InputAfter(in, n)
    PROVE  Distinct(in.cards)
BY BookIs DEF InputAfter, Distinct, SameAsset, CardFields

LEMMA SequenceGrows ==
    ASSUME NEW s, IsSequence(s), NEW e
    PROVE  /\ IsSequence(Append(s, e))
           /\ DOMAIN Append(s, e) = DOMAIN s \cup {Len(s) + 1}
           /\ Len(s) + 1 \notin DOMAIN s
           /\ Append(s, e)[Len(s) + 1] = e
           /\ \A k \in DOMAIN s : Append(s, e)[k] = s[k]
<1> DEFINE T == {s[i] : i \in DOMAIN s} \cup {e}
           t == Append(s, e)
<1>1. s \in Seq(T)
    BY DEF IsSequence
<1>2. PICK n \in Nat : n = Len(s) /\ DOMAIN s = 1..n
    BY <1>1
<1> HIDE DEF T
<1>3. /\ t \in Seq(T) /\ DOMAIN t = 1..(n + 1) /\ Len(t) = n + 1
      /\ t[n + 1] = e /\ \A k \in 1..n : t[k] = s[k]
    BY <1>1, <1>2 DEF T
<1> HIDE DEF t
<1>4. IsSequence(t)
  <2>1. t \in [1..(n + 1) -> {t[k] : k \in DOMAIN t}]
      BY <1>3
  <2> QED
      BY <1>2, <2>1 DEF IsSequence
<1> QED
    BY <1>2, <1>3, <1>4 DEF t

LEMMA AddAssetKeeps ==
    ASSUME BookInv, NEW n \in 1..MaxAssumptions, NEW in, InputAfter(in, n - 1),
           NEW s, IsAssumption(s)
    PROVE  InputAfter(AddAsset(in, s, n), n)
<1> DEFINE reference == IF CardIndex(in.cards, s.target) = 0
                        THEN in.cards[1]
                        ELSE AssetById(in.cards, s.target)
           new == PlannedLike(reference, s, n)
           out == AddAsset(in, s, n)
           planned == Append(in.planned, new)
<1>1. IsCard(reference)
  <2>1. 1 \in DOMAIN in.cards
      BY BookIs DEF InputAfter
  <2>2. CardIndex(in.cards, s.target) # 0 =>
            CardIndex(in.cards, s.target) \in DOMAIN in.cards
      BY InputCards, FoundById DEF InputAfter
  <2> QED
      BY <2>1, <2>2 DEF InputAfter, AreCards, AssetById
<1>2. out = [in EXCEPT !.planned = planned,
                       !.changes = Append(@, Change(n, NewId(n), "new_asset"))]
    BY DEF AddAsset
<1> HIDE DEF reference
<1>3. IsCard(new) /\ new.id = NewId(n) /\ new.residual = None
  <2>1. reference \in [CardFields -> {reference[f] : f \in CardFields}]
      BY <1>1 DEF IsCard
  <2>2. /\ DOMAIN new = CardFields
        /\ new.id = NewId(n) /\ new.cost = s.amount /\ new.inService = s.date
        /\ new.acc = 0 /\ new.imp = 0 /\ new.life = None /\ new.residual = None
        /\ new.snapDep = 0 /\ new.snapNet = 0
        /\ new.department = reference.department
      BY <2>1 DEF PlannedLike, CardFields
  <2>3. new = [f \in CardFields |-> new[f]]
      BY <2>1 DEF PlannedLike
  <2> HIDE DEF new
  <2>4. new \in [CardFields -> {new[f] : f \in CardFields}]
      BY <2>3
  <2> QED
      BY <1>1, <2>2, <2>4 DEF IsCard, IsAssumption, NewId
<1> HIDE DEF out, new
<1>4. IsSequence(in.planned)
    BY DEF InputAfter, AreCards
<1>5. PICK l : /\ l = Len(in.planned) + 1 /\ IsSequence(planned)
               /\ DOMAIN planned = DOMAIN in.planned \cup {l}
               /\ l \notin DOMAIN in.planned
               /\ planned[l] = new
               /\ \A k \in DOMAIN in.planned : planned[k] = in.planned[k]
    BY <1>4, SequenceGrows
<1> HIDE DEF planned
<1>6. AreCards(planned)
    BY <1>3, <1>5 DEF InputAfter, AreCards
<1>7. \A k \in DOMAIN planned : /\ \E m \in 1..n : planned[k].id = NewId(m)
                                /\ planned[k].residual = None
  <2>1. n \in 1..n /\ \A m \in 1..(n - 1) : m \in 1..n
      OBVIOUS
  <2> QED
      BY <1>3, <1>5, <2>1 DEF InputAfter
<1>8. Distinct(planned)
  <2>1. ASSUME NEW k \in DOMAIN in.planned PROVE in.planned[k].id # new.id
    <3>1. PICK m \in 1..(n - 1) : in.planned[k].id = NewId(m)
        BY DEF InputAfter
    <3> QED
        BY <1>3, <3>1 DEF NewId
  <2> QED
      BY <1>5, <2>1 DEF InputAfter, Distinct
<1>9. /\ out.cards = in.cards /\ out.planned = planned
      /\ out.events = in.events /\ out.drivers = in.drivers
      /\ out = [cards |-> out.cards, planned |-> out.planned,
                events |-> out.events, drivers |-> out.drivers,
                changes |-> out.changes]
    BY <1>2 DEF InputAfter
<1> QED
    BY <1>6, <1>7, <1>8, <1>9 DEF InputAfter, out

\* What an assumption must name so that it is not refused.
ImpairAllowed(in, s) ==
    /\ CardIndex(in.cards, s.target) # 0
    /\ ~(s.amount > Available(AssetById(in.cards, s.target)))
    /\ s.date # None

ReplaceAllowed(in, s) == CardIndex(in.cards, s.target) # 0

DriverAllowed(s) == s.target # None /\ s.date # None

LEMMA NotRefused ==
    ASSUME NEW in, NEW s, NEW n
    PROVE  /\ Impair(in, s, n) # Refused => ImpairAllowed(in, s)
           /\ Replace(in, s, n) # Refused => ReplaceAllowed(in, s)
           /\ SetDriver(in, s, n) # Refused => DriverAllowed(s)
BY DEF Impair, Replace, SetDriver, ImpairAllowed, ReplaceAllowed, DriverAllowed

LEMMA ImpairKeeps ==
    ASSUME BookInv, NEW n, NEW m, NEW in, InputAfter(in, m),
           NEW s, IsAssumption(s), ImpairAllowed(in, s)
    PROVE  InputAfter(Impair(in, s, n), m)
<1> DEFINE event == [id |-> n, type |-> "IMPAIRMENT", target |-> s.target,
                     amount |-> s.amount, period |-> s.date]
           out == [in EXCEPT !.events = @ \cup {event},
                             !.changes = Append(@, Change(n, s.target,
                                                          "impairment_amount"))]
           events == in.events \cup {event}
<1>1. Impair(in, s, n) = out
    BY DEF Impair, ImpairAllowed
<1>2. /\ out.cards = in.cards /\ out.planned = in.planned
      /\ out.events = events /\ out.drivers = in.drivers
      /\ out = [cards |-> out.cards, planned |-> out.planned,
                events |-> out.events, drivers |-> out.drivers,
                changes |-> out.changes]
  <2> DEFINE c == Append(in.changes, Change(n, s.target, "impairment_amount"))
  <2>1. out = [in EXCEPT !.events = events, !.changes = c]
      OBVIOUS
  <2> HIDE DEF out, c, events
  <2> QED
      BY <2>1 DEF InputAfter
<1> HIDE DEF out
<1>3. AreImpairments(events)
  <2>1. IsFiniteSet(events)
      BY FS_AddElement DEF InputAfter, AreImpairments
  <2>2. event.type = "IMPAIRMENT" /\ event.amount \in Int /\ event.period \in Int
      BY DEF IsAssumption, ImpairAllowed
  <2> HIDE DEF event
  <2> QED
      BY <2>1, <2>2 DEF InputAfter, AreImpairments
<1> HIDE DEF events
<1> QED
    BY <1>1, <1>2, <1>3 DEF InputAfter

LEMMA ReplaceKeeps ==
    ASSUME BookInv, NEW n, NEW m, NEW in, InputAfter(in, m),
           NEW s, IsAssumption(s), ReplaceAllowed(in, s)
    PROVE  InputAfter(Replace(in, s, n), m)
<1> DEFINE k == CardIndex(in.cards, s.target)
           a == in.cards[k]
           change == Change(n, s.target,
                            IF s.template = "straight_accelerated"
                            THEN "accelerated_life_months" ELSE "start_rule")
           changed == IF s.template = "straight_accelerated"
                      THEN [a EXCEPT !.life = ShorterLife(a)]
                      ELSE [a EXCEPT !.startRule = Blank(s.startRule, "NEXT_MONTH")]
           cards == [in.cards EXCEPT ![k] = changed]
           out == [in EXCEPT !.cards = cards, !.changes = Append(@, change)]
<1>1. k \in DOMAIN in.cards
  <2>1. k # 0
      BY DEF ReplaceAllowed
  <2> QED
      BY <2>1, InputCards, FoundById DEF InputAfter
<1>2. Replace(in, s, n) = out
  <2>1. DOMAIN in = {"cards", "planned", "events", "drivers", "changes"}
      BY DEF InputAfter
  <2>2. Replace(in, s, n) =
            [in EXCEPT !.cards = [in.cards EXCEPT ![k] = changed],
                       !.changes = Append(@, change)]
      BY <1>1, <2>1 DEF Replace, ReplaceAllowed
  <2> QED
      BY <2>2
<1>3. IsCard(a) /\ a \in [CardFields -> {a[f] : f \in CardFields}]
    BY <1>1 DEF InputAfter, AreCards, IsCard
<1>4. IsCard(changed) /\ SameAsset(changed, a)
  <2> DEFINE faster == [a EXCEPT !.life = ShorterLife(a)]
             later == [a EXCEPT !.startRule = Blank(s.startRule, "NEXT_MONTH")]
  <2>1. ShorterLife(a) \in Nat \ {0}
      BY <1>3 DEF ShorterLife, Greater, Blank, IsCard
  <2> HIDE DEF a
  <2>2. /\ DOMAIN faster = CardFields /\ faster.life \in Nat \ {0}
        /\ \A f \in CardFields \ {"life"} : faster[f] = a[f]
      BY <1>3, <2>1 DEF CardFields
  <2>3. /\ DOMAIN later = CardFields
        /\ \A f \in CardFields \ {"startRule"} : later[f] = a[f]
      BY <1>3 DEF CardFields
  <2>4. /\ faster = [f \in CardFields |-> faster[f]]
        /\ later = [f \in CardFields |-> later[f]]
      BY <1>3
  <2> HIDE DEF faster, later
  <2>5. IsCard(faster) /\ SameAsset(faster, a)
    <3>1. faster \in [CardFields -> {faster[f] : f \in CardFields}]
        BY <2>4
    <3> QED
        BY <1>3, <2>2, <3>1 DEF IsCard, CardFields, SameAsset
  <2>6. IsCard(later) /\ SameAsset(later, a)
    <3>1. later \in [CardFields -> {later[f] : f \in CardFields}]
        BY <2>4
    <3> QED
        BY <1>3, <2>3, <3>1 DEF IsCard, CardFields, SameAsset
  <2> QED
      BY <2>5, <2>6 DEF faster, later
<1> HIDE DEF changed, k
<1>5. /\ DOMAIN cards = DOMAIN in.cards
      /\ \A j \in DOMAIN in.cards : cards[j] = IF j = k THEN changed ELSE in.cards[j]
    BY <1>1
<1>6. AreCards(cards)
  <2>1. PICK len \in Nat : DOMAIN in.cards = 1..len
      BY DEF InputAfter, AreCards, IsSequence
  <2>2. cards = [j \in 1..len |-> cards[j]]
      BY <2>1
  <2> HIDE DEF cards
  <2>3. cards \in [1..len -> {cards[j] : j \in DOMAIN cards}]
      BY <1>5, <2>1, <2>2
  <2>4. IsSequence(cards)
    <3> DEFINE X == {cards[j] : j \in DOMAIN cards}
    <3>1. cards \in [1..len -> X] /\ len \in Nat
        BY <2>1, <2>3
    <3> HIDE DEF X
    <3>2. cards \in Seq(X)
        BY <3>1
    <3> QED
        BY <3>2 DEF IsSequence, X
  <2> QED
      BY <1>4, <1>5, <2>4 DEF InputAfter, AreCards
<1> HIDE DEF cards
<1>7. \A j \in DOMAIN cards : SameAsset(cards[j], book.cards[j])
    BY <1>1, <1>4, <1>5 DEF InputAfter, SameAsset
<1>8. /\ out.cards = cards /\ out.planned = in.planned
      /\ out.events = in.events /\ out.drivers = in.drivers
      /\ out = [cards |-> out.cards, planned |-> out.planned,
                events |-> out.events, drivers |-> out.drivers,
                changes |-> out.changes]
  <2> DEFINE c == Append(in.changes, change)
  <2>1. out = [in EXCEPT !.cards = cards, !.changes = c]
      OBVIOUS
  <2> HIDE DEF out, c
  <2> QED
      BY <2>1 DEF InputAfter
<1> HIDE DEF out
<1> QED
    BY <1>2, <1>5, <1>6, <1>7, <1>8 DEF InputAfter

LEMMA SetDriverKeeps ==
    ASSUME BookInv, NEW n, NEW m, NEW in, InputAfter(in, m),
           NEW s, IsAssumption(s), DriverAllowed(s)
    PROVE  InputAfter(SetDriver(in, s, n), m)
<1> DEFINE type == IF s.template = "production_driver"
                   THEN "PRODUCTION" ELSE "WORKLOAD"
           key == <<type, s.target, s.date>>
           old == IF key \in DOMAIN in.drivers THEN in.drivers[key] ELSE NoDriver
           new == [f \in DOMAIN old |->
                      IF f \in DOMAIN s.fields THEN s.fields[f] ELSE old[f]]
           drivers == [k \in {key} \cup DOMAIN in.drivers |->
                          IF k = key THEN new ELSE in.drivers[k]]
           out == [in EXCEPT !.drivers = drivers,
                             !.changes = Append(@, Change(n, s.target, s.template))]
<1>1. SetDriver(in, s, n) = out
    BY DEF SetDriver, DriverAllowed
<1>2. IsDriver(old)
    BY DEF InputAfter, AreDrivers, NoDriver, IsDriver, DriverFields
<1> HIDE DEF old, key
<1>3. IsDriver(new)
  <2>1. DOMAIN old = DriverFields
      BY <1>2 DEF IsDriver
  <2>2. \A f \in DriverFields :
            new[f] = IF f \in DOMAIN s.fields THEN s.fields[f] ELSE old[f]
      BY <2>1
  <2>3. new \in [DriverFields -> Int \cup {None}]
      BY <1>2, <2>1 DEF IsDriver, IsAssumption
  <2> HIDE DEF new
  <2> QED
      BY <1>2, <2>2, <2>3 DEF IsDriver, DriverFields, IsAssumption
<1> HIDE DEF new
<1>4. AreDrivers(drivers)
    BY <1>3 DEF InputAfter, AreDrivers
<1> HIDE DEF drivers
<1>5. /\ out.cards = in.cards /\ out.planned = in.planned
      /\ out.events = in.events /\ out.drivers = drivers
      /\ out = [cards |-> out.cards, planned |-> out.planned,
                events |-> out.events, drivers |-> out.drivers,
                changes |-> out.changes]
  <2> DEFINE c == Append(in.changes, Change(n, s.target, s.template))
  <2>1. out = [in EXCEPT !.drivers = drivers, !.changes = c]
      OBVIOUS
  <2> HIDE DEF out, c
  <2> QED
      BY <2>1 DEF InputAfter
<1> HIDE DEF out
<1> QED
    BY <1>1, <1>4, <1>5 DEF InputAfter

LEMMA BaselineInputIs ==
    ASSUME BookInv
    PROVE  InputAfter(BaselineInput, 0)
<1>1. AreCards(<<>>) /\ Distinct(<<>>)
    BY DEF AreCards, Distinct, IsSequence
<1>2. AreImpairments({})
    BY FS_EmptySet DEF AreImpairments
<1>3. AreCards(book.cards) /\ AreDrivers(book.drivers)
    BY BookIs
<1> QED
    BY <1>1, <1>2, <1>3 DEF InputAfter, BaselineInput, SameAsset

\* Assumptions are applied one after the other.
IsApplied(after, q) ==
    /\ after[0] = BaselineInput
    /\ \A i \in 1..Len(q) :
          after[i] = IF after[i - 1] = Refused
                     THEN Refused ELSE ApplyOne(after[i - 1], q[i], i)

LEMMA AppliedInSteps ==
    ASSUME NEW q, Len(q) \in Nat
    PROVE  \E after : IsApplied(after, q) /\ Applied(q) = after[Len(q)]
<1> DEFINE n == Len(q)
           One(before, i) == IF before = Refused THEN Refused
                             ELSE ApplyOne(before, q[i], i)
           Loop(f) == [i \in 0..n |-> IF i = 0 THEN BaselineInput
                                      ELSE One(f[i - 1], i)]
           after == CHOOSE f : f = Loop(f)
<1>1. Applied(q) = after[n]
    BY DEF Applied
<1>2. n \in Nat
    OBVIOUS
<1> HIDE DEF One, n
<1> DEFINE Filled(m, f) == /\ f = [i \in 0..m |-> f[i]] /\ f[0] = BaselineInput
                          /\ \A i \in 1..m : f[i] = One(f[i - 1], i)
           M == {m \in 0..n : \E f : Filled(m, f)}
<1>5. 0 \in M
  <2>1. Filled(0, [i \in 0..0 |-> BaselineInput]) /\ 0 \in 0..n
      BY <1>2
  <2> HIDE DEF Filled
  <2> QED
      BY <2>1
<1>6. ASSUME NEW m \in 1..n, m - 1 \in M PROVE m \in M
  <2>1. PICK f : Filled(m - 1, f)
      BY <1>6
  <2> DEFINE h == [i \in 0..m |-> IF i = m THEN One(f[m - 1], m) ELSE f[i]]
  <2>2. \A i \in 0..m : h[i] = IF i = m THEN One(f[m - 1], m) ELSE f[i]
      OBVIOUS
  <2>3. h = [i \in 0..m |-> h[i]]
      OBVIOUS
  <2> HIDE DEF h
  <2>4. h[0] = BaselineInput
      BY <2>1, <2>2
  <2>5. ASSUME NEW i \in 1..m PROVE h[i] = One(h[i - 1], i)
    <3>1. h[i - 1] = f[i - 1]
        BY <1>2, <2>2
    <3>2. CASE i = m
        BY <2>2, <3>1, <3>2
    <3>3. CASE i # m
      <4>1. i \in 1..(m - 1)
          BY <1>2, <3>3
      <4> QED
        <5>1. f[i] = One(f[i - 1], i)
            BY <2>1, <4>1
        <5>2. h[i] = f[i]
            BY <2>2, <3>3
        <5> QED
            BY <3>1, <5>1, <5>2
    <3> QED
        BY <3>2, <3>3
  <2>6. Filled(m, h)
      BY <2>3, <2>4, <2>5
  <2>7. m \in 0..n
      BY <1>2
  <2> HIDE DEF Filled
  <2> QED
      BY <2>6, <2>7
<1>7. PICK g : Filled(n, g)
  <2>1. 0..n \subseteq M
    <3> HIDE DEF M
    <3> QED
        BY <1>2, <1>5, <1>6, InductionUpTo
  <2>2. n \in M
    <3> HIDE DEF M
    <3> QED
        BY <1>2, <2>1
  <2> QED
      BY <2>2
<1>8. g = Loop(g)
  <2>1. ASSUME NEW i \in 0..n
        PROVE  g[i] = IF i = 0 THEN BaselineInput ELSE One(g[i - 1], i)
    <3>1. i # 0 => i \in 1..n
        BY <1>2
    <3> QED
        BY <1>7, <3>1
  <2> QED
      BY <1>7, <2>1
<1>9. after = Loop(after)
    BY <1>8
<1> HIDE DEF after
<1>10. /\ after[0] = BaselineInput
       /\ \A i \in 1..n : after[i] = One(after[i - 1], i)
    BY <1>2, <1>9
<1>11. \A i \in 1..Len(q) :
           after[i] = IF after[i - 1] = Refused
                      THEN Refused ELSE ApplyOne(after[i - 1], q[i], i)
    BY <1>10 DEF One, n
<1>12. IsApplied(after, q)
    BY <1>10, <1>11 DEF IsApplied
<1> QED
    BY <1>1, <1>12 DEF n

\* Whatever is not refused leaves inputs a forecast can be computed from.
LEMMA AppliedIs ==
    ASSUME BookInv, NEW q \in Seq(Assumptions), Len(q) <= MaxAssumptions,
           Applied(q) # Refused
    PROVE  InputAfter(Applied(q), MaxAssumptions)
<1> DEFINE n == Len(q)
           One(before, i) == IF before = Refused THEN Refused
                             ELSE ApplyOne(before, q[i], i)
           Good(i, in) == in # Refused => InputAfter(in, i)
<1>1. n \in Nat /\ n <= MaxAssumptions /\ MaxAssumptions \in Nat
      /\ \A i \in 1..n : IsAssumption(q[i])
    BY AssumptionsAssumption, LimitsAssumption
<1>2. PICK after : IsApplied(after, q) /\ Applied(q) = after[n]
    BY <1>1, AppliedInSteps
<1>3. Good(0, BaselineInput)
    BY BaselineInputIs
<1>4. ASSUME NEW i \in 1..n, NEW in, Good(i - 1, in)
      PROVE  Good(i, One(in, i))
  <2> SUFFICES ASSUME One(in, i) # Refused PROVE InputAfter(One(in, i), i)
      OBVIOUS
  <2>1. in # Refused /\ One(in, i) = ApplyOne(in, q[i], i)
      OBVIOUS
  <2>2. InputAfter(in, i - 1) /\ IsAssumption(q[i]) /\ i \in 1..MaxAssumptions
      BY <1>1, <1>4, <2>1
  <2>3. InputAfter(in, i)
    <3>1. \A m \in 1..(i - 1) : m \in 1..i
        OBVIOUS
    <3> QED
        BY <2>2, <3>1 DEF InputAfter
  <2> HIDE DEF One, Good, n
  <2>4. ApplyOne(in, q[i], i) # Refused
      BY <2>1
  <2>5. ApplyOne(in, q[i], i) \in {AddAsset(in, q[i], i), Impair(in, q[i], i),
            Replace(in, q[i], i), SetDriver(in, q[i], i), Refused}
      BY DEF ApplyOne
  <2>6. InputAfter(AddAsset(in, q[i], i), i)
      BY <2>2, AddAssetKeeps
  <2>7. Impair(in, q[i], i) # Refused => InputAfter(Impair(in, q[i], i), i)
      BY <2>2, <2>3, NotRefused, ImpairKeeps
  <2>8. Replace(in, q[i], i) # Refused => InputAfter(Replace(in, q[i], i), i)
      BY <2>2, <2>3, NotRefused, ReplaceKeeps
  <2>9. SetDriver(in, q[i], i) # Refused => InputAfter(SetDriver(in, q[i], i), i)
      BY <2>2, <2>3, NotRefused, SetDriverKeeps
  <2> QED
      BY <2>1, <2>4, <2>5, <2>6, <2>7, <2>8, <2>9
<1>5. \A i \in 1..n : after[i] = One(after[i - 1], i)
    BY <1>2 DEF IsApplied
<1>6. after[0] = BaselineInput
    BY <1>2 DEF IsApplied
<1> DEFINE Q == {i \in 0..n : Good(i, after[i])}
<1> HIDE DEF Good, One, n
<1>11. 0 \in Q
    BY <1>1, <1>3, <1>6
<1>12. ASSUME NEW i \in 1..n, i - 1 \in Q PROVE i \in Q
    BY <1>1, <1>4, <1>5, <1>12
<1>13. n \in Q
  <2>1. 0..n \subseteq Q
    <3> HIDE DEF Q
    <3> QED
        BY <1>1, <1>11, <1>12, InductionUpTo
  <2> HIDE DEF Q
  <2> QED
      BY <1>1, <2>1
<1>14. InputAfter(Applied(q), n)
    BY <1>2, <1>13 DEF Good
<1>15. \A m \in 1..n : m \in 1..MaxAssumptions
    BY <1>1
<1> QED
    BY <1>14, <1>15 DEF InputAfter

-----------------------------------------------------------------------------
(* The jobs of a forecast *)

HistoryMonths == IF SpansSnapshot THEN Start..(Snapshot - 1) ELSE {}

ForecastMonths == FutureStart..End

HistoryDue(in) ==
    {Job("HISTORY", i, p) : i \in IdsOf(in.cards, Included(in.cards)),
                            p \in HistoryMonths}

SnapshotDue == {Job("SNAPSHOT", None, Snapshot)}

ExistingDue(in) ==
    {Job("EXISTING", i, p) : i \in IdsOf(in.cards, Single(in.cards)),
                             p \in ForecastMonths}

PoolDue(in) ==
    {Job("WORKLOAD", None, p) :
        p \in IF Pooled(in.cards) = {} THEN {} ELSE ForecastMonths}

PlannedDue(in) ==
    {Job("PLANNED", i, p) : i \in IdsOf(in.planned, Included(in.planned)),
                            p \in ForecastMonths}

JobsDue(in) ==
    HistoryDue(in) \cup
    (SnapshotDue \cup ((ExistingDue(in) \cup PoolDue(in)) \cup PlannedDue(in)))

\* The jobs of one asset: the history backwards, everything else forwards.
Ordered(s) ==
    \A x, y \in DOMAIN s :
        x < y /\ s[x].kind = s[y].kind /\ s[x].id = s[y].id =>
            IF s[x].kind = "HISTORY" THEN s[x].period > s[y].period
                                     ELSE s[x].period < s[y].period

\* s is an agenda of the jobs D.
Agenda(s, D) ==
    /\ s \in Seq(D)
    /\ \A job \in D : \E x \in DOMAIN s : s[x] = job
    /\ Ordered(s)

LEMMA AgendasJoin ==
    ASSUME NEW s, NEW D, Agenda(s, D), NEW t, NEW E, Agenda(t, E),
           \A d \in D, e \in E : d.kind # e.kind
    PROVE  Agenda(s \o t, D \cup E)
<1> DEFINE c == s \o t
<1>1. PICK m \in Nat : /\ m = Len(s) /\ DOMAIN s = 1..m
                       /\ \A x \in 1..m : s[x] \in D
    BY DEF Agenda
<1>2. PICK n \in Nat : /\ n = Len(t) /\ DOMAIN t = 1..n
                       /\ \A x \in 1..n : t[x] \in E
    BY DEF Agenda
<1>3. /\ c \in Seq(D \cup E) /\ DOMAIN c = 1..(m + n)
      /\ \A x \in 1..m : c[x] = s[x]
      /\ \A x \in 1..n : c[m + x] = t[x]
  <2>1. s \in Seq(D \cup E) /\ t \in Seq(D \cup E)
      BY DEF Agenda
  <2> QED
      BY <1>1, <1>2, <2>1
<1> HIDE DEF c
<1>4. ASSUME NEW job \in D \cup E PROVE \E x \in DOMAIN c : c[x] = job
  <2>1. CASE job \in D
    <3>1. PICK x \in 1..m : s[x] = job
        BY <1>1, <2>1 DEF Agenda
    <3>2. x \in DOMAIN c /\ c[x] = job
        BY <1>1, <1>2, <1>3, <3>1
    <3> QED
        BY <3>2
  <2>2. CASE job \in E
    <3>1. PICK x \in 1..n : t[x] = job
        BY <1>2, <2>2 DEF Agenda
    <3>2. m + x \in DOMAIN c /\ c[m + x] = job
        BY <1>1, <1>2, <1>3, <3>1
    <3> QED
        BY <3>2
  <2> QED
      BY <2>1, <2>2
<1>5. ASSUME NEW x \in DOMAIN c, NEW y \in DOMAIN c, x < y,
             c[x].kind = c[y].kind, c[x].id = c[y].id
      PROVE  IF c[x].kind = "HISTORY" THEN c[x].period > c[y].period
                                      ELSE c[x].period < c[y].period
  <2>1. ASSUME NEW z \in DOMAIN c, z \notin 1..m
        PROVE  \E k \in 1..n : z = m + k
    <3>1. z - m \in 1..n /\ z = m + (z - m)
        BY <1>1, <1>2, <1>3, <2>1
    <3> QED
        BY <3>1
  <2>2. CASE y \in 1..m
    <3>1. x \in 1..m
        BY <1>1, <1>3, <1>5, <2>2
    <3> QED
        BY <1>1, <1>3, <1>5, <2>2, <3>1 DEF Agenda, Ordered
  <2>3. CASE x \notin 1..m
    <3>1. y \notin 1..m
        BY <1>1, <1>3, <1>5, <2>3
    <3>2. PICK k \in 1..n, l \in 1..n : x = m + k /\ y = m + l
        BY <2>1, <2>3, <3>1
    <3>3. c[x] = t[k] /\ c[y] = t[l]
        BY <1>3, <3>2
    <3>4. k < l
        BY <1>1, <1>2, <1>5, <3>2
    <3> QED
        BY <1>2, <1>5, <3>3, <3>4 DEF Agenda, Ordered
  <2>4. CASE x \in 1..m /\ y \notin 1..m
    <3>1. PICK l \in 1..n : y = m + l
        BY <2>1, <2>4
    <3>2. c[x] \in D /\ c[y] \in E
        BY <1>1, <1>2, <1>3, <2>4, <3>1
    <3> QED
        BY <1>5, <3>2
  <2> QED
      BY <2>2, <2>3, <2>4
<1> QED
    BY <1>3, <1>4, <1>5 DEF Agenda, Ordered, c

\* The months from one to another, forwards and backwards.
LEMMA MonthsAre ==
    ASSUME NEW from \in Int, NEW to \in Int
    PROVE  LET months == Months(from, to)
               back == Reverse(months)
           IN  /\ IsSequence(months) /\ IsSequence(back)
               /\ {months[k] : k \in DOMAIN months} = from..to
               /\ {back[k] : k \in DOMAIN back} = from..to
               /\ \A k, l \in DOMAIN months : k < l => months[k] < months[l]
               /\ \A k, l \in DOMAIN back : k < l => back[k] > back[l]
<1> DEFINE n == Greater(0, to - from + 1)
           months == Months(from, to)
           back == Reverse(months)
<1>1. n \in Nat /\ (from <= to => n = to - from + 1) /\ (from > to => n = 0)
    BY DEF Greater
<1>2. months = [k \in 1..n |-> from + k - 1]
    BY DEF Months
<1> HIDE DEF n, months
<1>3. months \in [1..n -> Int]
    BY <1>1, <1>2
<1>4. Len(months) = n
    BY <1>1, <1>3
<1>5. back = [k \in 1..n |-> months[(n - k) + 1]]
    BY <1>4 DEF Reverse
<1> HIDE DEF back
<1>6. \A k \in 1..n : months[k] = from + k - 1 /\ back[k] = from + n - k
  <2> SUFFICES ASSUME NEW k \in 1..n
               PROVE  months[k] = from + k - 1 /\ back[k] = from + n - k
      OBVIOUS
  <2>1. (n - k) + 1 \in 1..n
      BY <1>1
  <2>2. back[k] = from + ((n - k) + 1) - 1
      BY <1>2, <1>5, <2>1
  <2> QED
      BY <1>1, <1>2, <2>2
<1>7. back \in [1..n -> Int]
  <2>1. \A k \in 1..n : back[k] \in Int
      BY <1>1, <1>6
  <2> QED
      BY <1>5, <2>1
<1>8. IsSequence(months) /\ IsSequence(back)
  <2>1. ASSUME NEW s, s \in [1..n -> Int] PROVE IsSequence(s)
    <3> DEFINE X == {s[k] : k \in DOMAIN s}
    <3>1. s \in [1..n -> X]
        BY <2>1
    <3> HIDE DEF X
    <3>2. s \in Seq(X)
        BY <1>1, <3>1
    <3> QED
        BY <3>2 DEF IsSequence, X
  <2> QED
      BY <1>3, <1>7, <2>1
<1>9. \A k, l \in 1..n : k < l => months[k] < months[l] /\ back[k] > back[l]
    BY <1>1, <1>6
<1>10. \A k \in 1..n : months[k] \in from..to /\ back[k] \in from..to
    BY <1>1, <1>6
<1>11. ASSUME NEW p \in from..to
       PROVE  \E k, l \in 1..n : months[k] = p /\ back[l] = p
  <2>1. p - from + 1 \in 1..n /\ from + n - p \in 1..n
      BY <1>1
  <2>2. months[p - from + 1] = p /\ back[from + n - p] = p
      BY <1>1, <1>6, <2>1
  <2> QED
      BY <2>1, <2>2
<1> QED
    BY <1>3, <1>7, <1>8, <1>9, <1>10, <1>11 DEF months, back

LEMMA EachMonthIsAgenda ==
    ASSUME NEW kind, NEW cards, AreCards(cards), Distinct(cards),
           NEW which \in SUBSET DOMAIN cards,
           NEW months, IsSequence(months), NEW P,
           {months[k] : k \in DOMAIN months} = P,
           \A k, l \in DOMAIN months :
               k < l => IF kind = "HISTORY" THEN months[k] > months[l]
                                            ELSE months[k] < months[l]
    PROVE  Agenda(EachMonth(kind, cards, which, months),
                  {Job(kind, i, p) : i \in IdsOf(cards, which), p \in P})
<1> DEFINE s == EachMonth(kind, cards, which, months)
           D == {Job(kind, i, p) : i \in IdsOf(cards, which), p \in P}
<1>1. InOrder(s, kind, cards, which, months)
    BY EachMonthInOrder
<1> HIDE DEF s
<1>2. D = JobsFor(kind, cards, which, months)
    BY DEF JobsFor, IdsOf
<1> HIDE DEF D
<1>3. s \in Seq(D) /\ \A job \in D : \E x \in DOMAIN s : s[x] = job
    BY <1>1, <1>2 DEF InOrder
<1>4. ASSUME NEW x \in DOMAIN s, NEW y \in DOMAIN s, x < y, s[x].id = s[y].id
      PROVE  IF s[x].kind = "HISTORY" THEN s[x].period > s[y].period
                                      ELSE s[x].period < s[y].period
  <2>1. s[x] \in D
      BY <1>3
  <2>2. s[x].kind = kind
      BY <2>1 DEF D, Job
  <2>3. PICK k, l \in DOMAIN months :
            k < l /\ s[x].period = months[k] /\ s[y].period = months[l]
      BY <1>1, <1>4 DEF InOrder
  <2> QED
      BY <2>2, <2>3
<1> QED
    BY <1>3, <1>4 DEF Agenda, Ordered, s, D

\* The agenda of a forecast (_run_forecast).
LEMMA JobsAre ==
    ASSUME BookInv, NEW in, NEW n, InputAfter(in, n)
    PROVE  Agenda(Jobs(in), JobsDue(in))
<1> DEFINE months == Months(FutureStart, End)
           back == Reverse(Months(Start, Snapshot - 1))
           existing == EachMonth("EXISTING", in.cards, Single(in.cards), months)
           planned == EachMonth("PLANNED", in.planned, Included(in.planned), months)
           pools == IF Pooled(in.cards) = {} THEN <<>> ELSE months
           pooled == [k \in DOMAIN pools |-> Job("WORKLOAD", None, pools[k])]
<1>1. /\ Start \in Int /\ End \in Int /\ Snapshot \in Int /\ Snapshot - 1 \in Int
      /\ FutureStart \in Int
    BY BookIs
<1>2. /\ AreCards(in.cards) /\ Distinct(in.cards)
      /\ AreCards(in.planned) /\ Distinct(in.planned)
    BY InputCards DEF InputAfter
<1>3. /\ Included(in.cards) \in SUBSET DOMAIN in.cards
      /\ Single(in.cards) \in SUBSET DOMAIN in.cards
      /\ Included(in.planned) \in SUBSET DOMAIN in.planned
    BY DEF Included, Single
<1>4. /\ IsSequence(months) /\ {months[k] : k \in DOMAIN months} = ForecastMonths
      /\ \A k, l \in DOMAIN months : k < l => months[k] < months[l]
    BY <1>1, MonthsAre DEF ForecastMonths
<1>5. /\ IsSequence(back) /\ {back[k] : k \in DOMAIN back} = Start..(Snapshot - 1)
      /\ \A k, l \in DOMAIN back : k < l => back[k] > back[l]
    BY <1>1, MonthsAre
<1> HIDE DEF months, back
<1>6. Agenda(existing, ExistingDue(in))
    BY <1>2, <1>3, <1>4, EachMonthIsAgenda DEF ExistingDue
<1>7. Agenda(planned, PlannedDue(in))
    BY <1>2, <1>3, <1>4, EachMonthIsAgenda DEF PlannedDue
<1>8. Agenda(<<>>, {})
    BY DEF Agenda, Ordered
<1>9. Agenda(HistoryJobs(in), HistoryDue(in))
  <2>1. CASE SpansSnapshot
    <3>1. Agenda(EachMonth("HISTORY", in.cards, Included(in.cards), back),
                 {Job("HISTORY", i, p) : i \in IdsOf(in.cards, Included(in.cards)),
                                         p \in Start..(Snapshot - 1)})
      <4> DEFINE which == Included(in.cards)
                 P == Start..(Snapshot - 1)
      <4>1. \A k, l \in DOMAIN back :
                k < l => IF "HISTORY" = "HISTORY" THEN back[k] > back[l]
                                                  ELSE back[k] < back[l]
          BY <1>5
      <4>2. {back[k] : k \in DOMAIN back} = P /\ which \in SUBSET DOMAIN in.cards
          BY <1>3, <1>5
      <4> HIDE DEF P, which
      <4>3. IsSequence(back)
          BY <1>5
      <4>4. Agenda(EachMonth("HISTORY", in.cards, which, back),
                   {Job("HISTORY", i, p) : i \in IdsOf(in.cards, which), p \in P})
          BY ONLY <1>2, <4>1, <4>2, <4>3, EachMonthIsAgenda
      <4> QED
          BY <4>4 DEF P, which
    <3> QED
        BY <2>1, <3>1 DEF HistoryJobs, HistoryDue, HistoryMonths, back
  <2>2. CASE ~SpansSnapshot
    <3>1. HistoryDue(in) = {} /\ HistoryJobs(in) = <<>>
        BY <2>2 DEF HistoryJobs, HistoryDue, HistoryMonths
    <3> QED
        BY <1>8, <3>1
  <2> QED
      BY <2>1, <2>2
<1>10. Agenda(pooled, PoolDue(in))
  <2>1. CASE Pooled(in.cards) = {}
    <3>1. pooled = <<>> /\ PoolDue(in) = {}
        BY <2>1 DEF PoolDue
    <3> QED
        BY <1>8, <3>1
  <2>2. CASE Pooled(in.cards) # {}
    <3>1. PICK m \in Nat : DOMAIN months = 1..m
        BY <1>4 DEF IsSequence
    <3> DEFINE all == [k \in 1..m |-> Job("WORKLOAD", None, months[k])]
    <3>2. pooled = all
        BY <2>2, <3>1
    <3>3. \A k \in 1..m : all[k] = Job("WORKLOAD", None, months[k])
        OBVIOUS
    <3>4. PoolDue(in) = {all[k] : k \in 1..m}
        BY <1>4, <2>2, <3>1 DEF PoolDue
    <3>5. all \in [1..m -> PoolDue(in)]
        BY <3>4
    <3> HIDE DEF all, pooled
    <3>6. all \in Seq(PoolDue(in)) /\ DOMAIN all = 1..m
        BY <3>1, <3>5
    <3>7. \A job \in PoolDue(in) : \E x \in DOMAIN all : all[x] = job
        BY <3>4, <3>6
    <3>8. Ordered(all)
        BY <1>4, <3>1, <3>3, <3>6 DEF Ordered, Job
    <3> QED
        BY <3>2, <3>6, <3>7, <3>8 DEF Agenda
  <2> QED
      BY <2>1, <2>2
<1>11. Agenda(<<Job("SNAPSHOT", None, Snapshot)>>, SnapshotDue)
  <2> DEFINE job == Job("SNAPSHOT", None, Snapshot)
  <2>1. SnapshotDue = {job}
      BY DEF SnapshotDue
  <2> HIDE DEF job
  <2>2. <<job>> \in Seq({job}) /\ DOMAIN <<job>> = {1} /\ <<job>>[1] = job
      OBVIOUS
  <2>3. Agenda(<<job>>, {job})
    <3> DEFINE one == <<job>>
    <3>1. one \in Seq({job}) /\ DOMAIN one = {1} /\ one[1] = job
        BY <2>2
    <3> HIDE DEF one
    <3>2. Agenda(one, {job})
        BY <3>1 DEF Agenda, Ordered
    <3> QED
        BY <3>2 DEF one
  <2> QED
      BY <2>1, <2>3 DEF job
<1>12. /\ \A d \in HistoryDue(in) : d.kind = "HISTORY"
       /\ \A d \in SnapshotDue : d.kind = "SNAPSHOT"
       /\ \A d \in ExistingDue(in) : d.kind = "EXISTING"
       /\ \A d \in PoolDue(in) : d.kind = "WORKLOAD"
       /\ \A d \in PlannedDue(in) : d.kind = "PLANNED"
    BY DEF HistoryDue, SnapshotDue, ExistingDue, PoolDue, PlannedDue, Job
<1>13. Jobs(in) = HistoryJobs(in) \o (<<Job("SNAPSHOT", None, Snapshot)>>
                      \o ((existing \o pooled) \o planned))
  <2>2. Jobs(in) = (HistoryJobs(in) \o <<Job("SNAPSHOT", None, Snapshot)>>)
                      \o ((existing \o pooled) \o planned)
      BY DEF Jobs, ForecastJobs, months
  <2> DEFINE U == JobsDue(in)
             tail == (existing \o pooled) \o planned
  <2>3. /\ HistoryJobs(in) \in Seq(U)
        /\ <<Job("SNAPSHOT", None, Snapshot)>> \in Seq(U)
        /\ existing \in Seq(U) /\ pooled \in Seq(U) /\ planned \in Seq(U)
    <3>1. /\ HistoryDue(in) \subseteq U /\ SnapshotDue \subseteq U
          /\ ExistingDue(in) \subseteq U /\ PoolDue(in) \subseteq U
          /\ PlannedDue(in) \subseteq U
        BY DEF JobsDue
    <3> HIDE DEF U, existing, pooled, planned
    <3>2. ASSUME NEW s, NEW D, Agenda(s, D), D \subseteq U PROVE s \in Seq(U)
        BY <3>2 DEF Agenda
    <3> QED
        BY <1>6, <1>7, <1>9, <1>10, <1>11, <3>1, <3>2
  <2> HIDE DEF U, existing, pooled, planned
  <2>4. tail \in Seq(U)
      BY <2>3
  <2> HIDE DEF tail
  <2>5. ASSUME NEW a \in Seq(U), NEW b \in Seq(U), NEW c \in Seq(U)
        PROVE  (a \o b) \o c = a \o (b \o c)
      OBVIOUS
  <2>6. (HistoryJobs(in) \o <<Job("SNAPSHOT", None, Snapshot)>>) \o tail
            = HistoryJobs(in) \o (<<Job("SNAPSHOT", None, Snapshot)>> \o tail)
      BY <2>3, <2>4, <2>5
  <2> QED
      BY <2>2, <2>6 DEF tail
<1> HIDE DEF existing, pooled, planned
<1>14. Agenda(existing \o pooled, ExistingDue(in) \cup PoolDue(in))
    BY <1>6, <1>10, <1>12, AgendasJoin
<1>15. Agenda((existing \o pooled) \o planned,
              (ExistingDue(in) \cup PoolDue(in)) \cup PlannedDue(in))
  <2>1. \A d \in ExistingDue(in) \cup PoolDue(in), e \in PlannedDue(in) :
            d.kind # e.kind
      BY <1>12
  <2> QED
      BY <1>7, <1>14, <2>1, AgendasJoin
<1>16. Agenda(<<Job("SNAPSHOT", None, Snapshot)>>
                  \o ((existing \o pooled) \o planned),
              SnapshotDue \cup
                  ((ExistingDue(in) \cup PoolDue(in)) \cup PlannedDue(in)))
  <2>1. \A d \in SnapshotDue,
           e \in (ExistingDue(in) \cup PoolDue(in)) \cup PlannedDue(in) :
            d.kind # e.kind
      BY <1>12
  <2> QED
      BY <1>11, <1>15, <2>1, AgendasJoin
<1>17. \A d \in HistoryDue(in),
          e \in SnapshotDue \cup
                  ((ExistingDue(in) \cup PoolDue(in)) \cup PlannedDue(in)) :
           d.kind # e.kind
    BY <1>12
<1>18. Agenda(Jobs(in), JobsDue(in))
    BY <1>9, <1>13, <1>16, <1>17, AgendasJoin DEF JobsDue
<1> QED
    BY <1>18

-----------------------------------------------------------------------------
(* The inductive invariant of the running forecast *)

\* What the months of the assets hand on.
CarryFits(c, in) ==
    /\ c = [history |-> c.history, work |-> c.work, net |-> c.net,
            planned |-> c.planned]
    /\ c.history \in [IdsOf(in.cards, DOMAIN in.cards) -> Int]
    /\ c.work \in [IdsOf(in.cards, Single(in.cards)) ->
                      [acc : Int, imp : Int, disposed : {FALSE}]]
    /\ c.net \in [IdsOf(in.cards, Pooled(in.cards)) -> Int]
    /\ c.planned \in [IdsOf(in.planned, DOMAIN in.planned) -> Int]

\* Where a line comes from: a job of its asset, or the ledger.
LineFits(l, in) ==
    /\ Amounts(l) \subseteq Int
    /\ \/ /\ l.kind = "HISTORY" /\ l.source = "CURRENT"
          /\ Job("HISTORY", l.id, l.period) \in HistoryDue(in)
       \/ /\ l.kind = "SNAPSHOT" /\ l.source = "CURRENT"
          /\ l.id \in IdsOf(book.cards, DOMAIN book.cards) /\ l.period = Snapshot
       \/ /\ l.kind = "FORECAST" /\ l.source = "CURRENT"
          /\ Job("EXISTING", l.id, l.period) \in ExistingDue(in)
          /\ l.method = MethodOf(AssetById(in.cards, l.id))
       \/ /\ l.kind = "FORECAST" /\ l.source = "CURRENT"
          /\ l.id \in IdsOf(in.cards, Pooled(in.cards))
          /\ l.period \in ForecastMonths /\ l.method = "WORKLOAD"
       \/ /\ l.kind = "FORECAST" /\ l.source = "PLANNED"
          /\ Job("PLANNED", l.id, l.period) \in PlannedDue(in)

Running == phase \in {"baseline", "scenario"}

\* The request is refused or leads to an input that can be computed.
RequestFits ==
    Applied(request) = Refused \/ InputAfter(Applied(request), MaxAssumptions)

ForecastInv ==
    /\ BookInv
    /\ phase \in Phases
    /\ RequestFits
    /\ InputAfter(input, MaxAssumptions)
    /\ todo \in Seq(JobsDue(input)) /\ Ordered(todo)
    /\ ~Running => todo = <<>>
    /\ phase # "ready" => CarryFits(carry, input)
    /\ \A l \in lines : LineFits(l, input)

\* As long as the book is the same, so is what is said of it.
LEMMA SameMeaning ==
    ASSUME book' = book, NEW in, NEW n, NEW c, NEW l
    PROVE  /\ InputAfter(in, n)' = InputAfter(in, n)
           /\ JobsDue(in)' = JobsDue(in)
           /\ CarryFits(c, in)' = CarryFits(c, in)
           /\ LineFits(l, in)' = LineFits(l, in)
<1>1. /\ Start' = Start /\ End' = End /\ Snapshot' = Snapshot
      /\ FutureStart' = FutureStart /\ SpansSnapshot' = SpansSnapshot
    BY DEF Start, End, Snapshot, FutureStart, SpansSnapshot
<1>2. HistoryMonths' = HistoryMonths /\ ForecastMonths' = ForecastMonths
    BY <1>1 DEF HistoryMonths, ForecastMonths
<1>3. ASSUME NEW cards
      PROVE  /\ Included(cards)' = Included(cards)
             /\ Pooled(cards)' = Pooled(cards)
             /\ Single(cards)' = Single(cards)
  <2>1. Included(cards)' = Included(cards)
      BY DEF Included
  <2>2. ASSUME NEW a PROVE MethodOf(a)' = MethodOf(a)
      BY DEF MethodOf, PolicyFor
  <2>3. Pooled(cards)' = Pooled(cards)
      BY <2>1, <2>2 DEF Pooled
  <2> QED
      BY <2>1, <2>3 DEF Single
<1>4. InputAfter(in, n)' = InputAfter(in, n)
    BY DEF InputAfter
<1>5. /\ HistoryDue(in)' = HistoryDue(in) /\ SnapshotDue' = SnapshotDue
      /\ ExistingDue(in)' = ExistingDue(in) /\ PoolDue(in)' = PoolDue(in)
      /\ PlannedDue(in)' = PlannedDue(in)
    BY <1>1, <1>2, <1>3
    DEF HistoryDue, SnapshotDue, ExistingDue, PoolDue, PlannedDue
<1>6. JobsDue(in)' = JobsDue(in)
    BY <1>5 DEF JobsDue
<1>7. CarryFits(c, in)' = CarryFits(c, in)
  <2>1. /\ Single(in.cards)' = Single(in.cards)
        /\ Pooled(in.cards)' = Pooled(in.cards)
      BY <1>3
  <2> QED
      BY <2>1, Zenon DEF CarryFits
<1>8. ASSUME NEW a PROVE MethodOf(a)' = MethodOf(a)
    BY DEF MethodOf, PolicyFor
<1>9. LineFits(l, in)' = LineFits(l, in)
    BY <1>1, <1>2, <1>3, <1>5, <1>8 DEF LineFits
<1> QED
    BY <1>4, <1>6, <1>7, <1>9

\* The policy of an asset that takes part.
LEMMA PolicyOfDepreciable ==
    ASSUME BookInv, NEW a, IsCard(a), Depreciable(book.model, a)
    PROVE  /\ IsPolicy(PolicyFor(a)) /\ a.inService \in Int
           /\ PolicyFor(a).residual = IF a.residual = None THEN 0 ELSE a.residual
<1>1. IsModel(book.model)
    BY BookIs
<1>2. ResolveForAsset(book.model, a) # None /\ a.inService \in Int
    BY DEF Depreciable, IsCard
<1> QED
    BY <1>1, <1>2, PolicyIsTyped DEF PolicyFor

\* The card a job is about.
LEMMA CardOfJob ==
    ASSUME BookInv, NEW in, NEW n, InputAfter(in, n)
    PROVE  /\ \A id \in IdsOf(in.cards, DOMAIN in.cards) :
                 LET a == AssetById(in.cards, id)
                 IN  IsCard(a) /\ a.id = id
           /\ \A id \in IdsOf(in.cards, Included(in.cards)) :
                 Depreciable(book.model, AssetById(in.cards, id))
           /\ \A id \in IdsOf(in.cards, Single(in.cards)) :
                 LET a == AssetById(in.cards, id)
                 IN  Depreciable(book.model, a) /\ MethodOf(a) # "WORKLOAD"
           /\ \A id \in IdsOf(in.cards, Pooled(in.cards)) :
                 LET a == AssetById(in.cards, id)
                 IN  Depreciable(book.model, a) /\ MethodOf(a) = "WORKLOAD"
           /\ \A id \in IdsOf(in.planned, Included(in.planned)) :
                 LET a == AssetById(in.planned, id)
                 IN  /\ IsCard(a) /\ a.id = id /\ Depreciable(book.model, a)
                     /\ a.residual = None
           /\ IdsOf(in.cards, Included(in.cards))
                 \subseteq IdsOf(in.cards, DOMAIN in.cards)
           /\ IdsOf(in.cards, Single(in.cards))
                 \subseteq IdsOf(in.cards, Included(in.cards))
           /\ IdsOf(in.cards, Pooled(in.cards))
                 \subseteq IdsOf(in.cards, Included(in.cards))
           /\ IdsOf(in.planned, Included(in.planned))
                 \subseteq IdsOf(in.planned, DOMAIN in.planned)
<1>1. /\ AreCards(in.cards) /\ Distinct(in.cards)
      /\ AreCards(in.planned) /\ Distinct(in.planned)
      /\ \A k \in DOMAIN in.planned : in.planned[k].residual = None
    BY InputCards DEF InputAfter
<1>2. \A k \in DOMAIN in.cards :
          AssetById(in.cards, in.cards[k].id) = in.cards[k] /\ IsCard(in.cards[k])
    BY <1>1, FoundById DEF AreCards
<1>3. \A k \in DOMAIN in.planned :
          /\ AssetById(in.planned, in.planned[k].id) = in.planned[k]
          /\ IsCard(in.planned[k])
    BY <1>1, FoundById DEF AreCards
<1> QED
    BY <1>1, <1>2, <1>3 DEF IdsOf, Included, Single, Pooled

LEMMA BeginKeeps ==
    ASSUME BookInv, NEW in, InputAfter(in, MaxAssumptions), Begin(in), book' = book
    PROVE  /\ InputAfter(input, MaxAssumptions)'
           /\ (todo \in Seq(JobsDue(input)))' /\ Ordered(todo)'
           /\ CarryFits(carry, input)'
           /\ lines' = {}
<1>1. input' = in /\ todo' = Jobs(in) /\ lines' = {}
    BY DEF Begin
<1>2. InputAfter(input, MaxAssumptions)'
    BY <1>1, SameMeaning
<1>3. (todo \in Seq(JobsDue(input)))' /\ Ordered(todo)'
  <2>1. Agenda(Jobs(in), JobsDue(in))
      BY JobsAre
  <2>2. todo' \in Seq(JobsDue(in)) /\ Ordered(todo')
      BY <1>1, <2>1 DEF Agenda
  <2>3. JobsDue(input)' = JobsDue(in)
      BY <1>1, SameMeaning
  <2> QED
      BY <2>2, <2>3 DEF Ordered
<1>4. CarryFits(carry', in)
  <2> DEFINE history == [i \in IdsOf(in.cards, DOMAIN in.cards) |->
                            HistoryStart(AssetById(in.cards, i))]
             work == [i \in IdsOf(in.cards, Single(in.cards)) |->
                         LET a == AssetById(in.cards, i)
                         IN  OpeningWork(a, PolicyFor(a), FutureStart)]
             net == [i \in IdsOf(in.cards, Pooled(in.cards)) |->
                        CardNet(AssetById(in.cards, i))]
             planned == [i \in IdsOf(in.planned, DOMAIN in.planned) |-> 0]
  <2>1. carry' = [history |-> history, work |-> work, net |-> net,
                  planned |-> planned]
      BY DEF Begin
  <2>2. /\ \A id \in IdsOf(in.cards, DOMAIN in.cards) :
              IsCard(AssetById(in.cards, id))
        /\ \A id \in IdsOf(in.cards, Single(in.cards)) :
              Depreciable(book.model, AssetById(in.cards, id))
        /\ IdsOf(in.cards, Single(in.cards)) \subseteq IdsOf(in.cards, DOMAIN in.cards)
        /\ IdsOf(in.cards, Pooled(in.cards)) \subseteq IdsOf(in.cards, DOMAIN in.cards)
    BY CardOfJob
  <2>3. history \in [IdsOf(in.cards, DOMAIN in.cards) -> Int]
    <3>1. \A a : IsCard(a) => HistoryStart(a) \in Int
        BY DEF HistoryStart, IsCard
    <3> QED
        BY <2>2, <3>1
  <2>4. net \in [IdsOf(in.cards, Pooled(in.cards)) -> Int]
    <3>1. \A a : IsCard(a) => CardNet(a) \in Int
        BY DEF CardNet, IsCard
    <3> QED
        BY <2>2, <3>1
  <2>5. planned \in [IdsOf(in.planned, DOMAIN in.planned) -> Int]
      OBVIOUS
  <2>6. work \in [IdsOf(in.cards, Single(in.cards)) ->
                     [acc : Int, imp : Int, disposed : {FALSE}]]
    <3>1. ASSUME NEW id \in IdsOf(in.cards, Single(in.cards))
          PROVE  IsWork(work[id])
      <4> DEFINE a == AssetById(in.cards, id)
      <4>1. IsCard(a) /\ Depreciable(book.model, a)
          BY <2>2
      <4> HIDE DEF a
      <4>2. IsPolicy(PolicyFor(a)) /\ a.inService \in Int
          BY <4>1, PolicyOfDepreciable
      <4>3. FutureStart \in Int
          BY BookIs
      <4>4. IsWork(OpeningWork(a, PolicyFor(a), FutureStart))
          BY <4>1, <4>2, <4>3, OpeningWorkIs
      <4> QED
          BY <4>4 DEF a
    <3> HIDE DEF work
    <3>2. work = [i \in IdsOf(in.cards, Single(in.cards)) |-> work[i]]
        BY DEF work
    <3> QED
        BY <3>1, <3>2 DEF IsWork
  <2> HIDE DEF history, work, net, planned
  <2> QED
      BY <2>1, <2>3, <2>4, <2>5, <2>6 DEF CarryFits
<1>5. CarryFits(carry, input)'
    BY <1>1, <1>4, SameMeaning
<1> QED
    BY <1>1, <1>2, <1>3, <1>5

\* One job after another.
LEMMA AgendaMoves ==
    ASSUME NEW D, NEW s \in Seq(D), s # <<>>, Ordered(s)
    PROVE  /\ Head(s) \in D /\ Tail(s) \in Seq(D) /\ Ordered(Tail(s))
           /\ \A x \in DOMAIN s :
                 s[x] = Head(s) \/ \E y \in DOMAIN Tail(s) : Tail(s)[y] = s[x]
           /\ \A y \in DOMAIN Tail(s) :
                 LET job == Tail(s)[y]
                 IN  /\ \E x \in DOMAIN s : s[x] = job
                     /\ job.kind = Head(s).kind /\ job.id = Head(s).id =>
                           IF job.kind = "HISTORY"
                           THEN job.period < Head(s).period
                           ELSE Head(s).period < job.period
<1> DEFINE t == Tail(s)
<1>1. PICK n \in Nat : n = Len(s) /\ DOMAIN s = 1..n /\ n > 0
    OBVIOUS
<1>2. t \in Seq(D) /\ DOMAIN t = 1..(n - 1) /\ \A y \in 1..(n - 1) : t[y] = s[y + 1]
    BY <1>1
<1>3. Head(s) = s[1] /\ s[1] \in D
    BY <1>1
<1> HIDE DEF t
<1>4. \A y \in 1..(n - 1) : y + 1 \in 1..n /\ 1 < y + 1 /\ 1 \in 1..n
    BY <1>1
<1>5. Ordered(t)
  <2>1. \A x, y \in 1..(n - 1) : x < y => x + 1 < y + 1
      BY <1>1
  <2> QED
      BY <1>1, <1>2, <1>4, <2>1 DEF Ordered
<1>6. ASSUME NEW x \in 1..n, x # 1 PROVE \E y \in 1..(n - 1) : t[y] = s[x]
  <2>1. x - 1 \in 1..(n - 1) /\ (x - 1) + 1 = x
      BY <1>1, <1>6
  <2> QED
      BY <1>2, <2>1
<1>7. ASSUME NEW y \in 1..(n - 1)
      PROVE  /\ \E x \in DOMAIN s : s[x] = t[y]
             /\ t[y].kind = s[1].kind /\ t[y].id = s[1].id =>
                   IF t[y].kind = "HISTORY" THEN t[y].period < s[1].period
                                            ELSE s[1].period < t[y].period
  <2>1. y + 1 \in DOMAIN s /\ 1 \in DOMAIN s /\ 1 < y + 1 /\ s[y + 1] = t[y]
      BY <1>1, <1>2, <1>4
  <2>2. /\ s[1].kind = s[y + 1].kind /\ s[1].id = s[y + 1].id =>
            IF s[1].kind = "HISTORY" THEN s[1].period > s[y + 1].period
                                     ELSE s[1].period < s[y + 1].period
      BY <2>1 DEF Ordered
  <2>3. s[1] = s[1] /\ (s[1].period > s[y + 1].period => t[y].period < s[1].period)
      BY <2>1
  <2> QED
      BY <2>1, <2>2, <2>3
<1> QED
    BY <1>1, <1>2, <1>3, <1>5, <1>6, <1>7 DEF t

\* What the kind of a due job says of it.
LEMMA JobOfKind ==
    ASSUME NEW in, NEW job \in JobsDue(in)
    PROVE  /\ job.kind \in {"HISTORY", "SNAPSHOT", "EXISTING", "WORKLOAD", "PLANNED"}
           /\ job.kind = "HISTORY" =>
                 /\ job = Job("HISTORY", job.id, job.period)
                 /\ job \in HistoryDue(in)
                 /\ job.id \in IdsOf(in.cards, Included(in.cards))
                 /\ job.period \in HistoryMonths
           /\ job.kind = "SNAPSHOT" => job = Job("SNAPSHOT", None, Snapshot)
           /\ job.kind = "EXISTING" =>
                 /\ job = Job("EXISTING", job.id, job.period)
                 /\ job \in ExistingDue(in)
                 /\ job.id \in IdsOf(in.cards, Single(in.cards))
                 /\ job.period \in ForecastMonths
           /\ job.kind = "WORKLOAD" =>
                 /\ job = Job("WORKLOAD", None, job.period)
                 /\ job.period \in ForecastMonths
           /\ job.kind = "PLANNED" =>
                 /\ job = Job("PLANNED", job.id, job.period)
                 /\ job \in PlannedDue(in)
                 /\ job.id \in IdsOf(in.planned, Included(in.planned))
                 /\ job.period \in ForecastMonths
<1>1. CASE job \in HistoryDue(in)
    BY <1>1 DEF HistoryDue, Job
<1>2. CASE job \in SnapshotDue
    BY <1>2 DEF SnapshotDue, Job
<1>3. CASE job \in ExistingDue(in)
    BY <1>3 DEF ExistingDue, Job
<1>4. CASE job \in PoolDue(in)
    BY <1>4 DEF PoolDue, Job
<1>5. CASE job \in PlannedDue(in)
    BY <1>5 DEF PlannedDue, Job
<1> QED
    BY <1>1, <1>2, <1>3, <1>4, <1>5 DEF JobsDue

LEMMA DueMeans ==
    ASSUME NEW in, NEW i, NEW p
    PROVE  /\ Job("HISTORY", i, p) \in HistoryDue(in) <=>
                 i \in IdsOf(in.cards, Included(in.cards)) /\ p \in HistoryMonths
           /\ Job("EXISTING", i, p) \in ExistingDue(in) <=>
                 i \in IdsOf(in.cards, Single(in.cards)) /\ p \in ForecastMonths
           /\ Job("PLANNED", i, p) \in PlannedDue(in) <=>
                 i \in IdsOf(in.planned, Included(in.planned))
                 /\ p \in ForecastMonths
<1>1. ASSUME NEW k, NEW j, NEW q, NEW kind, Job(kind, i, p) = Job(kind, j, q)
      PROVE  i = j /\ p = q
    BY <1>1 DEF Job
<1> QED
    BY <1>1 DEF HistoryDue, ExistingDue, PlannedDue

LEMMA MonthsInt ==
    ASSUME BookInv
    PROVE  /\ HistoryMonths \subseteq Int /\ ForecastMonths \subseteq Int
           /\ \A p \in HistoryMonths : p \in Start..End /\ p < Snapshot
           /\ \A p \in ForecastMonths : p \in Start..End /\ p >= FutureStart
<1>1. Start \in Int /\ End \in Int /\ Snapshot \in Int
    BY BookIs
<1> QED
    BY <1>1 DEF HistoryMonths, ForecastMonths, FutureStart, SpansSnapshot

-----------------------------------------------------------------------------
(* What each step of a forecast does *)

\* The asset, the month and the line of a job of one card.
MonthOf(a, job, kind, source, m) ==
    /\ IsCard(a) /\ a.id = job.id /\ Depreciable(book.model, a)
    /\ a.inService \in Int /\ IsPolicy(PolicyFor(a))
    /\ job.period \in Int
    /\ lines' = lines \cup {Line(kind, source, a, job.period, m)}

HistoricalMoves(job, a, m) ==
    /\ job = Job("HISTORY", job.id, job.period)
    /\ job \in HistoryDue(input) /\ job.period \in HistoryMonths
    /\ job.id \in DOMAIN carry.history /\ carry.history[job.id] \in Int
    /\ a = AssetById(input.cards, job.id)
    /\ MonthOf(a, job, "HISTORY", "CURRENT", m)
    /\ HistoricalLaw(a, job.period, carry.history[job.id], m)
    /\ carry' = [carry EXCEPT !.history[job.id] = m.carried]

LEMMA HistoricalStepIs ==
    ASSUME ForecastInv, HistoricalStep
    PROVE  \E a, m : HistoricalMoves(Head(todo), a, m)
<1> DEFINE job == Head(todo)
           a == AssetById(input.cards, job.id)
           closing == carry.history[job.id]
           m == HistoricalMonth(a, PolicyFor(a), job.period, closing, input.drivers)
<1>1. BookInv /\ InputAfter(input, MaxAssumptions) /\ phase # "ready"
      /\ CarryFits(carry, input)
  <2>1. todo # <<>>
      BY DEF HistoricalStep, Next_
  <2> QED
      BY <2>1 DEF ForecastInv, Running
<1>2. job \in JobsDue(input) /\ job.kind = "HISTORY"
    BY AgendaMoves DEF HistoricalStep, Next_, ForecastInv
<1> HIDE DEF job
<1>3. /\ job = Job("HISTORY", job.id, job.period)
      /\ job \in HistoryDue(input) /\ job.period \in HistoryMonths
      /\ job.id \in IdsOf(input.cards, Included(input.cards))
    BY <1>2, JobOfKind
<1>4. IsCard(a) /\ a.id = job.id /\ Depreciable(book.model, a)
      /\ job.id \in IdsOf(input.cards, DOMAIN input.cards)
  <2>1. job.id \in IdsOf(input.cards, DOMAIN input.cards)
      BY <1>1, <1>3, CardOfJob
  <2> QED
      BY <1>1, <1>3, <2>1, CardOfJob
<1> HIDE DEF a
<1>5. a.inService \in Int /\ IsPolicy(PolicyFor(a))
    BY <1>1, <1>4, PolicyOfDepreciable
<1>6. job.period \in Int
    BY <1>1, <1>3, MonthsInt
<1>7. job.id \in DOMAIN carry.history /\ closing \in Int
    BY <1>1, <1>4 DEF CarryFits
<1>8. AreDrivers(input.drivers)
    BY <1>1 DEF InputAfter
<1>9. HistoricalLaw(a, job.period, closing, m)
    BY <1>4, <1>5, <1>6, <1>7, <1>8, HistoricalMonthIs
<1>10. /\ lines' = lines \cup {Line("HISTORY", "CURRENT", a, job.period, m)}
       /\ carry' = [carry EXCEPT !.history[job.id] = m.carried]
    BY <1>4 DEF HistoricalStep, job, a
<1> HIDE DEF m
<1>11. HistoricalMoves(job, a, m)
    BY <1>3, <1>4, <1>5, <1>6, <1>7, <1>9, <1>10 DEF HistoricalMoves, MonthOf, a
<1> QED
    BY <1>11 DEF job

ExistingMoves(job, a, w, m) ==
    /\ job = Job("EXISTING", job.id, job.period)
    /\ job \in ExistingDue(input) /\ job.period \in ForecastMonths
    /\ job.id \in DOMAIN carry.work
    /\ w = carry.work[job.id] /\ IsWork(w)
    /\ a = AssetById(input.cards, job.id) /\ MethodOf(a) # "WORKLOAD"
    /\ MonthOf(a, job, "FORECAST", "CURRENT", m)
    /\ m = ExistingMonth(a, PolicyFor(a), job.period, w, input.events, input.drivers)
    /\ ExistingLaw(a, PolicyFor(a), job.period, w, input.events, input.drivers, m)
    /\ carry' = [carry EXCEPT !.work[job.id] = m.work]

LEMMA ExistingStepIs ==
    ASSUME ForecastInv, ExistingStep
    PROVE  \E a, w, m : ExistingMoves(Head(todo), a, w, m)
<1> DEFINE job == Head(todo)
           a == AssetById(input.cards, job.id)
           w == carry.work[job.id]
           m == ExistingMonth(a, PolicyFor(a), job.period, w, input.events,
                              input.drivers)
<1>1. BookInv /\ InputAfter(input, MaxAssumptions) /\ phase # "ready"
      /\ CarryFits(carry, input)
  <2>1. todo # <<>>
      BY DEF ExistingStep, Next_
  <2> QED
      BY <2>1 DEF ForecastInv, Running
<1>2. job \in JobsDue(input) /\ job.kind = "EXISTING"
    BY AgendaMoves DEF ExistingStep, Next_, ForecastInv
<1> HIDE DEF job
<1>3. /\ job = Job("EXISTING", job.id, job.period)
      /\ job \in ExistingDue(input) /\ job.period \in ForecastMonths
      /\ job.id \in IdsOf(input.cards, Single(input.cards))
    BY <1>2, JobOfKind
<1>4. IsCard(a) /\ a.id = job.id /\ Depreciable(book.model, a)
      /\ MethodOf(a) # "WORKLOAD"
  <2>1. job.id \in IdsOf(input.cards, DOMAIN input.cards)
      BY <1>1, <1>3, CardOfJob
  <2> QED
      BY <1>1, <1>3, <2>1, CardOfJob
<1> HIDE DEF a
<1>5. a.inService \in Int /\ IsPolicy(PolicyFor(a))
    BY <1>1, <1>4, PolicyOfDepreciable
<1>6. job.period \in Int
    BY <1>1, <1>3, MonthsInt
<1>7. job.id \in DOMAIN carry.work /\ IsWork(w)
    BY <1>1, <1>3 DEF CarryFits, IsWork
<1>8. AreDrivers(input.drivers) /\ AreImpairments(input.events)
    BY <1>1 DEF InputAfter
<1>9. /\ lines' = lines \cup {Line("FORECAST", "CURRENT", a, job.period, m)}
      /\ carry' = [carry EXCEPT !.work[job.id] = m.work]
    BY <1>4 DEF ExistingStep, job, a
<1>10. w = carry.work[job.id]
    OBVIOUS
<1> HIDE DEF w
<1>11. ExistingLaw(a, PolicyFor(a), job.period, w, input.events, input.drivers, m)
    BY <1>4, <1>5, <1>6, <1>7, <1>8, ExistingMonthIs
<1>12. m = ExistingMonth(a, PolicyFor(a), job.period, w, input.events,
                         input.drivers)
    OBVIOUS
<1> HIDE DEF m
<1>13. ExistingMoves(job, a, w, m)
    BY <1>3, <1>4, <1>5, <1>6, <1>7, <1>9, <1>10, <1>11, <1>12
    DEF ExistingMoves, MonthOf, a
<1> QED
    BY <1>13 DEF job

PlannedMoves(job, a, m) ==
    /\ job = Job("PLANNED", job.id, job.period)
    /\ job \in PlannedDue(input) /\ job.period \in ForecastMonths
    /\ job.id \in DOMAIN carry.planned /\ carry.planned[job.id] \in Int
    /\ a = AssetById(input.planned, job.id)
    /\ MonthOf(a, job, "FORECAST", "PLANNED", m)
    /\ m = PlannedMonth(a, PolicyFor(a), job.period, carry.planned[job.id])
    /\ PlannedLaw(a, PolicyFor(a), carry.planned[job.id], m)
    /\ carry' = [carry EXCEPT !.planned[job.id] = @ + m.amount]

LEMMA PlannedStepIs ==
    ASSUME ForecastInv, PlannedStep
    PROVE  \E a, m : PlannedMoves(Head(todo), a, m)
<1> DEFINE job == Head(todo)
           a == AssetById(input.planned, job.id)
           acc == carry.planned[job.id]
           m == PlannedMonth(a, PolicyFor(a), job.period, acc)
<1>1. BookInv /\ InputAfter(input, MaxAssumptions) /\ phase # "ready"
      /\ CarryFits(carry, input)
  <2>1. todo # <<>>
      BY DEF PlannedStep, Next_
  <2> QED
      BY <2>1 DEF ForecastInv, Running
<1>2. job \in JobsDue(input) /\ job.kind = "PLANNED"
    BY AgendaMoves DEF PlannedStep, Next_, ForecastInv
<1> HIDE DEF job
<1>3. /\ job = Job("PLANNED", job.id, job.period)
      /\ job \in PlannedDue(input) /\ job.period \in ForecastMonths
      /\ job.id \in IdsOf(input.planned, Included(input.planned))
    BY <1>2, JobOfKind
<1>4. IsCard(a) /\ a.id = job.id /\ Depreciable(book.model, a) /\ a.residual = None
      /\ job.id \in IdsOf(input.planned, DOMAIN input.planned)
  <2>1. job.id \in IdsOf(input.planned, DOMAIN input.planned)
      BY <1>1, <1>3, CardOfJob
  <2> QED
      BY <1>1, <1>3, <2>1, CardOfJob
<1> HIDE DEF a
<1>5. a.inService \in Int /\ IsPolicy(PolicyFor(a)) /\ PolicyFor(a).residual = 0
    BY <1>1, <1>4, PolicyOfDepreciable
<1>6. job.period \in Int
    BY <1>1, <1>3, MonthsInt
<1>7. job.id \in DOMAIN carry.planned /\ acc \in Int
    BY <1>1, <1>4 DEF CarryFits
<1>8. PlannedLaw(a, PolicyFor(a), acc, m)
    BY <1>4, <1>5, <1>6, <1>7, PlannedMonthIs
<1>9. /\ lines' = lines \cup {Line("FORECAST", "PLANNED", a, job.period, m)}
      /\ carry' = [carry EXCEPT !.planned[job.id] = @ + m.amount]
    BY <1>4 DEF PlannedStep, job, a
<1>11. m = PlannedMonth(a, PolicyFor(a), job.period, carry.planned[job.id])
    OBVIOUS
<1> HIDE DEF m
<1>10. PlannedMoves(job, a, m)
    BY <1>3, <1>4, <1>5, <1>6, <1>7, <1>8, <1>9, <1>11 DEF PlannedMoves, MonthOf, a
<1> QED
    BY <1>10 DEF job

\* Nobody loses more to a pool than is left of it.
PoolLaw(amount) ==
    \A i \in DOMAIN carry.net : amount[i] \in 0..Greater(carry.net[i], 0)

PoolMoves(job, amount) ==
    /\ job = Job("WORKLOAD", None, job.period)
    /\ job.period \in ForecastMonths /\ job.period \in Int
    /\ amount = [i \in DOMAIN carry.net |-> PooledAmount(i, job.period)]
    /\ PoolLaw(amount)
    /\ \A i \in DOMAIN carry.net :
          LET a == AssetById(input.cards, i)
          IN  /\ IsCard(a) /\ a.id = i /\ Depreciable(book.model, a)
              /\ MethodOf(a) = "WORKLOAD" /\ carry.net[i] \in Int
    /\ lines' = lines \cup
          {Line("FORECAST", "CURRENT", AssetById(input.cards, i), job.period,
                PooledMonth(i, job.period)) : i \in DOMAIN carry.net}
    /\ carry' = [carry EXCEPT !.net = [i \in DOMAIN carry.net |->
                                          carry.net[i] - amount[i]]]

LEMMA FiniteMembers ==
    ASSUME BookInv, NEW in, NEW n, InputAfter(in, n)
    PROVE  IsFiniteSet(IdsOf(in.cards, Pooled(in.cards)))
<1> DEFINE f == [k \in DOMAIN in.cards |-> in.cards[k].id]
           S == Pooled(in.cards)
<1>1. PICK m \in Nat : DOMAIN in.cards = 1..m
  <2>1. IsSequence(in.cards)
      BY DEF InputAfter, AreCards
  <2>2. Len(in.cards) \in Nat /\ DOMAIN in.cards = 1..Len(in.cards)
      BY <2>1 DEF IsSequence
  <2> QED
      BY <2>2
<1>2. IsFiniteSet(1..m)
    BY FS_Interval
<1>3. S \subseteq 1..m
    BY <1>1 DEF Pooled, Included
<1>4. IsFiniteSet(S)
    BY <1>2, <1>3, FS_Subset
<1>5. IdsOf(in.cards, S) = {f[k] : k \in S}
    BY <1>1, <1>3 DEF IdsOf
<1> HIDE DEF f, S
<1>6. IsFiniteSet({f[k] : k \in S})
    BY <1>4, FiniteImage
<1> QED
    BY <1>5, <1>6 DEF S

LEMMA PooledAmountIs ==
    ASSUME ForecastInv, CarryFits(carry, input),
           NEW i \in DOMAIN carry.net, NEW period
    PROVE  PooledAmount(i, period) \in 0..Greater(carry.net[i], 0)
<1> DEFINE target == WorkloadTarget(AssetById(input.cards, i))
           dues == DuesOf(target, period)
           d == Driver(input.drivers, "WORKLOAD", target, period)
           ledger == SumFunctionOnSet(carry.net, dues)
           net == carry.net
<1>1. i \in PoolMembers(target)
    BY DEF PoolMembers
<1>2. BookInv /\ InputAfter(input, MaxAssumptions)
    BY DEF ForecastInv
<1>3. /\ DOMAIN net = IdsOf(input.cards, Pooled(input.cards))
      /\ \A j \in DOMAIN net : net[j] \in Int
    BY DEF CarryFits
<1>4. IsFiniteSet(dues) /\ dues \subseteq DOMAIN net
  <2>1. IsFiniteSet(DOMAIN net)
      BY <1>2, <1>3, FiniteMembers
  <2>2. dues \subseteq DOMAIN net
      BY DEF DuesOf, PoolMembers
  <2> QED
      BY <2>1, <2>2, FS_Subset
<1>5. ledger \in Int
  <2> HIDE DEF dues, net
  <2>1. SumFunctionOnSet(net, dues) \in Int
      BY <1>3, <1>4, SumOfNumbers
  <2> QED
      BY <2>1 DEF net
<1>6. IsDriver(d)
    BY <1>2, DriverIsTyped DEF InputAfter
<1>7. PooledAmount(i, period) =
          WorkloadAmount(net[i], i \in dues, TotalAmortization(d),
                         PoolNetValue(d, ledger))
    BY <1>1 DEF PooledAmount, WorkloadAmounts
<1> HIDE DEF d, ledger, dues
<1>8. TotalAmortization(d) \in Int /\ PoolNetValue(d, ledger) \in Int
    BY <1>5, <1>6, PoolIsTyped
<1> QED
    BY <1>3, <1>7, <1>8, WorkloadAmountIs

LEMMA WorkloadStepIs ==
    ASSUME ForecastInv, WorkloadStep
    PROVE  \E amount : PoolMoves(Head(todo), amount)
<1> DEFINE job == Head(todo)
           amount == [i \in DOMAIN carry.net |-> PooledAmount(i, job.period)]
<1>1. BookInv /\ InputAfter(input, MaxAssumptions) /\ phase # "ready"
      /\ CarryFits(carry, input)
  <2>1. todo # <<>>
      BY DEF WorkloadStep, Next_
  <2> QED
      BY <2>1 DEF ForecastInv, Running
<1>2. job \in JobsDue(input) /\ job.kind = "WORKLOAD"
    BY AgendaMoves DEF WorkloadStep, Next_, ForecastInv
<1>3. /\ lines' = lines \cup
            {Line("FORECAST", "CURRENT", AssetById(input.cards, i), job.period,
                  PooledMonth(i, job.period)) : i \in DOMAIN carry.net}
      /\ carry' = [carry EXCEPT !.net = [i \in DOMAIN carry.net |->
                                            carry.net[i] - amount[i]]]
    BY DEF WorkloadStep
<1> HIDE DEF job
<1>4. job = Job("WORKLOAD", None, job.period) /\ job.period \in ForecastMonths
    BY <1>2, JobOfKind
<1>5. job.period \in Int
    BY <1>1, <1>4, MonthsInt
<1>6. PoolLaw(amount)
    BY <1>1, PooledAmountIs DEF PoolLaw
<1>7. ASSUME NEW i \in DOMAIN carry.net
      PROVE  LET a == AssetById(input.cards, i)
             IN  /\ IsCard(a) /\ a.id = i /\ Depreciable(book.model, a)
                 /\ MethodOf(a) = "WORKLOAD" /\ carry.net[i] \in Int
  <2>1. i \in IdsOf(input.cards, Pooled(input.cards)) /\ carry.net[i] \in Int
      BY <1>1 DEF CarryFits
  <2>2. i \in IdsOf(input.cards, DOMAIN input.cards)
      BY <1>1, <2>1, CardOfJob
  <2> QED
      BY <1>1, <2>1, <2>2, CardOfJob
<1> HIDE DEF amount
<1>8. amount = [i \in DOMAIN carry.net |-> PooledAmount(i, job.period)]
    BY DEF amount
<1>9. PoolMoves(job, amount)
    BY <1>3, <1>4, <1>5, <1>6, <1>7, <1>8, Zenon DEF PoolMoves
<1> QED
    BY <1>9 DEF job

-----------------------------------------------------------------------------
(* The invariant is kept *)

LEMMA SameApplied ==
    ASSUME book' = book, NEW assumptions
    PROVE  Applied(assumptions)' = Applied(assumptions)
    BY DEF Applied, BaselineInput

\* The same request fits the same book.
LEMMA RequestStays ==
    ASSUME ForecastInv, book' = book, request' = request
    PROVE  RequestFits'
<1>1. Applied(request)' = Applied(request)
    BY SameApplied
<1>2. RequestFits
    BY DEF ForecastInv
<1> QED
    BY <1>1, <1>2, SameMeaning DEF RequestFits

LEMMA JobDone ==
    ASSUME ForecastInv, todo # <<>>, Done,
           UNCHANGED <<book, request, phase, input>>,
           CarryFits(carry', input),
           \A l \in lines' : l \in lines \/ LineFits(l, input)
    PROVE  ForecastInv'
<1>1. BookInv' /\ (phase \in Phases)' /\ RequestFits'
    BY RequestStays DEF ForecastInv, BookInv, Start, End
<1>2. InputAfter(input, MaxAssumptions)'
  <2>1. InputAfter(input, MaxAssumptions)
      BY DEF ForecastInv
  <2> QED
      BY <2>1, SameMeaning
<1>3. (todo \in Seq(JobsDue(input)) /\ Ordered(todo))'
  <2>1. Tail(todo) \in Seq(JobsDue(input)) /\ Ordered(Tail(todo))
      BY AgendaMoves DEF ForecastInv
  <2>2. todo' = Tail(todo) /\ JobsDue(input)' = JobsDue(input)
      BY SameMeaning DEF Done
  <2> QED
      BY <2>1, <2>2 DEF Ordered
<1>4. Running /\ Running'
    BY DEF ForecastInv, Running
<1>5. CarryFits(carry, input)'
    BY SameMeaning
<1>6. (\A l \in lines : LineFits(l, input))'
  <2> SUFFICES ASSUME NEW l \in lines' PROVE LineFits(l, input)'
      OBVIOUS
  <2>1. LineFits(l, input)
      BY DEF ForecastInv
  <2> QED
      BY <2>1, SameMeaning
<1> QED
    BY <1>1, <1>2, <1>3, <1>4, <1>5, <1>6 DEF ForecastInv

LEMMA LineIs ==
    ASSUME NEW kind, NEW source, NEW a, NEW period, NEW m
    PROVE  LET l == Line(kind, source, a, period, m)
           IN  /\ l.kind = kind /\ l.source = source /\ l.id = a.id
               /\ l.method = MethodOf(a) /\ l.period = period
               /\ l.opening = m.opening /\ l.addition = m.addition
               /\ l.disposal = m.disposal /\ l.impairment = m.impairment
               /\ l.amount = m.amount /\ l.closing = m.closing
               /\ Amounts(l) = {m.opening, m.addition, m.disposal, m.impairment,
                                m.amount, m.closing}
BY DEF Line, Amounts

LEMMA HistoricalKeeps ==
    ASSUME ForecastInv, HistoricalStep
    PROVE  ForecastInv'
<1>1. PICK a, m : HistoricalMoves(Head(todo), a, m)
    BY HistoricalStepIs
<1> DEFINE job == Head(todo)
           new == Line("HISTORY", "CURRENT", a, job.period, m)
<1>2. /\ todo # <<>> /\ Done
      /\ UNCHANGED <<book, request, phase, input>>
    BY DEF HistoricalStep, Next_
<1>3. CarryFits(carry, input)
    BY <1>2 DEF ForecastInv, Running
<1> HIDE DEF job
<1>4. CarryFits(carry', input)
  <2> DEFINE h == [carry.history EXCEPT ![job.id] = m.carried]
  <2>1. m.carried \in Int /\ carry' = [carry EXCEPT !.history[job.id] = m.carried]
      BY <1>1 DEF HistoricalMoves, HistoricalLaw, job
  <2>2. h \in [IdsOf(input.cards, DOMAIN input.cards) -> Int]
      BY <1>3, <2>1 DEF CarryFits
  <2>3. carry' = [carry EXCEPT !.history = h]
      BY <1>3, <2>1 DEF CarryFits
  <2> HIDE DEF h
  <2> QED
      BY <1>3, <2>2, <2>3 DEF CarryFits
<1>5. LineFits(new, input)
  <2>1. /\ Job("HISTORY", job.id, job.period) \in HistoryDue(input) /\ a.id = job.id
        /\ {m.opening, m.addition, m.disposal, m.impairment,
            m.amount, m.closing} \subseteq Int
      BY <1>1 DEF HistoricalMoves, MonthOf, HistoricalLaw, job
  <2> HIDE DEF new
  <2>2. /\ new.kind = "HISTORY" /\ new.source = "CURRENT" /\ new.id = a.id
        /\ new.period = job.period
        /\ Amounts(new) = {m.opening, m.addition, m.disposal, m.impairment,
                           m.amount, m.closing}
      BY LineIs DEF new
  <2> QED
      BY <2>1, <2>2 DEF LineFits
<1>6. lines' = lines \cup {new}
    BY <1>1 DEF HistoricalMoves, MonthOf, job
<1> HIDE DEF new
<1> QED
    BY <1>2, <1>4, <1>5, <1>6, JobDone

LEMMA ExistingKeeps ==
    ASSUME ForecastInv, ExistingStep
    PROVE  ForecastInv'
<1>1. PICK a, w, m : ExistingMoves(Head(todo), a, w, m)
    BY ExistingStepIs
<1> DEFINE job == Head(todo)
           new == Line("FORECAST", "CURRENT", a, job.period, m)
<1>2. /\ todo # <<>> /\ Done
      /\ UNCHANGED <<book, request, phase, input>>
    BY DEF ExistingStep, Next_
<1>3. CarryFits(carry, input)
    BY <1>2 DEF ForecastInv, Running
<1> HIDE DEF job
<1>4. CarryFits(carry', input)
  <2> DEFINE h == [carry.work EXCEPT ![job.id] = m.work]
  <2>1. IsWork(m.work) /\ carry' = [carry EXCEPT !.work[job.id] = m.work]
      BY <1>1 DEF ExistingMoves, ExistingLaw, job
  <2>2. h \in [IdsOf(input.cards, Single(input.cards)) ->
                  [acc : Int, imp : Int, disposed : {FALSE}]]
      BY <1>3, <2>1 DEF CarryFits, IsWork
  <2>3. carry' = [carry EXCEPT !.work = h]
      BY <1>3, <2>1 DEF CarryFits
  <2> HIDE DEF h
  <2> QED
      BY <1>3, <2>2, <2>3 DEF CarryFits
<1>5. LineFits(new, input)
  <2>1. /\ Job("EXISTING", job.id, job.period) \in ExistingDue(input)
        /\ a.id = job.id /\ a = AssetById(input.cards, job.id)
        /\ IsWork(w) /\ IsCard(a)
        /\ m.opening = a.cost - w.acc - w.imp
        /\ m.impairment \in Int /\ m.disposal = 0 /\ m.addition = 0
        /\ m.amount \in Nat /\ m.closing = m.opening - m.impairment - m.amount
      BY <1>1 DEF ExistingMoves, MonthOf, ExistingLaw, job
  <2>2. {m.opening, m.addition, m.disposal, m.impairment,
         m.amount, m.closing} \subseteq Int
      BY <2>1 DEF IsWork, IsCard
  <2> HIDE DEF new
  <2>3. /\ new.kind = "FORECAST" /\ new.source = "CURRENT" /\ new.id = a.id
        /\ new.period = job.period /\ new.method = MethodOf(a)
        /\ Amounts(new) = {m.opening, m.addition, m.disposal, m.impairment,
                           m.amount, m.closing}
      BY LineIs DEF new
  <2> QED
      BY <2>1, <2>2, <2>3 DEF LineFits
<1>6. lines' = lines \cup {new}
    BY <1>1 DEF ExistingMoves, MonthOf, job
<1> HIDE DEF new
<1> QED
    BY <1>2, <1>4, <1>5, <1>6, JobDone

LEMMA PlannedKeeps ==
    ASSUME ForecastInv, PlannedStep
    PROVE  ForecastInv'
<1>1. PICK a, m : PlannedMoves(Head(todo), a, m)
    BY PlannedStepIs
<1> DEFINE job == Head(todo)
           new == Line("FORECAST", "PLANNED", a, job.period, m)
<1>2. /\ todo # <<>> /\ Done
      /\ UNCHANGED <<book, request, phase, input>>
    BY DEF PlannedStep, Next_
<1>3. CarryFits(carry, input)
    BY <1>2 DEF ForecastInv, Running
<1> HIDE DEF job
<1>4. /\ Job("PLANNED", job.id, job.period) \in PlannedDue(input)
      /\ a.id = job.id /\ IsCard(a) /\ carry.planned[job.id] \in Int
      /\ job.id \in DOMAIN carry.planned
      /\ m.opening = a.cost - carry.planned[job.id]
      /\ m.impairment = 0 /\ m.disposal = 0 /\ m.addition \in Int
      /\ m.amount \in Int /\ m.closing = m.opening - m.amount
      /\ carry' = [carry EXCEPT !.planned[job.id] = @ + m.amount]
    BY <1>1 DEF PlannedMoves, MonthOf, PlannedLaw, job
<1>5. CarryFits(carry', input)
  <2> DEFINE h == [carry.planned EXCEPT ![job.id] = @ + m.amount]
  <2>1. h \in [IdsOf(input.planned, DOMAIN input.planned) -> Int]
      BY <1>3, <1>4 DEF CarryFits
  <2>2. carry' = [carry EXCEPT !.planned = h]
      BY <1>3, <1>4 DEF CarryFits
  <2> HIDE DEF h
  <2> QED
      BY <1>3, <2>1, <2>2 DEF CarryFits
<1>6. LineFits(new, input)
  <2>1. {m.opening, m.addition, m.disposal, m.impairment,
         m.amount, m.closing} \subseteq Int
      BY <1>4 DEF IsCard
  <2> HIDE DEF new
  <2>2. /\ new.kind = "FORECAST" /\ new.source = "PLANNED" /\ new.id = a.id
        /\ new.period = job.period
        /\ Amounts(new) = {m.opening, m.addition, m.disposal, m.impairment,
                           m.amount, m.closing}
      BY LineIs DEF new
  <2> QED
      BY <1>4, <2>1, <2>2 DEF LineFits
<1>7. lines' = lines \cup {new}
    BY <1>1 DEF PlannedMoves, MonthOf, job
<1> HIDE DEF new
<1> QED
    BY <1>2, <1>5, <1>6, <1>7, JobDone

LEMMA WorkloadKeeps ==
    ASSUME ForecastInv, WorkloadStep
    PROVE  ForecastInv'
<1>1. PICK amount : PoolMoves(Head(todo), amount)
    BY WorkloadStepIs
<1> DEFINE job == Head(todo)
           New(i) == Line("FORECAST", "CURRENT", AssetById(input.cards, i),
                          job.period, PooledMonth(i, job.period))
<1>2. /\ todo # <<>> /\ Done
      /\ UNCHANGED <<book, request, phase, input>>
    BY DEF WorkloadStep, Next_
<1>3. CarryFits(carry, input)
    BY <1>2 DEF ForecastInv, Running
<1> HIDE DEF job
<1>4. /\ job.period \in ForecastMonths
      /\ amount = [i \in DOMAIN carry.net |-> PooledAmount(i, job.period)]
      /\ \A i \in DOMAIN carry.net :
            /\ AssetById(input.cards, i).id = i
            /\ MethodOf(AssetById(input.cards, i)) = "WORKLOAD"
            /\ carry.net[i] \in Int /\ amount[i] \in Int
    BY <1>1 DEF PoolMoves, PoolLaw, Greater, job
<1>5. CarryFits(carry', input)
  <2> DEFINE h == [i \in DOMAIN carry.net |-> carry.net[i] - amount[i]]
  <2>1. carry' = [carry EXCEPT !.net = h]
      BY <1>1 DEF PoolMoves
  <2>2. h \in [IdsOf(input.cards, Pooled(input.cards)) -> Int]
    <3>1. DOMAIN carry.net = IdsOf(input.cards, Pooled(input.cards))
        BY <1>3 DEF CarryFits
    <3> QED
        BY <1>4, <3>1
  <2> HIDE DEF h
  <2> QED
      BY <1>3, <2>1, <2>2 DEF CarryFits
<1>6. ASSUME NEW i \in DOMAIN carry.net PROVE LineFits(New(i), input)
  <2> DEFINE m == PooledMonth(i, job.period)
             new == New(i)
  <2>1. PooledAmount(i, job.period) \in Int /\ carry.net[i] \in Int
      BY <1>4
  <2>2. {m.opening, m.addition, m.disposal, m.impairment,
         m.amount, m.closing} \subseteq Int
      BY <2>1 DEF PooledMonth
  <2> HIDE DEF m
  <2>3. /\ new.kind = "FORECAST" /\ new.source = "CURRENT"
        /\ new.id = AssetById(input.cards, i).id
        /\ new.period = job.period /\ new.method = MethodOf(AssetById(input.cards, i))
        /\ Amounts(new) = {m.opening, m.addition, m.disposal, m.impairment,
                           m.amount, m.closing}
      BY LineIs DEF m
  <2> HIDE DEF New
  <2>4. new.id \in IdsOf(input.cards, Pooled(input.cards))
      BY <1>3, <1>4, <2>3 DEF CarryFits
  <2> QED
      BY <1>4, <2>2, <2>3, <2>4 DEF LineFits
<1>7. lines' = lines \cup {New(i) : i \in DOMAIN carry.net}
    BY <1>1 DEF PoolMoves, job
<1> HIDE DEF New
<1> QED
    BY <1>2, <1>5, <1>6, <1>7, JobDone

\* The ledger's own lines (ledger_snapshot_lines).
LEMMA SnapshotLineIs ==
    ASSUME BookInv, NEW k \in DOMAIN book.cards
    PROVE  LET c == book.cards[k]
               l == SnapshotLine(book.workbook, c)
           IN  /\ IsCard(c)
               /\ l.kind = "SNAPSHOT" /\ l.source = "CURRENT" /\ l.id = c.id
               /\ l.period = Snapshot /\ l.closing = c.snapNet
               /\ l.opening = c.snapNet + c.snapDep /\ l.amount = c.snapDep
               /\ Amounts(l) \subseteq Int
<1>1. IsCard(book.cards[k])
    BY BookIs DEF AreCards
<1> QED
    BY <1>1 DEF SnapshotLine, Amounts, Snapshot, IsCard

LEMMA SnapshotKeeps ==
    ASSUME ForecastInv, TakeSnapshotLines
    PROVE  ForecastInv'
<1>1. /\ todo # <<>> /\ Done
      /\ UNCHANGED <<book, request, phase, input, carry>>
      /\ lines' = lines \cup {SnapshotLine(book.workbook, book.cards[i]) :
                                i \in DOMAIN book.cards}
    BY DEF TakeSnapshotLines, Next_
<1>2. CarryFits(carry, input) /\ BookInv
    BY <1>1 DEF ForecastInv, Running
<1>3. ASSUME NEW i \in DOMAIN book.cards
      PROVE  LineFits(SnapshotLine(book.workbook, book.cards[i]), input)
  <2>1. book.cards[i].id \in IdsOf(book.cards, DOMAIN book.cards)
      BY DEF IdsOf
  <2> QED
      BY <1>2, <2>1, SnapshotLineIs DEF LineFits
<1> QED
    BY <1>1, <1>2, <1>3, JobDone

LEMMA BaselineKeeps ==
    ASSUME ForecastInv, ComputeBaseline
    PROVE  ForecastInv'
<1>1. /\ Begin(BaselineInput) /\ phase' = "baseline"
      /\ UNCHANGED <<book, request>> /\ BookInv /\ RequestFits'
    BY RequestStays DEF ComputeBaseline, ForecastInv
<1>2. InputAfter(BaselineInput, MaxAssumptions)
  <2>1. InputAfter(BaselineInput, 0)
      BY <1>1, BaselineInputIs
  <2>2. \A m \in 1..0 : m \in 1..MaxAssumptions
      OBVIOUS
  <2> QED
      BY <2>1, <2>2 DEF InputAfter
<1>3. /\ InputAfter(input, MaxAssumptions)'
      /\ (todo \in Seq(JobsDue(input)))' /\ Ordered(todo)'
      /\ CarryFits(carry, input)' /\ lines' = {}
    BY <1>1, <1>2, BeginKeeps
<1>4. BookInv'
    BY <1>1 DEF BookInv, Start, End
<1> QED
    BY <1>1, <1>3, <1>4 DEF ForecastInv, Running, Phases

LEMMA SubmitKeeps ==
    ASSUME ForecastInv, Submit
    PROVE  ForecastInv'
<1>1. /\ UNCHANGED <<book, request>> /\ BookInv /\ phase = "choosing"
      /\ RequestFits /\ RequestFits'
      /\ InputAfter(input, MaxAssumptions)
    BY RequestStays DEF Submit, ForecastInv
<1>2. BookInv'
    BY <1>1 DEF BookInv, Start, End
<1>3. CASE ~Accepted(Applied(request))
  <2>1. phase' = "refused" /\ UNCHANGED <<input, todo, carry, lines>>
      BY <1>3 DEF Submit
  <2>2. todo = <<>> /\ CarryFits(carry, input) /\ \A l \in lines : LineFits(l, input)
      BY <1>1 DEF ForecastInv, Running
  <2>3. InputAfter(input, MaxAssumptions)' /\ CarryFits(carry, input)'
      BY <1>1, <2>1, <2>2, SameMeaning
  <2>4. (\A l \in lines : LineFits(l, input))'
    <3> SUFFICES ASSUME NEW l \in lines' PROVE LineFits(l, input)'
        OBVIOUS
    <3>1. LineFits(l, input)
        BY <2>1, <2>2
    <3> QED
        BY <1>1, <2>1, <3>1, SameMeaning
  <2>5. (todo \in Seq(JobsDue(input)) /\ Ordered(todo))'
    <3>1. todo' = <<>>
        BY <2>1, <2>2
    <3> QED
        BY <3>1 DEF Ordered
  <2> QED
      BY <1>1, <1>2, <2>1, <2>2, <2>3, <2>4, <2>5 DEF ForecastInv, Running, Phases
<1>4. CASE Accepted(Applied(request))
  <2>1. phase' = "scenario" /\ Begin(Applied(request))
      BY <1>4 DEF Submit
  <2>2. InputAfter(Applied(request), MaxAssumptions)
      BY <1>1, <1>4 DEF RequestFits, Accepted
  <2>3. /\ InputAfter(input, MaxAssumptions)'
        /\ (todo \in Seq(JobsDue(input)))' /\ Ordered(todo)'
        /\ CarryFits(carry, input)' /\ lines' = {}
      BY <1>1, <2>1, <2>2, BeginKeeps
  <2> QED
      BY <1>1, <1>2, <2>1, <2>3 DEF ForecastInv, Running, Phases
<1> QED
    BY <1>3, <1>4

\* Steps that leave the forecast alone.
Aside ==
    /\ UNCHANGED <<book, input, todo, carry, lines>>
    /\ phase' \in Phases
    /\ phase = "ready" => phase' = "ready"
    /\ ~Running' => todo = <<>>

LEMMA AsideKeeps ==
    ASSUME ForecastInv, Aside, RequestFits'
    PROVE  ForecastInv'
<1> USE DEF Aside
<1>1. BookInv'
    BY DEF ForecastInv, BookInv, Start, End
<1>2. InputAfter(input, MaxAssumptions)'
  <2>1. InputAfter(input, MaxAssumptions)
      BY DEF ForecastInv
  <2> QED
      BY <2>1, SameMeaning
<1>3. (todo \in Seq(JobsDue(input)) /\ Ordered(todo))'
  <2>1. todo' = todo /\ JobsDue(input)' = JobsDue(input)
      BY SameMeaning
  <2> QED
      BY <2>1 DEF ForecastInv, Ordered
<1>4. (\A l \in lines : LineFits(l, input))'
  <2> SUFFICES ASSUME NEW l \in lines' PROVE LineFits(l, input)'
      OBVIOUS
  <2>1. LineFits(l, input)
      BY DEF ForecastInv
  <2> QED
      BY <2>1, SameMeaning
<1>5. phase' # "ready" => CarryFits(carry, input)'
  <2>1. phase # "ready" => CarryFits(carry, input)
      BY DEF ForecastInv
  <2> QED
      BY <2>1, SameMeaning
<1> QED
    BY <1>1, <1>2, <1>3, <1>4, <1>5 DEF ForecastInv

LEMMA ForecastInit ==
    ASSUME Init, RequestFits
    PROVE  ForecastInv
<1>1. BookInv
    BY DEF Init, BookInv, Start, End
<1>2. InputAfter(input, MaxAssumptions)
  <2>1. InputAfter(BaselineInput, 0) /\ input = BaselineInput
      BY <1>1, BaselineInputIs DEF Init
  <2>2. \A m \in 1..0 : m \in 1..MaxAssumptions
      OBVIOUS
  <2> QED
      BY <2>1, <2>2 DEF InputAfter
<1>3. request = <<>> /\ phase = "ready" /\ todo = <<>> /\ lines = {}
    BY DEF Init
<1>4. todo \in Seq(JobsDue(input)) /\ Ordered(todo)
    BY <1>3 DEF Ordered
<1> QED
    BY <1>1, <1>2, <1>3, <1>4 DEF ForecastInv, Phases

JobStep == \/ HistoricalStep \/ TakeSnapshotLines \/ ExistingStep
           \/ WorkloadStep \/ PlannedStep

\* A step begins a forecast, does a job or leaves the forecast alone.
Moves ==
    \/ ComputeBaseline
    \/ Submit /\ Accepted(Applied(request))
    \/ JobStep
    \/ Aside

LEMMA StepsMove ==
    ASSUME ForecastInv, [Next]_vars
    PROVE  Moves
<1>1. phase \in Phases /\ (~Running => todo = <<>>)
    BY DEF ForecastInv
<1>2. ASSUME Submit, ~Accepted(Applied(request)) PROVE Aside
    BY <1>1, <1>2 DEF Submit, Aside, Running, Phases
<1>3. ASSUME AddAssumption PROVE Aside
    BY <1>1, <1>3 DEF AddAssumption, Aside, Running
<1>4. ASSUME Store PROVE Aside
    BY <1>1, <1>4 DEF Store, Aside, Running, Phases
<1>5. ASSUME UNCHANGED vars PROVE Aside
    BY <1>1, <1>5 DEF vars, Aside, Running
<1> QED
    BY <1>2, <1>3, <1>4, <1>5 DEF Next, JobStep, Moves

LEMMA ForecastMoves ==
    ASSUME ForecastInv, Moves, RequestFits'
    PROVE  ForecastInv'
BY BaselineKeeps, SubmitKeeps, HistoricalKeeps, SnapshotKeeps, ExistingKeeps,
   WorkloadKeeps, PlannedKeeps, AsideKeeps DEF Moves, JobStep

\* What the client may have asked for.
RequestTyped == request \in Seq(Assumptions) /\ Len(request) <= MaxAssumptions

LEMMA TypedFits ==
    ASSUME BookInv, RequestTyped
    PROVE  RequestFits
BY AppliedIs DEF RequestTyped, RequestFits

LEMMA RequestNext ==
    ASSUME RequestTyped, [Next]_vars
    PROVE  RequestTyped'
<1>1. CASE AddAssumption
  <2>1. PICK s \in Assumptions : request' = Append(request, s)
      BY <1>1 DEF AddAssumption
  <2>2. Len(request) + 1 <= MaxAssumptions
      BY <1>1, LimitsAssumption DEF AddAssumption, RequestTyped
  <2> QED
      BY <2>1, <2>2 DEF RequestTyped
<1>2. CASE request' = request
    BY <1>2 DEF RequestTyped
<1> QED
    BY <1>1, <1>2 DEF Next, vars, ComputeBaseline, Submit, HistoricalStep,
       TakeSnapshotLines, ExistingStep, WorkloadStep, PlannedStep, Store

\* No step changes the book.
LEMMA BookStays ==
    ASSUME BookInv, [Next]_vars
    PROVE  book' = book /\ BookInv'
<1>1. book' = book
    BY DEF Next, vars, ComputeBaseline, AddAssumption, Submit, HistoricalStep,
       TakeSnapshotLines, ExistingStep, WorkloadStep, PlannedStep, Store
<1> QED
    BY <1>1 DEF BookInv, Start, End

LEMMA ForecastHolds == Spec => [](ForecastInv /\ RequestTyped)
<1>1. Init => BookInv /\ RequestTyped
  <2>1. ASSUME Init PROVE RequestTyped
      BY <2>1, LimitsAssumption DEF Init, RequestTyped
  <2>2. ASSUME Init PROVE BookInv
      BY <2>2 DEF Init, BookInv, Start, End
  <2> QED
      BY <2>1, <2>2
<1>2. BookInv /\ RequestTyped /\ [Next]_vars => BookInv' /\ RequestTyped'
    BY BookStays, RequestNext
<1>3. BookInv /\ RequestTyped => RequestFits
    BY TypedFits
<1>4. Init /\ RequestFits => ForecastInv
    BY ForecastInit
<1>5. ForecastInv /\ RequestFits' /\ [Next]_vars => ForecastInv'
    BY StepsMove, ForecastMoves
<1> QED
    BY <1>1, <1>2, <1>3, <1>4, <1>5, PTL DEF Spec

-----------------------------------------------------------------------------
(* What holds of every forecast *)

\* The types of the steps hold throughout: amounts are whole units, every
\* job is a month of the horizon or the ledger month, the reconstruction
\* stays before the ledger month and the forecast behind it.
THEOREM TypesHold == Spec => []TypeOK
<1>1. ASSUME ForecastInv, RequestTyped PROVE TypeOK
  <2>1. BookInv
      BY <1>1 DEF ForecastInv
  <2>2. ASSUME NEW k \in DOMAIN todo
        PROVE  /\ todo[k].kind \in
                     {"HISTORY", "SNAPSHOT", "EXISTING", "WORKLOAD", "PLANNED"}
               /\ todo[k].period \in Start..End \cup {Snapshot}
    <3>1. todo[k] \in JobsDue(input)
        BY <1>1 DEF ForecastInv
    <3>2. todo[k].kind = "SNAPSHOT" => todo[k].period = Snapshot
        BY <3>1, JobOfKind DEF Job
    <3>3. todo[k].kind # "SNAPSHOT" => todo[k].period \in HistoryMonths \cup ForecastMonths
        BY <3>1, JobOfKind
    <3>4. HistoryMonths \cup ForecastMonths \subseteq Start..End
        BY <2>1, MonthsInt
    <3>5. todo[k].kind \in {"HISTORY", "SNAPSHOT", "EXISTING", "WORKLOAD", "PLANNED"}
        BY <3>1, JobOfKind
    <3> QED
        BY <3>2, <3>3, <3>4, <3>5
  <2>3. ASSUME NEW l \in lines
        PROVE  /\ Amounts(l) \subseteq Int
               /\ l.kind = "HISTORY" => l.period < Snapshot
               /\ l.kind = "FORECAST" => l.period >= FutureStart
    <3>1. LineFits(l, input)
        BY <1>1 DEF ForecastInv
    <3>2. /\ l.kind = "HISTORY" => l.period \in HistoryMonths
          /\ l.kind = "FORECAST" => l.period \in ForecastMonths
        BY <3>1, DueMeans DEF LineFits
    <3>3. Amounts(l) \subseteq Int
        BY <3>1 DEF LineFits
    <3> QED
        BY <2>1, <3>2, <3>3, MonthsInt
  <2>4. phase \in Phases /\ request \in Seq(Assumptions) /\ Len(request) <= MaxAssumptions
      BY <1>1 DEF ForecastInv, RequestTyped
  <2> QED
      BY <2>2, <2>3, <2>4 DEF TypeOK, Amounts
<1> QED
    BY <1>1, ForecastHolds, PTL

\* No step takes back what an asset has depreciated, raises what is left of a
\* pool member or takes more of it than there is (_monthly_amount,
\* _forecast_workload_assets): true for every ledger, checked or not, whatever
\* the assumptions of the scenario.
THEOREM BalancesFall == Spec => BalancesOnlyFall
<1> DEFINE Falls ==
        phase' = phase /\ carry' # carry =>
            /\ \A i \in DOMAIN carry.net :
                  carry'.net[i] \in Lesser(0, carry.net[i])..carry.net[i]
            /\ \A i \in DOMAIN carry.work :
                  carry'.work[i].acc >= carry.work[i].acc
<1>1. ASSUME ForecastInv, [Next]_vars PROVE Falls
  <2> SUFFICES ASSUME phase' = phase, carry' # carry
               PROVE  /\ \A i \in DOMAIN carry.net :
                            carry'.net[i] \in Lesser(0, carry.net[i])..carry.net[i]
                      /\ \A i \in DOMAIN carry.work :
                            carry'.work[i].acc >= carry.work[i].acc
      OBVIOUS
  <2>1. HistoricalStep \/ ExistingStep \/ WorkloadStep \/ PlannedStep
      BY <1>1 DEF Next, vars, ComputeBaseline, AddAssumption, Submit,
                  TakeSnapshotLines, Store
  <2>2. CarryFits(carry, input)
    <3>1. todo # <<>>
        BY <2>1 DEF HistoricalStep, ExistingStep, WorkloadStep, PlannedStep, Next_
    <3> QED
        BY <1>1, <3>1 DEF ForecastInv, Running
  <2>3. /\ \A i \in DOMAIN carry.net : carry.net[i] \in Int
        /\ \A i \in DOMAIN carry.work : carry.work[i].acc \in Int
    <3>1. \A w \in [acc : Int, imp : Int, disposed : {FALSE}] : w.acc \in Int
        OBVIOUS
    <3> QED
        BY <2>2, <3>1 DEF CarryFits
  <2>4. \A x \in Int : x \in Lesser(0, x)..x /\ x >= x
      BY DEF Lesser
  <2>5. CASE HistoricalStep
    <3>1. PICK a, m : HistoricalMoves(Head(todo), a, m)
        BY <1>1, <2>5, HistoricalStepIs
    <3>2. carry'.net = carry.net /\ carry'.work = carry.work
        BY <2>2, <3>1 DEF HistoricalMoves, CarryFits
    <3> QED
        BY <2>3, <2>4, <3>2
  <2>6. CASE ExistingStep
    <3>1. PICK a, w, m : ExistingMoves(Head(todo), a, w, m)
        BY <1>1, <2>6, ExistingStepIs
    <3> DEFINE id == Head(todo).id
    <3>2. /\ w = carry.work[id] /\ IsWork(w) /\ m.amount \in Nat
          /\ m.work.acc = w.acc + m.amount
          /\ carry' = [carry EXCEPT !.work[id] = m.work]
        BY <3>1 DEF ExistingMoves, ExistingLaw
    <3> HIDE DEF id
    <3>3. /\ carry'.net = carry.net
          /\ carry'.work = [carry.work EXCEPT ![id] = m.work]
        BY <2>2, <3>2 DEF CarryFits
    <3>4. m.work.acc >= w.acc
      <4>1. w.acc \in Int
          BY <3>2 DEF IsWork
      <4>2. \A x \in Int, y \in Nat : x + y >= x
          OBVIOUS
      <4> QED
          BY <3>2, <4>1, <4>2
    <3>5. \A i \in DOMAIN carry.work : carry'.work[i].acc >= carry.work[i].acc
        BY <2>3, <2>4, <3>2, <3>3, <3>4
    <3> QED
        BY <2>3, <2>4, <3>3, <3>5
  <2>7. CASE WorkloadStep
    <3>1. PICK amount : PoolMoves(Head(todo), amount)
        BY <1>1, <2>7, WorkloadStepIs
    <3>2. /\ carry' = [carry EXCEPT !.net = [i \in DOMAIN carry.net |->
                                                carry.net[i] - amount[i]]]
          /\ \A i \in DOMAIN carry.net : amount[i] \in 0..Greater(carry.net[i], 0)
        BY <3>1 DEF PoolMoves, PoolLaw
    <3>3. /\ carry'.work = carry.work
          /\ carry'.net = [i \in DOMAIN carry.net |-> carry.net[i] - amount[i]]
        BY <2>2, <3>2 DEF CarryFits
    <3>4. \A x \in Int : \A y \in 0..Greater(x, 0) : x - y \in Lesser(0, x)..x
        BY DEF Lesser, Greater
    <3> QED
        BY <2>3, <2>4, <3>2, <3>3, <3>4
  <2>8. CASE PlannedStep
    <3>1. PICK a, m : PlannedMoves(Head(todo), a, m)
        BY <1>1, <2>8, PlannedStepIs
    <3>2. carry'.net = carry.net /\ carry'.work = carry.work
        BY <2>2, <3>1 DEF PlannedMoves, CarryFits
    <3> QED
        BY <2>3, <2>4, <3>2
  <2> QED
      BY <2>1, <2>5, <2>6, <2>7, <2>8
<1>2. ForecastInv /\ [Next]_vars => [Falls]_vars
    BY <1>1
<1>3. Spec => [][Falls]_vars
    BY <1>2, ForecastHolds, PTL DEF Spec
<1> QED
    BY <1>3 DEF BalancesOnlyFall

-----------------------------------------------------------------------------
(* Straight-line assets end at their residual value *)

\* The cards of a forecast keep the cost and the residual rate of the ledger.
LEMMA SoundCards ==
    ASSUME SoundLedger, BookInv, NEW in, NEW n, InputAfter(in, n),
           NEW id \in IdsOf(in.cards, Included(in.cards))
    PROVE  LET a == AssetById(in.cards, id)
           IN  a.cost >= 0 /\ PolicyFor(a).residual \in 0..100
<1>1. Distinct(in.cards) /\ AreCards(in.cards)
    BY InputCards DEF InputAfter
<1>2. PICK k \in Included(in.cards) : in.cards[k].id = id
    BY DEF IdsOf
<1> DEFINE a == in.cards[k]
<1>3. k \in DOMAIN in.cards /\ Depreciable(book.model, a) /\ IsCard(a)
    BY <1>1, <1>2 DEF Included, AreCards
<1>4. AssetById(in.cards, id) = a
    BY <1>1, <1>2, <1>3, FoundById
<1>5. PICK i \in DOMAIN book.workbook.rows :
          book.cards[k] = CardOf(book.workbook.rows[i])
    BY <1>3, BookIs DEF InputAfter
<1>6. /\ a.cost = book.workbook.rows[i].cost
      /\ a.residual = book.workbook.rows[i].residual
    BY <1>3, <1>5 DEF InputAfter, SameAsset, CardFields, CardOf
<1>7. book.workbook.rows[i].cost >= 0 /\ book.workbook.rows[i].residual \in 0..100
    BY DEF SoundLedger, BookInv
<1> HIDE DEF a
<1>8. PolicyFor(a).residual = IF a.residual = None THEN 0 ELSE a.residual
    BY <1>3, PolicyOfDepreciable
<1> QED
    BY <1>4, <1>6, <1>7, <1>8

\* What LifeEndsAtResidual says of one line.
EndsAtResidual(l, in) ==
    l.kind = "FORECAST" /\ l.source = "CURRENT" /\ l.method = "STRAIGHT_LINE" =>
        LET a == AssetById(in.cards, l.id)
            p == PolicyFor(a)
            last == FirstDepreciationMonth(a.inService, p.startRule) + p.life - 1
            residual == Money(TotalDepreciable(a.cost, p.residual), 100)
        IN  /\ l.period = last =>
                 l.closing = Lesser(a.cost - residual, l.opening - l.impairment)
            /\ l.period > last => l.amount = 0

ResidualInv == \A l \in lines : EndsAtResidual(l, input)

LEMMA ResidualNext ==
    ASSUME SoundLedger, ForecastInv, ResidualInv, [Next]_vars
    PROVE  ResidualInv'
<1>1. CASE ComputeBaseline \/ Submit \/ Store \/ AddAssumption \/ UNCHANGED vars
  <2>1. CASE lines' = {}
      BY <2>1 DEF ResidualInv
  <2>2. CASE lines' # {}
    <3>1. lines' = lines /\ input' = input /\ book' = book
        BY <1>1, <2>2 DEF ComputeBaseline, Submit, Store, AddAssumption, vars, Begin
    <3>2. ASSUME NEW l \in lines' PROVE EndsAtResidual(l, input)'
      <4>1. EndsAtResidual(l, input)
          BY <3>1 DEF ResidualInv
      <4> QED
          BY <3>1, <4>1 DEF EndsAtResidual, PolicyFor
    <3> QED
        BY <3>2 DEF ResidualInv
  <2> QED
      BY <2>1, <2>2
<1>2. ASSUME HistoricalStep \/ TakeSnapshotLines \/ ExistingStep
             \/ WorkloadStep \/ PlannedStep
      PROVE  ResidualInv'
  <2>1. input' = input /\ book' = book
      BY <1>2 DEF HistoricalStep, TakeSnapshotLines, ExistingStep, WorkloadStep,
                  PlannedStep
  <2>2. SUFFICES ASSUME NEW l \in lines', l \notin lines,
                        l.kind = "FORECAST", l.source = "CURRENT",
                        l.method = "STRAIGHT_LINE"
                 PROVE  EndsAtResidual(l, input)
    <3>1. ASSUME NEW l \in lines', EndsAtResidual(l, input)
          PROVE  EndsAtResidual(l, input)'
        BY <2>1, <3>1 DEF EndsAtResidual, PolicyFor
    <3>2. ASSUME NEW l \in lines' PROVE EndsAtResidual(l, input)
      <4>1. CASE l \in lines
          BY <4>1 DEF ResidualInv
      <4>2. CASE l \notin lines
          BY <2>2, <4>2 DEF EndsAtResidual
      <4> QED
          BY <4>1, <4>2
    <3> QED
        BY <3>1, <3>2 DEF ResidualInv
  <2>3. CASE HistoricalStep
    <3>1. PICK a, m : HistoricalMoves(Head(todo), a, m)
        BY <2>3, HistoricalStepIs
    <3>2. l = Line("HISTORY", "CURRENT", a, Head(todo).period, m)
        BY <2>2, <3>1 DEF HistoricalMoves, MonthOf
    <3> QED
        BY <2>2, <3>2 DEF Line
  <2>4. CASE TakeSnapshotLines
      BY <2>2, <2>4 DEF TakeSnapshotLines, SnapshotLine
  <2>5. CASE WorkloadStep
    <3>1. PICK amount : PoolMoves(Head(todo), amount)
        BY <2>5, WorkloadStepIs
    <3>2. PICK i \in DOMAIN carry.net :
              l = Line("FORECAST", "CURRENT", AssetById(input.cards, i),
                       Head(todo).period, PooledMonth(i, Head(todo).period))
        BY <2>2, <3>1 DEF PoolMoves
    <3>3. l.method = MethodOf(AssetById(input.cards, i))
        BY <3>2 DEF Line
    <3> QED
        BY <2>2, <3>1, <3>3 DEF PoolMoves
  <2>6. CASE PlannedStep
    <3>1. PICK a, m : PlannedMoves(Head(todo), a, m)
        BY <2>6, PlannedStepIs
    <3>2. l = Line("FORECAST", "PLANNED", a, Head(todo).period, m)
        BY <2>2, <3>1 DEF PlannedMoves, MonthOf
    <3> QED
        BY <2>2, <3>2 DEF Line
  <2>7. CASE ExistingStep
    <3>1. PICK a, w, m : ExistingMoves(Head(todo), a, w, m)
        BY <2>7, ExistingStepIs
    <3> DEFINE job == Head(todo)
               p == PolicyFor(a)
    <3>2. l = Line("FORECAST", "CURRENT", a, job.period, m)
        BY <2>2, <3>1 DEF ExistingMoves, MonthOf
    <3>3. /\ a = AssetById(input.cards, job.id) /\ IsWork(w)
          /\ IsCard(a) /\ a.id = job.id
          /\ a.inService \in Int /\ IsPolicy(p) /\ job.period \in Int
          /\ m = ExistingMonth(a, p, job.period, w, input.events, input.drivers)
          /\ job \in ExistingDue(input) /\ job = Job("EXISTING", job.id, job.period)
        BY <3>1 DEF ExistingMoves, MonthOf
    <3> HIDE DEF job
    <3>4. /\ l.id = a.id /\ l.period = job.period /\ l.method = p.method
          /\ l.closing = m.closing /\ l.opening = m.opening
          /\ l.impairment = m.impairment /\ l.amount = m.amount
        BY <3>2 DEF Line, MethodOf
    <3>5. BookInv /\ InputAfter(input, MaxAssumptions)
        BY DEF ForecastInv
    <3>6. a.cost >= 0 /\ p.residual \in 0..100
      <4>1. job.id \in IdsOf(input.cards, Included(input.cards))
          BY <3>3, <3>5, DueMeans, CardOfJob
      <4> QED
          BY <3>3, <3>5, <4>1, SoundCards
    <3>7. AreImpairments(input.events) /\ AreDrivers(input.drivers)
        BY <3>5 DEF InputAfter
    <3>8. p.method # "PRODUCTION"
        BY <2>2, <3>4
    <3> HIDE DEF p
    <3> DEFINE last == FirstDepreciationMonth(a.inService, p.startRule) + p.life - 1
               residual == Money(TotalDepreciable(a.cost, p.residual), 100)
    <3>9. /\ job.period = last =>
                m.closing = Lesser(a.cost - residual, m.opening - m.impairment)
          /\ job.period > last => m.amount = 0
        BY <3>3, <3>6, <3>7, <3>8, LastMonthLeavesResidual
    <3> HIDE DEF last, residual
    <3>10. /\ l.period = last =>
                l.closing = Lesser(a.cost - residual, l.opening - l.impairment)
           /\ l.period > last => l.amount = 0
        BY <3>4, <3>9
    <3>11. AssetById(input.cards, l.id) = a
        BY <3>3, <3>4
    <3> QED
        BY <3>10, <3>11 DEF EndsAtResidual, last, residual, p
  <2> QED
      BY <1>2, <2>3, <2>4, <2>5, <2>6, <2>7
<1> QED
    BY <1>1, <1>2 DEF Next

\* A straight-line asset ends the last month of its life at its residual
\* value, or at what there was when an impairment or an earlier month left
\* less, and takes nothing afterwards (_monthly_amount divides the remaining
\* amount anew every month), for every ledger whose costs are not negative
\* and whose residual rates are percentages.
THEOREM LivesEndAtResidual ==
    ASSUME SoundLedger
    PROVE  Spec => []LifeEndsAtResidual
<1>1. Init => ResidualInv
    BY DEF Init, ResidualInv
<1>2. ForecastInv /\ ResidualInv /\ [Next]_vars => ResidualInv'
    BY ResidualNext
<1>3. ResidualInv => LifeEndsAtResidual
    BY DEF ResidualInv, EndsAtResidual, LifeEndsAtResidual, Forecasts, Card
<1> QED
    BY <1>1, <1>2, <1>3, ForecastHolds, PTL DEF Spec

-----------------------------------------------------------------------------
(* Every job is done once *)

\* The job a line comes from, and the assets a job gives a line to.
JobOf(l) ==
    IF l.kind \in {"HISTORY", "SNAPSHOT"}
    THEN Job(l.kind, IF l.kind = "HISTORY" THEN l.id ELSE None, l.period)
    ELSE IF l.source = "PLANNED" THEN Job("PLANNED", l.id, l.period)
    ELSE IF l.method = "WORKLOAD" THEN Job("WORKLOAD", None, l.period)
    ELSE Job("EXISTING", l.id, l.period)

AssetsOf(job, in) ==
    IF job.kind = "SNAPSHOT" THEN IdsOf(book.cards, DOMAIN book.cards)
    ELSE IF job.kind = "WORKLOAD" THEN IdsOf(in.cards, Pooled(in.cards))
    ELSE {job.id}

Precedes(j, k) == IF j.kind = "HISTORY" THEN k.period < j.period
                                      ELSE j.period < k.period

\* A job that is due is still to be done or every asset has its line; a line
\* comes from a job that is not to be done again and is the only one.
AgendaInv ==
    /\ phase # "ready" =>
          \A job \in JobsDue(input) :
              \/ \E x \in DOMAIN todo : todo[x] = job
              \/ \A i \in AssetsOf(job, input) :
                    \E l \in lines : l.id = i /\ JobOf(l) = job
    /\ \A l \in lines :
          /\ JobOf(l) \in JobsDue(input) /\ l.id \in AssetsOf(JobOf(l), input)
          /\ \A x \in DOMAIN todo :
                todo[x].kind = JobOf(l).kind /\ todo[x].id = JobOf(l).id =>
                    Precedes(JobOf(l), todo[x])
    /\ \A l, k \in lines : l.id = k.id /\ JobOf(l) = JobOf(k) => l = k

\* One line for every asset of the job.
Adds(job, f) ==
    /\ lines' = lines \cup {f[i] : i \in AssetsOf(job, input)}
    /\ \A i \in AssetsOf(job, input) : f[i].id = i /\ JobOf(f[i]) = job

\* What is left of an asset before the next job of a kind, and before its first.
Carried(c, in, kind, i) ==
    IF kind = "HISTORY" THEN c.history[i]
    ELSE IF kind = "EXISTING"
    THEN AssetById(in.cards, i).cost - c.work[i].acc - c.work[i].imp
    ELSE IF kind = "WORKLOAD" THEN c.net[i]
    ELSE AssetById(in.planned, i).cost - c.planned[i]

AtFirst(in, kind, i) ==
    LET a == AssetById(in.cards, i)
        w == OpeningWork(a, PolicyFor(a), FutureStart)
    IN  IF kind = "HISTORY" THEN HistoryStart(a)
        ELSE IF kind = "EXISTING" THEN a.cost - w.acc - w.imp
        ELSE IF kind = "WORKLOAD" THEN CardNet(a)
        ELSE AssetById(in.planned, i).cost

\* What a line finds and what it hands on: the history goes backwards.
Found(l) == IF l.kind = "HISTORY" THEN l.closing ELSE l.opening

Given(l) == IF l.kind = "HISTORY" THEN l.opening ELSE l.closing

\* A month before the asset was put into service is a line of zeros.
Live(l, in) == l.kind = "HISTORY" => l.period >= AssetById(in.cards, l.id).inService

\* Each line finds what its asset carries and hands on what it carries then;
\* no other kind of job of no other asset is touched.
Hands(job, f) ==
    /\ job.kind = "SNAPSHOT" =>
          \A i \in AssetsOf(job, input) :
              f[i] = SnapshotLine(book.workbook, AssetById(book.cards, i))
    /\ job.kind # "SNAPSHOT" =>
          \A i \in AssetsOf(job, input) : Live(f[i], input) =>
              /\ Found(f[i]) = Carried(carry, input, job.kind, i)
              /\ Given(f[i]) = Carried(carry', input, job.kind, i)
    /\ \A k \in JobsDue(input) :
          k.kind # "SNAPSHOT" /\ (k.kind # job.kind \/ k.id # job.id) =>
              \A i \in AssetsOf(k, input) :
                  Carried(carry', input, k.kind, i) = Carried(carry, input, k.kind, i)

\* The fields of carry are changed one at a time.
LEMMA CarryMoves ==
    ASSUME CarryFits(carry, input), NEW i, NEW v
    PROVE  /\ carry' = [carry EXCEPT !.history[i] = v] =>
                /\ carry'.history = [carry.history EXCEPT ![i] = v]
                /\ carry'.work = carry.work /\ carry'.net = carry.net
                /\ carry'.planned = carry.planned
           /\ carry' = [carry EXCEPT !.work[i] = v] =>
                /\ carry'.work = [carry.work EXCEPT ![i] = v]
                /\ carry'.history = carry.history /\ carry'.net = carry.net
                /\ carry'.planned = carry.planned
           /\ carry' = [carry EXCEPT !.net = v] =>
                /\ carry'.net = v
                /\ carry'.history = carry.history /\ carry'.work = carry.work
                /\ carry'.planned = carry.planned
           /\ carry' = [carry EXCEPT !.planned[i] = v] =>
                /\ carry'.planned = [carry.planned EXCEPT ![i] = v]
                /\ carry'.history = carry.history /\ carry'.work = carry.work
                /\ carry'.net = carry.net
<1>1. carry = [history |-> carry.history, work |-> carry.work, net |-> carry.net,
               planned |-> carry.planned]
    BY DEF CarryFits
<1> QED
    BY <1>1

LEMMA StepAdds ==
    ASSUME ForecastInv, JobStep
    PROVE  /\ todo # <<>> /\ todo' = Tail(todo)
           /\ UNCHANGED <<book, request, phase, input>>
           /\ \E f : Adds(Head(todo), f) /\ Hands(Head(todo), f)
<1> DEFINE job == Head(todo)
<1>1. /\ todo # <<>> /\ todo' = Tail(todo)
      /\ UNCHANGED <<book, request, phase, input>>
    BY DEF JobStep, HistoricalStep, TakeSnapshotLines, ExistingStep, WorkloadStep,
           PlannedStep, Next_, Done
<1>2. CarryFits(carry, input) /\ BookInv
    BY <1>1 DEF ForecastInv, Running
<1>3. CASE HistoricalStep
  <2>1. PICK a, m : HistoricalMoves(job, a, m)
      BY <1>3, HistoricalStepIs
  <2> DEFINE new == Line("HISTORY", "CURRENT", a, job.period, m)
  <2>2. /\ job = Job("HISTORY", job.id, job.period) /\ a.id = job.id
        /\ lines' = lines \cup {new}
        /\ a = AssetById(input.cards, job.id) /\ job.id \in DOMAIN carry.history
        /\ HistoricalLaw(a, job.period, carry.history[job.id], m)
        /\ carry' = [carry EXCEPT !.history[job.id] = m.carried]
      BY <2>1 DEF HistoricalMoves, MonthOf
  <2> HIDE DEF job
  <2>3. /\ new.id = a.id /\ new.period = job.period /\ new.kind = "HISTORY"
        /\ new.opening = m.opening /\ new.closing = m.closing
      BY LineIs
  <2> HIDE DEF new
  <2>4. AssetsOf(job, input) = {job.id}
      BY <2>2 DEF AssetsOf, Job
  <2>5. JobOf(new) = job
      BY <2>2, <2>3 DEF JobOf
  <2>6. Adds(job, [i \in {job.id} |-> new])
      BY <2>2, <2>3, <2>4, <2>5 DEF Adds
  <2>7. Live(new, input) =>
            /\ Found(new) = Carried(carry, input, "HISTORY", job.id)
            /\ Given(new) = Carried(carry', input, "HISTORY", job.id)
    <3>1. carry'.history[job.id] = m.carried
        BY <1>2, <2>2, CarryMoves
    <3> QED
        BY <2>2, <2>3, <3>1 DEF Live, Found, Given, Carried, HistoricalLaw
  <2>8. ASSUME NEW k \in JobsDue(input), k.kind # "SNAPSHOT",
               k.kind # job.kind \/ k.id # job.id, NEW i \in AssetsOf(k, input)
        PROVE  Carried(carry', input, k.kind, i) = Carried(carry, input, k.kind, i)
    <3>1. k.kind = "HISTORY" => i = k.id /\ k.id # job.id
        BY <2>2, <2>8 DEF AssetsOf, Job
    <3>2. /\ carry'.history = [carry.history EXCEPT ![job.id] = m.carried]
          /\ carry'.work = carry.work /\ carry'.net = carry.net
          /\ carry'.planned = carry.planned
        BY <1>2, <2>2, CarryMoves
    <3> QED
        BY <3>1, <3>2 DEF Carried
  <2>9. Hands(job, [i \in {job.id} |-> new])
    <3>1. job.kind = "HISTORY"
        BY <2>2 DEF Job
    <3> QED
        BY <2>4, <2>7, <2>8, <3>1 DEF Hands
  <2> QED
      BY <1>1, <2>6, <2>9 DEF job
<1>4. CASE TakeSnapshotLines
  <2> DEFINE f == [i \in IdsOf(book.cards, DOMAIN book.cards) |->
                      SnapshotLine(book.workbook, AssetById(book.cards, i))]
  <2>1. job = Job("SNAPSHOT", None, Snapshot)
    <3>1. job \in JobsDue(input) /\ job.kind = "SNAPSHOT"
        BY <1>4, AgendaMoves DEF TakeSnapshotLines, Next_, ForecastInv
    <3> HIDE DEF job
    <3> QED
        BY <3>1, JobOfKind
  <2>2. AssetsOf(job, input) = IdsOf(book.cards, DOMAIN book.cards)
      BY <2>1 DEF AssetsOf, Job
  <2> HIDE DEF job
  <2>3. \A k \in DOMAIN book.cards :
            /\ book.cards[k].id \in DOMAIN f
            /\ f[book.cards[k].id] = SnapshotLine(book.workbook, book.cards[k])
      BY <1>2, BookIs, FoundById DEF IdsOf
  <2>4. \A i \in DOMAIN f : \E k \in DOMAIN book.cards :
            i = book.cards[k].id /\ f[i] = SnapshotLine(book.workbook, book.cards[k])
      BY <2>3 DEF IdsOf
  <2>5. DOMAIN f = IdsOf(book.cards, DOMAIN book.cards)
      OBVIOUS
  <2> HIDE DEF f
  <2>6. lines' = lines \cup {f[i] : i \in DOMAIN f}
    <3>1. {f[i] : i \in DOMAIN f} =
              {SnapshotLine(book.workbook, book.cards[k]) : k \in DOMAIN book.cards}
        BY <2>3, <2>4
    <3> QED
        BY <1>4, <3>1 DEF TakeSnapshotLines
  <2>7. ASSUME NEW i \in DOMAIN f PROVE f[i].id = i /\ JobOf(f[i]) = job
    <3>1. PICK k \in DOMAIN book.cards :
              i = book.cards[k].id /\ f[i] = SnapshotLine(book.workbook, book.cards[k])
        BY <2>4
    <3>2. f[i].kind = "SNAPSHOT" /\ f[i].id = i /\ f[i].period = Snapshot
        BY <1>2, <3>1, SnapshotLineIs
    <3> QED
        BY <2>1, <3>2 DEF JobOf
  <2>8. Adds(job, f)
      BY <2>2, <2>5, <2>6, <2>7 DEF Adds
  <2>9. Hands(job, f)
    <3>1. carry' = carry
        BY <1>4 DEF TakeSnapshotLines
    <3>2. \A i \in DOMAIN f :
              f[i] = SnapshotLine(book.workbook, AssetById(book.cards, i))
        BY DEF f
    <3>3. job.kind = "SNAPSHOT"
        BY <2>1 DEF Job
    <3> QED
        BY <2>2, <2>5, <3>1, <3>2, <3>3 DEF Hands
  <2> QED
      BY <1>1, <2>8, <2>9 DEF job
<1>5. CASE ExistingStep
  <2>1. PICK a, w, m : ExistingMoves(job, a, w, m)
      BY <1>5, ExistingStepIs
  <2> DEFINE new == Line("FORECAST", "CURRENT", a, job.period, m)
  <2>2. /\ job = Job("EXISTING", job.id, job.period) /\ a.id = job.id
        /\ lines' = lines \cup {new} /\ MethodOf(a) # "WORKLOAD"
        /\ a = AssetById(input.cards, job.id) /\ job.id \in DOMAIN carry.work
        /\ w = carry.work[job.id] /\ IsWork(w)
        /\ ExistingLaw(a, PolicyFor(a), job.period, w, input.events,
                       input.drivers, m)
        /\ carry' = [carry EXCEPT !.work[job.id] = m.work]
        /\ a.cost \in Int
      BY <2>1 DEF ExistingMoves, MonthOf, IsCard
  <2> HIDE DEF job
  <2>3. /\ new.id = a.id /\ new.period = job.period /\ new.kind = "FORECAST"
        /\ new.source = "CURRENT" /\ new.method = MethodOf(a)
        /\ new.opening = m.opening /\ new.closing = m.closing
      BY LineIs
  <2> HIDE DEF new
  <2>4. AssetsOf(job, input) = {job.id}
      BY <2>2 DEF AssetsOf, Job
  <2>5. JobOf(new) = job
      BY <2>2, <2>3 DEF JobOf
  <2>6. Adds(job, [i \in {job.id} |-> new])
      BY <2>2, <2>3, <2>4, <2>5 DEF Adds
  <2>7. /\ Found(new) = Carried(carry, input, "EXISTING", job.id)
        /\ Given(new) = Carried(carry', input, "EXISTING", job.id)
    <3>1. carry'.work[job.id] = m.work
        BY <1>2, <2>2, CarryMoves
    <3>2. /\ m.opening = a.cost - w.acc - w.imp
          /\ m.closing = a.cost - m.work.acc - m.work.imp
      <4>1. w.acc \in Int /\ w.imp \in Int /\ m.impairment \in Int /\ m.amount \in Int
        <5>1. w.acc \in Int /\ w.imp \in Int
            BY <2>2 DEF IsWork
        <5>2. m.impairment \in Int /\ m.amount \in Nat
            BY <2>2 DEF ExistingLaw
        <5> QED
            BY <5>1, <5>2
      <4>2. m.work.acc = w.acc + m.amount /\ m.work.imp = w.imp + m.impairment
          BY <2>2 DEF ExistingLaw
      <4> QED
          BY <2>2, <4>1, <4>2 DEF ExistingLaw
    <3> QED
        BY <2>2, <2>3, <3>1, <3>2 DEF Found, Given, Carried
  <2>8. ASSUME NEW k \in JobsDue(input), k.kind # "SNAPSHOT",
               k.kind # job.kind \/ k.id # job.id, NEW i \in AssetsOf(k, input)
        PROVE  Carried(carry', input, k.kind, i) = Carried(carry, input, k.kind, i)
    <3>1. k.kind = "EXISTING" => i = k.id /\ k.id # job.id
        BY <2>2, <2>8 DEF AssetsOf, Job
    <3>2. /\ carry'.work = [carry.work EXCEPT ![job.id] = m.work]
          /\ carry'.history = carry.history /\ carry'.net = carry.net
          /\ carry'.planned = carry.planned
        BY <1>2, <2>2, CarryMoves
    <3> QED
        BY <3>1, <3>2 DEF Carried
  <2>9. Hands(job, [i \in {job.id} |-> new])
    <3>1. job.kind = "EXISTING"
        BY <2>2 DEF Job
    <3> QED
        BY <2>4, <2>7, <2>8, <3>1 DEF Hands
  <2> QED
      BY <1>1, <2>6, <2>9 DEF job
<1>6. CASE WorkloadStep
  <2>1. PICK amount : PoolMoves(job, amount)
      BY <1>6, WorkloadStepIs
  <2> DEFINE New(i) == Line("FORECAST", "CURRENT", AssetById(input.cards, i),
                            job.period, PooledMonth(i, job.period))
             f == [i \in DOMAIN carry.net |-> New(i)]
  <2>2. /\ job = Job("WORKLOAD", None, job.period)
        /\ lines' = lines \cup {New(i) : i \in DOMAIN carry.net}
        /\ \A i \in DOMAIN carry.net :
              /\ AssetById(input.cards, i).id = i
              /\ MethodOf(AssetById(input.cards, i)) = "WORKLOAD"
        /\ amount = [i \in DOMAIN carry.net |-> PooledAmount(i, job.period)]
        /\ carry' = [carry EXCEPT !.net = [i \in DOMAIN carry.net |->
                                              carry.net[i] - amount[i]]]
      BY <2>1 DEF PoolMoves
  <2> HIDE DEF job
  <2>3. AssetsOf(job, input) = DOMAIN carry.net
      BY <1>2, <2>2 DEF AssetsOf, Job, CarryFits
  <2>4. ASSUME NEW i \in DOMAIN carry.net PROVE f[i].id = i /\ JobOf(f[i]) = job
    <3>1. /\ New(i).id = AssetById(input.cards, i).id /\ New(i).period = job.period
          /\ New(i).kind = "FORECAST" /\ New(i).source = "CURRENT"
          /\ New(i).method = MethodOf(AssetById(input.cards, i))
        BY LineIs
    <3>2. f[i] = New(i)
        OBVIOUS
    <3> HIDE DEF New, f
    <3> QED
        BY <2>2, <3>1, <3>2 DEF JobOf
  <2>5. lines' = lines \cup {f[i] : i \in DOMAIN carry.net}
    <3>1. \A i \in DOMAIN carry.net : f[i] = New(i)
        OBVIOUS
    <3> HIDE DEF f, New
    <3> QED
        BY <2>2, <3>1
  <2>6. Adds(job, f)
    <3> HIDE DEF f
    <3> QED
        BY <2>3, <2>4, <2>5 DEF Adds
  <2>7. ASSUME NEW i \in DOMAIN carry.net
        PROVE  /\ Found(f[i]) = Carried(carry, input, "WORKLOAD", i)
               /\ Given(f[i]) = Carried(carry', input, "WORKLOAD", i)
    <3>1. /\ New(i).kind = "FORECAST"
          /\ New(i).opening = PooledMonth(i, job.period).opening
          /\ New(i).closing = PooledMonth(i, job.period).closing
        BY LineIs
    <3>2. f[i] = New(i)
        OBVIOUS
    <3> HIDE DEF New, f
    <3>3. carry'.net = [j \in DOMAIN carry.net |-> carry.net[j] - amount[j]]
        BY <1>2, <2>2, CarryMoves
    <3> QED
        BY <2>2, <3>1, <3>2, <3>3 DEF Found, Given, Carried, PooledMonth
  <2>8. ASSUME NEW k \in JobsDue(input), k.kind # "SNAPSHOT",
               k.kind # job.kind \/ k.id # job.id, NEW i \in AssetsOf(k, input)
        PROVE  Carried(carry', input, k.kind, i) = Carried(carry, input, k.kind, i)
    <3>1. k.kind # "WORKLOAD"
      <4>1. k.kind = "WORKLOAD" => k.id = None
          BY JobOfKind DEF Job
      <4> QED
          BY <2>2, <2>8, <4>1 DEF Job
    <3>2. /\ carry'.history = carry.history /\ carry'.work = carry.work
          /\ carry'.planned = carry.planned
        BY <1>2, <2>2, CarryMoves
    <3> QED
        BY <3>1, <3>2 DEF Carried
  <2>9. Hands(job, f)
    <3>1. job.kind = "WORKLOAD"
        BY <2>2 DEF Job
    <3> HIDE DEF f
    <3> QED
        BY <2>3, <2>7, <2>8, <3>1 DEF Hands
  <2> QED
      BY <1>1, <2>6, <2>9 DEF job
<1>7. CASE PlannedStep
  <2>1. PICK a, m : PlannedMoves(job, a, m)
      BY <1>7, PlannedStepIs
  <2> DEFINE new == Line("FORECAST", "PLANNED", a, job.period, m)
  <2>2. /\ job = Job("PLANNED", job.id, job.period) /\ a.id = job.id
        /\ lines' = lines \cup {new}
        /\ a = AssetById(input.planned, job.id) /\ job.id \in DOMAIN carry.planned
        /\ carry.planned[job.id] \in Int /\ a.cost \in Int
        /\ PlannedLaw(a, PolicyFor(a), carry.planned[job.id], m)
        /\ carry' = [carry EXCEPT !.planned[job.id] = @ + m.amount]
      BY <2>1 DEF PlannedMoves, MonthOf, IsCard
  <2> HIDE DEF job
  <2>3. /\ new.id = a.id /\ new.period = job.period /\ new.kind = "FORECAST"
        /\ new.source = "PLANNED"
        /\ new.opening = m.opening /\ new.closing = m.closing
      BY LineIs
  <2> HIDE DEF new
  <2>4. AssetsOf(job, input) = {job.id}
      BY <2>2 DEF AssetsOf, Job
  <2>5. JobOf(new) = job
      BY <2>2, <2>3 DEF JobOf
  <2>6. Adds(job, [i \in {job.id} |-> new])
      BY <2>2, <2>3, <2>4, <2>5 DEF Adds
  <2> DEFINE v == carry.planned[job.id] + m.amount
  <2>7. carry' = [carry EXCEPT !.planned[job.id] = v]
      BY <2>2
  <2>8. /\ Found(new) = Carried(carry, input, "PLANNED", job.id)
        /\ Given(new) = Carried(carry', input, "PLANNED", job.id)
    <3>1. carry'.planned[job.id] = v
      <4> HIDE DEF v
      <4>1. carry'.planned = [carry.planned EXCEPT ![job.id] = v]
          BY <1>2, <2>7, CarryMoves
      <4>2. job.id \in DOMAIN carry.planned
          BY <2>2
      <4> QED
          BY <4>1, <4>2
    <3>2. m.opening = a.cost - carry.planned[job.id] /\ m.closing = a.cost - v
        BY <2>2 DEF PlannedLaw
    <3> HIDE DEF v
    <3> QED
        BY <2>2, <2>3, <3>1, <3>2 DEF Found, Given, Carried
  <2> HIDE DEF v
  <2>9. ASSUME NEW k \in JobsDue(input), k.kind # "SNAPSHOT",
               k.kind # job.kind \/ k.id # job.id, NEW i \in AssetsOf(k, input)
        PROVE  Carried(carry', input, k.kind, i) = Carried(carry, input, k.kind, i)
    <3>1. /\ k.kind = "PLANNED" => i = k.id /\ k.id # job.id
          /\ k.kind \in {"HISTORY", "EXISTING", "WORKLOAD", "PLANNED"}
        BY <2>2, <2>9, JobOfKind DEF AssetsOf, Job
    <3>2. /\ carry'.planned = [carry.planned EXCEPT ![job.id] = v]
          /\ carry'.history = carry.history /\ carry'.work = carry.work
          /\ carry'.net = carry.net
        BY <1>2, <2>7, CarryMoves
    <3> QED
        BY <3>1, <3>2 DEF Carried
  <2>10. Hands(job, [i \in {job.id} |-> new])
    <3>1. job.kind = "PLANNED"
        BY <2>2 DEF Job
    <3> QED
        BY <2>4, <2>8, <2>9, <3>1 DEF Hands
  <2> QED
      BY <1>1, <2>6, <2>10 DEF job
<1> QED
    BY <1>3, <1>4, <1>5, <1>6, <1>7 DEF JobStep

LEMMA SameAgenda ==
    ASSUME book' = book, NEW in, NEW job
    PROVE  AssetsOf(job, in)' = AssetsOf(job, in) /\ JobsDue(in)' = JobsDue(in)
<1>1. ASSUME NEW cards PROVE Pooled(cards)' = Pooled(cards)
  <2>1. Included(cards)' = Included(cards)
      BY DEF Included
  <2>2. ASSUME NEW a PROVE MethodOf(a)' = MethodOf(a)
      BY DEF MethodOf, PolicyFor
  <2> QED
      BY <2>1, <2>2 DEF Pooled
<1>2. AssetsOf(job, in)' = AssetsOf(job, in)
    BY <1>1 DEF AssetsOf
<1> QED
    BY <1>2, SameMeaning

LEMMA JobDoneOnce ==
    ASSUME ForecastInv, AgendaInv, JobStep
    PROVE  AgendaInv'
<1> DEFINE head == Head(todo)
           Assets == AssetsOf(head, input)
<1>1. /\ todo # <<>> /\ todo' = Tail(todo)
      /\ UNCHANGED <<book, request, phase, input>>
    BY StepAdds
<1>2. PICK f : /\ lines' = lines \cup {f[i] : i \in Assets}
               /\ \A i \in Assets : f[i].id = i /\ JobOf(f[i]) = head
    BY StepAdds DEF Adds
<1>3. /\ todo \in Seq(JobsDue(input)) /\ Ordered(todo) /\ phase # "ready"
    BY <1>1 DEF ForecastInv, Running
<1>4. /\ head \in JobsDue(input) /\ \E x \in DOMAIN todo : todo[x] = head
      /\ \A x \in DOMAIN todo :
            todo[x] = head \/ \E y \in DOMAIN todo' : todo'[y] = todo[x]
      /\ \A y \in DOMAIN todo' :
            /\ \E x \in DOMAIN todo : todo[x] = todo'[y]
            /\ todo'[y].kind = head.kind /\ todo'[y].id = head.id =>
                  Precedes(head, todo'[y])
  <2>1. 1 \in DOMAIN todo /\ todo[1] = head
      BY <1>1, <1>3
  <2> QED
      BY <1>1, <1>3, <2>1, AgendaMoves DEF Precedes
<1>5. JobsDue(input)' = JobsDue(input)
    BY <1>1, SameAgenda
<1>6. ASSUME NEW job PROVE AssetsOf(job, input)' = AssetsOf(job, input)
    BY <1>1, SameAgenda
<1>7. ASSUME NEW job \in JobsDue(input)
      PROVE  \/ \E x \in DOMAIN todo' : todo'[x] = job
             \/ \A i \in AssetsOf(job, input) :
                   \E l \in lines' : l.id = i /\ JobOf(l) = job
  <2> HIDE DEF head, Assets
  <2>1. CASE job = head
    <3>1. \A i \in Assets : f[i] \in lines'
        BY <1>2
    <3> QED
        BY <1>2, <2>1, <3>1 DEF Assets
  <2>2. CASE job # head
      BY <1>2, <1>3, <1>4, <2>2 DEF AgendaInv
  <2> QED
      BY <2>1, <2>2
<1> HIDE DEF head, Assets
<1>8. ASSUME NEW l \in lines'
      PROVE  /\ JobOf(l) \in JobsDue(input) /\ l.id \in AssetsOf(JobOf(l), input)
             /\ \A x \in DOMAIN todo' :
                   todo'[x].kind = JobOf(l).kind /\ todo'[x].id = JobOf(l).id =>
                       Precedes(JobOf(l), todo'[x])
  <2>1. CASE l \in lines
      BY <1>4, <2>1 DEF AgendaInv
  <2>2. CASE l \notin lines
    <3>1. PICK i \in Assets : l = f[i]
        BY <1>2, <2>2
    <3>2. JobOf(l) = head /\ l.id = i
        BY <1>2, <3>1
    <3> QED
        BY <1>4, <3>1, <3>2 DEF Assets
  <2> QED
      BY <2>1, <2>2
<1>9. ASSUME NEW l \in lines' PROVE l \in lines => JobOf(l) # head
  <2> SUFFICES ASSUME l \in lines, JobOf(l) = head PROVE FALSE
      OBVIOUS
  <2>1. PICK x \in DOMAIN todo : todo[x] = head
      BY <1>4
  <2>2. Precedes(head, head)
      BY <2>1 DEF AgendaInv
  <2>3. head.period \in Int
    <3>1. BookInv
        BY DEF ForecastInv
    <3> QED
        BY <1>4, <3>1, JobOfKind, MonthsInt, BookIs DEF Job
  <2> QED
      BY <2>2, <2>3 DEF Precedes
<1>10. ASSUME NEW l \in lines', NEW k \in lines', l.id = k.id, JobOf(l) = JobOf(k)
       PROVE  l = k
  <2>1. \A j \in lines' : j \notin lines => JobOf(j) = head /\ j = f[j.id]
      BY <1>2
  <2>2. CASE l \in lines /\ k \in lines
      BY <1>10, <2>2 DEF AgendaInv
  <2>3. CASE l \notin lines \/ k \notin lines
      BY <1>9, <1>10, <2>1, <2>3
  <2> QED
      BY <2>2, <2>3
<1> QED
    BY <1>1, <1>5, <1>6, <1>7, <1>8, <1>10 DEF AgendaInv

\* A forecast begins with all its jobs and no line.
LEMMA BeginIs ==
    ASSUME ForecastInv, ComputeBaseline \/ (Submit /\ Accepted(Applied(request)))
    PROVE  /\ book' = book /\ lines' = {} /\ phase' # "ready"
           /\ InputAfter(input', MaxAssumptions)
           /\ Begin(input')
           /\ Agenda(todo', JobsDue(input'))
<1>1. BookInv /\ book' = book /\ lines' = {} /\ phase' # "ready" /\ Begin(input')
    BY DEF ForecastInv, ComputeBaseline, Submit, Begin
<1>2. InputAfter(input', MaxAssumptions)
  <2>1. ForecastInv'
      BY BaselineKeeps, SubmitKeeps
  <2>2. InputAfter(input, MaxAssumptions)'
      BY <2>1 DEF ForecastInv
  <2> QED
      BY <1>1, <2>2 DEF InputAfter
<1>3. todo' = Jobs(input')
    BY <1>1 DEF Begin
<1> QED
    BY <1>1, <1>2, <1>3, JobsAre

LEMMA AgendaNext ==
    ASSUME ForecastInv, AgendaInv, Moves
    PROVE  AgendaInv'
<1>1. CASE ComputeBaseline \/ (Submit /\ Accepted(Applied(request)))
  <2>1. book' = book /\ lines' = {} /\ Agenda(todo', JobsDue(input'))
      BY <1>1, BeginIs
  <2>2. JobsDue(input)' = JobsDue(input')
      BY <2>1, SameAgenda
  <2> QED
      BY <2>1, <2>2 DEF AgendaInv, Agenda
<1>2. CASE JobStep
    BY <1>2, JobDoneOnce
<1>3. CASE /\ UNCHANGED <<book, input, todo, carry, lines>>
           /\ phase = "ready" => phase' = "ready"
  <2>1. JobsDue(input)' = JobsDue(input)
      BY <1>3, SameAgenda
  <2>2. \A job : AssetsOf(job, input)' = AssetsOf(job, input)
      BY <1>3, SameAgenda
  <2> QED
      BY <1>3, <2>1, <2>2 DEF AgendaInv
<1> QED
    BY <1>1, <1>2, <1>3 DEF Moves, Aside

LEMMA AgendaHolds == Spec => [](ForecastInv /\ AgendaInv)
<1>1. Init => AgendaInv
    BY DEF Init, AgendaInv
<1>2. ForecastInv /\ AgendaInv /\ [Next]_vars => AgendaInv'
    BY AgendaNext, StepsMove
<1> QED
    BY <1>1, <1>2, ForecastHolds, PTL DEF Spec

-----------------------------------------------------------------------------
(* One line a month *)

\* An asset of the company that owns the policies resolves to one: the
\* policies are those of the root of the categories.
LEMMA OwnersTakePart ==
    ASSUME CodesGiven, BookInv, NEW a, IsCard(a), a.inService # None,
           a.company = book.owner,
           NEW i \in DOMAIN book.workbook.rows,
           a.category = CardOf(book.workbook.rows[i]).category
    PROVE  Depreciable(book.model, a)
<1> DEFINE wb == book.workbook
           sm == book.model
           path == AncestorsIncludingSelf(sm, a.category)
           candidates == {k \in DOMAIN sm.policies :
                             /\ sm.policies[k].company = a.company
                             /\ IsCategoryOrDescendant(sm, a.category,
                                                       sm.policies[k].category)}
           policies == {sm.policies[k] : k \in DOMAIN sm.policies}
<1>1. /\ wb \in Workbooks /\ IsWorkbook(wb) /\ wb.codes # <<>>
      /\ book.owner \in Companies(wb)
      /\ sm = LoadSemanticModel(wb, book.owner) /\ IsModel(sm)
    BY WorkbooksAssumption, BookIs DEF BookInv, CodesGiven
<1>2. 1 \in DOMAIN wb.codes
    BY <1>1 DEF IsWorkbook, IsSequence
<1>3. /\ 1 \in DOMAIN sm.policies
      /\ sm.policies[1].company = a.company
      /\ sm.policies[1].category = "CUSTOMER_ASSET"
    BY <1>1, <1>2 DEF LoadSemanticModel, PolicyOf
<1>4. a.category \in DOMAIN sm.parents \/ a.category = "CUSTOMER_ASSET"
    BY <1>1 DEF LoadSemanticModel, CardOf, Blank
<1>5. None \notin policies
    BY <1>1, NoneAssumption
<1>6. None # "CUSTOMER_ASSET"
    BY NoneAssumption
<1>7. DOMAIN path \subseteq Nat
    BY <1>1, PathIsCounted
<1> HIDE DEF wb, sm, path
<1>8. 1 \in candidates
    BY <1>1, <1>3, <1>4, <1>6, RootIsAncestor
<1>9. \A k \in candidates : \E j \in DOMAIN path : path[j] = sm.policies[k].category
    BY DEF IsCategoryOrDescendant, path
<1>10. MatchPolicy(sm, a.company, a.category) = Nearest(sm, candidates, path)
    BY DEF MatchPolicy, path
<1>11. candidates \in SUBSET DOMAIN sm.policies /\ candidates # {}
    BY <1>8
<1> HIDE DEF candidates
<1>12. MatchPolicy(sm, a.company, a.category) \in policies
    BY <1>1, <1>7, <1>9, <1>10, <1>11, NearestIsPolicy
<1>13. MatchPolicy(sm, a.company, a.category) # None
    BY <1>5, <1>12
<1>14. ResolveForAsset(sm, a) # None
    BY <1>13 DEF ResolveForAsset
<1> QED
    BY <1>14 DEF Depreciable, sm

\* A set that has one element for each month has as many as there are months.
LEMMA OncePerMonth ==
    ASSUME NEW S, NEW T \in SUBSET Int, IsFiniteSet(T), Periods(S) = T,
           \A l, k \in S : l.period = k.period => l = k
    PROVE  Cardinality(S) = Cardinality(T)
<1> DEFINE f == [p \in T |-> CHOOSE l \in S : l.period = p]
<1>1. \A p \in T : f[p] \in S /\ f[p].period = p
    BY DEF Periods
<1>2. \A l \in S : l.period \in T /\ f[l.period] = l
    BY <1>1 DEF Periods
<1>3. f \in [T -> S]
    BY <1>1
<1> HIDE DEF f
<1>4. f \in Bijection(T, S)
  <2>1. f \in Surjection(T, S)
      BY <1>2, <1>3 DEF Surjection
  <2>2. f \in Injection(T, S)
      BY <1>1, <1>3 DEF Injection, IsInjective
  <2> QED
      BY <2>1, <2>2 DEF Bijection
<1>5. ExistsBijection(T, S)
    BY <1>4 DEF ExistsBijection
<1> QED
    BY <1>5, FS_Bijection

\* A card of the ledger has no number of a planned asset, and is a member of
\* a pool or not.
LEMMA NumbersApart ==
    ASSUME BookInv, NEW in, InputAfter(in, MaxAssumptions)
    PROVE  /\ IdsOf(in.cards, DOMAIN in.cards) = IdsOf(book.cards, DOMAIN book.cards)
           /\ \A i \in IdsOf(in.cards, DOMAIN in.cards) :
                 /\ i \notin IdsOf(in.planned, DOMAIN in.planned)
                 /\ i \in IdsOf(in.cards, Included(in.cards)) <=>
                       Depreciable(book.model, AssetById(in.cards, i))
           /\ IdsOf(in.cards, Included(in.cards)) =
                 IdsOf(in.cards, Single(in.cards)) \cup IdsOf(in.cards, Pooled(in.cards))
           /\ \A i \in IdsOf(in.cards, Single(in.cards)) :
                 i \notin IdsOf(in.cards, Pooled(in.cards))
<1>1. /\ AreCards(in.cards) /\ Distinct(in.cards)
      /\ DOMAIN in.cards = DOMAIN book.cards
      /\ \A k \in DOMAIN in.cards : in.cards[k].id = book.cards[k].id
    BY InputCards DEF InputAfter, SameAsset, CardFields
<1>2. \A k \in DOMAIN in.cards : AssetById(in.cards, in.cards[k].id) = in.cards[k]
    BY <1>1, FoundById
<1>3. IdsOf(in.cards, DOMAIN in.cards) = IdsOf(book.cards, DOMAIN book.cards)
    BY <1>1 DEF IdsOf
<1>4. ASSUME NEW k \in DOMAIN in.cards, NEW j \in DOMAIN in.planned
      PROVE  in.cards[k].id # in.planned[j].id
    BY <1>1, BookIs DEF InputAfter
<1>5. \A i \in IdsOf(in.cards, DOMAIN in.cards) :
          i \notin IdsOf(in.planned, DOMAIN in.planned)
    BY <1>4 DEF IdsOf
<1>6. \A i \in IdsOf(in.cards, DOMAIN in.cards) :
          i \in IdsOf(in.cards, Included(in.cards)) <=>
              Depreciable(book.model, AssetById(in.cards, i))
    BY <1>1, <1>2 DEF IdsOf, Included, Distinct
<1>7. Included(in.cards) = Single(in.cards) \cup Pooled(in.cards)
    BY DEF Single, Pooled
<1>8. IdsOf(in.cards, Included(in.cards)) =
          IdsOf(in.cards, Single(in.cards)) \cup IdsOf(in.cards, Pooled(in.cards))
    BY <1>7 DEF IdsOf
<1>9. ASSUME NEW k \in Single(in.cards), NEW j \in Pooled(in.cards)
      PROVE  in.cards[k].id # in.cards[j].id
    BY <1>1 DEF Single, Pooled, Included, Distinct
<1> QED
    BY <1>3, <1>5, <1>6, <1>8, <1>9 DEF IdsOf

\* The months of the horizon, around the ledger month.
LEMMA HorizonParts ==
    ASSUME BookInv, SpansSnapshot
    PROVE  /\ Start..End = HistoryMonths \cup ({Snapshot} \cup ForecastMonths)
           /\ \A p \in HistoryMonths : p \in Int /\ p < Snapshot
           /\ \A p \in ForecastMonths : p \in Int /\ p > Snapshot
           /\ Snapshot \in Int /\ IsFiniteSet(Start..End) /\ Start..End \subseteq Int
           /\ IsFiniteSet({Snapshot})
<1>1. Start \in Int /\ End \in Int /\ Snapshot \in Int
    BY BookIs
<1>2. Start < Snapshot /\ Snapshot <= End
    BY DEF SpansSnapshot
<1>3. HistoryMonths = Start..(Snapshot - 1) /\ ForecastMonths = (Snapshot + 1)..End
    BY DEF HistoryMonths, ForecastMonths, FutureStart
<1>4. IsFiniteSet(Start..End) /\ IsFiniteSet({Snapshot})
    BY <1>1, FS_Interval, FS_Singleton
<1> QED
    BY <1>1, <1>2, <1>3, <1>4

\* The calculated months are those of the jobs.
LEMMA MonthsCalculated ==
    ASSUME BookInv
    PROVE  /\ CalculatedMonths = ForecastMonths \cup HistoryMonths
           /\ PlannedMonths = ForecastMonths
<1>1. CASE SpansSnapshot
  <2>1. CalculatedMonths = (Start..End) \ {Snapshot}
      BY <1>1 DEF CalculatedMonths
  <2>2. CalculatedMonths = ForecastMonths \cup HistoryMonths
      BY <1>1, <2>1, HorizonParts
  <2>3. PlannedMonths = {p \in CalculatedMonths : p > Snapshot}
      BY <1>1 DEF PlannedMonths
  <2> QED
      BY <1>1, <2>2, <2>3, HorizonParts
<1>2. CASE ~SpansSnapshot
    BY <1>2 DEF CalculatedMonths, PlannedMonths, ForecastMonths, HistoryMonths,
                FutureStart
<1> QED
    BY <1>1, <1>2

\* Once the agenda is done, a card has a line in a month that is due to it.
LEMMA LinesWritten ==
    ASSUME ForecastInv, AgendaInv, Finished, NEW job \in JobsDue(input),
           NEW i \in AssetsOf(job, input)
    PROVE  \E l \in lines : l.id = i /\ JobOf(l) = job
<1>1. phase # "ready" /\ todo = <<>>
    BY DEF Finished, ForecastInv, Running
<1> QED
    BY <1>1 DEF AgendaInv

\* Where the lines of a card of the ledger come from.
LEMMA LinesOfCard ==
    ASSUME ForecastInv, NEW l \in lines,
           l.id \in IdsOf(input.cards, DOMAIN input.cards)
    PROVE  \/ /\ l.kind = "HISTORY" /\ l.period \in HistoryMonths
              /\ l.id \in IdsOf(input.cards, Included(input.cards))
              /\ JobOf(l) = Job("HISTORY", l.id, l.period)
           \/ /\ l.kind = "SNAPSHOT" /\ l.period = Snapshot
              /\ JobOf(l) = Job("SNAPSHOT", None, Snapshot)
           \/ /\ l.kind = "FORECAST" /\ l.period \in ForecastMonths
              /\ l.id \in IdsOf(input.cards, Single(input.cards))
              /\ JobOf(l) = Job("EXISTING", l.id, l.period)
           \/ /\ l.kind = "FORECAST" /\ l.period \in ForecastMonths
              /\ l.id \in IdsOf(input.cards, Pooled(input.cards))
              /\ JobOf(l) = Job("WORKLOAD", None, l.period)
<1>1. BookInv /\ InputAfter(input, MaxAssumptions) /\ LineFits(l, input)
    BY DEF ForecastInv
<1>2. /\ \A id \in IdsOf(input.cards, Single(input.cards)) :
            MethodOf(AssetById(input.cards, id)) # "WORKLOAD"
      /\ IdsOf(input.planned, Included(input.planned))
            \subseteq IdsOf(input.planned, DOMAIN input.planned)
    BY <1>1, CardOfJob
<1>3. l.id \notin IdsOf(input.planned, DOMAIN input.planned)
    BY <1>1, NumbersApart
<1>4. CASE /\ l.kind = "HISTORY"
           /\ Job("HISTORY", l.id, l.period) \in HistoryDue(input)
    BY <1>4, DueMeans DEF JobOf
<1>5. CASE l.kind = "SNAPSHOT" /\ l.period = Snapshot
    BY <1>5 DEF JobOf
<1>6. CASE /\ l.kind = "FORECAST" /\ l.source = "CURRENT"
           /\ Job("EXISTING", l.id, l.period) \in ExistingDue(input)
           /\ l.method = MethodOf(AssetById(input.cards, l.id))
    BY <1>2, <1>6, DueMeans DEF JobOf
<1>7. CASE /\ l.kind = "FORECAST" /\ l.source = "CURRENT"
           /\ l.id \in IdsOf(input.cards, Pooled(input.cards))
           /\ l.period \in ForecastMonths /\ l.method = "WORKLOAD"
    BY <1>7 DEF JobOf
<1>8. CASE /\ l.kind = "FORECAST" /\ l.source = "PLANNED"
           /\ Job("PLANNED", l.id, l.period) \in PlannedDue(input)
  <2>1. l.id \in IdsOf(input.planned, Included(input.planned))
      BY <1>8, DueMeans
  <2> QED
      BY <1>2, <1>3, <2>1
<1> QED
    BY <1>1, <1>4, <1>5, <1>6, <1>7, <1>8 DEF LineFits

\* Calculated lines lie in calculated months, two different ones of a card in
\* different months.
LEMMA CalculatedLines ==
    ASSUME ForecastInv, AgendaInv,
           NEW i \in CardIds, NEW l \in LinesOf(i), l.kind # "SNAPSHOT"
    PROVE  /\ l.period \in CalculatedMonths
           /\ i \in IdsOf(input.cards, Included(input.cards))
           /\ \A k \in LinesOf(i) : k.kind # "SNAPSHOT" /\ k.period = l.period => k = l
<1>1. /\ BookInv /\ InputAfter(input, MaxAssumptions)
      /\ IdsOf(input.cards, Included(input.cards)) =
            IdsOf(input.cards, Single(input.cards))
              \cup IdsOf(input.cards, Pooled(input.cards))
      /\ ~(i \in IdsOf(input.cards, Single(input.cards))
            /\ i \in IdsOf(input.cards, Pooled(input.cards)))
    BY NumbersApart DEF ForecastInv, CardIds
<1>2. CalculatedMonths = ForecastMonths \cup HistoryMonths
    BY <1>1, MonthsCalculated
<1>3. \A p : ~(p \in HistoryMonths /\ p \in ForecastMonths)
  <2>1. CASE SpansSnapshot
    <3>1. \A p \in HistoryMonths : p \in Int /\ p < Snapshot
        BY <1>1, <2>1, HorizonParts
    <3>2. \A p \in ForecastMonths : p \in Int /\ p > Snapshot /\ Snapshot \in Int
        BY <1>1, <2>1, HorizonParts
    <3> QED
        BY <3>1, <3>2
  <2> QED
      BY <2>1 DEF HistoryMonths
<1>4. l \in lines /\ l.id = i /\ i \in IdsOf(input.cards, DOMAIN input.cards)
    BY DEF LinesOf, CardIds
<1>5. ASSUME NEW k \in LinesOf(i), k.kind # "SNAPSHOT", k.period = l.period
      PROVE  k = l
  <2>1. k \in lines /\ k.id = i
      BY DEF LinesOf
  <2>2. JobOf(k) = JobOf(l)
      BY <1>1, <1>3, <1>4, <1>5, <2>1, LinesOfCard
  <2> QED
      BY <1>4, <2>1, <2>2 DEF AgendaInv
<1> QED
    BY <1>1, <1>2, <1>4, <1>5, LinesOfCard

\* A card that takes part has a calculated line in each calculated month.
LEMMA CalculatedOnce ==
    ASSUME ForecastInv, AgendaInv, Finished,
           NEW i \in CardIds, Depreciable(book.model, Card(i)),
           NEW p \in CalculatedMonths
    PROVE  \E l \in LinesOf(i) : l.kind # "SNAPSHOT" /\ l.period = p
<1>1. /\ BookInv /\ InputAfter(input, MaxAssumptions)
      /\ i \in IdsOf(input.cards, Included(input.cards))
      /\ i \in IdsOf(input.cards, Single(input.cards))
            \/ i \in IdsOf(input.cards, Pooled(input.cards))
    BY NumbersApart DEF ForecastInv, CardIds, Card
<1>2. CASE p \in HistoryMonths
  <2>1. Job("HISTORY", i, p) \in JobsDue(input)
      BY <1>1, <1>2, DueMeans DEF JobsDue
  <2>2. i \in AssetsOf(Job("HISTORY", i, p), input)
      BY DEF AssetsOf, Job
  <2>3. PICK l \in lines : l.id = i /\ JobOf(l) = Job("HISTORY", i, p)
      BY <2>1, <2>2, LinesWritten
  <2> QED
      BY <2>3 DEF LinesOf, JobOf, Job
<1>3. CASE p \in ForecastMonths /\ i \in IdsOf(input.cards, Single(input.cards))
  <2>1. Job("EXISTING", i, p) \in JobsDue(input)
      BY <1>3, DueMeans DEF JobsDue
  <2>2. i \in AssetsOf(Job("EXISTING", i, p), input)
      BY DEF AssetsOf, Job
  <2>3. PICK l \in lines : l.id = i /\ JobOf(l) = Job("EXISTING", i, p)
      BY <2>1, <2>2, LinesWritten
  <2> QED
      BY <2>3 DEF LinesOf, JobOf, Job
<1>4. CASE p \in ForecastMonths /\ i \in IdsOf(input.cards, Pooled(input.cards))
  <2>1. Pooled(input.cards) # {}
      BY <1>4 DEF IdsOf
  <2>2. Job("WORKLOAD", None, p) \in JobsDue(input)
      BY <1>4, <2>1 DEF JobsDue, PoolDue
  <2>3. i \in AssetsOf(Job("WORKLOAD", None, p), input)
      BY <1>4 DEF AssetsOf, Job
  <2>4. PICK l \in lines : l.id = i /\ JobOf(l) = Job("WORKLOAD", None, p)
      BY <2>2, <2>3, LinesWritten
  <2> QED
      BY <2>4 DEF LinesOf, JobOf, Job
<1> QED
    BY <1>1, <1>2, <1>3, <1>4, MonthsCalculated

\* Every card has its line of the ledger.
LEMMA LedgerLineOnce ==
    ASSUME ForecastInv, AgendaInv, Finished, NEW i \in CardIds
    PROVE  /\ \E l \in LinesOf(i) : l.kind = "SNAPSHOT"
           /\ \A l \in LinesOf(i) : l.kind = "SNAPSHOT" => l.period = Snapshot
           /\ \A l, k \in LinesOf(i) :
                 l.kind = "SNAPSHOT" /\ k.kind = "SNAPSHOT" => l = k
<1>1. /\ BookInv /\ InputAfter(input, MaxAssumptions)
      /\ i \in IdsOf(input.cards, DOMAIN input.cards)
      /\ i \in IdsOf(book.cards, DOMAIN book.cards)
    BY NumbersApart DEF ForecastInv, CardIds
<1>2. \E l \in LinesOf(i) : l.kind = "SNAPSHOT"
  <2>1. Job("SNAPSHOT", None, Snapshot) \in JobsDue(input)
      BY DEF JobsDue, SnapshotDue
  <2>2. i \in AssetsOf(Job("SNAPSHOT", None, Snapshot), input)
      BY <1>1 DEF AssetsOf, Job
  <2>3. PICK l \in lines : l.id = i /\ JobOf(l) = Job("SNAPSHOT", None, Snapshot)
      BY <2>1, <2>2, LinesWritten
  <2> QED
      BY <2>3 DEF LinesOf, JobOf, Job
<1>3. \A l \in LinesOf(i) : l.kind = "SNAPSHOT" =>
          l.period = Snapshot /\ JobOf(l) = Job("SNAPSHOT", None, Snapshot)
    BY <1>1, LinesOfCard DEF LinesOf
<1>4. \A l, k \in LinesOf(i) : l.kind = "SNAPSHOT" /\ k.kind = "SNAPSHOT" => l = k
    BY <1>3 DEF LinesOf, AgendaInv
<1> QED
    BY <1>2, <1>3, <1>4

\* The lines of a planned asset: one in each month of the forecast, or none.
LEMMA PlannedEveryMonth ==
    ASSUME ForecastInv, AgendaInv, Finished, NEW n \in DOMAIN input.planned
    PROVE  LET a == input.planned[n]
           IN  /\ Periods(LinesOf(a.id)) = IF Depreciable(book.model, a)
                                           THEN ForecastMonths ELSE {}
               /\ \A l, k \in LinesOf(a.id) : l.period = k.period => l = k
<1> DEFINE a == input.planned[n]
<1>1. /\ BookInv /\ InputAfter(input, MaxAssumptions)
      /\ AreCards(input.planned) /\ Distinct(input.planned)
      /\ \A k \in lines : LineFits(k, input)
    BY DEF ForecastInv, InputAfter
<1>2. a.id \in IdsOf(input.planned, DOMAIN input.planned)
    BY DEF IdsOf
<1>3. a.id \in IdsOf(input.planned, Included(input.planned)) <=> Depreciable(book.model, a)
    BY <1>1 DEF IdsOf, Included, Distinct
<1>4. /\ a.id \notin IdsOf(input.cards, DOMAIN input.cards)
      /\ a.id \notin IdsOf(book.cards, DOMAIN book.cards)
      /\ a.id \notin IdsOf(input.cards, Included(input.cards))
      /\ a.id \notin IdsOf(input.cards, Single(input.cards))
      /\ a.id \notin IdsOf(input.cards, Pooled(input.cards))
    BY <1>1, <1>2, NumbersApart, CardOfJob
<1> HIDE DEF a
<1>5. ASSUME NEW k \in LinesOf(a.id)
      PROVE  /\ k.period \in ForecastMonths /\ Depreciable(book.model, a)
             /\ JobOf(k) = Job("PLANNED", a.id, k.period) /\ k \in lines /\ k.id = a.id
    BY <1>1, <1>3, <1>4, DueMeans DEF LinesOf, LineFits, JobOf
<1>6. ASSUME Depreciable(book.model, a), NEW p \in ForecastMonths
      PROVE  \E k \in LinesOf(a.id) : k.period = p
  <2>1. Job("PLANNED", a.id, p) \in JobsDue(input)
      BY <1>3, <1>6, DueMeans DEF JobsDue
  <2>2. a.id \in AssetsOf(Job("PLANNED", a.id, p), input)
      BY DEF AssetsOf, Job
  <2>3. PICK k \in lines : k.id = a.id /\ JobOf(k) = Job("PLANNED", a.id, p)
      BY <2>1, <2>2, LinesWritten
  <2> QED
      BY <2>3 DEF LinesOf, JobOf, Job
<1>7. \A l, k \in LinesOf(a.id) : l.period = k.period => l = k
    BY <1>5 DEF AgendaInv
<1>8. Periods(LinesOf(a.id)) = IF Depreciable(book.model, a) THEN ForecastMonths ELSE {}
    BY <1>5, <1>6 DEF Periods
<1> QED
    BY <1>7, <1>8 DEF a

\* Every asset has exactly one line of the ledger; one that has a policy and
\* a date has one calculated line beside it in each month but the ledger
\* month, which is counted twice where the horizon begins with it; any other
\* has none.  A planned asset with a policy and a date has one line in each
\* month of the forecast.  An asset of the company that kept the policies
\* always has one (_run_forecast, ledger_snapshot_lines, _load_policies): for
\* every workbook that gives a code, wherever its horizon lies, however many
\* assumptions were applied.
THEOREM OneLineEachMonth ==
    ASSUME CodesGiven
    PROVE  Spec => []OneLineAMonth
<1>1. ASSUME ForecastInv, AgendaInv PROVE OneLineAMonth
  <2> SUFFICES ASSUME Finished PROVE OneLineAMonth
      BY DEF OneLineAMonth
  <2>0. BookInv /\ InputAfter(input, MaxAssumptions)
      BY <1>1 DEF ForecastInv
  <2>1. /\ IsFiniteSet(CalculatedMonths) /\ CalculatedMonths \in SUBSET Int
        /\ IsFiniteSet(ForecastMonths) /\ ForecastMonths \in SUBSET Int
        /\ IsFiniteSet({Snapshot}) /\ {Snapshot} \in SUBSET Int
        /\ IsFiniteSet({}) /\ {} \in SUBSET Int
    <3>1. Start \in Int /\ End \in Int /\ Snapshot \in Int /\ FutureStart \in Int
        BY <2>0, BookIs DEF FutureStart
    <3>2. IsFiniteSet(FutureStart..End) /\ IsFiniteSet(Start..(Snapshot - 1))
        BY <3>1, FS_Interval
    <3>3. IsFiniteSet(HistoryMonths)
        BY <3>2, FS_EmptySet DEF HistoryMonths
    <3>4. IsFiniteSet(CalculatedMonths)
        BY <2>0, <3>2, <3>3, MonthsCalculated, FS_Union DEF ForecastMonths
    <3>5. CalculatedMonths \in SUBSET Int
        BY <3>1 DEF CalculatedMonths
    <3>6. IsFiniteSet(ForecastMonths) /\ ForecastMonths \in SUBSET Int
        BY <3>1, <3>2 DEF ForecastMonths
    <3>7. IsFiniteSet({Snapshot}) /\ {Snapshot} \in SUBSET Int
        BY <3>1, FS_Singleton
    <3> QED
        BY <3>4, <3>5, <3>6, <3>7, FS_EmptySet
  <2>2. ASSUME NEW i \in CardIds
        PROVE  OnceIn({l \in LinesOf(i) : l.kind = "SNAPSHOT"}, {Snapshot})
    <3> DEFINE L == {l \in LinesOf(i) : l.kind = "SNAPSHOT"}
    <3>1. Periods(L) = {Snapshot} /\ \A l, k \in L : l.period = k.period => l = k
        BY <1>1, LedgerLineOnce DEF Periods
    <3> HIDE DEF L
    <3>2. Cardinality(L) = Cardinality({Snapshot})
        BY <2>1, <3>1, OncePerMonth
    <3> QED
        BY <3>1, <3>2 DEF OnceIn, L
  <2>3. ASSUME NEW i \in CardIds
        PROVE  OnceIn(LinesOf(i) \ {l \in LinesOf(i) : l.kind = "SNAPSHOT"},
                      IF Depreciable(book.model, Card(i)) THEN CalculatedMonths ELSE {})
    <3> DEFINE L == LinesOf(i) \ {l \in LinesOf(i) : l.kind = "SNAPSHOT"}
               T == IF Depreciable(book.model, Card(i)) THEN CalculatedMonths ELSE {}
    <3>1. \A l \in L : l \in LinesOf(i) /\ l.kind # "SNAPSHOT"
        OBVIOUS
    <3>2. i \in IdsOf(input.cards, Included(input.cards)) => Depreciable(book.model, Card(i))
        BY <2>0, NumbersApart DEF CardIds, Card
    <3>3. \A l \in L : l.period \in T /\ \A k \in L : l.period = k.period => l = k
        BY <1>1, <3>1, <3>2, CalculatedLines
    <3>4. \A p \in T : \E l \in L : l.period = p
        BY <1>1, CalculatedOnce
    <3>5. Periods(L) = T
        BY <3>3, <3>4 DEF Periods
    <3>6. IsFiniteSet(T) /\ T \in SUBSET Int
        BY <2>1
    <3> HIDE DEF L, T
    <3>7. Cardinality(L) = Cardinality(T)
        BY <3>3, <3>5, <3>6, OncePerMonth
    <3> QED
        BY <3>5, <3>7 DEF OnceIn, L, T
  <2>4. ASSUME NEW n \in DOMAIN input.planned
        PROVE  OnceIn(LinesOf(input.planned[n].id),
                      IF Depreciable(book.model, input.planned[n])
                      THEN PlannedMonths ELSE {})
    <3> DEFINE L == LinesOf(input.planned[n].id)
               T == IF Depreciable(book.model, input.planned[n]) THEN ForecastMonths ELSE {}
    <3>1. Periods(L) = T /\ \A l, k \in L : l.period = k.period => l = k
        BY <1>1, PlannedEveryMonth
    <3>2. IsFiniteSet(T) /\ T \in SUBSET Int
        BY <2>1
    <3> HIDE DEF L, T
    <3>3. Cardinality(L) = Cardinality(T)
        BY <3>1, <3>2, OncePerMonth
    <3> QED
        BY <2>0, <3>1, <3>3, MonthsCalculated DEF OnceIn, L, T
  <2>5. ASSUME NEW i \in CardIds, Card(i).company = book.owner,
               Card(i).inService # None
        PROVE  Depreciable(book.model, Card(i))
    <3>1. PICK k \in DOMAIN input.cards : i = input.cards[k].id
        BY DEF CardIds, IdsOf
    <3>2. Card(i) = input.cards[k] /\ IsCard(Card(i))
        BY <2>0, <3>1, InputCards, FoundById DEF Card, InputAfter, AreCards
    <3>3. Card(i).category = book.cards[k].category /\ k \in DOMAIN book.cards
        BY <2>0, <3>2 DEF InputAfter, SameAsset, CardFields
    <3>4. PICK r \in DOMAIN book.workbook.rows :
              book.cards[k] = CardOf(book.workbook.rows[r])
        BY <2>0, <3>3, BookIs
    <3> QED
        BY <2>0, <2>5, <3>2, <3>3, <3>4, OwnersTakePart
  <2> QED
      BY <2>2, <2>3, <2>4, <2>5 DEF OneLineAMonth
<1> QED
    BY <1>1, AgendaHolds, PTL

-----------------------------------------------------------------------------
(* The months join up *)

Follows(j, k) ==
    /\ j.kind = k.kind /\ j.id = k.id
    /\ k.period = IF j.kind = "HISTORY" THEN j.period - 1 ELSE j.period + 1

First(job) ==
    job.period = IF job.kind = "HISTORY" THEN Snapshot - 1 ELSE FutureStart

\* What the next job finds is what the line before it left, or the ledger's
\* value; so it is with the lines that are written; the ledger's own lines
\* are its cards'.
ChainInv ==
    /\ \A x \in DOMAIN todo : todo[x].kind # "SNAPSHOT" =>
          \A i \in AssetsOf(todo[x], input) :
              /\ First(todo[x]) => Carried(carry, input, todo[x].kind, i) =
                                       AtFirst(input, todo[x].kind, i)
              /\ \A l \in lines :
                    l.id = i /\ Live(l, input) /\ Follows(JobOf(l), todo[x]) =>
                        Given(l) = Carried(carry, input, todo[x].kind, i)
    /\ \A l \in lines : l.kind = "SNAPSHOT" =>
          l = SnapshotLine(book.workbook, AssetById(book.cards, l.id))
    /\ \A l \in lines :
          l.kind # "SNAPSHOT" /\ Live(l, input) /\ First(JobOf(l)) =>
              Found(l) = AtFirst(input, JobOf(l).kind, l.id)
    /\ \A l, m \in lines :
          /\ l.id = m.id /\ l.kind # "SNAPSHOT" /\ Live(l, input) /\ Live(m, input)
          /\ Follows(JobOf(l), JobOf(m))
          => Found(m) = Given(l)

\* What a job step does to the agenda, the lines and what is carried.
LEMMA JobStepIs ==
    ASSUME ForecastInv, AgendaInv, JobStep
    PROVE  LET head == Head(todo)
           IN  /\ UNCHANGED <<book, input>>
               /\ head \in JobsDue(input)
               /\ \E x \in DOMAIN todo : todo[x] = head
               /\ \A y \in DOMAIN todo' :
                     /\ \E x \in DOMAIN todo : todo[x] = todo'[y]
                     /\ todo'[y] \in JobsDue(input)
                     /\ todo'[y].kind = head.kind /\ todo'[y].id = head.id =>
                           Precedes(head, todo'[y])
               /\ \A l \in lines :
                     JobOf(l).kind = head.kind /\ JobOf(l).id = head.id =>
                         Precedes(JobOf(l), head)
               /\ \E f : Adds(head, f) /\ Hands(head, f)
<1> DEFINE head == Head(todo)
<1>1. /\ todo # <<>> /\ todo' = Tail(todo)
      /\ UNCHANGED <<book, request, phase, input>>
      /\ \E f : Adds(head, f) /\ Hands(head, f)
    BY StepAdds
<1>2. todo \in Seq(JobsDue(input)) /\ Ordered(todo)
    BY DEF ForecastInv
<1>3. 1 \in DOMAIN todo /\ todo[1] = head
    BY <1>1, <1>2
<1>4. /\ head \in JobsDue(input) /\ Tail(todo) \in Seq(JobsDue(input))
      /\ \A y \in DOMAIN Tail(todo) :
            /\ \E x \in DOMAIN todo : todo[x] = Tail(todo)[y]
            /\ Tail(todo)[y].kind = head.kind /\ Tail(todo)[y].id = head.id =>
                  Precedes(head, Tail(todo)[y])
    BY <1>1, <1>2, AgendaMoves DEF Precedes
<1>5. \A y \in DOMAIN Tail(todo) : Tail(todo)[y] \in JobsDue(input)
    BY <1>4
<1>6. \A l \in lines : JobOf(l).kind = head.kind /\ JobOf(l).id = head.id =>
                           Precedes(JobOf(l), head)
  <2> HIDE DEF head
  <2> QED
      BY <1>3 DEF AgendaInv
<1> HIDE DEF head
<1> QED
    BY <1>1, <1>3, <1>4, <1>5, <1>6 DEF head

LEMMA SameChain ==
    ASSUME book' = book, NEW in, NEW job, NEW kind, NEW i
    PROVE  /\ AtFirst(in, kind, i)' = AtFirst(in, kind, i)
           /\ First(job)' = First(job)
BY DEF AtFirst, First, PolicyFor, FutureStart, SpansSnapshot, Start, End, Snapshot

LEMMA ChainStep ==
    ASSUME ForecastInv, AgendaInv, ChainInv, JobStep
    PROVE  ChainInv'
<1> DEFINE head == Head(todo)
           Assets == AssetsOf(head, input)
<1>1. /\ UNCHANGED <<book, input>>
      /\ head \in JobsDue(input)
      /\ \E x \in DOMAIN todo : todo[x] = head
      /\ \A y \in DOMAIN todo' :
            /\ \E x \in DOMAIN todo : todo[x] = todo'[y]
            /\ todo'[y] \in JobsDue(input)
            /\ todo'[y].kind = head.kind /\ todo'[y].id = head.id =>
                  Precedes(head, todo'[y])
      /\ \A l \in lines : JobOf(l).kind = head.kind /\ JobOf(l).id = head.id =>
                              Precedes(JobOf(l), head)
    BY JobStepIs
<1>2. PICK f : Adds(head, f) /\ Hands(head, f)
    BY JobStepIs
<1> HIDE DEF head
<1>3. /\ lines' = lines \cup {f[i] : i \in Assets}
      /\ \A i \in Assets : f[i].id = i /\ JobOf(f[i]) = head
    BY <1>2 DEF Adds
<1>4. \A l \in lines' : l \in lines \/ (l = f[l.id] /\ l.id \in Assets /\ JobOf(l) = head)
    BY <1>3
<1>5. \A l \in lines : JobOf(l) \in JobsDue(input) /\ l.id \in AssetsOf(JobOf(l), input)
    BY DEF AgendaInv
<1>6. \A job \in JobsDue(input) : job.period \in Int
  <2>1. BookInv
      BY DEF ForecastInv
  <2> QED
      BY <2>1, JobOfKind, MonthsInt, BookIs DEF Job
<1> HIDE DEF Assets
<1>7. \A l : l.kind = "SNAPSHOT" <=> JobOf(l).kind = "SNAPSHOT"
    BY DEF JobOf, Job
<1>8. \A j, k : First(j)' = First(j)
                /\ AssetsOf(j, input)' = AssetsOf(j, input)
                /\ AtFirst(input, j, k)' = AtFirst(input, j, k)
    BY <1>1, SameChain, SameAgenda
<1>9. ASSUME NEW y \in DOMAIN todo', todo'[y].kind # "SNAPSHOT",
             NEW i \in AssetsOf(todo'[y], input)
      PROVE  /\ First(todo'[y]) => Carried(carry', input, todo'[y].kind, i) =
                                       AtFirst(input, todo'[y].kind, i)
             /\ \A l \in lines' :
                   l.id = i /\ Live(l, input) /\ Follows(JobOf(l), todo'[y]) =>
                       Given(l) = Carried(carry', input, todo'[y].kind, i)
  <2> DEFINE job == todo'[y]
  <2>1. PICK x \in DOMAIN todo : todo[x] = job
      BY <1>1
  <2>2. job \in JobsDue(input) /\ job.period \in Int /\ head.period \in Int
      BY <1>1, <1>6
  <2>3. CASE job.kind = head.kind /\ job.id = head.id
    <3>1. Precedes(head, job)
        BY <1>1, <2>3
    <3>2. ~First(job)
      <4>1. head.period \in HistoryMonths \cup ForecastMonths
          BY <1>1, <1>9, <2>3, JobOfKind
      <4>2. /\ head.kind = "HISTORY" => head.period <= Snapshot - 1
            /\ head.kind # "HISTORY" => head.period >= FutureStart
            /\ Snapshot \in Int /\ FutureStart \in Int
        <5>1. BookInv
            BY DEF ForecastInv
        <5>2. Start \in Int /\ End \in Int /\ Snapshot \in Int /\ FutureStart \in Int
            BY <5>1, BookIs
        <5>3. head.kind = "HISTORY" => head.period \in HistoryMonths
            BY <1>1, JobOfKind
        <5>4. head.kind # "HISTORY" => head.period \in ForecastMonths
            BY <1>1, <1>9, <2>3, JobOfKind
        <5> QED
            BY <5>1, <5>2, <5>3, <5>4, <2>2, MonthsInt
      <4> QED
          BY <2>2, <2>3, <3>1, <4>2 DEF First, Precedes
    <3>3. ASSUME NEW l \in lines', l.id = i, Live(l, input), Follows(JobOf(l), job)
          PROVE  Given(l) = Carried(carry', input, job.kind, i)
      <4>1. l \notin lines
        <5> SUFFICES ASSUME l \in lines PROVE FALSE
            OBVIOUS
        <5>1. Precedes(JobOf(l), head) /\ JobOf(l).period \in Int
            BY <1>1, <1>5, <1>6, <2>3, <3>3 DEF Follows
        <5> QED
            BY <2>2, <2>3, <3>1, <3>3, <5>1 DEF Follows, Precedes
      <4>2. l = f[i] /\ i \in Assets
          BY <1>4, <3>3, <4>1
      <4>3. head.kind # "SNAPSHOT"
          BY <1>9, <2>3
      <4> QED
          BY <1>2, <2>3, <3>3, <4>2, <4>3 DEF Hands, Assets
    <3> QED
        BY <3>2, <3>3
  <2>4. CASE job.kind # head.kind \/ job.id # head.id
    <3>1. Carried(carry', input, job.kind, i) = Carried(carry, input, job.kind, i)
        BY <1>2, <1>9, <2>2, <2>4 DEF Hands
    <3>2. \A l \in lines' : Follows(JobOf(l), job) => l \in lines
        BY <1>4, <2>4 DEF Follows
    <3> QED
        BY <1>9, <2>1, <3>1, <3>2 DEF ChainInv
  <2> QED
      BY <2>3, <2>4
<1>10. ASSUME NEW l \in lines', l.kind = "SNAPSHOT"
       PROVE  l = SnapshotLine(book.workbook, AssetById(book.cards, l.id))
  <2>1. CASE l \in lines
      BY <1>10, <2>1 DEF ChainInv
  <2>2. CASE l \notin lines
    <3>1. head.kind = "SNAPSHOT"
        BY <1>4, <1>7, <1>10, <2>2
    <3> QED
        BY <1>2, <1>4, <2>2, <3>1 DEF Hands, Assets
  <2> QED
      BY <2>1, <2>2
<1>11. ASSUME NEW l \in lines', l.kind # "SNAPSHOT", Live(l, input), First(JobOf(l))
       PROVE  Found(l) = AtFirst(input, JobOf(l).kind, l.id)
  <2>1. CASE l \in lines
      BY <1>11, <2>1 DEF ChainInv
  <2>2. CASE l \notin lines
    <3>1. l = f[l.id] /\ l.id \in Assets /\ JobOf(l) = head /\ head.kind # "SNAPSHOT"
        BY <1>4, <1>7, <1>11, <2>2
    <3>2. Found(l) = Carried(carry, input, head.kind, l.id)
        BY <1>2, <1>11, <3>1 DEF Hands, Assets
    <3>3. Carried(carry, input, head.kind, l.id) = AtFirst(input, head.kind, l.id)
        BY <1>1, <1>11, <3>1 DEF ChainInv, Assets
    <3> QED
        BY <3>1, <3>2, <3>3
  <2> QED
      BY <2>1, <2>2
<1>12. ASSUME NEW l \in lines', NEW m \in lines', l.id = m.id, l.kind # "SNAPSHOT",
              Live(l, input), Live(m, input), Follows(JobOf(l), JobOf(m))
       PROVE  Found(m) = Given(l)
  <2>1. CASE m \in lines /\ l \in lines
      BY <1>12, <2>1 DEF ChainInv
  <2>2. CASE m \notin lines
    <3>1. m = f[m.id] /\ m.id \in Assets /\ JobOf(m) = head
        BY <1>4, <2>2
    <3>2. JobOf(l).kind = head.kind /\ head.kind # "SNAPSHOT"
        BY <1>7, <1>12, <3>1 DEF Follows
    <3>3. l \in lines
      <4> SUFFICES ASSUME l \notin lines PROVE FALSE
          OBVIOUS
      <4>1. JobOf(l) = head /\ head.period \in Int
          BY <1>1, <1>4, <1>6
      <4> QED
          BY <1>12, <3>1, <4>1 DEF Follows
    <3>4. Found(m) = Carried(carry, input, head.kind, m.id)
        BY <1>2, <1>12, <3>1, <3>2 DEF Hands, Assets
    <3>5. Given(l) = Carried(carry, input, head.kind, m.id)
        BY <1>1, <1>12, <3>1, <3>2, <3>3 DEF ChainInv, Assets
    <3> QED
        BY <3>4, <3>5
  <2>3. CASE m \in lines /\ l \notin lines
    <3>1. JobOf(l) = head
        BY <1>4, <2>3
    <3>2. Precedes(JobOf(m), head) /\ JobOf(m).period \in Int /\ head.period \in Int
        BY <1>1, <1>5, <1>6, <1>12, <2>3, <3>1 DEF Follows
    <3> QED
        BY <1>12, <3>1, <3>2 DEF Follows, Precedes
  <2> QED
      BY <2>1, <2>2, <2>3
<1> QED
    BY <1>1, <1>8, <1>9, <1>10, <1>11, <1>12 DEF ChainInv

\* A forecast begins with what the ledger says.
LEMMA ChainBegins ==
    ASSUME ForecastInv, ComputeBaseline \/ (Submit /\ Accepted(Applied(request)))
    PROVE  ChainInv'
<1>1. /\ book' = book /\ lines' = {}
      /\ InputAfter(input', MaxAssumptions)
      /\ Begin(input')
      /\ todo' \in Seq(JobsDue(input'))
    BY BeginIs DEF Agenda
<1>2. BookInv
    BY DEF ForecastInv
<1>3. /\ carry'.history = [i \in IdsOf(input'.cards, DOMAIN input'.cards) |->
                              HistoryStart(AssetById(input'.cards, i))]
      /\ carry'.work = [i \in IdsOf(input'.cards, Single(input'.cards)) |->
                           LET a == AssetById(input'.cards, i)
                           IN  OpeningWork(a, PolicyFor(a), FutureStart)]
      /\ carry'.net = [i \in IdsOf(input'.cards, Pooled(input'.cards)) |->
                          CardNet(AssetById(input'.cards, i))]
      /\ carry'.planned = [i \in IdsOf(input'.planned, DOMAIN input'.planned) |-> 0]
    BY <1>1 DEF Begin
<1>4. ASSUME NEW y \in DOMAIN todo', todo'[y].kind # "SNAPSHOT",
             NEW i \in AssetsOf(todo'[y], input')
      PROVE  Carried(carry', input', todo'[y].kind, i) =
                 AtFirst(input', todo'[y].kind, i)
  <2> DEFINE job == todo'[y]
  <2>1. job \in JobsDue(input')
      BY <1>1
  <2>2. CASE job.kind = "HISTORY"
    <3>1. i \in IdsOf(input'.cards, DOMAIN input'.cards)
        BY <1>1, <1>2, <2>1, <2>2, JobOfKind, CardOfJob DEF AssetsOf
    <3> QED
        BY <1>3, <2>2, <3>1 DEF Carried, AtFirst
  <2>3. CASE job.kind = "EXISTING"
    <3>1. i \in IdsOf(input'.cards, Single(input'.cards))
        BY <2>1, <2>3, JobOfKind DEF AssetsOf
    <3> QED
        BY <1>3, <2>3, <3>1 DEF Carried, AtFirst
  <2>4. CASE job.kind = "WORKLOAD"
    <3>1. i \in IdsOf(input'.cards, Pooled(input'.cards))
        BY <2>4 DEF AssetsOf
    <3> QED
        BY <1>3, <2>4, <3>1 DEF Carried, AtFirst
  <2>5. CASE job.kind = "PLANNED"
    <3>1. /\ i \in IdsOf(input'.planned, Included(input'.planned))
          /\ i \in IdsOf(input'.planned, DOMAIN input'.planned)
          /\ AssetById(input'.planned, i).cost \in Int
      <4>1. i \in IdsOf(input'.planned, Included(input'.planned))
          BY <2>1, <2>5, JobOfKind DEF AssetsOf
      <4>2. IsCard(AssetById(input'.planned, i))
            /\ i \in IdsOf(input'.planned, DOMAIN input'.planned)
          BY <1>1, <1>2, <4>1, CardOfJob
      <4> QED
          BY <4>1, <4>2 DEF IsCard
    <3>2. carry'.planned[i] = 0
        BY <1>3, <3>1
    <3> QED
        BY <2>5, <3>1, <3>2 DEF Carried, AtFirst
  <2> QED
      BY <1>4, <2>1, <2>2, <2>3, <2>4, <2>5, JobOfKind
<1>5. \A job, kind, i :
          /\ AssetsOf(job, input)' = AssetsOf(job, input')
          /\ AtFirst(input, kind, i)' = AtFirst(input', kind, i)
          /\ Carried(carry, input, kind, i)' = Carried(carry', input', kind, i)
    BY <1>1, SameAgenda, SameChain
<1> QED
    BY <1>1, <1>4, <1>5 DEF ChainInv

LEMMA ChainNext ==
    ASSUME ForecastInv, AgendaInv, ChainInv, [Next]_vars
    PROVE  ChainInv'
<1>1. CASE ComputeBaseline \/ (Submit /\ Accepted(Applied(request)))
    BY <1>1, ChainBegins
<1>2. CASE JobStep
    BY <1>2, ChainStep
<1>3. CASE UNCHANGED <<book, input, todo, carry, lines>>
  <2>1. \A job, kind, i :
            /\ AssetsOf(job, input)' = AssetsOf(job, input)
            /\ AtFirst(input, kind, i)' = AtFirst(input, kind, i)
            /\ First(job)' = First(job)
      BY <1>3, SameAgenda, SameChain
  <2> QED
      BY <1>3, <2>1 DEF ChainInv
<1> QED
    BY <1>1, <1>2, <1>3, StepsMove DEF Moves, Aside

LEMMA ChainHolds == Spec => [](ForecastInv /\ AgendaInv /\ ChainInv)
<1>1. Init => ChainInv
    BY DEF Init, ChainInv
<1>2. ForecastInv /\ AgendaInv /\ ChainInv /\ [Next]_vars => ChainInv'
    BY ChainNext
<1> QED
    BY <1>1, <1>2, AgendaHolds, PTL DEF Spec

\* A forecast begins with the ledger's net value or below it, below it only
\* for a straight-line asset (_forecast_existing_asset).
LEMMA OpensAtLedger ==
    ASSUME BalancedLedger, BookInv, NEW in, InputAfter(in, MaxAssumptions),
           NEW i \in IdsOf(in.cards, Included(in.cards)),
           NEW kind \in {"EXISTING", "WORKLOAD"}
    PROVE  LET a == AssetById(in.cards, i)
           IN  /\ AtFirst(in, kind, i) <= a.snapNet
               /\ kind = "WORKLOAD" \/ MethodOf(a) = "PRODUCTION" =>
                     AtFirst(in, kind, i) = a.snapNet
<1> DEFINE a == AssetById(in.cards, i)
           p == PolicyFor(a)
           w == OpeningWork(a, p, FutureStart)
<1>1. /\ IsCard(a) /\ Depreciable(book.model, a)
      /\ i \in IdsOf(in.cards, DOMAIN in.cards)
    BY CardOfJob
<1>2. a.snapNet = a.cost - a.acc - a.imp
  <2>1. PICK k \in DOMAIN in.cards : i = in.cards[k].id
      BY <1>1 DEF IdsOf
  <2>2. a = in.cards[k] /\ k \in DOMAIN book.cards
      BY <2>1, InputCards, FoundById DEF InputAfter
  <2>3. PICK r \in DOMAIN book.workbook.rows :
            book.cards[k] = CardOf(book.workbook.rows[r])
      BY <2>2, BookIs
  <2>4. LET row == book.workbook.rows[r] IN row.net = row.cost - row.acc - row.imp
      BY DEF BookInv, BalancedLedger
  <2>5. SameAsset(a, book.cards[k])
      BY <2>2 DEF InputAfter
  <2> HIDE DEF a
  <2> QED
      BY <2>3, <2>4, <2>5 DEF SameAsset, CardFields, CardOf
<1>3. {a.cost, a.acc, a.imp} \subseteq Int
    BY <1>1 DEF IsCard
<1>4. IsPolicy(p) /\ a.inService \in Int
    BY <1>1, PolicyOfDepreciable
<1>5. w.imp = a.imp /\ w.acc \in Int /\ w.acc >= a.acc
      /\ (p.method = "PRODUCTION" => w.acc = a.acc)
  <2>1. FutureStart \in Int
      BY BookIs
  <2>2. /\ IsWork(w) /\ w.imp = a.imp /\ w.acc >= a.acc
        /\ p.method = "PRODUCTION" => w.acc = a.acc
      BY <1>1, <1>4, <2>1, OpeningWorkIs
  <2> QED
      BY <2>2 DEF IsWork
<1>6. AtFirst(in, "EXISTING", i) = a.cost - w.acc - w.imp
      /\ AtFirst(in, "WORKLOAD", i) = a.cost - a.acc - a.imp
    BY DEF AtFirst, CardNet
<1>7. MethodOf(a) = p.method
    BY DEF MethodOf
<1> HIDE DEF a, p, w
<1> QED
    BY <1>2, <1>3, <1>5, <1>6, <1>7 DEF a

\* A card and what the assumptions made of it.
LEMMA SameCard ==
    ASSUME BookInv, NEW in, InputAfter(in, MaxAssumptions),
           NEW i \in IdsOf(in.cards, DOMAIN in.cards)
    PROVE  SameAsset(AssetById(in.cards, i), AssetById(book.cards, i))
<1>1. PICK k \in DOMAIN in.cards : i = in.cards[k].id
    BY DEF IdsOf
<1>2. AssetById(in.cards, i) = in.cards[k] /\ k \in DOMAIN book.cards
  <2>1. AreCards(in.cards) /\ Distinct(in.cards) /\ DOMAIN in.cards = DOMAIN book.cards
      BY InputCards DEF InputAfter
  <2> QED
      BY <1>1, <2>1, FoundById
<1>3. in.cards[k].id = book.cards[k].id
    BY DEF InputAfter, SameAsset, CardFields
<1>4. AssetById(book.cards, i) = book.cards[k]
    BY <1>1, <1>2, <1>3, BookIs, FoundById
<1> QED
    BY <1>2, <1>4 DEF InputAfter

LEMMA LinesOfPlanned ==
    ASSUME ForecastInv, NEW l \in lines,
           l.id \notin IdsOf(input.cards, DOMAIN input.cards)
    PROVE  /\ l.kind = "FORECAST" /\ l.source = "PLANNED"
           /\ l.id \in IdsOf(input.planned, Included(input.planned))
           /\ l.period \in ForecastMonths
           /\ JobOf(l) = Job("PLANNED", l.id, l.period)
<1>1. BookInv /\ InputAfter(input, MaxAssumptions) /\ LineFits(l, input)
    BY DEF ForecastInv
<1>2. /\ l.id \notin IdsOf(book.cards, DOMAIN book.cards)
      /\ l.id \notin IdsOf(input.cards, Included(input.cards))
      /\ l.id \notin IdsOf(input.cards, Single(input.cards))
      /\ l.id \notin IdsOf(input.cards, Pooled(input.cards))
    BY <1>1, NumbersApart, CardOfJob
<1> QED
    BY <1>1, <1>2, DueMeans DEF LineFits, JobOf

\* The months of an asset join up: a reconstructed month ends where the next
\* one begins and the last of them at the opening of the ledger month, the
\* forecast begins at the ledger's net value (below it only for a
\* straight-line asset behind its schedule) and each of its months where the
\* one before ended (_reconstruct_historical_lines, _run_forecast), for every
\* ledger whose net values are what its costs leave, whatever the drivers and
\* the assumptions.
THEOREM MonthsJoinUp ==
    ASSUME BalancedLedger
    PROVE  Spec => []ChainUnbroken
<1>1. ASSUME ForecastInv, AgendaInv, ChainInv PROVE ChainUnbroken
  <2> SUFFICES ASSUME SpansSnapshot, NEW l \in lines, NEW m \in lines,
                      l.id = m.id, m.period = l.period + 1,
                      l.kind = "HISTORY" => l.period >= Card(l.id).inService
               PROVE  /\ l.kind # "SNAPSHOT" => m.opening = l.closing
                      /\ l.kind = "SNAPSHOT" => m.opening <= l.closing
                      /\ l.kind = "SNAPSHOT" /\ m.method # "STRAIGHT_LINE" =>
                            m.opening = l.closing
      BY DEF ChainUnbroken
  <2> DEFINE a == AssetById(input.cards, l.id)
  <2>1. BookInv /\ InputAfter(input, MaxAssumptions)
      BY <1>1 DEF ForecastInv
  <2>2. /\ \A p \in HistoryMonths : p \in Int /\ p < Snapshot
        /\ \A p \in ForecastMonths : p \in Int /\ p > Snapshot
        /\ Snapshot \in Int /\ FutureStart = Snapshot + 1
      BY <2>1, HorizonParts DEF FutureStart
  <2>3. CASE l.id \notin IdsOf(input.cards, DOMAIN input.cards)
    <3>1. /\ l.kind = "FORECAST" /\ l.period \in ForecastMonths
          /\ m.kind = "FORECAST" /\ m.period \in ForecastMonths
          /\ JobOf(l) = Job("PLANNED", l.id, l.period)
          /\ JobOf(m) = Job("PLANNED", l.id, m.period)
        BY <1>1, <2>3, LinesOfPlanned
    <3>2. Follows(JobOf(l), JobOf(m))
        BY <3>1 DEF Follows, Job
    <3> QED
        BY <1>1, <3>1, <3>2 DEF ChainInv, Live, Found, Given
  <2>4. CASE /\ l.id \in IdsOf(input.cards, DOMAIN input.cards)
             /\ l.kind = "HISTORY"
    <3>1. /\ l.period \in HistoryMonths
          /\ JobOf(l) = Job("HISTORY", l.id, l.period)
          /\ l.id \in IdsOf(input.cards, Included(input.cards))
        BY <1>1, <2>4, LinesOfCard
    <3>2. CASE m.kind = "HISTORY"
      <4>1. JobOf(m) = Job("HISTORY", l.id, m.period)
          BY <1>1, <2>4, <3>2, LinesOfCard
      <4>2. Follows(JobOf(m), JobOf(l))
          BY <2>2, <3>1, <4>1 DEF Follows, Job
      <4>3. Live(l, input) /\ Live(m, input)
        <5>1. a.inService \in Int
            BY <2>1, <3>1, CardOfJob, PolicyOfDepreciable
        <5>2. l.period >= a.inService /\ l.period \in Int
            BY <2>2, <2>4, <3>1 DEF Card
        <5>3. AssetById(input.cards, m.id) = a
            OBVIOUS
        <5> HIDE DEF a
        <5>4. m.period >= a.inService
            BY <5>1, <5>2
        <5> QED
            BY <5>2, <5>3, <5>4 DEF Live, a
      <4> QED
          BY <1>1, <2>4, <3>2, <4>2, <4>3 DEF ChainInv, Found, Given
    <3>3. CASE m.kind # "HISTORY"
      <4>1. m.kind = "SNAPSHOT" /\ m.period = Snapshot
          BY <1>1, <2>2, <2>4, <3>1, <3>3, LinesOfCard
      <4>2. Live(l, input) /\ First(JobOf(l)) /\ JobOf(l).kind = "HISTORY"
          BY <2>2, <3>1, <4>1 DEF Live, Card, First, Job
      <4>3. Found(l) = AtFirst(input, "HISTORY", l.id)
          BY <1>1, <2>4, <4>2 DEF ChainInv
      <4>4. l.closing = a.snapNet + a.snapDep
          BY <2>4, <4>3 DEF Found, AtFirst, HistoryStart
      <4>5. m = SnapshotLine(book.workbook, AssetById(book.cards, l.id))
          BY <1>1, <4>1 DEF ChainInv
      <4>6. SameAsset(a, AssetById(book.cards, l.id))
          BY <2>1, <2>4, SameCard
      <4> QED
          BY <2>4, <4>4, <4>5, <4>6 DEF SnapshotLine, SameAsset, CardFields
    <3> QED
        BY <3>2, <3>3
  <2>5. CASE /\ l.id \in IdsOf(input.cards, DOMAIN input.cards)
             /\ l.kind = "SNAPSHOT"
    <3>1. l.period = Snapshot /\ m.period = FutureStart
        BY <1>1, <2>2, <2>5, LinesOfCard
    <3>2. PICK kind \in {"EXISTING", "WORKLOAD"} :
              /\ m.kind = "FORECAST" /\ JobOf(m).kind = kind
              /\ JobOf(m).period = m.period
              /\ l.id \in IdsOf(input.cards, Included(input.cards))
              /\ kind = "EXISTING" => m.method = MethodOf(a)
      <4>1. /\ m.kind = "FORECAST"
            /\ \/ JobOf(m) = Job("EXISTING", l.id, m.period)
               \/ JobOf(m) = Job("WORKLOAD", None, m.period)
            /\ l.id \in IdsOf(input.cards, Included(input.cards))
          BY <1>1, <2>1, <2>2, <2>5, <3>1, LinesOfCard, CardOfJob
      <4>2. JobOf(m).kind = "EXISTING" => m.method = MethodOf(a)
        <5>1. LineFits(m, input)
            BY <1>1 DEF ForecastInv
        <5> QED
            BY <4>1, <5>1 DEF LineFits, JobOf, Job
      <4> QED
          BY <4>1, <4>2 DEF Job
    <3>3. m.opening = AtFirst(input, kind, l.id)
      <4>1. First(JobOf(m)) /\ Live(m, input) /\ Found(m) = m.opening
          BY <3>1, <3>2 DEF First, Live, Found
      <4> QED
          BY <1>1, <3>2, <4>1 DEF ChainInv
    <3>4. l = SnapshotLine(book.workbook, AssetById(book.cards, l.id))
        BY <1>1, <2>5 DEF ChainInv
    <3>5. l.closing = a.snapNet
      <4>1. SameAsset(a, AssetById(book.cards, l.id))
          BY <2>1, <2>5, SameCard
      <4> QED
          BY <3>4, <4>1 DEF SnapshotLine, SameAsset, CardFields
    <3>6. /\ AtFirst(input, kind, l.id) <= a.snapNet
          /\ kind = "WORKLOAD" \/ MethodOf(a) = "PRODUCTION" =>
                AtFirst(input, kind, l.id) = a.snapNet
        BY <2>1, <3>2, OpensAtLedger
    <3>7. m.method # "STRAIGHT_LINE" => kind = "WORKLOAD" \/ MethodOf(a) = "PRODUCTION"
      <4>1. MethodOf(a) \in Methods
          BY <2>1, <3>2, CardOfJob, PolicyOfDepreciable DEF MethodOf, IsPolicy
      <4>2. kind = "EXISTING" => m.method # "WORKLOAD"
          BY <3>2 DEF JobOf, Job
      <4> QED
          BY <3>2, <4>1, <4>2 DEF Methods
    <3> QED
        BY <2>5, <3>3, <3>5, <3>6, <3>7
  <2>6. CASE /\ l.id \in IdsOf(input.cards, DOMAIN input.cards)
             /\ l.kind = "FORECAST"
    <3>1. l.period \in ForecastMonths /\ m.kind = "FORECAST"
        BY <1>1, <2>2, <2>6, LinesOfCard
    <3>2. Follows(JobOf(l), JobOf(m))
      <4>1. \A i \in IdsOf(input.cards, Single(input.cards)) :
                i \notin IdsOf(input.cards, Pooled(input.cards))
          BY <2>1, NumbersApart
      <4>2. \/ /\ JobOf(l) = Job("EXISTING", l.id, l.period)
               /\ JobOf(m) = Job("EXISTING", l.id, m.period)
            \/ /\ JobOf(l) = Job("WORKLOAD", None, l.period)
               /\ JobOf(m) = Job("WORKLOAD", None, m.period)
          BY <1>1, <2>6, <3>1, <4>1, LinesOfCard
      <4> QED
          BY <4>2 DEF Follows, Job
    <3> QED
        BY <1>1, <2>6, <3>1, <3>2 DEF ChainInv, Live, Found, Given
  <2>7. l.kind \in {"HISTORY", "SNAPSHOT", "FORECAST"}
      BY <1>1 DEF ForecastInv, LineFits
  <2> QED
      BY <2>3, <2>4, <2>5, <2>6, <2>7
<1> QED
    BY <1>1, ChainHolds, PTL

-----------------------------------------------------------------------------
(* Every asset stays within its cost *)

\* The ledger as it should be: costs are not negative, residual rates are
\* percentages, net values are what the costs leave, and what was depreciated
\* in the ledger month is part of what was depreciated.
GoodLedger == SoundLedger /\ BalancedLedger /\ DepreciatedLedger

\* No impairment of an asset gives value back.
NoGain(in, i) == \A e \in in.events : e.target = i => e.amount >= 0

\* What an asset can be worth.
Worth(in, i) == LET a == AssetById(in.cards, i) IN 0..(a.cost - a.imp)

\* What is left of a card before its next month.
Left(c, in, i) == AssetById(in.cards, i).cost - c.work[i].acc - c.work[i].imp

\* How far below nothing the impairments up to a month can bring an asset.
Aimed(in, i, p) == {e \in in.events : e.target = i /\ e.period <= p}

Between(in, i, p, q) ==
    {e \in in.events : e.target = i /\ e.period \in (p + 1)..q}

Loss(E) == SumFunction([e \in E |-> Greater(0, e.amount)])

Behind(a, method) == IF method = "PRODUCTION" THEN 0 ELSE Greater(0, a.imp)

Below(in, i, p) ==
    LET a == AssetById(in.cards, i)
    IN  Loss(Aimed(in, i, p)) + Behind(a, MethodOf(a))

\* What the cards carry is what they can be worth; before each month that is
\* still to come, a card is no further below nothing than its impairments so
\* far, and a planned asset has taken its share of every month of its life.
CarryWithin(c, in) ==
    /\ \A i \in IdsOf(in.cards, Included(in.cards)) : c.history[i] \in Worth(in, i)
    /\ \A i \in IdsOf(in.cards, Single(in.cards)) :
          NoGain(in, i) => Left(c, in, i) <= AssetById(in.cards, i).cost
                                               - AssetById(in.cards, i).imp
    /\ \A i \in IdsOf(in.cards, Pooled(in.cards)) : c.net[i] \in Worth(in, i)

LeftAbove(c, s, in) ==
    \A x \in DOMAIN s : s[x].kind = "EXISTING" =>
        Left(c, in, s[x].id) >= -Below(in, s[x].id, s[x].period - 1)

TakenWithin(c, s, in) ==
    \A x \in DOMAIN s : s[x].kind = "PLANNED" =>
        LET a == AssetById(in.planned, s[x].id)
        IN  a.cost >= 0 =>
              c.planned[s[x].id] \in
                 0..(MonthlyShare(a, PolicyFor(a)) * MonthsCharged(a, s[x].period - 1))

\* What StaysWithinCost says of one line.
Stays(l) == IF l.source = "CURRENT" THEN WithinCost(l) ELSE WithinPrice(l)

StayInv ==
    phase # "ready" =>
        /\ CarryWithin(carry, input)
        /\ LeftAbove(carry, todo, input) /\ TakenWithin(carry, todo, input)
        /\ \A l \in lines : Stays(l)

\* Losses add up, and impairments are never more than what is lost.
LEMMA LossIs ==
    ASSUME NEW events, AreImpairments(events), NEW E \in SUBSET events
    PROVE  /\ Loss(E) \in Nat
           /\ SumAmounts(E, "IMPAIRMENT") \in Int
           /\ SumAmounts(E, "IMPAIRMENT") <= Loss(E)
           /\ (\A e \in E : e.amount >= 0) => SumAmounts(E, "IMPAIRMENT") >= 0
           /\ \A D \in SUBSET E : Loss(E) = Loss(D) + Loss(E \ D)
<1> DEFINE g == [e \in events |-> Greater(0, e.amount)]
           h == [e \in events |-> IF e.type = "IMPAIRMENT" THEN e.amount ELSE 0]
           F(D) == SumFunctionOnSet(g, D)
           H == SumFunctionOnSet(h, E)
<1>1. \A e \in events : g[e] \in Int /\ g[e] >= 0 /\ h[e] \in Int /\ h[e] = e.amount
                          /\ h[e] <= g[e]
    BY DEF AreImpairments, Greater
<1>2. IsFiniteSet(events) /\ \A D \in SUBSET events : IsFiniteSet(D)
    BY FS_Subset DEF AreImpairments
<1>3. ASSUME NEW D \in SUBSET events PROVE Loss(D) = F(D)
  <2> DEFINE gd == [e \in D |-> Greater(0, e.amount)]
  <2>1. Loss(D) = SumFunctionOnSet(gd, DOMAIN gd) /\ DOMAIN gd = D
      BY DEF Loss, SumFunction
  <2>2. \A e \in D : gd[e] \in Int /\ gd[e] = g[e]
      BY DEF AreImpairments, Greater
  <2> HIDE DEF gd, g
  <2> QED
      BY <1>2, <2>1, <2>2, SumOfSame
<1>4. SumAmounts(E, "IMPAIRMENT") = H
  <2> DEFINE he == [e \in E |-> IF e.type = "IMPAIRMENT" THEN e.amount ELSE 0]
  <2>1. SumAmounts(E, "IMPAIRMENT") = SumFunctionOnSet(he, DOMAIN he) /\ DOMAIN he = E
      BY DEF SumAmounts, SumFunction
  <2>2. \A e \in E : he[e] \in Int /\ he[e] = h[e]
      BY DEF AreImpairments
  <2> HIDE DEF he, h
  <2> QED
      BY <1>2, <2>1, <2>2, SumOfSame
<1> HIDE DEF g, h
<1>5. F(E) \in Int /\ H \in Int
    BY <1>1, <1>2, SumOfNumbers
<1>6. F(E) >= 0
  <2>1. \A x \in E : g[x] \in Int /\ g[x] \in Int
      BY <1>1
  <2>2. EachAtMost(0, g, 1, g, 0, E)
      BY <1>1 DEF EachAtMost
  <2>3. 0 * F(E) <= 1 * F(E) + 0 * Cardinality(E)
      BY <1>2, <2>1, <2>2, SumAtMost
  <2>4. Cardinality(E) \in Nat
      BY <1>2, FS_CardinalityType
  <2> QED
      BY <1>5, <2>3, <2>4
<1>7. H <= F(E)
  <2>1. \A x \in E : h[x] \in Int /\ g[x] \in Int
      BY <1>1
  <2>2. EachAtMost(1, h, 1, g, 0, E)
      BY <1>1 DEF EachAtMost
  <2>3. 1 * H <= 1 * F(E) + 0 * Cardinality(E)
      BY <1>2, <2>1, <2>2, SumAtMost
  <2>4. Cardinality(E) \in Nat
      BY <1>2, FS_CardinalityType
  <2> QED
      BY <1>5, <2>3, <2>4
<1>8. ASSUME \A e \in E : e.amount >= 0 PROVE H >= 0
  <2>1. \A x \in E : h[x] \in Int /\ h[x] \in Int
      BY <1>1
  <2>2. EachAtMost(0, h, 1, h, 0, E)
      BY <1>1, <1>8 DEF EachAtMost
  <2>3. 0 * H <= 1 * H + 0 * Cardinality(E)
      BY <1>2, <2>1, <2>2, SumAtMost
  <2>4. Cardinality(E) \in Nat
      BY <1>2, FS_CardinalityType
  <2> QED
      BY <1>5, <2>3, <2>4
<1>9. ASSUME NEW D \in SUBSET E PROVE Loss(E) = Loss(D) + Loss(E \ D)
  <2>1. Numbers(g, E)
      BY <1>1 DEF Numbers
  <2>2. F(E) = F(D) + F(E \ D)
      BY <1>2, <2>1, SumSplit
  <2>3. D \in SUBSET events /\ E \ D \in SUBSET events
      OBVIOUS
  <2> HIDE DEF F
  <2> QED
      BY <1>3, <2>2, <2>3
<1>10. Loss(E) = F(E)
    BY <1>3
<1> HIDE DEF F, H
<1> QED
    BY <1>4, <1>5, <1>6, <1>7, <1>8, <1>9, <1>10

\* A later month can only be further below, by what is lost in between.
LEMMA BelowGrows ==
    ASSUME BookInv, NEW in, InputAfter(in, MaxAssumptions),
           NEW i \in IdsOf(in.cards, DOMAIN in.cards), NEW p \in Int, NEW q \in Int,
           p <= q
    PROVE  /\ Below(in, i, p) \in Nat /\ Below(in, i, q) \in Nat
           /\ Below(in, i, q) = Below(in, i, p)
                + Loss(Between(in, i, p, q))
           /\ Below(in, i, p) <= Below(in, i, q)
<1> DEFINE a == AssetById(in.cards, i)
           D == Aimed(in, i, p)
           E == Aimed(in, i, q)
           between == Between(in, i, p, q)
<1>1. AreImpairments(in.events) /\ IsCard(a)
    BY CardOfJob DEF InputAfter
<1>2. Behind(a, MethodOf(a)) \in Nat
    BY <1>1 DEF Behind, Greater, IsCard
<1>3. D \in SUBSET E /\ D \in SUBSET in.events /\ E \in SUBSET in.events
      /\ E \ D = between
    BY <1>1 DEF Aimed, AreImpairments, Between
<1>4. between \in SUBSET in.events
    BY DEF Between
<1>5. /\ Below(in, i, p) = Loss(D) + Behind(a, MethodOf(a))
      /\ Below(in, i, q) = Loss(E) + Behind(a, MethodOf(a))
    BY DEF Below
<1> HIDE DEF D, E, a
<1>6. Loss(E) = Loss(D) + Loss(between)
  <2> HIDE DEF between
  <2> QED
      BY <1>1, <1>3, LossIs
<1>7. Loss(D) \in Nat /\ Loss(E) \in Nat /\ Loss(between) \in Nat
  <2> HIDE DEF between
  <2> QED
      BY <1>1, <1>3, <1>4, LossIs
<1> HIDE DEF between
<1> QED
    BY <1>2, <1>5, <1>6, <1>7 DEF between

\* What a line of the forecast's own card may be below.
LEMMA ImpairedIs ==
    ASSUME BookInv, InputAfter(input, MaxAssumptions),
           NEW i \in IdsOf(input.cards, DOMAIN input.cards), NEW p \in Int, NEW method
    PROVE  /\ Impaired(i, method, p) \in Nat
           /\ Impaired(i, method, p) = Loss(Aimed(input, i, p))
                                         + Behind(AssetById(input.cards, i), method)
<1> DEFINE a == AssetById(input.cards, i)
<1>1. AreImpairments(input.events) /\ IsCard(a)
    BY CardOfJob DEF InputAfter
<1>2. Impaired(i, method, p) = Loss(Aimed(input, i, p)) + Behind(a, method)
    BY DEF Impaired, Loss, Aimed, Behind, Card
<1>3. Behind(a, method) \in Nat
    BY <1>1 DEF Behind, Greater, IsCard
<1>4. Loss(Aimed(input, i, p)) \in Nat
    BY <1>1, LossIs DEF Aimed
<1> QED
    BY <1>2, <1>3, <1>4

\* What a good ledger says of a card.
LEMMA CardWorth ==
    ASSUME GoodLedger, BookInv, NEW in, InputAfter(in, MaxAssumptions),
           NEW i \in IdsOf(in.cards, DOMAIN in.cards)
    PROVE  LET a == AssetById(in.cards, i)
           IN  /\ IsCard(a) /\ a.cost \in Nat /\ a.acc \in Nat /\ a.imp \in Int
               /\ a.snapNet = a.cost - a.acc - a.imp /\ a.snapNet \in Nat
               /\ a.snapDep \in 0..a.acc
<1> DEFINE a == AssetById(in.cards, i)
<1>1. PICK k \in DOMAIN in.cards : i = in.cards[k].id
    BY DEF IdsOf
<1>2. a = in.cards[k] /\ k \in DOMAIN book.cards /\ IsCard(a)
    BY <1>1, InputCards, FoundById DEF InputAfter, AreCards
<1>3. PICK r \in DOMAIN book.workbook.rows :
          /\ ~Excluded(book.workbook.rows[r])
          /\ book.cards[k] = CardOf(book.workbook.rows[r])
    BY <1>2, BookIs
<1> DEFINE row == book.workbook.rows[r]
<1>4. /\ row.net = row.cost - row.acc - row.imp
      /\ row.dep \in 0..row.acc /\ row.cost >= 0 /\ ~(row.net <= 0)
    BY <1>3 DEF BookInv, GoodLedger, BalancedLedger, DepreciatedLedger, SoundLedger,
                Excluded
<1>5. SameAsset(a, book.cards[k])
    BY <1>2 DEF InputAfter
<1> HIDE DEF a
<1>6. /\ a.cost = row.cost /\ a.acc = row.acc /\ a.imp = row.imp
      /\ a.snapDep = row.dep /\ a.snapNet = row.net
    BY <1>3, <1>5 DEF SameAsset, CardFields, CardOf
<1>7. {a.cost, a.acc, a.imp, a.snapDep, a.snapNet} \subseteq Int
    BY <1>2 DEF IsCard
<1> HIDE DEF row
<1> QED
    BY <1>2, <1>4, <1>6, <1>7 DEF a

LEMMA PlannedShare ==
    ASSUME BookInv, NEW in, InputAfter(in, MaxAssumptions),
           NEW i \in IdsOf(in.planned, Included(in.planned)),
           AssetById(in.planned, i).cost >= 0, NEW q \in Int
    PROVE  LET a == AssetById(in.planned, i)
               p == PolicyFor(a)
           IN  /\ MonthlyShare(a, p) \in Nat /\ a.cost \in Nat
               /\ MonthsCharged(a, q) \in 0..p.life /\ p.life \in Nat \ {0}
               /\ p.life * (2 * MonthlyShare(a, p)) <= 2 * a.cost + p.life
<1> DEFINE a == AssetById(in.planned, i)
           p == PolicyFor(a)
           share == MonthlyShare(a, p)
<1>1. IsCard(a) /\ Depreciable(book.model, a) /\ a.residual = None /\ a.cost >= 0
    BY CardOfJob
<1> HIDE DEF a
<1>2. a.inService \in Int /\ IsPolicy(p) /\ p.residual = 0
    BY <1>1, PolicyOfDepreciable
<1>3. p.life \in Nat \ {0} /\ a.cost \in Nat
    BY <1>1, <1>2 DEF IsPolicy, IsCard
<1>4. share = Money(100 * a.cost, 100 * p.life)
    BY <1>2, <1>3 DEF MonthlyShare, TotalDepreciable
<1>5. MonthsCharged(a, q) \in 0..p.life
    BY <1>2, <1>3 DEF MonthsCharged, FirstDepreciationMonth, Lesser, Greater
<1> HIDE DEF p, share
<1>6. 100 * a.cost \in Nat /\ 100 * p.life \in Nat \ {0}
    BY <1>3
<1>7. share \in Nat
    BY <1>4, <1>6, MoneyNat
<1>8. (2 * (100 * p.life)) * share <= 2 * (100 * a.cost) + 100 * p.life
    BY <1>4, <1>6, MoneyNear
<1>9. (2 * (100 * p.life)) * share = 100 * (p.life * (2 * share))
    BY <1>3, <1>7
<1>10. p.life * (2 * share) \in Int
    BY <1>3, <1>7
<1>11. p.life * (2 * share) <= 2 * a.cost + p.life
    BY <1>3, <1>8, <1>9, <1>10
<1> QED
    BY <1>3, <1>5, <1>7, <1>11 DEF a, p, share

\* The first month of every asset finds it where it can be.
LEMMA StayBegins ==
    ASSUME GoodLedger, BookInv, NEW in, InputAfter(in, MaxAssumptions), Begin(in)
    PROVE  /\ CarryWithin(carry', in)
           /\ LeftAbove(carry', todo', in) /\ TakenWithin(carry', todo', in)
<1> DEFINE history == [i \in IdsOf(in.cards, DOMAIN in.cards) |->
                          HistoryStart(AssetById(in.cards, i))]
           work == [i \in IdsOf(in.cards, Single(in.cards)) |->
                       LET a == AssetById(in.cards, i)
                       IN  OpeningWork(a, PolicyFor(a), FutureStart)]
           net == [i \in IdsOf(in.cards, Pooled(in.cards)) |->
                      CardNet(AssetById(in.cards, i))]
           planned == [i \in IdsOf(in.planned, DOMAIN in.planned) |-> 0]
<1>1. carry' = [history |-> history, work |-> work, net |-> net,
                planned |-> planned]
    BY DEF Begin
<1>2. /\ IdsOf(in.cards, Included(in.cards)) \subseteq IdsOf(in.cards, DOMAIN in.cards)
      /\ IdsOf(in.cards, Single(in.cards)) \subseteq IdsOf(in.cards, DOMAIN in.cards)
      /\ IdsOf(in.cards, Pooled(in.cards)) \subseteq IdsOf(in.cards, DOMAIN in.cards)
      /\ IdsOf(in.cards, Single(in.cards)) \subseteq IdsOf(in.cards, Included(in.cards))
      /\ IdsOf(in.planned, Included(in.planned))
            \subseteq IdsOf(in.planned, DOMAIN in.planned)
    BY CardOfJob
<1>3. ASSUME NEW i \in IdsOf(in.cards, Included(in.cards))
      PROVE  history[i] \in Worth(in, i)
  <2> DEFINE a == AssetById(in.cards, i)
  <2>1. /\ a.cost \in Nat /\ a.acc \in Nat /\ a.imp \in Int
        /\ a.snapNet = a.cost - a.acc - a.imp /\ a.snapNet \in Nat
        /\ a.snapDep \in 0..a.acc
      BY <1>2, CardWorth
  <2>2. history[i] = a.snapNet + a.snapDep
      BY <1>2 DEF HistoryStart
  <2> HIDE DEF a, history
  <2>3. history[i] \in 0..(a.cost - a.imp)
      BY <2>1, <2>2
  <2> QED
      BY <2>3 DEF Worth, a
<1>4. ASSUME NEW i \in IdsOf(in.cards, Pooled(in.cards))
      PROVE  net[i] \in Worth(in, i)
  <2> DEFINE a == AssetById(in.cards, i)
  <2>1. /\ a.cost \in Nat /\ a.acc \in Nat /\ a.imp \in Int
        /\ a.snapNet = a.cost - a.acc - a.imp /\ a.snapNet \in Nat
      BY <1>2, CardWorth
  <2>2. net[i] = a.cost - a.acc - a.imp
      BY DEF CardNet
  <2> HIDE DEF a, net
  <2>3. net[i] \in 0..(a.cost - a.imp)
      BY <2>1, <2>2
  <2> QED
      BY <2>3 DEF Worth, a
<1>5. ASSUME NEW i \in IdsOf(in.cards, Single(in.cards))
      PROVE  LET a == AssetById(in.cards, i)
             IN  /\ a.cost - work[i].acc - work[i].imp <= a.cost - a.imp
                 /\ a.cost - work[i].acc - work[i].imp >= -Behind(a, MethodOf(a))
                 /\ a.cost - work[i].acc - work[i].imp \in Int
  <2> DEFINE a == AssetById(in.cards, i)
             p == PolicyFor(a)
             w == OpeningWork(a, p, FutureStart)
  <2>1. /\ IsCard(a) /\ a.cost \in Nat /\ a.acc \in Nat /\ a.imp \in Int
        /\ a.snapNet = a.cost - a.acc - a.imp /\ a.snapNet \in Nat
      BY <1>2, CardWorth
  <2>2. Depreciable(book.model, a) /\ i \in IdsOf(in.cards, Included(in.cards))
      BY <1>2, CardOfJob
  <2>3. a.cost >= 0 /\ p.residual \in 0..100
      BY <2>2, SoundCards DEF GoodLedger
  <2>4. work[i] = w
      OBVIOUS
  <2>5. Behind(a, MethodOf(a)) = IF p.method = "PRODUCTION" THEN 0 ELSE Greater(0, a.imp)
      BY DEF Behind, MethodOf
  <2> HIDE DEF a
  <2>6. IsPolicy(p) /\ a.inService \in Int
      BY <2>1, <2>2, PolicyOfDepreciable
  <2>7. FutureStart \in Int
      BY BookIs
  <2>8. a.acc <= a.cost - a.imp
      BY <2>1
  <2> HIDE DEF p
  <2>9. a.cost - w.acc - w.imp
            >= -(IF p.method = "PRODUCTION" THEN 0 ELSE Greater(0, a.imp))
      BY <2>1, <2>3, <2>6, <2>7, <2>8, OpensAtImpairment
  <2>10. IsWork(w) /\ w.imp = a.imp /\ w.acc >= a.acc
      BY <2>1, <2>6, <2>7, OpeningWorkIs
  <2> HIDE DEF w, work
  <2>11. w.acc \in Int /\ w.imp \in Int
      BY <2>10 DEF IsWork
  <2>12. a.cost - w.acc - w.imp <= a.cost - a.imp /\ a.cost - w.acc - w.imp \in Int
      BY <2>1, <2>10, <2>11
  <2> QED
      BY <2>4, <2>5, <2>9, <2>12 DEF a
<1> HIDE DEF history, work, net, planned
<1>6. CarryWithin(carry', in)
    BY <1>1, <1>3, <1>4, <1>5 DEF CarryWithin, Left
<1>7. todo' \in Seq(JobsDue(in))
    BY JobsAre DEF Begin, Agenda
<1>8. ASSUME NEW x \in DOMAIN todo', todo'[x].kind = "EXISTING"
      PROVE  Left(carry', in, todo'[x].id)
                >= -Below(in, todo'[x].id, todo'[x].period - 1)
  <2> DEFINE i == todo'[x].id
             q == todo'[x].period - 1
             a == AssetById(in.cards, i)
  <2>1. todo'[x] \in JobsDue(in)
      BY <1>7
  <2>2. i \in IdsOf(in.cards, Single(in.cards)) /\ todo'[x].period \in ForecastMonths
      BY <1>8, <2>1, JobOfKind
  <2>3. q \in Int
      BY <2>2, MonthsInt
  <2>4. IsCard(a) /\ AreImpairments(in.events)
      BY <1>2, <2>2, CardOfJob DEF InputAfter
  <2>5. Loss(Aimed(in, i, q)) \in Nat
      BY <2>4, LossIs DEF Aimed
  <2>6. Behind(a, MethodOf(a)) \in Nat
      BY <2>4 DEF Behind, Greater, IsCard
  <2>7. Left(carry', in, i) \in Int /\ Left(carry', in, i) >= -Behind(a, MethodOf(a))
      BY <1>1, <1>5, <2>2 DEF Left
  <2>8. Below(in, i, q) = Loss(Aimed(in, i, q)) + Behind(a, MethodOf(a))
      BY DEF Below
  <2> HIDE DEF i, q, a
  <2>9. Left(carry', in, i) >= -Below(in, i, q)
      BY <2>5, <2>6, <2>7, <2>8
  <2> QED
      BY <2>9 DEF i, q
<1>9. ASSUME NEW x \in DOMAIN todo', todo'[x].kind = "PLANNED",
             AssetById(in.planned, todo'[x].id).cost >= 0
      PROVE  LET a == AssetById(in.planned, todo'[x].id)
             IN  carry'.planned[todo'[x].id] \in
                    0..(MonthlyShare(a, PolicyFor(a))
                           * MonthsCharged(a, todo'[x].period - 1))
  <2> DEFINE job == todo'[x]
             a == AssetById(in.planned, job.id)
             share == MonthlyShare(a, PolicyFor(a))
             n == MonthsCharged(a, job.period - 1)
  <2>1. job \in JobsDue(in)
      BY <1>7
  <2>2. /\ job.id \in IdsOf(in.planned, Included(in.planned))
        /\ job.period \in ForecastMonths
      BY <1>9, <2>1, JobOfKind
  <2>3. job.period - 1 \in Int
      BY <2>2, MonthsInt
  <2>4. share \in Nat /\ n \in Nat
    <3>1. a.cost >= 0 /\ a = AssetById(in.planned, job.id)
        BY <1>9
    <3> HIDE DEF job
    <3>2. /\ MonthlyShare(a, PolicyFor(a)) \in Nat
          /\ MonthsCharged(a, job.period - 1) \in 0..PolicyFor(a).life
          /\ PolicyFor(a).life \in Nat \ {0}
        BY <2>2, <2>3, <3>1, PlannedShare
    <3> HIDE DEF a
    <3> QED
        BY <3>2
  <2>5. carry'.planned[job.id] = 0
      BY <1>1, <1>2, <2>2 DEF planned
  <2> HIDE DEF share, n, job
  <2>6. share * n \in Nat
      BY <2>4
  <2> QED
      BY <2>5, <2>6 DEF share, n, job
<1> QED
    BY <1>6, <1>8, <1>9 DEF LeftAbove, TakenWithin

\* A step of another kind leaves what the single and the planned assets have.
LEMMA OthersStay ==
    ASSUME ForecastInv, todo # <<>>, todo' = Tail(todo)
    PROVE  /\ LeftAbove(carry, todo, input) /\ carry'.work = carry.work =>
                LeftAbove(carry', todo', input)
           /\ TakenWithin(carry, todo, input) /\ carry'.planned = carry.planned =>
                TakenWithin(carry', todo', input)
<1>1. ASSUME NEW y \in DOMAIN Tail(todo)
      PROVE  \E x \in DOMAIN todo : todo[x] = Tail(todo)[y]
    BY AgendaMoves DEF ForecastInv
<1>2. ASSUME LeftAbove(carry, todo, input), carry'.work = carry.work
      PROVE  LeftAbove(carry', Tail(todo), input)
    BY <1>1, <1>2 DEF LeftAbove, Left
<1>3. ASSUME TakenWithin(carry, todo, input), carry'.planned = carry.planned
      PROVE  TakenWithin(carry', Tail(todo), input)
    BY <1>1, <1>3 DEF TakenWithin
<1> QED
    BY <1>2, <1>3

\* A line of a card that is within what the card can be worth.
LEMMA WithinWorth ==
    ASSUME BookInv, InputAfter(input, MaxAssumptions), NEW l,
           l.id \in IdsOf(input.cards, DOMAIN input.cards), l.period \in Int,
           l.opening \in Int, l.amount \in 0..l.opening, l.closing \in Nat,
           l.source = "CURRENT",
           l.opening <= AssetById(input.cards, l.id).cost
                          - AssetById(input.cards, l.id).imp
    PROVE  Stays(l)
<1>1. Impaired(l.id, l.method, l.period) \in Nat
    BY ImpairedIs
<1>2. l.closing >= -Impaired(l.id, l.method, l.period)
    BY <1>1
<1>3. l.amount \in 0..Greater(0, l.opening)
    BY DEF Greater
<1> QED
    BY <1>2, <1>3 DEF Stays, WithinCost, Card

LEMMA HistoryStays ==
    ASSUME GoodLedger, ForecastInv, HistoricalStep, CarryWithin(carry, input)
    PROVE  /\ CarryWithin(carry', input)
           /\ carry'.planned = carry.planned /\ carry'.work = carry.work
           /\ \A l \in lines' : l \in lines \/ Stays(l)
<1>1. PICK a, m : HistoricalMoves(Head(todo), a, m)
    BY HistoricalStepIs
<1> DEFINE job == Head(todo)
           new == Line("HISTORY", "CURRENT", a, job.period, m)
           closing == carry.history[job.id]
<1>2. CarryFits(carry, input) /\ BookInv /\ InputAfter(input, MaxAssumptions)
    BY DEF HistoricalStep, Next_, ForecastInv, Running
<1> HIDE DEF job
<1>3. /\ job.id \in DOMAIN carry.history
      /\ job = Job("HISTORY", job.id, job.period) /\ job \in HistoryDue(input)
      /\ a = AssetById(input.cards, job.id) /\ a.id = job.id
      /\ a.inService \in Int /\ job.period \in Int
      /\ HistoricalLaw(a, job.period, closing, m)
      /\ carry' = [carry EXCEPT !.history[job.id] = m.carried]
      /\ lines' = lines \cup {new}
    BY <1>1 DEF HistoricalMoves, MonthOf, job
<1>4. job.id \in IdsOf(input.cards, Included(input.cards))
      /\ job.id \in IdsOf(input.cards, DOMAIN input.cards)
    BY <1>2, <1>3, DueMeans, CardOfJob
<1>5. closing \in 0..(a.cost - a.imp)
    BY <1>3, <1>4 DEF CarryWithin, Worth
<1>6. a.cost \in Int /\ a.imp \in Int
    BY <1>2, <1>3, <1>4, CardWorth
<1>7. MaximumNet(a) = a.cost - a.imp
    BY <1>5, <1>6 DEF MaximumNet, Greater
<1> HIDE DEF closing
<1>8. /\ m.carried \in 0..(a.cost - a.imp) /\ m.opening \in Int
      /\ m.amount \in 0..m.opening /\ m.closing \in Nat
      /\ m.closing = m.opening - m.amount
      /\ m.opening <= a.cost - a.imp
  <2>1. CASE job.period >= a.inService
      BY <1>3, <1>5, <1>6, <1>7, <2>1 DEF HistoricalLaw
  <2>2. CASE job.period < a.inService
      BY <1>3, <1>5, <1>6, <1>7, <2>2 DEF HistoricalLaw
  <2> QED
      BY <1>3, <2>1, <2>2
<1>9. Stays(new)
  <2>1. /\ new.source = "CURRENT" /\ new.id = job.id
        /\ new.opening = m.opening /\ new.amount = m.amount
        /\ new.closing = m.closing
      BY <1>3, LineIs
  <2>2. new.period = job.period
      BY LineIs
  <2>3. m.opening \in Int /\ m.opening <= a.cost - a.imp
      BY <1>5, <1>6, <1>8
  <2> HIDE DEF new
  <2> QED
      BY <1>2, <1>3, <1>4, <1>6, <1>8, <2>1, <2>2, <2>3, WithinWorth
<1> HIDE DEF new
<1>10. /\ carry'.history = [carry.history EXCEPT ![job.id] = m.carried]
       /\ carry'.work = carry.work /\ carry'.net = carry.net
       /\ carry'.planned = carry.planned
    BY <1>2, <1>3, CarryMoves
<1>11. CarryWithin(carry', input)
  <2>1. ASSUME NEW i \in IdsOf(input.cards, Included(input.cards))
        PROVE  carry'.history[i] \in Worth(input, i)
    <3>1. CASE i = job.id
        BY <1>3, <1>8, <1>10, <3>1 DEF Worth
    <3>2. CASE i # job.id
      <4>1. carry'.history[i] = carry.history[i]
          BY <1>10, <3>2
      <4> QED
          BY <4>1 DEF CarryWithin
    <3> QED
        BY <3>1, <3>2
  <2>2. \A i : Left(carry', input, i) = Left(carry, input, i)
      BY <1>10 DEF Left
  <2> QED
      BY <1>10, <2>1, <2>2 DEF CarryWithin
<1> QED
    BY <1>3, <1>9, <1>10, <1>11

LEMMA ExistingStays ==
    ASSUME GoodLedger, ForecastInv, ExistingStep,
           CarryWithin(carry, input), LeftAbove(carry, todo, input)
    PROVE  /\ CarryWithin(carry', input) /\ LeftAbove(carry', todo', input)
           /\ carry'.planned = carry.planned
           /\ \A l \in lines' : l \in lines \/ Stays(l)
<1>1. PICK a, w, m : ExistingMoves(Head(todo), a, w, m)
    BY ExistingStepIs
<1> DEFINE job == Head(todo)
           i == job.id
           q == job.period
           new == Line("FORECAST", "CURRENT", a, q, m)
           p == PolicyFor(a)
           lost == Loss({e \in input.events : e.target = i /\ e.period \in q..q})
<1>2. /\ CarryFits(carry, input) /\ BookInv /\ InputAfter(input, MaxAssumptions)
      /\ todo # <<>> /\ todo' = Tail(todo) /\ todo \in Seq(JobsDue(input))
      /\ Ordered(todo)
    BY DEF ExistingStep, Next_, Done, ForecastInv, Running
<1>3. \E x \in DOMAIN todo : todo[x] = job
    BY <1>2
<1>4. /\ i \in DOMAIN carry.work /\ w = carry.work[i] /\ IsWork(w)
      /\ job = Job("EXISTING", i, q) /\ job \in ExistingDue(input)
      /\ job.kind = "EXISTING"
      /\ a = AssetById(input.cards, i) /\ a.id = i /\ IsCard(a)
      /\ a.inService \in Int /\ q \in Int /\ IsPolicy(p)
      /\ ExistingLaw(a, p, q, w, input.events, input.drivers, m)
      /\ carry' = [carry EXCEPT !.work[i] = m.work]
      /\ lines' = lines \cup {new}
    BY <1>1 DEF ExistingMoves, MonthOf, Job
<1> HIDE DEF job
<1>5. /\ i \in IdsOf(input.cards, Single(input.cards))
      /\ i \in IdsOf(input.cards, Included(input.cards))
      /\ i \in IdsOf(input.cards, DOMAIN input.cards)
  <2>1. i \in IdsOf(input.cards, Single(input.cards))
      BY <1>4, DueMeans
  <2> HIDE DEF i
  <2> QED
      BY <2>1 DEF IdsOf, Single, Included
<1>6. a.cost \in Nat /\ a.imp \in Int /\ p.residual \in 0..100
  <2>1. a.cost \in Nat /\ a.imp \in Int
      BY <1>2, <1>4, <1>5, CardWorth
  <2>2. p.residual \in 0..100
      BY <1>2, <1>4, <1>5, SoundCards DEF GoodLedger
  <2> QED
      BY <2>1, <2>2
<1>7. AreImpairments(input.events) /\ AreDrivers(input.drivers)
    BY <1>2 DEF InputAfter
<1>8. MethodOf(a) = p.method
    BY DEF MethodOf
<1> HIDE DEF p, i, q
<1>9. m.amount <= IF p.method = "PRODUCTION" THEN Greater(m.opening, 0)
                  ELSE Greater(m.opening - m.impairment, 0)
    BY <1>4, <1>6, <1>7, MonthTakesWhatIsLeft
<1>10. /\ m.opening = a.cost - w.acc - w.imp /\ m.opening \in Int
       /\ m.impairment = SumAmounts(DueOf(a, q, input.events), "IMPAIRMENT")
       /\ m.impairment \in Int /\ m.amount \in Nat
       /\ m.closing = m.opening - m.impairment - m.amount
       /\ m.work.acc = w.acc + m.amount /\ m.work.imp = w.imp + m.impairment
       /\ w.acc \in Int /\ w.imp \in Int
       /\ a.cost - m.work.acc - m.work.imp = m.closing
  <2>1. w.acc \in Int /\ w.imp \in Int
      BY <1>4 DEF IsWork
  <2>2. /\ m.opening = a.cost - w.acc - w.imp
        /\ m.impairment = SumAmounts(DueOf(a, q, input.events), "IMPAIRMENT")
        /\ m.impairment \in Int /\ m.amount \in Nat
        /\ m.closing = m.opening - m.impairment - m.amount
        /\ m.work.acc = w.acc + m.amount /\ m.work.imp = w.imp + m.impairment
      BY <1>4 DEF ExistingLaw
  <2> QED
      BY <1>6, <2>1, <2>2
<1>11. /\ lost \in Nat /\ m.impairment <= lost
       /\ NoGain(input, i) => m.impairment >= 0
  <2> DEFINE due == DueOf(a, q, input.events)
  <2>1. due = {e \in input.events : e.target = i /\ e.period \in q..q}
      BY <1>4, <1>7 DEF DueOf, AreImpairments
  <2>2. due \in SUBSET input.events
      BY DEF DueOf
  <2>3. NoGain(input, i) => \A e \in due : e.amount >= 0
      BY <1>4 DEF DueOf, NoGain
  <2> HIDE DEF due
  <2>4. /\ Loss(due) \in Nat /\ SumAmounts(due, "IMPAIRMENT") <= Loss(due)
        /\ (\A e \in due : e.amount >= 0) => SumAmounts(due, "IMPAIRMENT") >= 0
      BY <1>7, <2>2, LossIs
  <2> QED
      BY <1>10, <2>1, <2>3, <2>4 DEF due
<1>12. /\ Below(input, i, q - 1) \in Nat /\ Below(input, i, q) \in Nat
       /\ Below(input, i, q) = Below(input, i, q - 1) + lost
  <2>1. q \in Int /\ q - 1 \in Int /\ q - 1 <= q /\ (q - 1) + 1 = q
      BY <1>4
  <2> DEFINE r == q - 1
  <2>2. Below(input, i, q) = Below(input, i, r)
                                + Loss(Between(input, i, r, q))
    <3> HIDE DEF r, lost
    <3>1. r \in Int /\ r <= q
        BY <2>1 DEF r
    <3> QED
        BY <1>2, <1>5, <2>1, <3>1, BelowGrows
  <2>3. Below(input, i, q - 1) \in Nat /\ Below(input, i, q) \in Nat
      BY <1>2, <1>5, <2>1, BelowGrows
  <2>4. Between(input, i, r, q)
           = {e \in input.events : e.target = i /\ e.period \in q..q}
    <3> HIDE DEF lost
    <3> QED
        BY <2>1 DEF Between
  <2> QED
      BY <2>2, <2>3, <2>4
<1> HIDE DEF lost
<1>13. m.opening >= -Below(input, i, q - 1)
    BY <1>3, <1>4, <1>10 DEF LeftAbove, Left, i, q
<1>14. m.closing \in Int /\ m.closing >= -Below(input, i, q)
    BY <1>9, <1>10, <1>11, <1>12, <1>13 DEF Greater
<1>15. ASSUME NoGain(input, i)
       PROVE  /\ m.opening <= a.cost - a.imp /\ m.amount \in 0..Greater(0, m.opening)
              /\ m.closing <= a.cost - a.imp
  <2>1. m.opening <= a.cost - a.imp
      BY <1>4, <1>5, <1>10, <1>15 DEF CarryWithin, Left
  <2>2. m.amount \in 0..Greater(0, m.opening)
      BY <1>9, <1>10, <1>11, <1>15 DEF Greater
  <2> QED
      BY <1>6, <1>10, <1>11, <1>15, <2>1, <2>2
<1>16. Stays(new)
  <2>1. /\ new.kind = "FORECAST" /\ new.source = "CURRENT" /\ new.id = i
        /\ new.method = p.method /\ new.period = q
        /\ new.opening = m.opening /\ new.amount = m.amount
        /\ new.closing = m.closing
      BY <1>4, <1>8, LineIs
  <2>2. p.method # "WORKLOAD"
      BY <1>2, <1>4, <1>5, <1>8, CardOfJob
  <2>3. Impaired(i, p.method, q) = Below(input, i, q)
      BY <1>2, <1>4, <1>5, <1>8, ImpairedIs DEF Below
  <2>4. (\A e \in input.events : e.target = i => e.amount >= 0) => NoGain(input, i)
      BY DEF NoGain
  <2> HIDE DEF new
  <2> QED
      BY <1>4, <1>14, <1>15, <2>1, <2>2, <2>3, <2>4 DEF Stays, WithinCost, Card
<1> HIDE DEF new
<1>17. /\ carry'.work = [carry.work EXCEPT ![i] = m.work]
       /\ carry'.history = carry.history /\ carry'.net = carry.net
       /\ carry'.planned = carry.planned
    BY <1>2, <1>4, CarryMoves
<1>18. /\ Left(carry', input, i) = m.closing
       /\ \A j \in DOMAIN carry.work : j # i =>
             Left(carry', input, j) = Left(carry, input, j)
    BY <1>4, <1>10, <1>17 DEF Left
<1>19. CarryWithin(carry', input)
  <2>1. ASSUME NEW j \in IdsOf(input.cards, Single(input.cards)), NoGain(input, j)
        PROVE  Left(carry', input, j) <= AssetById(input.cards, j).cost
                                           - AssetById(input.cards, j).imp
    <3>1. CASE j = i
        BY <1>4, <1>15, <1>18, <2>1, <3>1
    <3>2. CASE j # i
      <4>1. j \in DOMAIN carry.work
          BY <1>2 DEF CarryFits
      <4> QED
          BY <1>18, <2>1, <3>2, <4>1 DEF CarryWithin
    <3> QED
        BY <3>1, <3>2
  <2> QED
      BY <1>17, <2>1 DEF CarryWithin
<1>20. LeftAbove(carry', todo', input)
  <2> SUFFICES ASSUME NEW y \in DOMAIN Tail(todo), Tail(todo)[y].kind = "EXISTING"
               PROVE  Left(carry', input, Tail(todo)[y].id)
                         >= -Below(input, Tail(todo)[y].id, Tail(todo)[y].period - 1)
      BY <1>2 DEF LeftAbove
  <2> DEFINE next == Tail(todo)[y]
  <2>1. /\ \E x \in DOMAIN todo : todo[x] = next
        /\ next.id = i => q < next.period
      BY <1>2, <1>4, AgendaMoves DEF job, i, q
  <2>2. next.period \in Int /\ next.id \in IdsOf(input.cards, Single(input.cards))
    <3>1. next \in JobsDue(input) /\ next.kind = "EXISTING"
        BY <1>2, <2>1
    <3> HIDE DEF next
    <3> QED
        BY <1>2, <3>1, JobOfKind, MonthsInt
  <2>3. next.kind = "EXISTING"
      OBVIOUS
  <2> HIDE DEF next
  <2>4. CASE next.id = i
    <3>1. /\ Below(input, i, q) <= Below(input, i, next.period - 1)
          /\ Below(input, i, next.period - 1) \in Nat
      <4>1. q <= next.period - 1 /\ next.period - 1 \in Int
          BY <1>4, <2>1, <2>2, <2>4
      <4> QED
          BY <1>2, <1>4, <1>5, <4>1, BelowGrows
    <3>2. Left(carry', input, next.id) >= -Below(input, next.id, next.period - 1)
        BY <1>12, <1>14, <1>18, <2>4, <3>1
    <3> QED
        BY <3>2 DEF next
  <2>5. CASE next.id # i
    <3>1. next.id \in DOMAIN carry.work
        BY <1>2, <2>2 DEF CarryFits
    <3>2. Left(carry', input, next.id) = Left(carry, input, next.id)
        BY <1>18, <2>5, <3>1
    <3>3. Left(carry, input, next.id) >= -Below(input, next.id, next.period - 1)
        BY <2>1, <2>3 DEF LeftAbove
    <3>4. Left(carry', input, next.id) >= -Below(input, next.id, next.period - 1)
        BY <3>2, <3>3
    <3> QED
        BY <3>4 DEF next
  <2> QED
      BY <2>4, <2>5
<1> QED
    BY <1>4, <1>16, <1>17, <1>19, <1>20

LEMMA PoolStays ==
    ASSUME GoodLedger, ForecastInv, WorkloadStep, CarryWithin(carry, input)
    PROVE  /\ CarryWithin(carry', input)
           /\ carry'.planned = carry.planned /\ carry'.work = carry.work
           /\ \A l \in lines' : l \in lines \/ Stays(l)
<1>1. PICK amount : PoolMoves(Head(todo), amount)
    BY WorkloadStepIs
<1> DEFINE job == Head(todo)
           New(i) == Line("FORECAST", "CURRENT", AssetById(input.cards, i),
                          job.period, PooledMonth(i, job.period))
           left == [i \in DOMAIN carry.net |-> carry.net[i] - amount[i]]
<1>2. CarryFits(carry, input) /\ BookInv /\ InputAfter(input, MaxAssumptions)
    BY DEF WorkloadStep, Next_, ForecastInv, Running
<1> HIDE DEF job
<1>3. /\ amount = [i \in DOMAIN carry.net |-> PooledAmount(i, job.period)]
      /\ \A i \in DOMAIN carry.net : amount[i] \in 0..Greater(carry.net[i], 0)
      /\ \A i \in DOMAIN carry.net : AssetById(input.cards, i).id = i
      /\ job.period \in Int
      /\ lines' = lines \cup {New(i) : i \in DOMAIN carry.net}
      /\ carry' = [carry EXCEPT !.net = left]
    BY <1>1 DEF PoolMoves, PoolLaw, job
<1>4. DOMAIN carry.net = IdsOf(input.cards, Pooled(input.cards))
    BY <1>2 DEF CarryFits
<1>5. ASSUME NEW i \in DOMAIN carry.net
      PROVE  left[i] \in Worth(input, i) /\ Stays(New(i))
  <2> DEFINE a == AssetById(input.cards, i)
             m == PooledMonth(i, job.period)
             new == New(i)
  <2>1. carry.net[i] \in 0..(a.cost - a.imp)
      BY <1>4 DEF CarryWithin, Worth
  <2>2. a.cost \in Int /\ a.imp \in Int /\ a.id = i
    <3>1. i \in IdsOf(input.cards, DOMAIN input.cards)
        BY <1>2, <1>4, CardOfJob
    <3>2. a.cost \in Nat /\ a.imp \in Int
        BY <1>2, <3>1, CardWorth
    <3> QED
        BY <1>3, <3>2
  <2>3. amount[i] \in 0..carry.net[i]
      BY <1>3, <2>1, <2>2 DEF Greater
  <2>4. left[i] = carry.net[i] - amount[i]
      OBVIOUS
  <2>5. /\ m.opening = carry.net[i] /\ m.amount = amount[i]
        /\ m.closing = carry.net[i] - amount[i]
      BY <1>3 DEF PooledMonth
  <2>6. /\ new.source = "CURRENT" /\ new.id = i
        /\ new.opening = m.opening /\ new.amount = m.amount
        /\ new.closing = m.closing
      BY <2>2, LineIs
  <2>7. a = AssetById(input.cards, i)
      OBVIOUS
  <2>11. new.period = job.period
      BY LineIs
  <2>8. new = New(i)
      OBVIOUS
  <2> HIDE DEF a, m, new, left, New
  <2>9. left[i] \in 0..(a.cost - a.imp)
      BY <2>1, <2>2, <2>3, <2>4
  <2>10. Stays(new)
    <3>1. /\ new.amount \in 0..new.opening /\ new.closing \in Nat
          /\ new.opening \in Int /\ new.opening <= a.cost - a.imp
        BY <2>1, <2>2, <2>3, <2>5, <2>6
    <3>2. i \in IdsOf(input.cards, DOMAIN input.cards)
        BY <1>2, <1>4, CardOfJob
    <3> QED
        BY <1>2, <1>3, <2>6, <2>7, <2>11, <3>1, <3>2, WithinWorth
  <2> QED
      BY <2>7, <2>8, <2>9, <2>10 DEF Worth
<1> HIDE DEF left, New
<1>6. /\ carry'.net = left /\ carry'.history = carry.history
      /\ carry'.work = carry.work /\ carry'.planned = carry.planned
    BY <1>2, <1>3, CarryMoves
<1>7. CarryWithin(carry', input)
  <2>1. \A i : Left(carry', input, i) = Left(carry, input, i)
      BY <1>6 DEF Left
  <2>2. \A i \in IdsOf(input.cards, Pooled(input.cards)) : carry'.net[i] \in Worth(input, i)
      BY <1>4, <1>5, <1>6
  <2> QED
      BY <1>6, <2>1, <2>2 DEF CarryWithin
<1> QED
    BY <1>3, <1>5, <1>6, <1>7

LEMMA LedgerStays ==
    ASSUME GoodLedger, ForecastInv, TakeSnapshotLines
    PROVE  \A l \in lines' : l \in lines \/ Stays(l)
<1>1. BookInv /\ InputAfter(input, MaxAssumptions)
    BY DEF ForecastInv
<1> SUFFICES ASSUME NEW k \in DOMAIN book.cards
             PROVE  Stays(SnapshotLine(book.workbook, book.cards[k]))
    BY DEF TakeSnapshotLines
<1> DEFINE c == book.cards[k]
           i == c.id
           a == AssetById(input.cards, i)
           l == SnapshotLine(book.workbook, c)
<1>2. i \in IdsOf(input.cards, DOMAIN input.cards)
    BY <1>1 DEF InputAfter, SameAsset, CardFields, IdsOf
<1>3. /\ a.cost \in Nat /\ a.acc \in Nat /\ a.imp \in Int
      /\ a.snapNet = a.cost - a.acc - a.imp /\ a.snapNet \in Nat
      /\ a.snapDep \in 0..a.acc
    BY <1>1, <1>2, CardWorth
<1>4. SameAsset(a, c)
  <2>1. AssetById(book.cards, i) = c
      BY <1>1, BookIs, FoundById
  <2> QED
      BY <1>1, <1>2, <2>1, SameCard
<1>5. a.snapNet = c.snapNet /\ a.snapDep = c.snapDep
    BY <1>4 DEF SameAsset, CardFields
<1>6. /\ l.source = "CURRENT" /\ l.id = i /\ l.closing = c.snapNet
      /\ l.opening = c.snapNet + c.snapDep /\ l.amount = c.snapDep
    BY <1>1, SnapshotLineIs
<1>7. a = AssetById(input.cards, i)
    OBVIOUS
<1> HIDE DEF a, c, i
<1>8. /\ l.amount \in 0..l.opening /\ l.closing \in Nat
      /\ l.opening \in Int /\ l.opening <= a.cost - a.imp
  <2> HIDE DEF l
  <2> QED
      BY <1>3, <1>5, <1>6
<1>10. l.period = Snapshot /\ Snapshot \in Int
    BY <1>1, SnapshotLineIs, BookIs DEF c
<1> HIDE DEF l
<1>9. Stays(l)
    BY <1>1, <1>2, <1>6, <1>7, <1>8, <1>10, WithinWorth
<1> QED
    BY <1>9 DEF l, c

\* The shares of n months of a life exceed the price by half a unit for each
\* month at most.
LEMMA SharesAdd ==
    ASSUME NEW share \in Nat, NEW life \in Nat \ {0}, NEW cost \in Nat,
           life * (2 * share) <= 2 * cost + life, NEW n \in 0..life
    PROVE  2 * (share * n) <= 2 * cost + n
<1> DEFINE s == 2 * share - 1
<1>1. PICK d \in Nat : life = n + d
  <2>1. life - n \in Nat /\ life = n + (life - n)
      OBVIOUS
  <2> QED
      BY <2>1
<1>2. n \in Nat /\ s \in Int
    OBVIOUS
<1>3. CASE share = 0
    BY <1>2, <1>3
<1>4. CASE share # 0
  <2>1. s \in Nat
      BY <1>4
  <2>2. /\ life * (2 * share) = life * s + life
        /\ 2 * (share * n) = n * s + n
      BY <1>2
  <2>3. (n + d) * s = n * s + d * s
      BY <1>1, <1>2, <2>1
  <2>4. d * s \in Nat /\ n * s \in Nat
      BY <1>1, <1>2, <2>1
  <2> HIDE DEF s
  <2>5. n * s <= life * s /\ life * s \in Int
      BY <1>1, <2>3, <2>4
  <2> QED
      BY <1>2, <2>2, <2>4, <2>5
<1> QED
    BY <1>3, <1>4

\* The months of a life that are charged, one more with each month of it.
LEMMA MonthsGrow ==
    ASSUME BookInv, NEW in, InputAfter(in, MaxAssumptions),
           NEW i \in IdsOf(in.planned, Included(in.planned)),
           NEW q \in Int
    PROVE  LET a == AssetById(in.planned, i)
               p == PolicyFor(a)
               first == FirstDepreciationMonth(a.inService, p.startRule)
           IN  /\ q \in first..(first + p.life - 1) =>
                     MonthsCharged(a, q) = MonthsCharged(a, q - 1) + 1
               /\ q \notin first..(first + p.life - 1) =>
                     MonthsCharged(a, q) = MonthsCharged(a, q - 1)
               /\ \A r \in Int : q <= r => MonthsCharged(a, q) <= MonthsCharged(a, r)
<1> DEFINE a == AssetById(in.planned, i)
           p == PolicyFor(a)
<1>1. IsCard(a) /\ Depreciable(book.model, a)
    BY CardOfJob
<1> HIDE DEF a
<1>2. a.inService \in Int /\ IsPolicy(p)
    BY <1>1, PolicyOfDepreciable
<1>3. p.life \in Nat \ {0}
    BY <1>2 DEF IsPolicy
<1>4. \A r : MonthsCharged(a, r) =
          Lesser(p.life, Greater(0, r - FirstDepreciationMonth(a.inService, p.startRule) + 1))
    BY DEF MonthsCharged
<1> DEFINE first == FirstDepreciationMonth(a.inService, p.startRule)
<1>5. first \in Int
    BY <1>2 DEF FirstDepreciationMonth
<1> HIDE DEF first, p
<1>6. /\ q \in first..(first + p.life - 1) =>
             MonthsCharged(a, q) = MonthsCharged(a, q - 1) + 1
      /\ q \notin first..(first + p.life - 1) =>
             MonthsCharged(a, q) = MonthsCharged(a, q - 1)
      /\ \A r \in Int : q <= r => MonthsCharged(a, q) <= MonthsCharged(a, r)
    BY <1>3, <1>4, <1>5 DEF Lesser, Greater, first
<1> QED
    BY <1>6 DEF a, p, first

LEMMA PlannedStays ==
    ASSUME ForecastInv, PlannedStep,
           CarryWithin(carry, input), TakenWithin(carry, todo, input)
    PROVE  /\ CarryWithin(carry', input) /\ TakenWithin(carry', todo', input)
           /\ carry'.work = carry.work
           /\ \A l \in lines' : l \in lines \/ Stays(l)
<1>1. PICK a, m : PlannedMoves(Head(todo), a, m)
    BY PlannedStepIs
<1> DEFINE job == Head(todo)
           i == job.id
           q == job.period
           new == Line("FORECAST", "PLANNED", a, q, m)
           acc == carry.planned[i]
           p == PolicyFor(a)
           share == MonthlyShare(a, p)
           n == MonthsCharged(a, q - 1)
           first == FirstDepreciationMonth(a.inService, p.startRule)
<1>2. /\ CarryFits(carry, input) /\ BookInv /\ InputAfter(input, MaxAssumptions)
      /\ todo # <<>> /\ todo' = Tail(todo) /\ todo \in Seq(JobsDue(input))
      /\ Ordered(todo)
    BY DEF PlannedStep, Next_, Done, ForecastInv, Running
<1>3. \E x \in DOMAIN todo : todo[x] = job
    BY <1>2
<1>4. /\ i \in DOMAIN carry.planned /\ q \in Int /\ job.kind = "PLANNED"
      /\ job = Job("PLANNED", i, q) /\ job \in PlannedDue(input)
      /\ a = AssetById(input.planned, i) /\ a.id = i
      /\ PlannedLaw(a, p, acc, m) /\ m = PlannedMonth(a, p, q, acc)
      /\ carry' = [carry EXCEPT !.planned[i] = @ + m.amount]
      /\ lines' = lines \cup {new} /\ acc \in Int
    BY <1>1 DEF PlannedMoves, MonthOf, PlannedStep, Next_
<1>5. m.amount = IF q \in first..(first + p.life - 1) THEN share ELSE 0
    BY <1>4 DEF PlannedMonth, MonthlyShare
<1> HIDE DEF job
<1>6. i \in IdsOf(input.planned, Included(input.planned))
    BY <1>2, <1>4, DueMeans
<1>7. /\ m.opening = a.cost - acc /\ m.closing = m.opening - m.amount
      /\ m.amount \in Int
    BY <1>4 DEF PlannedLaw
<1>8. /\ q \in first..(first + p.life - 1) => MonthsCharged(a, q) = n + 1
      /\ q \notin first..(first + p.life - 1) => MonthsCharged(a, q) = n
      /\ \A r \in Int : q <= r => MonthsCharged(a, q) <= MonthsCharged(a, r)
    BY <1>2, <1>4, <1>6, MonthsGrow
<1>9. ASSUME a.cost >= 0
      PROVE  /\ share \in Nat /\ a.cost \in Nat /\ p.life \in Nat \ {0}
             /\ p.life * (2 * share) <= 2 * a.cost + p.life
             /\ n \in Nat /\ MonthsCharged(a, q) \in 0..p.life
             /\ \A r \in Int : MonthsCharged(a, r) \in Nat
  <2>1. \A r \in Int : /\ share \in Nat /\ a.cost \in Nat
                       /\ MonthsCharged(a, r) \in 0..p.life /\ p.life \in Nat \ {0}
                       /\ p.life * (2 * share) <= 2 * a.cost + p.life
      BY <1>2, <1>4, <1>6, <1>9, PlannedShare
  <2>2. q - 1 \in Int
      BY <1>4
  <2> HIDE DEF share, p, q
  <2>3. MonthsCharged(a, q - 1) \in 0..p.life
      BY <2>1, <2>2
  <2> QED
      BY <1>4, <2>1, <2>2, <2>3
<1>10. a.cost >= 0 => acc \in 0..(share * n)
    BY <1>3, <1>4 DEF TakenWithin
<1> DEFINE k == MonthsCharged(a, q)
<1> HIDE DEF acc, share, n, first, p, k
<1>11. ASSUME a.cost >= 0
       PROVE  /\ acc + m.amount \in 0..(share * k) /\ m.amount >= 0
              /\ 2 * (a.cost - acc - m.amount) >= -k
  <2>1. k \in 0..p.life /\ k \in Nat /\ n \in Nat /\ share \in Nat
      BY <1>9, <1>11 DEF k
  <2>2. share * n \in Nat /\ share * k \in Nat
      BY <2>1
  <2>3. share * n + m.amount = share * k /\ m.amount \in Nat
    <3>1. CASE q \in first..(first + p.life - 1)
      <4>1. k = n + 1 /\ m.amount = share
          BY <1>5, <1>8, <3>1 DEF k
      <4> QED
          BY <2>1, <4>1
    <3>2. CASE q \notin first..(first + p.life - 1)
      <4>1. k = n /\ m.amount = 0
          BY <1>5, <1>8, <3>2 DEF k
      <4> QED
          BY <2>1, <2>2, <4>1
    <3> QED
        BY <3>1, <3>2
  <2>4. acc + m.amount \in 0..(share * k) /\ acc \in Int
      BY <1>10, <1>11, <2>2, <2>3
  <2>5. 2 * (share * k) <= 2 * a.cost + k
      BY <1>9, <1>11, <2>1, SharesAdd
  <2> QED
      BY <1>9, <1>11, <2>1, <2>2, <2>3, <2>4, <2>5
<1>12. Stays(new)
  <2>1. /\ new.source = "PLANNED" /\ new.id = i /\ new.opening = m.opening
        /\ new.amount = m.amount /\ new.closing = m.closing /\ new.period = q
      BY <1>4, LineIs
  <2>2. m.closing = a.cost - acc - m.amount
      BY <1>7
  <2> HIDE DEF new, q
  <2> QED
      BY <1>4, <1>11, <2>1, <2>2 DEF Stays, WithinPrice, k
<1> HIDE DEF new
<1>13. /\ carry'.planned = [carry.planned EXCEPT ![i] = acc + m.amount]
       /\ carry'.history = carry.history /\ carry'.work = carry.work
       /\ carry'.net = carry.net
  <2>1. carry' = [carry EXCEPT !.planned[i] = acc + m.amount]
      BY <1>2, <1>4 DEF CarryFits, acc
  <2> QED
      BY <1>2, <2>1, CarryMoves
<1>14. CarryWithin(carry', input)
    BY <1>13 DEF CarryWithin, Left
<1>15. TakenWithin(carry', todo', input)
  <2> SUFFICES ASSUME NEW y \in DOMAIN Tail(todo), Tail(todo)[y].kind = "PLANNED",
                      AssetById(input.planned, Tail(todo)[y].id).cost >= 0
               PROVE  LET b == AssetById(input.planned, Tail(todo)[y].id)
                      IN  carry'.planned[Tail(todo)[y].id] \in
                             0..(MonthlyShare(b, PolicyFor(b))
                                    * MonthsCharged(b, Tail(todo)[y].period - 1))
      BY <1>2 DEF TakenWithin
  <2> DEFINE next == Tail(todo)[y]
  <2>1. /\ \E x \in DOMAIN todo : todo[x] = next
        /\ next.id = i => q < next.period
      BY <1>2, <1>4, AgendaMoves DEF job
  <2>2. next.period \in Int
    <3>1. next \in JobsDue(input) /\ next.kind = "PLANNED"
        BY <1>2, <2>1
    <3> HIDE DEF next
    <3> QED
        BY <1>2, <3>1, JobOfKind, MonthsInt
  <2>3. next.kind = "PLANNED" /\ AssetById(input.planned, next.id).cost >= 0
      OBVIOUS
  <2> HIDE DEF next, i, q
  <2>4. CASE next.id = i
    <3>1. carry'.planned[next.id] = acc + m.amount
        BY <1>4, <1>13, <2>4
    <3>2. a.cost >= 0
        BY <1>4, <2>3, <2>4
    <3>3. q <= next.period - 1 /\ next.period - 1 \in Int
        BY <1>4, <2>1, <2>2, <2>4
    <3> DEFINE r == MonthsCharged(a, next.period - 1)
    <3>4. k <= r /\ k \in Nat /\ r \in Nat /\ share \in Nat
        BY <1>8, <1>9, <1>4, <3>2, <3>3 DEF k
    <3> HIDE DEF r
    <3>5. share * k <= share * r /\ share * k \in Nat /\ share * r \in Nat
        BY <3>4
    <3>6. acc + m.amount \in 0..(share * r)
        BY <1>11, <3>2, <3>5
    <3> QED
        BY <1>4, <2>4, <3>1, <3>6 DEF next, share, p, r
  <2>5. CASE next.id # i
    <3>1. carry'.planned[next.id] = carry.planned[next.id]
        BY <1>13, <2>5
    <3> QED
        BY <2>1, <2>3, <3>1 DEF TakenWithin, next
  <2> QED
      BY <2>4, <2>5
<1> QED
    BY <1>4, <1>12, <1>13, <1>14, <1>15

\* As long as the book and the input are the same, so is what an asset can be
\* worth.
LEMMA SameWorth ==
    ASSUME book' = book, NEW in, NEW c, NEW s
    PROVE  /\ CarryWithin(c, in)' = CarryWithin(c, in)
           /\ LeftAbove(c, s, in)' = LeftAbove(c, s, in)
           /\ TakenWithin(c, s, in)' = TakenWithin(c, s, in)
           /\ input' = input => \A l : Stays(l)' = Stays(l)
<1>2. ASSUME NEW a
      PROVE  PolicyFor(a)' = PolicyFor(a) /\ MethodOf(a)' = MethodOf(a)
    BY DEF PolicyFor, MethodOf
<1>3. /\ Included(in.cards)' = Included(in.cards)
      /\ Pooled(in.cards)' = Pooled(in.cards)
      /\ Single(in.cards)' = Single(in.cards)
  <2>1. \A cards : Included(cards)' = Included(cards)
      BY DEF Included
  <2>2. Pooled(in.cards)' = Pooled(in.cards)
      BY <1>2, <2>1 DEF Pooled
  <2> QED
      BY <2>1, <2>2 DEF Single
<1>4. \A a, q : MonthsCharged(a, q)' = MonthsCharged(a, q)
    BY <1>2 DEF MonthsCharged
<1>5. CarryWithin(c, in)' = CarryWithin(c, in)
    BY <1>3 DEF CarryWithin
<1>6. \A i, q : Below(in, i, q)' = Below(in, i, q)
    BY <1>2 DEF Below
<1>7. LeftAbove(c, s, in)' = LeftAbove(c, s, in)
    BY <1>6 DEF LeftAbove
<1>8. TakenWithin(c, s, in)' = TakenWithin(c, s, in)
    BY <1>2, <1>4 DEF TakenWithin
<1>9. ASSUME input' = input, NEW l PROVE Stays(l)' = Stays(l)
  <2>1. \A i, m, q : Impaired(i, m, q)' = Impaired(i, m, q)
      BY <1>9 DEF Impaired, Card
  <2>2. WithinCost(l)' = WithinCost(l)
      BY <1>9, <2>1 DEF WithinCost, Card
  <2>3. WithinPrice(l)' = WithinPrice(l)
      BY <1>4, <1>9 DEF WithinPrice
  <2> QED
      BY <2>2, <2>3 DEF Stays
<1> QED
    BY <1>5, <1>7, <1>8, <1>9

LEMMA StayNext ==
    ASSUME GoodLedger, ForecastInv, StayInv, [Next]_vars
    PROVE  StayInv'
<1>1. CASE ComputeBaseline \/ (Submit /\ Accepted(Applied(request)))
  <2>1. /\ book' = book /\ lines' = {} /\ InputAfter(input', MaxAssumptions)
        /\ Begin(input') /\ BookInv
      BY <1>1, BeginIs DEF ForecastInv
  <2> DEFINE in == input'
  <2>2. /\ CarryWithin(carry', in)
        /\ LeftAbove(carry', todo', in) /\ TakenWithin(carry', todo', in)
      BY <2>1, StayBegins
  <2> QED
      BY <2>1, <2>2, SameWorth DEF StayInv
<1>2. CASE JobStep
  <2>1. /\ todo # <<>> /\ todo' = Tail(todo) /\ phase # "ready"
        /\ UNCHANGED <<book, request, phase, input>>
      BY <1>2, StepAdds DEF ForecastInv, Running
  <2>2. /\ CarryWithin(carry, input) /\ LeftAbove(carry, todo, input)
        /\ TakenWithin(carry, todo, input) /\ \A l \in lines : Stays(l)
      BY <2>1 DEF StayInv
  <2> SUFFICES /\ CarryWithin(carry', input)
               /\ LeftAbove(carry', todo', input)
               /\ TakenWithin(carry', todo', input)
               /\ \A l \in lines' : l \in lines \/ Stays(l)
      BY <2>1, <2>2, SameWorth DEF StayInv
  <2>3. CASE HistoricalStep
      BY <2>1, <2>2, <2>3, HistoryStays, OthersStay
  <2>4. CASE TakeSnapshotLines
    <3>1. carry' = carry
        BY <2>4 DEF TakeSnapshotLines
    <3> QED
        BY <2>1, <2>2, <2>4, <3>1, LedgerStays, OthersStay
  <2>5. CASE ExistingStep
      BY <2>1, <2>2, <2>5, ExistingStays, OthersStay
  <2>6. CASE WorkloadStep
      BY <2>1, <2>2, <2>6, PoolStays, OthersStay
  <2>7. CASE PlannedStep
      BY <2>1, <2>2, <2>7, PlannedStays, OthersStay
  <2> QED
      BY <1>2, <2>3, <2>4, <2>5, <2>6, <2>7 DEF JobStep
<1>3. CASE /\ UNCHANGED <<book, input, todo, carry, lines>>
           /\ phase = "ready" => phase' = "ready"
    BY <1>3, SameWorth DEF StayInv
<1> QED
    BY <1>1, <1>2, <1>3, StepsMove DEF Moves, Aside

\* An asset of the ledger falls below nothing by no more than it was impaired,
\* one of a pool, a reconstructed month and the ledger's own month never, a
\* planned asset by half a unit for each month charged; and unless an
\* impairment gives value back, no month takes more than there is and none
\* finds more than the cost less the ledger impairment
\* (_forecast_existing_asset, _forecast_workload_assets,
\* _forecast_planned_asset, _reconstruct_historical_lines): for every good
\* ledger, all drivers and however many assumptions.
THEOREM AssetsStayWithinCost ==
    ASSUME GoodLedger
    PROVE  Spec => []StaysWithinCost
<1>1. Init => StayInv
    BY DEF Init, StayInv
<1>2. ForecastInv /\ StayInv /\ [Next]_vars => StayInv'
    BY StayNext
<1>3. StayInv => StaysWithinCost
    BY DEF StayInv, Stays, StaysWithinCost, Finished
<1> QED
    BY <1>1, <1>2, <1>3, ForecastHolds, PTL DEF Spec

-----------------------------------------------------------------------------
(* A pool charges its total *)

\* PoolMembers, DuesOf, PooledAmount and the line of PooledMonth, for what the
\* members are worth before the month.
MembersOf(net, in, t) ==
    {i \in DOMAIN net : WorkloadTarget(AssetById(in.cards, i)) = t}

DuesFrom(net, in, t, p) ==
    {i \in MembersOf(net, in, t) :
        LET a == AssetById(in.cards, i)
        IN  /\ p >= FirstDepreciationMonth(a.inService, PolicyFor(a).startRule)
            /\ net[i] > 0}

AmountFrom(net, in, i, p) ==
    LET t == WorkloadTarget(AssetById(in.cards, i))
    IN  WorkloadAmounts(MembersOf(net, in, t), net, DuesFrom(net, in, t, p),
                        Driver(in.drivers, "WORKLOAD", t, p))[i]

PoolLine(net, in, i, p) ==
    Line("FORECAST", "CURRENT", AssetById(in.cards, i), p,
         [opening |-> net[i], addition |-> 0, disposal |-> 0, impairment |-> 0,
          amount |-> AmountFrom(net, in, i, p),
          closing |-> net[i] - AmountFrom(net, in, i, p)])

PoolLinesOf(L, p) ==
    {l \in L : /\ l.kind = "FORECAST" /\ l.source = "CURRENT"
               /\ l.method = "WORKLOAD" /\ l.period = p}

\* The lines of the pools in a month are written together, from what the
\* members were worth then.
PooledTogether(L, in, p) ==
    \/ PoolLinesOf(L, p) = {}
    \/ \E net \in [IdsOf(in.cards, Pooled(in.cards)) -> Int] :
          PoolLinesOf(L, p) = {PoolLine(net, in, i, p) : i \in DOMAIN net}

PoolInv == \A p : PooledTogether(lines, input, p)

LEMMA SamePools ==
    ASSUME book' = book, NEW L, NEW in, NEW p
    PROVE  PooledTogether(L, in, p)' = PooledTogether(L, in, p)
<1>1. ASSUME NEW a
      PROVE  PolicyFor(a)' = PolicyFor(a) /\ MethodOf(a)' = MethodOf(a)
    BY DEF PolicyFor, MethodOf
<1>2. Pooled(in.cards)' = Pooled(in.cards)
  <2>1. Included(in.cards)' = Included(in.cards)
      BY DEF Included
  <2> QED
      BY <1>1, <2>1 DEF Pooled
<1>3. ASSUME NEW net, NEW t PROVE DuesFrom(net, in, t, p)' = DuesFrom(net, in, t, p)
    BY <1>1 DEF DuesFrom
<1>4. ASSUME NEW net, NEW i
      PROVE  AmountFrom(net, in, i, p)' = AmountFrom(net, in, i, p)
    BY <1>3 DEF AmountFrom
<1>5. ASSUME NEW net, NEW i PROVE PoolLine(net, in, i, p)' = PoolLine(net, in, i, p)
    BY <1>1, <1>4 DEF PoolLine, Line
<1> QED
    BY <1>2, <1>5 DEF PooledTogether

\* Only the step of the pools writes lines of pools.
LEMMA OtherLines ==
    ASSUME ForecastInv, HistoricalStep \/ TakeSnapshotLines \/ ExistingStep
                        \/ PlannedStep, NEW p
    PROVE  PoolLinesOf(lines', p) = PoolLinesOf(lines, p)
<1>1. CASE HistoricalStep
  <2>1. PICK a, m : HistoricalMoves(Head(todo), a, m)
      BY <1>1, HistoricalStepIs
  <2> DEFINE new == Line("HISTORY", "CURRENT", a, Head(todo).period, m)
  <2>2. lines' = lines \cup {new}
      BY <2>1 DEF HistoricalMoves, MonthOf
  <2>3. new.kind = "HISTORY"
      BY DEF Line
  <2> HIDE DEF new
  <2> QED
      BY <2>2, <2>3 DEF PoolLinesOf
<1>2. CASE TakeSnapshotLines
    BY <1>2 DEF TakeSnapshotLines, SnapshotLine, PoolLinesOf
<1>3. CASE ExistingStep
  <2>1. PICK a, w, m : ExistingMoves(Head(todo), a, w, m)
      BY <1>3, ExistingStepIs
  <2> DEFINE new == Line("FORECAST", "CURRENT", a, Head(todo).period, m)
  <2>2. lines' = lines \cup {new} /\ MethodOf(a) # "WORKLOAD"
      BY <2>1 DEF ExistingMoves, MonthOf
  <2>3. new.method = MethodOf(a)
      BY DEF Line
  <2> HIDE DEF new
  <2> QED
      BY <2>2, <2>3 DEF PoolLinesOf
<1>4. CASE PlannedStep
  <2>1. PICK a, m : PlannedMoves(Head(todo), a, m)
      BY <1>4, PlannedStepIs
  <2> DEFINE new == Line("FORECAST", "PLANNED", a, Head(todo).period, m)
  <2>2. lines' = lines \cup {new}
      BY <2>1 DEF PlannedMoves, MonthOf
  <2>3. new.source = "PLANNED"
      BY DEF Line
  <2> HIDE DEF new
  <2> QED
      BY <2>2, <2>3 DEF PoolLinesOf
<1> QED
    BY <1>1, <1>2, <1>3, <1>4

\* The step of the pools writes all lines of its month, which had none.
LEMMA PoolStepWrites ==
    ASSUME ForecastInv, AgendaInv, WorkloadStep, NEW p
    PROVE  \/ PoolLinesOf(lines', p) = PoolLinesOf(lines, p)
           \/ \E net \in [IdsOf(input.cards, Pooled(input.cards)) -> Int] :
                 PoolLinesOf(lines', p) = {PoolLine(net, input, i, p) : i \in DOMAIN net}
<1>1. PICK amount : PoolMoves(Head(todo), amount)
    BY WorkloadStepIs
<1> DEFINE job == Head(todo)
           net == carry.net
           New(i) == Line("FORECAST", "CURRENT", AssetById(input.cards, i),
                          job.period, PooledMonth(i, job.period))
<1>2. CarryFits(carry, input) /\ todo # <<>> /\ todo \in Seq(JobsDue(input))
      /\ BookInv
    BY DEF WorkloadStep, Next_, ForecastInv, Running
<1>3. /\ job = Job("WORKLOAD", None, job.period) /\ job.period \in Int
      /\ lines' = lines \cup {New(i) : i \in DOMAIN net}
      /\ \A i \in DOMAIN net : MethodOf(AssetById(input.cards, i)) = "WORKLOAD"
    BY <1>1 DEF PoolMoves
<1>4. \E x \in DOMAIN todo : todo[x] = job
    BY <1>2
<1> HIDE DEF job
<1>5. net \in [IdsOf(input.cards, Pooled(input.cards)) -> Int]
    BY <1>2 DEF CarryFits
<1>6. ASSUME NEW i \in DOMAIN net
      PROVE  New(i) = PoolLine(net, input, i, job.period)
  <2>1. \A t : PoolMembers(t) = MembersOf(net, input, t)
      BY DEF PoolMembers, MembersOf
  <2>2. \A t : DuesOf(t, job.period) = DuesFrom(net, input, t, job.period)
      BY <2>1 DEF DuesOf, DuesFrom
  <2>3. PooledAmount(i, job.period) = AmountFrom(net, input, i, job.period)
      BY <2>1, <2>2 DEF PooledAmount, AmountFrom
  <2> QED
      BY <2>3 DEF PoolLine, PooledMonth
<1>7. ASSUME NEW i \in DOMAIN net
      PROVE  /\ New(i).kind = "FORECAST" /\ New(i).source = "CURRENT"
             /\ New(i).method = "WORKLOAD" /\ New(i).period = job.period
    BY <1>3 DEF Line
<1>8. CASE p # job.period
  <2>1. PoolLinesOf(lines', p) = PoolLinesOf(lines, p)
    <3> HIDE DEF New, net
    <3> QED
        BY <1>3, <1>7, <1>8 DEF PoolLinesOf
  <2> QED
      BY <2>1
<1>9. CASE p = job.period
  <2>1. PoolLinesOf(lines, p) = {}
    <3> SUFFICES ASSUME NEW l \in lines, l.kind = "FORECAST", l.source = "CURRENT",
                        l.method = "WORKLOAD", l.period = p
                 PROVE  FALSE
        BY DEF PoolLinesOf
    <3>1. JobOf(l) = job
        BY <1>3, <1>9 DEF JobOf
    <3>2. Precedes(job, job)
        BY <1>4, <3>1 DEF AgendaInv
    <3>3. job.kind = "WORKLOAD"
        BY <1>3 DEF Job
    <3> QED
        BY <1>3, <3>2, <3>3 DEF Precedes
  <2>2. PoolLinesOf(lines', p) = {New(i) : i \in DOMAIN net}
    <3> HIDE DEF New, net
    <3> QED
        BY <1>3, <1>7, <1>9, <2>1 DEF PoolLinesOf
  <2>3. {New(i) : i \in DOMAIN net} = {PoolLine(net, input, i, p) : i \in DOMAIN net}
    <3> HIDE DEF New, net
    <3> QED
        BY <1>6, <1>9
  <2> HIDE DEF New, net
  <2> QED
      BY <1>5, <2>2, <2>3
<1> QED
    BY <1>8, <1>9

LEMMA PoolNext ==
    ASSUME ForecastInv, AgendaInv, PoolInv, [Next]_vars
    PROVE  PoolInv'
<1>1. CASE ComputeBaseline \/ (Submit /\ Accepted(Applied(request)))
  <2>1. lines' = {}
      BY <1>1, BeginIs
  <2> QED
      BY <2>1 DEF PoolInv, PooledTogether, PoolLinesOf
<1>2. CASE JobStep
  <2>1. UNCHANGED <<book, input>>
      BY <1>2, StepAdds
  <2> SUFFICES ASSUME NEW p PROVE PooledTogether(lines', input, p)
      BY <2>1, SamePools DEF PoolInv
  <2>2. PooledTogether(lines, input, p)
      BY DEF PoolInv
  <2>3. CASE PoolLinesOf(lines', p) = PoolLinesOf(lines, p)
      BY <2>2, <2>3 DEF PooledTogether
  <2>4. CASE WorkloadStep
      BY <2>3, <2>4, PoolStepWrites DEF PooledTogether
  <2> QED
      BY <1>2, <2>3, <2>4, OtherLines DEF JobStep
<1>3. CASE UNCHANGED <<book, input, todo, carry, lines>>
  <2> SUFFICES ASSUME NEW p PROVE PooledTogether(lines, input, p)'
      BY DEF PoolInv
  <2>1. PooledTogether(lines, input, p)
      BY DEF PoolInv
  <2> QED
      BY <1>3, <2>1, SamePools
<1> QED
    BY <1>1, <1>2, <1>3, StepsMove DEF Moves, Aside

LEMMA PoolsHold == Spec => [](ForecastInv /\ PoolInv)
<1>1. Init => PoolInv
    BY DEF Init, PoolInv, PooledTogether, PoolLinesOf
<1>2. ForecastInv /\ AgendaInv /\ PoolInv /\ [Next]_vars => PoolInv'
    BY PoolNext
<1> QED
    BY <1>1, <1>2, AgendaHolds, PTL DEF Spec

\* The lines of one pool of a month add up as its members do.
LEMMA OnePoolAddsUp ==
    ASSUME BookInv, InputAfter(input, MaxAssumptions),
           NEW net \in [IdsOf(input.cards, Pooled(input.cards)) -> Int],
           NEW p, NEW t, NEW members,
           members = {PoolLine(net, input, i, p) : i \in DuesFrom(net, input, t, p)}
    PROVE  ChargesTotal(members, t, p)
<1> DEFINE d == Driver(input.drivers, "WORKLOAD", t, p)
           S == DuesFrom(net, input, t, p)
           k == [i \in S |-> PoolLine(net, input, i, p)]
           opening == [l \in members |-> l.opening]
           charge == [l \in members |-> l.amount]
           amount == [i \in S |-> charge[k[i]]]
           worth == [i \in S |-> opening[k[i]]]
           sum == SumFunctionOnSet(net, S)
           pool == PoolNetValue(d, sum)
           total == TotalAmortization(d)
<1>1. /\ S \subseteq DOMAIN net /\ \A i \in S : net[i] \in Int /\ net[i] > 0
      /\ \A i \in S : WorkloadTarget(AssetById(input.cards, i)) = t
      /\ S \subseteq MembersOf(net, input, t)
    BY DEF DuesFrom, MembersOf
<1>2. IsFiniteSet(S)
  <2>1. IsFiniteSet(DOMAIN net)
      BY FiniteMembers
  <2> QED
      BY <1>1, <2>1, FS_Subset
<1>3. sum \in Int
    BY <1>1, <1>2, SumOfNumbers
<1>4. total \in Int /\ pool \in Int
  <2>1. IsDriver(d)
      BY DriverIsTyped DEF InputAfter
  <2> HIDE DEF d, sum
  <2> QED
      BY <1>3, <2>1, PoolIsTyped
<1>5. ASSUME NEW i \in S
      PROVE  /\ k[i].id = i /\ k[i].opening = net[i]
             /\ k[i].amount = WorkloadAmount(net[i], TRUE, total, pool)
  <2>1. k[i] = PoolLine(net, input, i, p)
      OBVIOUS
  <2>2. AssetById(input.cards, i).id = i
    <3>1. i \in IdsOf(input.cards, Pooled(input.cards))
        BY <1>1
    <3>2. i \in IdsOf(input.cards, DOMAIN input.cards)
        BY <3>1, CardOfJob
    <3> QED
        BY <3>2, CardOfJob
  <2>3. AmountFrom(net, input, i, p) = WorkloadAmount(net[i], TRUE, total, pool)
    <3>1. i \in MembersOf(net, input, t) /\ WorkloadTarget(AssetById(input.cards, i)) = t
        BY <1>1
    <3>2. AmountFrom(net, input, i, p)
              = WorkloadAmount(net[i], i \in S, total, pool)
        BY <3>1 DEF AmountFrom, WorkloadAmounts
    <3>3. WorkloadAmount(net[i], i \in S, total, pool)
              = WorkloadAmount(net[i], TRUE, total, pool)
      <4> HIDE DEF S, total, pool
      <4> QED
          BY DEF WorkloadAmount
    <3> QED
        BY <3>2, <3>3
  <2> HIDE DEF k, total, pool
  <2> QED
      BY <2>1, <2>2, <2>3 DEF PoolLine, Line
<1>6. members = {k[i] : i \in S}
    OBVIOUS
<1> HIDE DEF k, S, d
<1>7. /\ \A i, j \in S : k[i] = k[j] => i = j
      /\ \A i \in S : opening[k[i]] = net[i]
      /\ \A i \in S : charge[k[i]] = WorkloadAmount(net[i], TRUE, total, pool)
      /\ DOMAIN opening = members /\ DOMAIN charge = members
    BY <1>5, <1>6
<1>8. \A i \in S : charge[k[i]] \in Int
  <2>1. \A i \in S : WorkloadAmount(net[i], TRUE, total, pool)
                        \in 0..Greater(net[i], 0)
    <3> HIDE DEF total, pool
    <3> QED
        BY <1>1, <1>4, WorkloadAmountIs
  <2>2. \A i \in S : charge[k[i]] \in 0..Greater(net[i], 0)
    <3> HIDE DEF charge, total, pool
    <3> QED
        BY <1>7, <2>1
  <2> HIDE DEF charge
  <2> QED
      BY <1>1, <2>2 DEF Greater
<1> HIDE DEF opening, charge, total, pool
<1>9. /\ SumFunctionOnSet(opening, members) = SumFunctionOnSet(worth, S)
      /\ Cardinality(members) = Cardinality(S)
  <2>1. \A i \in S : opening[k[i]] \in Int
      BY <1>1, <1>7
  <2>2. \A i, j \in S : k[i] = k[j] => i = j
      BY <1>7
  <2>3. /\ SumFunctionOnSet(opening, {k[i] : i \in S})
              = SumFunctionOnSet([i \in S |-> opening[k[i]]], S)
        /\ Cardinality({k[i] : i \in S}) = Cardinality(S)
      BY <1>2, <2>1, <2>2, SumRenamed, Zenon
  <2> QED
      BY <1>6, <2>3
<1>10. SumFunctionOnSet(charge, members) = SumFunctionOnSet(amount, S)
    BY <1>2, <1>6, <1>7, <1>8, SumRenamed
<1>11. SumFunctionOnSet(worth, S) = sum
  <2>1. \A i \in S : worth[i] \in Int /\ worth[i] = net[i]
      BY <1>1, <1>7
  <2> HIDE DEF worth
  <2> QED
      BY <1>2, <2>1, SumOfSame
<1>12. PoolAddsUp(S, net, amount, total, pool)
  <2>1. Numbers(net, S) /\ \A i \in S : net[i] > 0
      BY <1>1 DEF Numbers
  <2>2. \A i \in S : amount[i] = WorkloadAmount(net[i], TRUE, total, pool)
      BY <1>7
  <2> HIDE DEF amount
  <2> QED
      BY <1>2, <1>4, <2>1, <2>2, SharesAddUp
<1>13. /\ SumFunction([l \in members |-> l.opening]) = sum
       /\ Total(members) = SumFunctionOnSet(amount, S)
  <2>1. SumFunction(opening) = sum
      BY <1>7, <1>9, <1>11 DEF SumFunction
  <2>2. SumFunction(charge) = SumFunctionOnSet(amount, S)
      BY <1>7, <1>10 DEF SumFunction
  <2> QED
      BY <2>1, <2>2 DEF opening, charge, Total
<1> HIDE DEF amount
<1> QED
    BY <1>9, <1>12, <1>13 DEF ChargesTotal, PoolAddsUp, total, pool, d

\* In every month a pool charges what the month's total says, up to half a
\* unit for each member: never more as long as the pool's net value is not
\* below its members', and all of it when both are the same and not less than
\* the total (_forecast_workload_assets), for all workbooks and drivers.
THEOREM PoolsChargeTheirTotal == Spec => []PoolChargesItsTotal
<1>1. ASSUME ForecastInv, PoolInv PROVE PoolChargesItsTotal
  <2>1. BookInv /\ InputAfter(input, MaxAssumptions)
      BY <1>1 DEF ForecastInv
  <2>2. ASSUME NEW p, PoolLinesOf(lines, p) # {}, NEW t
        PROVE  ChargesTotal({l \in PoolLinesOf(lines, p) : DueFromPool(l, t, p)}, t, p)
    <3>1. PICK net \in [IdsOf(input.cards, Pooled(input.cards)) -> Int] :
              PoolLinesOf(lines, p) = {PoolLine(net, input, i, p) : i \in DOMAIN net}
        BY <1>1, <2>2 DEF PoolInv, PooledTogether
    <3>2. ASSUME NEW i \in DOMAIN net
          PROVE  DueFromPool(PoolLine(net, input, i, p), t, p)
                    <=> i \in DuesFrom(net, input, t, p)
      <4> DEFINE l == PoolLine(net, input, i, p)
      <4>1. AssetById(input.cards, i).id = i
        <5>1. i \in IdsOf(input.cards, DOMAIN input.cards)
            BY <2>1, CardOfJob
        <5> QED
            BY <2>1, <5>1, CardOfJob
      <4>2. l.id = i /\ l.opening = net[i]
          BY <4>1 DEF PoolLine, Line
      <4> HIDE DEF l
      <4>3. DueFromPool(l, t, p) <=> i \in DuesFrom(net, input, t, p)
          BY <4>2 DEF DueFromPool, DuesFrom, MembersOf, Card
      <4> QED
          BY <4>3 DEF l
    <3>3. DuesFrom(net, input, t, p) \subseteq DOMAIN net
        BY DEF DuesFrom, MembersOf
    <3>4. {l \in PoolLinesOf(lines, p) : DueFromPool(l, t, p)}
             = {PoolLine(net, input, i, p) : i \in DuesFrom(net, input, t, p)}
        BY <3>1, <3>2, <3>3
    <3> QED
        BY <2>1, <3>4, OnePoolAddsUp
  <2>3. \A p : {l \in Forecasts : /\ l.source = "CURRENT" /\ l.method = "WORKLOAD"
                                  /\ l.period = p} = PoolLinesOf(lines, p)
      BY DEF Forecasts, PoolLinesOf
  <2> QED
      BY <2>2, <2>3 DEF PoolChargesItsTotal
<1> QED
    BY <1>1, PoolsHold, PTL
-----------------------------------------------------------------------------
(* A forecast is a function of its input *)

\* What carry holds for the jobs of a kind and an asset: a balance, a work
\* record, or the balances of all pools.
StateOf(c, kind, id) ==
    IF kind = "HISTORY" THEN c.history[id]
    ELSE IF kind = "EXISTING" THEN c.work[id]
    ELSE IF kind = "WORKLOAD" THEN c.net
    ELSE c.planned[id]

StartOf(in, kind, id) ==
    LET a == AssetById(in.cards, id)
    IN  IF kind = "HISTORY" THEN HistoryStart(a)
        ELSE IF kind = "EXISTING" THEN OpeningWork(a, PolicyFor(a), FutureStart)
        ELSE IF kind = "WORKLOAD"
        THEN [i \in IdsOf(in.cards, Pooled(in.cards)) |->
                 CardNet(AssetById(in.cards, i))]
        ELSE 0

\* The state after a month that found state s.
After(in, kind, id, p, s) ==
    LET a == AssetById(in.cards, id)
        planned == AssetById(in.planned, id)
    IN  IF kind = "HISTORY"
        THEN HistoricalMonth(a, PolicyFor(a), p, s, in.drivers).carried
        ELSE IF kind = "EXISTING"
        THEN ExistingMonth(a, PolicyFor(a), p, s, in.events, in.drivers).work
        ELSE IF kind = "WORKLOAD"
        THEN [i \in DOMAIN s |-> s[i] - AmountFrom(s, in, i, p)]
        ELSE s + PlannedMonth(planned, PolicyFor(planned), p, s).amount

\* The line of asset i in a month that found state s.
LineFrom(in, kind, i, p, s) ==
    LET a == AssetById(in.cards, i)
        planned == AssetById(in.planned, i)
    IN  IF kind = "SNAPSHOT"
        THEN SnapshotLine(book.workbook, AssetById(book.cards, i))
        ELSE IF kind = "HISTORY"
        THEN Line("HISTORY", "CURRENT", a, p,
                  HistoricalMonth(a, PolicyFor(a), p, s, in.drivers))
        ELSE IF kind = "EXISTING"
        THEN Line("FORECAST", "CURRENT", a, p,
                  ExistingMonth(a, PolicyFor(a), p, s, in.events, in.drivers))
        ELSE IF kind = "WORKLOAD"
        THEN PoolLine(s, in, i, p)
        ELSE Line("FORECAST", "PLANNED", planned, p,
                  PlannedMonth(planned, PolicyFor(planned), p, s))

FirstMonth(kind) == IF kind = "HISTORY" THEN Snapshot - 1 ELSE FutureStart

NextMonth(kind, p) == IF kind = "HISTORY" THEN p - 1 ELSE p + 1

MonthsOf(kind) == IF kind = "HISTORY" THEN HistoryMonths ELSE ForecastMonths

\* t gives the state every month finds.
IsTrail(t, in, kind, id) ==
    /\ t[FirstMonth(kind)] = StartOf(in, kind, id)
    /\ \A p \in MonthsOf(kind) :
          t[NextMonth(kind, p)] = After(in, kind, id, p, t[p])

Trail(in, kind, id) == CHOOSE t : IsTrail(t, in, kind, id)

FoundIn(in, job) == Trail(in, job.kind, job.id)[job.period]

LineDue(in, job, i) == LineFrom(in, job.kind, i, job.period, FoundIn(in, job))

\* The lines an input leads to.
DirectLines(in) ==
    UNION {{LineDue(in, job, i) : i \in AssetsOf(job, in)} : job \in JobsDue(in)}

\* There is such a trail, month after month.
LEMMA TrailExists ==
    ASSUME BookInv, NEW in, NEW kind, NEW id
    PROVE  IsTrail(Trail(in, kind, id), in, kind, id)
<1> DEFINE At(i) == IF kind = "HISTORY" THEN Snapshot - 1 - i ELSE FutureStart + i
           Next0(i, s) == After(in, kind, id, At(i), s)
           Good(m, g) == /\ g[0] = StartOf(in, kind, id)
                         /\ \A i \in 0..(m - 1) : g[i + 1] = Next0(i, g[i])
           M == {m \in Nat : \E g : Good(m, g)}
<1>1. 0 \in M
  <2>1. Good(0, [i \in {0} |-> StartOf(in, kind, id)])
      OBVIOUS
  <2> QED
      BY <2>1
<1>2. ASSUME NEW m \in Nat, m \in M PROVE m + 1 \in M
  <2>1. PICK g : Good(m, g)
      BY <1>2
  <2> DEFINE h == [i \in 0..(m + 1) |-> IF i <= m THEN g[i] ELSE Next0(m, g[m])]
  <2> HIDE DEF Next0
  <2>2. h[0] = StartOf(in, kind, id)
      BY <2>1
  <2>3. ASSUME NEW i \in 0..m PROVE h[i + 1] = Next0(i, h[i])
    <3>1. CASE i < m
        BY <2>1, <3>1
    <3>2. CASE i = m
        BY <3>2
    <3> QED
        BY <3>1, <3>2
  <2> HIDE DEF h
  <2>4. \A i \in 0..((m + 1) - 1) : h[i + 1] = Next0(i, h[i])
      BY <2>3
  <2>5. Good(m + 1, h)
      BY <2>2, <2>4
  <2> QED
      BY <2>5
<1> HIDE DEF M
<1>3. Nat \subseteq M
    BY <1>1, <1>2, InductionOnNat
<1>4. Start \in Int /\ End \in Int /\ Snapshot \in Int /\ FutureStart \in Int
    BY BookIs
<1>5. PICK m \in Nat : \A p \in MonthsOf(kind) :
          \E i \in 0..(m - 1) : p = At(i) /\ NextMonth(kind, p) = At(i + 1)
  <2> DEFINE m == IF kind = "HISTORY" THEN Greater(0, Snapshot - Start)
                                      ELSE Greater(0, End - FutureStart + 1)
  <2>1. m \in Nat
      BY <1>4 DEF Greater
  <2>2. ASSUME NEW p \in MonthsOf(kind)
        PROVE  \E i \in 0..(m - 1) : p = At(i) /\ NextMonth(kind, p) = At(i + 1)
    <3>1. CASE kind = "HISTORY"
      <4>1. p \in Start..(Snapshot - 1)
          BY <2>2, <3>1 DEF MonthsOf, HistoryMonths
      <4>2. Snapshot - 1 - p \in 0..(m - 1)
          BY <1>4, <3>1, <4>1 DEF Greater
      <4> QED
          BY <1>4, <3>1, <4>1, <4>2 DEF NextMonth
    <3>2. CASE kind # "HISTORY"
      <4>1. p \in FutureStart..End
          BY <2>2, <3>2 DEF MonthsOf, ForecastMonths
      <4>2. p - FutureStart \in 0..(m - 1)
          BY <1>4, <3>2, <4>1 DEF Greater
      <4> QED
          BY <1>4, <3>2, <4>1, <4>2 DEF NextMonth
    <3> QED
        BY <3>1, <3>2
  <2> QED
      BY <2>1, <2>2
<1>6. PICK g : Good(m, g)
  <2>1. m \in M
      BY <1>3
  <2> QED
      BY <2>1 DEF M
<1> DEFINE t == [p \in Int |-> g[IF kind = "HISTORY" THEN Snapshot - 1 - p
                                                  ELSE p - FutureStart]]
<1>7. \A i \in Nat : At(i) \in Int /\ t[At(i)] = g[i]
    BY <1>4
<1>8. At(0) = FirstMonth(kind)
    BY <1>4 DEF FirstMonth
<1> HIDE DEF t, At
<1>9. t[FirstMonth(kind)] = StartOf(in, kind, id)
  <2>1. 0 \in Nat
      OBVIOUS
  <2> QED
      BY <1>6, <1>7, <1>8, <2>1
<1>10. ASSUME NEW p \in MonthsOf(kind)
       PROVE  t[NextMonth(kind, p)] = After(in, kind, id, p, t[p])
  <2>1. PICK i \in 0..(m - 1) : p = At(i) /\ NextMonth(kind, p) = At(i + 1)
      BY <1>5
  <2>2. g[i + 1] = After(in, kind, id, At(i), g[i])
      BY <1>6, <2>1
  <2>3. i \in Nat /\ i + 1 \in Nat
      OBVIOUS
  <2> QED
      BY <1>7, <2>1, <2>2, <2>3
<1>11. IsTrail(t, in, kind, id)
    BY <1>9, <1>10 DEF IsTrail
<1> QED
    BY <1>11 DEF Trail

\* A job's line is that job's.
LEMMA LineFromIs ==
    ASSUME BookInv, NEW in, InputAfter(in, MaxAssumptions),
           NEW job \in JobsDue(in), NEW i \in AssetsOf(job, in), NEW s
    PROVE  LET l == LineFrom(in, job.kind, i, job.period, s)
           IN  l.id = i /\ JobOf(l) = job
<1> DEFINE l == LineFrom(in, job.kind, i, job.period, s)
<1>1. CASE job.kind = "SNAPSHOT"
  <2>1. job = Job("SNAPSHOT", None, Snapshot) /\ i \in IdsOf(book.cards, DOMAIN book.cards)
      BY <1>1, JobOfKind DEF AssetsOf
  <2>2. PICK k \in DOMAIN book.cards : i = book.cards[k].id
                                       /\ AssetById(book.cards, i) = book.cards[k]
      BY <2>1, BookIs, FoundById DEF IdsOf
  <2>3. l = SnapshotLine(book.workbook, book.cards[k])
      BY <1>1, <2>2 DEF LineFrom
  <2>4. l.kind = "SNAPSHOT" /\ l.id = i /\ l.period = Snapshot
      BY <2>2, <2>3, SnapshotLineIs
  <2> HIDE DEF l
  <2> QED
      BY <2>1, <2>4 DEF JobOf, l
<1>2. CASE job.kind = "HISTORY"
  <2>1. job = Job("HISTORY", job.id, job.period) /\ i = job.id
        /\ i \in IdsOf(in.cards, Included(in.cards))
      BY <1>2, JobOfKind DEF AssetsOf
  <2>2. AssetById(in.cards, i).id = i
      BY <2>1, CardOfJob
  <2>3. l.kind = "HISTORY" /\ l.id = i /\ l.period = job.period
      BY <1>2, <2>2, LineIs DEF LineFrom
  <2> HIDE DEF l
  <2> QED
      BY <2>1, <2>3 DEF JobOf, l
<1>3. CASE job.kind = "EXISTING"
  <2>1. job = Job("EXISTING", job.id, job.period) /\ i = job.id
        /\ i \in IdsOf(in.cards, Single(in.cards))
      BY <1>3, JobOfKind DEF AssetsOf
  <2>2. AssetById(in.cards, i).id = i /\ MethodOf(AssetById(in.cards, i)) # "WORKLOAD"
      BY <2>1, CardOfJob
  <2>3. /\ l.kind = "FORECAST" /\ l.source = "CURRENT" /\ l.id = i
        /\ l.period = job.period /\ l.method # "WORKLOAD"
      BY <1>3, <2>2, LineIs DEF LineFrom
  <2> HIDE DEF l
  <2> QED
      BY <2>1, <2>3 DEF JobOf, l
<1>4. CASE job.kind = "WORKLOAD"
  <2>1. job = Job("WORKLOAD", None, job.period)
        /\ i \in IdsOf(in.cards, Pooled(in.cards))
      BY <1>4, JobOfKind DEF AssetsOf
  <2>2. AssetById(in.cards, i).id = i /\ MethodOf(AssetById(in.cards, i)) = "WORKLOAD"
      BY <2>1, CardOfJob
  <2>3. /\ l.kind = "FORECAST" /\ l.source = "CURRENT" /\ l.id = i
        /\ l.period = job.period /\ l.method = "WORKLOAD"
      BY <1>4, <2>2, LineIs DEF LineFrom, PoolLine
  <2> HIDE DEF l
  <2> QED
      BY <2>1, <2>3 DEF JobOf, l
<1>5. CASE job.kind = "PLANNED"
  <2>1. job = Job("PLANNED", job.id, job.period) /\ i = job.id
        /\ i \in IdsOf(in.planned, Included(in.planned))
      BY <1>5, JobOfKind DEF AssetsOf
  <2>2. AssetById(in.planned, i).id = i
      BY <2>1, CardOfJob
  <2>3. /\ l.kind = "FORECAST" /\ l.source = "PLANNED" /\ l.id = i
        /\ l.period = job.period
      BY <1>5, <2>2, LineIs DEF LineFrom
  <2> HIDE DEF l
  <2> QED
      BY <2>1, <2>3 DEF JobOf, l
<1> QED
    BY <1>1, <1>2, <1>3, <1>4, <1>5, JobOfKind

\* What a job step writes and hands on, exactly.
Writes(job) ==
    LET s == StateOf(carry, job.kind, job.id)
    IN  /\ lines' = lines \cup {LineFrom(input, job.kind, i, job.period, s) :
                                  i \in AssetsOf(job, input)}
        /\ job.kind # "SNAPSHOT" =>
              StateOf(carry', job.kind, job.id) =
                 After(input, job.kind, job.id, job.period, s)
        /\ \A k \in JobsDue(input) :
              k.kind # "SNAPSHOT" /\ (k.kind # job.kind \/ k.id # job.id) =>
                 StateOf(carry', k.kind, k.id) = StateOf(carry, k.kind, k.id)

LEMMA StepWrites ==
    ASSUME ForecastInv, JobStep
    PROVE  Writes(Head(todo))
<1> DEFINE job == Head(todo)
           s == StateOf(carry, job.kind, job.id)
<1>1. todo # <<>> /\ job \in JobsDue(input)
  <2>1. todo # <<>>
      BY StepAdds
  <2> QED
      BY <2>1, AgendaMoves DEF ForecastInv
<1>2. BookInv /\ InputAfter(input, MaxAssumptions) /\ CarryFits(carry, input)
    BY <1>1 DEF ForecastInv, Running
<1>3. CASE HistoricalStep
  <2> DEFINE a == AssetById(input.cards, job.id)
             m == HistoricalMonth(a, PolicyFor(a), job.period, s, input.drivers)
  <2>1. job.kind = "HISTORY" /\ job.id \in IdsOf(input.cards, Included(input.cards))
      BY <1>1, <1>3, JobOfKind DEF HistoricalStep, Next_
  <2>2. a.id = job.id /\ job.id \in DOMAIN carry.history
      BY <1>2, <2>1, CardOfJob DEF CarryFits
  <2>3. /\ lines' = lines \cup {Line("HISTORY", "CURRENT", a, job.period, m)}
        /\ carry' = [carry EXCEPT !.history[job.id] = m.carried]
      BY <1>3, <2>1, <2>2 DEF HistoricalStep, StateOf
  <2>4. /\ LineFrom(input, "HISTORY", job.id, job.period, s)
              = Line("HISTORY", "CURRENT", a, job.period, m)
        /\ After(input, "HISTORY", job.id, job.period, s) = m.carried
      BY DEF LineFrom, After
  <2> HIDE DEF m, a, job
  <2>5. /\ carry'.history = [carry.history EXCEPT ![job.id] = m.carried]
        /\ carry'.work = carry.work /\ carry'.net = carry.net
        /\ carry'.planned = carry.planned
      BY <1>2, <2>3, CarryMoves
  <2>6. AssetsOf(job, input) = {job.id}
      BY <2>1 DEF AssetsOf
  <2>7. StateOf(carry', "HISTORY", job.id) = m.carried
      BY <2>2, <2>5 DEF StateOf
  <2>8. ASSUME NEW k \in JobsDue(input), k.kind # job.kind \/ k.id # job.id
        PROVE  StateOf(carry', k.kind, k.id) = StateOf(carry, k.kind, k.id)
      BY <2>1, <2>5, <2>8 DEF StateOf
  <2> HIDE DEF s
  <2> QED
      BY <2>1, <2>3, <2>4, <2>6, <2>7, <2>8 DEF Writes, s, job
<1>4. CASE TakeSnapshotLines
  <2>1. job.kind = "SNAPSHOT" /\ carry' = carry
      BY <1>4 DEF TakeSnapshotLines, Next_
  <2> HIDE DEF job
  <2>2. AssetsOf(job, input) = IdsOf(book.cards, DOMAIN book.cards)
      BY <2>1 DEF AssetsOf
  <2>3. \A k \in DOMAIN book.cards : AssetById(book.cards, book.cards[k].id) = book.cards[k]
      BY <1>2, BookIs, FoundById
  <2>4. {LineFrom(input, job.kind, i, job.period, s) : i \in AssetsOf(job, input)}
          = {SnapshotLine(book.workbook, book.cards[k]) : k \in DOMAIN book.cards}
    <3>1. \A i : LineFrom(input, job.kind, i, job.period, s) =
                     SnapshotLine(book.workbook, AssetById(book.cards, i))
        BY <2>1 DEF LineFrom
    <3> HIDE DEF s
    <3> QED
        BY <2>2, <2>3, <3>1 DEF IdsOf
  <2> HIDE DEF s
  <2> QED
      BY <1>4, <2>1, <2>4 DEF Writes, TakeSnapshotLines, s, job
<1>5. CASE ExistingStep
  <2> DEFINE a == AssetById(input.cards, job.id)
             m == ExistingMonth(a, PolicyFor(a), job.period, s, input.events,
                                input.drivers)
  <2>1. job.kind = "EXISTING" /\ job.id \in IdsOf(input.cards, Single(input.cards))
      BY <1>1, <1>5, JobOfKind DEF ExistingStep, Next_
  <2>2. a.id = job.id /\ job.id \in DOMAIN carry.work
      BY <1>2, <2>1, CardOfJob DEF CarryFits
  <2>3. /\ lines' = lines \cup {Line("FORECAST", "CURRENT", a, job.period, m)}
        /\ carry' = [carry EXCEPT !.work[job.id] = m.work]
      BY <1>5, <2>1, <2>2 DEF ExistingStep, StateOf
  <2>4. /\ LineFrom(input, "EXISTING", job.id, job.period, s)
              = Line("FORECAST", "CURRENT", a, job.period, m)
        /\ After(input, "EXISTING", job.id, job.period, s) = m.work
      BY DEF LineFrom, After
  <2> HIDE DEF m, a, job
  <2>5. /\ carry'.work = [carry.work EXCEPT ![job.id] = m.work]
        /\ carry'.history = carry.history /\ carry'.net = carry.net
        /\ carry'.planned = carry.planned
      BY <1>2, <2>3, CarryMoves
  <2>6. AssetsOf(job, input) = {job.id}
      BY <2>1 DEF AssetsOf
  <2>7. StateOf(carry', "EXISTING", job.id) = m.work
      BY <2>2, <2>5 DEF StateOf
  <2>8. ASSUME NEW k \in JobsDue(input), k.kind # job.kind \/ k.id # job.id
        PROVE  StateOf(carry', k.kind, k.id) = StateOf(carry, k.kind, k.id)
      BY <2>1, <2>5, <2>8 DEF StateOf
  <2> HIDE DEF s
  <2> QED
      BY <2>1, <2>3, <2>4, <2>6, <2>7, <2>8 DEF Writes, s, job
<1>6. CASE WorkloadStep
  <2>1. job.kind = "WORKLOAD" /\ job = Job("WORKLOAD", None, job.period)
      BY <1>1, <1>6, JobOfKind DEF WorkloadStep, Next_
  <2>2. s = carry.net
      BY <2>1 DEF StateOf
  <2>3. \A i, p : PooledAmount(i, p) = AmountFrom(carry.net, input, i, p)
    <3>1. \A t : PoolMembers(t) = MembersOf(carry.net, input, t)
        BY DEF PoolMembers, MembersOf
    <3>2. \A t, p : DuesOf(t, p) = DuesFrom(carry.net, input, t, p)
        BY <3>1 DEF DuesOf, DuesFrom
    <3> QED
        BY <3>1, <3>2 DEF PooledAmount, AmountFrom
  <2>4. /\ lines' = lines \cup
              {PoolLine(carry.net, input, i, job.period) : i \in DOMAIN carry.net}
        /\ carry' = [carry EXCEPT !.net =
              [i \in DOMAIN carry.net |->
                  carry.net[i] - AmountFrom(carry.net, input, i, job.period)]]
    <3>1. /\ lines' = lines \cup
                {Line("FORECAST", "CURRENT", AssetById(input.cards, i), job.period,
                      PooledMonth(i, job.period)) : i \in DOMAIN carry.net}
          /\ carry' = [carry EXCEPT !.net =
                [i \in DOMAIN carry.net |->
                    carry.net[i] - PooledAmount(i, job.period)]]
      <4> DEFINE amount == [i \in DOMAIN carry.net |-> PooledAmount(i, job.period)]
      <4>1. carry' = [carry EXCEPT !.net = [i \in DOMAIN @ |-> @[i] - amount[i]]]
          BY <1>6 DEF WorkloadStep
      <4>2. [i \in DOMAIN carry.net |-> carry.net[i] - amount[i]]
              = [i \in DOMAIN carry.net |-> carry.net[i] - PooledAmount(i, job.period)]
          OBVIOUS
      <4> HIDE DEF amount
      <4>3. carry' = [carry EXCEPT !.net =
                         [i \in DOMAIN carry.net |-> carry.net[i] - amount[i]]]
          BY <4>1
      <4> QED
          BY <1>6, <4>2, <4>3 DEF WorkloadStep
    <3>2. \A i : PoolLine(carry.net, input, i, job.period) =
                   Line("FORECAST", "CURRENT", AssetById(input.cards, i), job.period,
                        PooledMonth(i, job.period))
        BY <2>3 DEF PoolLine, PooledMonth
    <3> QED
        BY <2>3, <3>1, <3>2
  <2> HIDE DEF job
  <2>5. \A i : LineFrom(input, "WORKLOAD", i, job.period, carry.net) =
                   PoolLine(carry.net, input, i, job.period)
      BY DEF LineFrom
  <2>6. After(input, "WORKLOAD", job.id, job.period, carry.net) =
            [i \in DOMAIN carry.net |->
                carry.net[i] - AmountFrom(carry.net, input, i, job.period)]
      BY DEF After
  <2>7. /\ carry'.net = After(input, "WORKLOAD", job.id, job.period, carry.net)
        /\ carry'.history = carry.history /\ carry'.work = carry.work
        /\ carry'.planned = carry.planned
      BY <1>2, <2>4, <2>6, CarryMoves
  <2>8. AssetsOf(job, input) = DOMAIN carry.net
      BY <1>2, <2>1 DEF AssetsOf, CarryFits
  <2>9. ASSUME NEW k \in JobsDue(input), k.kind # job.kind \/ k.id # job.id
        PROVE  StateOf(carry', k.kind, k.id) = StateOf(carry, k.kind, k.id)
    <3>1. k.kind # "WORKLOAD"
      <4>1. k.kind = "WORKLOAD" => k.id = None
          BY JobOfKind DEF Job
      <4> QED
          BY <2>1, <2>9, <4>1 DEF Job
    <3> QED
        BY <2>7, <3>1 DEF StateOf
  <2>10. StateOf(carry', "WORKLOAD", job.id) = carry'.net
      BY DEF StateOf
  <2> HIDE DEF s
  <2> QED
      BY <2>1, <2>2, <2>4, <2>5, <2>7, <2>8, <2>9, <2>10 DEF Writes, s, job
<1>7. CASE PlannedStep
  <2> DEFINE a == AssetById(input.planned, job.id)
             m == PlannedMonth(a, PolicyFor(a), job.period, s)
             v == s + m.amount
  <2>1. job.kind = "PLANNED" /\ job.id \in IdsOf(input.planned, Included(input.planned))
      BY <1>1, <1>7, JobOfKind DEF PlannedStep, Next_
  <2>2. a.id = job.id /\ job.id \in DOMAIN carry.planned
      BY <1>2, <2>1, CardOfJob DEF CarryFits
  <2>3. /\ lines' = lines \cup {Line("FORECAST", "PLANNED", a, job.period, m)}
        /\ carry' = [carry EXCEPT !.planned[job.id] = v]
      BY <1>7, <2>1, <2>2 DEF PlannedStep, StateOf
  <2>4. /\ LineFrom(input, "PLANNED", job.id, job.period, s)
              = Line("FORECAST", "PLANNED", a, job.period, m)
        /\ After(input, "PLANNED", job.id, job.period, s) = v
      BY DEF LineFrom, After
  <2> HIDE DEF m, a, job, v
  <2>5. /\ carry'.planned = [carry.planned EXCEPT ![job.id] = v]
        /\ carry'.history = carry.history /\ carry'.net = carry.net
        /\ carry'.work = carry.work
      BY <1>2, <2>3, CarryMoves
  <2>6. AssetsOf(job, input) = {job.id}
      BY <2>1 DEF AssetsOf
  <2>7. StateOf(carry', "PLANNED", job.id) = v
      BY <2>2, <2>5 DEF StateOf
  <2>8. ASSUME NEW k \in JobsDue(input), k.kind # "SNAPSHOT",
               k.kind # job.kind \/ k.id # job.id
        PROVE  StateOf(carry', k.kind, k.id) = StateOf(carry, k.kind, k.id)
    <3>1. k.kind \in {"HISTORY", "EXISTING", "WORKLOAD", "PLANNED"}
        BY <2>8, JobOfKind
    <3> QED
        BY <2>1, <2>5, <2>8, <3>1 DEF StateOf
  <2> HIDE DEF s
  <2> QED
      BY <2>1, <2>3, <2>4, <2>6, <2>7, <2>8 DEF Writes, s, job
<1> QED
    BY <1>3, <1>4, <1>5, <1>6, <1>7 DEF JobStep

LEMMA SameLedger ==
    ASSUME book' = book, NEW in, NEW kind, NEW id, NEW job, NEW i, NEW p, NEW s
    PROVE  /\ Trail(in, kind, id)' = Trail(in, kind, id)
           /\ FoundIn(in, job)' = FoundIn(in, job)
           /\ LineDue(in, job, i)' = LineDue(in, job, i)
           /\ DirectLines(in)' = DirectLines(in)
<1>1. /\ Start' = Start /\ End' = End /\ Snapshot' = Snapshot
      /\ FutureStart' = FutureStart /\ SpansSnapshot' = SpansSnapshot
    BY DEF Start, End, Snapshot, FutureStart, SpansSnapshot
<1>2. ASSUME NEW a PROVE PolicyFor(a)' = PolicyFor(a) /\ MethodOf(a)' = MethodOf(a)
    BY DEF MethodOf, PolicyFor
<1>3. ASSUME NEW cards
      PROVE  Pooled(cards)' = Pooled(cards)
    BY <1>2 DEF Pooled, Included
<1>4. ASSUME NEW k, NEW j PROVE StartOf(in, k, j)' = StartOf(in, k, j)
    BY <1>1, <1>2, <1>3 DEF StartOf
<1>5. ASSUME NEW net, NEW j, NEW q
      PROVE  AmountFrom(net, in, j, q)' = AmountFrom(net, in, j, q)
  <2>1. ASSUME NEW a PROVE PolicyFor(a)' = PolicyFor(a)
      BY <1>2
  <2>2. ASSUME NEW t, NEW r PROVE DuesFrom(net, in, t, r)' = DuesFrom(net, in, t, r)
      BY <2>1 DEF DuesFrom, MembersOf
  <2> QED
      BY <2>2 DEF AmountFrom, MembersOf
<1>6. ASSUME NEW k, NEW j, NEW q, NEW r
      PROVE  After(in, k, j, q, r)' = After(in, k, j, q, r)
    BY <1>2, <1>5 DEF After
<1>7. ASSUME NEW k PROVE /\ FirstMonth(k)' = FirstMonth(k)
                         /\ MonthsOf(k)' = MonthsOf(k)
    BY <1>1 DEF FirstMonth, MonthsOf, HistoryMonths, ForecastMonths
<1>8. ASSUME NEW t, NEW k, NEW j
      PROVE  IsTrail(t, in, k, j)' = IsTrail(t, in, k, j)
    BY <1>4, <1>6, <1>7 DEF IsTrail, NextMonth
<1>9. ASSUME NEW k, NEW j PROVE Trail(in, k, j)' = Trail(in, k, j)
    BY <1>8 DEF Trail
<1>10. ASSUME NEW j PROVE FoundIn(in, j)' = FoundIn(in, j)
    BY <1>9 DEF FoundIn
<1>11. ASSUME NEW kind2, NEW source, NEW a, NEW q, NEW m
       PROVE  Line(kind2, source, a, q, m)' = Line(kind2, source, a, q, m)
    BY <1>2 DEF Line
<1>12. ASSUME NEW net, NEW j, NEW q
       PROVE  PoolLine(net, in, j, q)' = PoolLine(net, in, j, q)
    BY <1>5, <1>11 DEF PoolLine
<1>13. ASSUME NEW k, NEW j, NEW q, NEW r
       PROVE  LineFrom(in, k, j, q, r)' = LineFrom(in, k, j, q, r)
    BY <1>2, <1>11, <1>12 DEF LineFrom
<1>14. ASSUME NEW j, NEW x PROVE LineDue(in, j, x)' = LineDue(in, j, x)
    BY <1>10, <1>13 DEF LineDue
<1>15. DirectLines(in)' = DirectLines(in)
    BY <1>14, SameAgenda DEF DirectLines
<1> QED
    BY <1>9, <1>10, <1>14, <1>15

\* What the next job of an asset finds is what its trail says, and so it was
\* with every line that is written.
LedgerInv ==
    /\ \A x \in DOMAIN todo :
          LET job == todo[x]
          IN  /\ job.kind # "SNAPSHOT"
              /\ First(job) \/ \E l \in lines : Follows(JobOf(l), job)
              => StateOf(carry, job.kind, job.id) = FoundIn(input, job)
    /\ \A l \in lines : l = LineDue(input, JobOf(l), l.id)

\* The month before a month that is due is due as well.
LEMMA MonthBefore ==
    ASSUME BookInv, NEW in, NEW job \in JobsDue(in), job.kind # "SNAPSHOT", ~First(job)
    PROVE  \E k \in JobsDue(in) : /\ Follows(k, job)
                                  /\ AssetsOf(k, in) = AssetsOf(job, in)
                                  /\ Precedes(k, job)
<1>1. /\ Start \in Int /\ End \in Int /\ Snapshot \in Int /\ FutureStart \in Int
    BY BookIs
<1>2. CASE job.kind = "HISTORY"
  <2> DEFINE k == Job("HISTORY", job.id, job.period + 1)
  <2>1. /\ job.id \in IdsOf(in.cards, Included(in.cards))
        /\ job.period \in HistoryMonths
      BY <1>2, JobOfKind
  <2>2. job.period + 1 \in HistoryMonths /\ job.period \in Int
      BY <1>1, <1>2, <2>1 DEF HistoryMonths, First
  <2>3. k \in JobsDue(in)
      BY <2>1, <2>2, DueMeans DEF JobsDue
  <2>4. k.kind = "HISTORY" /\ k.id = job.id /\ k.period = job.period + 1
      BY DEF Job
  <2> HIDE DEF k
  <2>5. Follows(k, job) /\ AssetsOf(k, in) = AssetsOf(job, in) /\ Precedes(k, job)
      BY <1>2, <2>2, <2>4 DEF Follows, AssetsOf, Precedes
  <2> QED
      BY <2>3, <2>5
<1>3. CASE job.kind # "HISTORY"
  <2> DEFINE k == Job(job.kind, job.id, job.period - 1)
  <2>1. job.period \in ForecastMonths /\ job.kind \in {"EXISTING", "WORKLOAD", "PLANNED"}
      BY <1>3, JobOfKind
  <2>2. job.period - 1 \in ForecastMonths /\ job.period \in Int
      BY <1>1, <1>3, <2>1 DEF ForecastMonths, First
  <2>3. k \in JobsDue(in)
    <3>1. CASE job.kind = "EXISTING"
        BY <2>2, <3>1, JobOfKind, DueMeans DEF JobsDue
    <3>2. CASE job.kind = "WORKLOAD"
      <4>1. job \in PoolDue(in) /\ job.id = None
          BY <3>2 DEF JobsDue, HistoryDue, SnapshotDue, ExistingDue, PoolDue,
                      PlannedDue, Job
      <4>2. Pooled(in.cards) # {}
          BY <4>1 DEF PoolDue
      <4>3. k \in PoolDue(in)
          BY <2>2, <3>2, <4>1, <4>2 DEF PoolDue
      <4> QED
          BY <4>3 DEF JobsDue
    <3>3. CASE job.kind = "PLANNED"
        BY <2>2, <3>3, JobOfKind, DueMeans DEF JobsDue
    <3> QED
        BY <2>1, <3>1, <3>2, <3>3
  <2>4. k.kind = job.kind /\ k.id = job.id /\ k.period = job.period - 1
      BY DEF Job
  <2> HIDE DEF k
  <2>5. Follows(k, job) /\ AssetsOf(k, in) = AssetsOf(job, in) /\ Precedes(k, job)
      BY <1>3, <2>2, <2>4 DEF Follows, AssetsOf, Precedes
  <2> QED
      BY <2>3, <2>5
<1> QED
    BY <1>2, <1>3

\* The job at the head finds what its trail says.
LEMMA HeadFinds ==
    ASSUME ForecastInv, AgendaInv, LedgerInv, JobStep, Head(todo).kind # "SNAPSHOT"
    PROVE  LET head == Head(todo)
           IN  StateOf(carry, head.kind, head.id) = FoundIn(input, head)
<1> DEFINE head == Head(todo)
<1>1. /\ todo # <<>> /\ todo \in Seq(JobsDue(input)) /\ Ordered(todo) /\ BookInv
    BY StepAdds DEF ForecastInv
<1>2. 1 \in DOMAIN todo /\ todo[1] = head /\ head \in JobsDue(input)
      /\ \A x \in DOMAIN todo : x \in Nat /\ x >= 1
    BY <1>1
<1>3. phase # "ready"
    BY <1>1 DEF ForecastInv, Running
<1> HIDE DEF head
<1>4. First(head) \/ \E l \in lines : Follows(JobOf(l), head)
  <2> SUFFICES ASSUME ~First(head) PROVE \E l \in lines : Follows(JobOf(l), head)
      OBVIOUS
  <2>1. head.kind # "SNAPSHOT"
      BY DEF head
  <2>2. PICK k \in JobsDue(input) : /\ Follows(k, head)
                                    /\ AssetsOf(k, input) = AssetsOf(head, input)
                                    /\ Precedes(k, head)
      BY <1>1, <1>2, <2>1, MonthBefore
  <2>3. head.period \in Int /\ k.period \in Int
      BY <1>1, <1>2, JobOfKind, MonthsInt, BookIs DEF Job
  <2>4. ~ \E x \in DOMAIN todo : todo[x] = k
    <3> SUFFICES ASSUME NEW x \in DOMAIN todo, todo[x] = k PROVE FALSE
        OBVIOUS
    <3>1. x # 1
        BY <1>2, <2>2, <2>3 DEF Precedes
    <3>2. 1 < x
        BY <1>2, <3>1
    <3>3. IF head.kind = "HISTORY" THEN head.period > k.period
                                   ELSE head.period < k.period
        BY <1>1, <1>2, <2>2, <3>2 DEF Ordered, Follows
    <3> QED
        BY <2>2, <2>3, <3>3 DEF Follows, Precedes
  <2>5. \A i \in AssetsOf(k, input) : \E l \in lines : l.id = i /\ JobOf(l) = k
      BY <1>3, <2>4 DEF AgendaInv
  <2>6. \E i : i \in AssetsOf(head, input)
    <3>1. CASE head.kind = "WORKLOAD"
      <4>1. head \in PoolDue(input)
          BY <1>2, <3>1 DEF JobsDue, HistoryDue, SnapshotDue, ExistingDue, PoolDue,
                      PlannedDue, Job
      <4>2. Pooled(input.cards) # {}
          BY <4>1 DEF PoolDue
      <4> QED
          BY <3>1, <4>2 DEF AssetsOf, IdsOf
    <3>2. CASE head.kind # "WORKLOAD"
        BY <2>1, <3>2 DEF AssetsOf
    <3> QED
        BY <3>1, <3>2
  <2> QED
      BY <2>2, <2>5, <2>6
<1> QED
    BY <1>2, <1>4 DEF LedgerInv, head

LEMMA LedgerStep ==
    ASSUME ForecastInv, AgendaInv, LedgerInv, JobStep
    PROVE  LedgerInv'
<1> DEFINE head == Head(todo)
           s == StateOf(carry, head.kind, head.id)
<1>1. /\ UNCHANGED <<book, input>>
      /\ head \in JobsDue(input)
      /\ \E x \in DOMAIN todo : todo[x] = head
      /\ \A y \in DOMAIN todo' :
            /\ \E x \in DOMAIN todo : todo[x] = todo'[y]
            /\ todo'[y] \in JobsDue(input)
            /\ todo'[y].kind = head.kind /\ todo'[y].id = head.id =>
                  Precedes(head, todo'[y])
      /\ \A l \in lines : JobOf(l).kind = head.kind /\ JobOf(l).id = head.id =>
                              Precedes(JobOf(l), head)
    BY JobStepIs
<1>2. Writes(head)
    BY StepWrites
<1>3. BookInv /\ InputAfter(input, MaxAssumptions)
    BY DEF ForecastInv
<1>4. head.kind # "SNAPSHOT" => s = FoundIn(input, head)
    BY HeadFinds
<1> HIDE DEF head
<1>5. \A job \in JobsDue(input) : job.period \in Int
    BY <1>3, JobOfKind, MonthsInt, BookIs DEF Job
<1>6. \A i \in AssetsOf(head, input) :
          LineFrom(input, head.kind, i, head.period, s) = LineDue(input, head, i)
  <2>1. CASE head.kind = "SNAPSHOT"
      BY <2>1 DEF LineDue, LineFrom
  <2>2. CASE head.kind # "SNAPSHOT"
      BY <1>4, <2>2 DEF LineDue
  <2> QED
      BY <2>1, <2>2
<1>7. ASSUME NEW l \in lines'
      PROVE  \/ l \in lines
             \/ JobOf(l) = head /\ l = LineDue(input, head, l.id)
  <2>1. CASE l \notin lines
    <3>1. PICK i \in AssetsOf(head, input) :
              l = LineFrom(input, head.kind, i, head.period, s)
        BY <1>2, <2>1 DEF Writes
    <3>2. l.id = i /\ JobOf(l) = head
        BY <1>1, <1>3, <3>1, LineFromIs
    <3> QED
        BY <1>6, <3>1, <3>2
  <2> QED
      BY <2>1
<1>8. ASSUME NEW l \in lines' PROVE l = LineDue(input, JobOf(l), l.id)
    BY <1>7 DEF LedgerInv
<1>9. ASSUME NEW y \in DOMAIN todo', todo'[y].kind # "SNAPSHOT",
             First(todo'[y]) \/ \E l \in lines' : Follows(JobOf(l), todo'[y])
      PROVE  StateOf(carry', todo'[y].kind, todo'[y].id) = FoundIn(input, todo'[y])
  <2> DEFINE job == todo'[y]
  <2>1. PICK x \in DOMAIN todo : todo[x] = job
      BY <1>1
  <2>2. job \in JobsDue(input) /\ job.period \in Int /\ head.period \in Int
      BY <1>1, <1>5
  <2>3. CASE job.kind = head.kind /\ job.id = head.id
    <3>1. Precedes(head, job) /\ head.kind # "SNAPSHOT"
        BY <1>1, <1>9, <2>3
    <3>2. /\ head.kind = "HISTORY" => head.period \in HistoryMonths
          /\ head.kind # "HISTORY" => head.period \in ForecastMonths
        BY <1>1, <3>1, JobOfKind
    <3>3. Start \in Int /\ End \in Int /\ Snapshot \in Int /\ FutureStart \in Int
        BY <1>3, BookIs
    <3>4. ~First(job)
      <4>1. /\ head.kind = "HISTORY" => head.period <= Snapshot - 1
            /\ head.kind # "HISTORY" => head.period >= FutureStart
          BY <1>3, <2>2, <3>2, <3>3, MonthsInt
      <4> QED
          BY <2>2, <2>3, <3>1, <3>3, <4>1 DEF First, Precedes
    <3>5. PICK l \in lines' : Follows(JobOf(l), job)
        BY <1>9, <3>4
    <3>6. l \notin lines
      <4> SUFFICES ASSUME l \in lines PROVE FALSE
          OBVIOUS
      <4>1. Precedes(JobOf(l), head) /\ JobOf(l).period \in Int
        <5>1. JobOf(l) \in JobsDue(input)
            BY DEF AgendaInv
        <5> QED
            BY <1>1, <1>5, <2>3, <3>5, <5>1 DEF Follows
      <4> QED
          BY <2>2, <2>3, <3>1, <3>5, <4>1 DEF Follows, Precedes
    <3>7. JobOf(l) = head
        BY <1>7, <3>6
    <3>8. job.period = NextMonth(head.kind, head.period)
        BY <3>5, <3>7 DEF Follows, NextMonth
    <3>9. head.period \in MonthsOf(head.kind)
        BY <3>2 DEF MonthsOf
    <3>10. IsTrail(Trail(input, head.kind, head.id), input, head.kind, head.id)
        BY <1>3, TrailExists
    <3>11. FoundIn(input, job) =
               After(input, head.kind, head.id, head.period, FoundIn(input, head))
        BY <2>3, <3>8, <3>9, <3>10 DEF IsTrail, FoundIn
    <3> QED
        BY <1>2, <1>4, <2>3, <3>1, <3>11 DEF Writes
  <2>4. CASE job.kind # head.kind \/ job.id # head.id
    <3>1. StateOf(carry', job.kind, job.id) = StateOf(carry, job.kind, job.id)
        BY <1>2, <1>9, <2>2, <2>4 DEF Writes
    <3>2. \A l \in lines' : Follows(JobOf(l), job) => l \in lines
        BY <1>7, <2>4 DEF Follows
    <3> QED
        BY <1>9, <2>1, <3>1, <3>2 DEF LedgerInv
  <2> QED
      BY <2>3, <2>4
<1>10. \A job, i : /\ First(job)' = First(job)
                   /\ FoundIn(input, job)' = FoundIn(input, job)
                   /\ LineDue(input, job, i)' = LineDue(input, job, i)
    BY <1>1, SameLedger, SameChain
<1> QED
    BY <1>8, <1>9, <1>10 DEF LedgerInv

LEMMA LedgerBegins ==
    ASSUME ForecastInv, ComputeBaseline \/ (Submit /\ Accepted(Applied(request)))
    PROVE  LedgerInv'
<1>1. /\ book' = book /\ lines' = {}
      /\ InputAfter(input', MaxAssumptions)
      /\ Begin(input')
      /\ todo' \in Seq(JobsDue(input'))
    BY BeginIs DEF Agenda
<1>2. BookInv
    BY DEF ForecastInv
<1>3. /\ carry'.history = [i \in IdsOf(input'.cards, DOMAIN input'.cards) |->
                              HistoryStart(AssetById(input'.cards, i))]
      /\ carry'.work = [i \in IdsOf(input'.cards, Single(input'.cards)) |->
                           LET a == AssetById(input'.cards, i)
                           IN  OpeningWork(a, PolicyFor(a), FutureStart)]
      /\ carry'.net = [i \in IdsOf(input'.cards, Pooled(input'.cards)) |->
                          CardNet(AssetById(input'.cards, i))]
      /\ carry'.planned = [i \in IdsOf(input'.planned, DOMAIN input'.planned) |-> 0]
    BY <1>1 DEF Begin
<1>4. ASSUME NEW job \in JobsDue(input'), job.kind # "SNAPSHOT", First(job)
      PROVE  StateOf(carry', job.kind, job.id) = FoundIn(input', job)
  <2>1. StateOf(carry', job.kind, job.id) = StartOf(input', job.kind, job.id)
    <3>1. CASE job.kind = "HISTORY"
      <4>1. job.id \in IdsOf(input'.cards, DOMAIN input'.cards)
          BY <1>1, <1>2, <3>1, JobOfKind, CardOfJob
      <4> QED
          BY <1>3, <3>1, <4>1 DEF StateOf, StartOf
    <3>2. CASE job.kind = "EXISTING"
      <4>1. job.id \in IdsOf(input'.cards, Single(input'.cards))
          BY <3>2, JobOfKind
      <4> QED
          BY <1>3, <3>2, <4>1 DEF StateOf, StartOf
    <3>3. CASE job.kind = "WORKLOAD"
        BY <1>3, <3>3 DEF StateOf, StartOf
    <3>4. CASE job.kind = "PLANNED"
      <4>1. job.id \in IdsOf(input'.planned, DOMAIN input'.planned)
          BY <1>1, <1>2, <3>4, JobOfKind, CardOfJob
      <4> QED
          BY <1>3, <3>4, <4>1 DEF StateOf, StartOf
    <3> QED
        BY <1>4, <3>1, <3>2, <3>3, <3>4, JobOfKind
  <2>2. IsTrail(Trail(input', job.kind, job.id), input', job.kind, job.id)
      BY <1>2, TrailExists
  <2>3. job.period = FirstMonth(job.kind)
      BY <1>4 DEF First, FirstMonth
  <2> QED
      BY <2>1, <2>2, <2>3 DEF IsTrail, FoundIn
<1>5. \A job, i : /\ First(job)' = First(job)
                  /\ FoundIn(input, job)' = FoundIn(input', job)
                  /\ LineDue(input, job, i)' = LineDue(input', job, i)
    BY <1>1, SameLedger, SameChain
<1> QED
    BY <1>1, <1>4, <1>5 DEF LedgerInv

LEMMA LedgerNext ==
    ASSUME ForecastInv, AgendaInv, LedgerInv, Moves
    PROVE  LedgerInv'
<1>1. CASE ComputeBaseline \/ (Submit /\ Accepted(Applied(request)))
    BY <1>1, LedgerBegins
<1>2. CASE JobStep
    BY <1>2, LedgerStep
<1>3. CASE UNCHANGED <<book, input, todo, carry, lines>>
  <2>1. \A job, i : /\ First(job)' = First(job)
                    /\ FoundIn(input, job)' = FoundIn(input, job)
                    /\ LineDue(input, job, i)' = LineDue(input, job, i)
      BY <1>3, SameLedger, SameChain
  <2> QED
      BY <1>3, <2>1 DEF LedgerInv
<1> QED
    BY <1>1, <1>2, <1>3 DEF Moves, Aside

LEMMA LedgerHolds == Spec => [](ForecastInv /\ AgendaInv /\ LedgerInv)
<1>1. Init => LedgerInv
    BY DEF Init, LedgerInv
<1>2. ForecastInv /\ AgendaInv /\ LedgerInv /\ [Next]_vars => LedgerInv'
    BY LedgerNext, StepsMove
<1> QED
    BY <1>1, <1>2, AgendaHolds, PTL DEF Spec

\* A finished forecast holds the lines its input leads to and no others.
LEMMA LinesAreDirect ==
    ASSUME ForecastInv, AgendaInv, LedgerInv, phase # "ready", todo = <<>>
    PROVE  lines = DirectLines(input)
<1>1. ASSUME NEW l \in lines PROVE l \in DirectLines(input)
  <2>1. JobOf(l) \in JobsDue(input) /\ l.id \in AssetsOf(JobOf(l), input)
      BY DEF AgendaInv
  <2>2. l = LineDue(input, JobOf(l), l.id)
      BY DEF LedgerInv
  <2> QED
      BY <2>1, <2>2 DEF DirectLines
<1>2. ASSUME NEW l \in DirectLines(input) PROVE l \in lines
  <2> PICK job \in JobsDue(input) :
          \E j \in AssetsOf(job, input) : l = LineDue(input, job, j)
      BY <1>2 DEF DirectLines
  <2>1. PICK i \in AssetsOf(job, input) : l = LineDue(input, job, i)
      OBVIOUS
  <2>2. ~ \E x \in DOMAIN todo : todo[x] = job
      OBVIOUS
  <2>3. PICK k \in lines : k.id = i /\ JobOf(k) = job
      BY <2>1, <2>2 DEF AgendaInv
  <2>4. k = LineDue(input, job, i)
      BY <2>3 DEF LedgerInv
  <2> QED
      BY <2>1, <2>3, <2>4
<1> QED
    BY <1>1, <1>2
-----------------------------------------------------------------------------
(* What is stored *)

Results(lns, in, attributions) ==
    [lines |-> lns, summaries |-> Summarize(lns), changes |-> in.changes,
     attributions |-> attributions]

ScenarioResult ==
    Results(lines, input, Attribute(BaselineRead, lines, input.changes))

\* The baseline in the store is the forecast of the book as it is, the
\* scenario that of the request, compared with the baseline as it is read.
ResultInv ==
    /\ stored = [BASELINE |-> stored.BASELINE, SCENARIO |-> stored.SCENARIO]
    /\ phase = "baseline" => input = BaselineInput
    /\ phase \in {"scenario", "stored"} =>
          Applied(request) # Refused /\ input = Applied(request)
    /\ phase \notin {"ready", "baseline"} =>
          stored.BASELINE = Results(DirectLines(BaselineInput), BaselineInput, {})
    /\ phase = "stored" =>
          /\ lines = DirectLines(input)
          /\ stored.SCENARIO = ScenarioResult

\* The store writes what was computed.
LEMMA StoreWrites ==
    ASSUME ForecastInv, AgendaInv, LedgerInv, ResultInv, Store
    PROVE  ResultInv'
<1>1. /\ UNCHANGED <<book, request, input, todo, carry, lines>>
      /\ todo = <<>> /\ phase \in {"baseline", "scenario"}
    BY DEF Store
<1>2. lines = DirectLines(input)
    BY <1>1, LinesAreDirect
<1>3. /\ DirectLines(input)' = DirectLines(input)
      /\ DirectLines(BaselineInput)' = DirectLines(BaselineInput)
      /\ BaselineInput' = BaselineInput
      /\ Applied(request)' = Applied(request)
  <2>1. BaselineInput' = BaselineInput
      BY <1>1 DEF BaselineInput
  <2>2. \A in : DirectLines(in)' = DirectLines(in)
      BY <1>1, SameLedger
  <2>3. /\ DirectLines(input)' = DirectLines(input)
        /\ DirectLines(BaselineInput)' = DirectLines(BaselineInput)
      BY <1>1, <2>1, <2>2
  <2>4. Applied(request)' = Applied(request)
      BY <1>1, SameApplied
  <2> QED
      BY <2>1, <2>3, <2>4
<1>4. CASE phase = "baseline"
  <2>1. phase' = "choosing" /\ stored' = [stored EXCEPT !.BASELINE = Result]
      BY <1>4 DEF Store
  <2>2. Result = Results(DirectLines(BaselineInput), BaselineInput, {})
      BY <1>2, <1>4 DEF Result, Results, ResultInv
  <2>3. stored'.BASELINE = Result
        /\ stored' = [BASELINE |-> stored'.BASELINE, SCENARIO |-> stored'.SCENARIO]
      BY <2>1 DEF ResultInv
  <2>4. Results(DirectLines(BaselineInput), BaselineInput, {})' =
            Results(DirectLines(BaselineInput), BaselineInput, {})
      BY <1>3 DEF Results
  <2> QED
      BY <2>1, <2>2, <2>3, <2>4 DEF ResultInv
<1>5. CASE phase = "scenario"
  <2>1. phase' = "stored" /\ stored' = [stored EXCEPT !.SCENARIO = Result]
      BY <1>5 DEF Store
  <2>2. Result = ScenarioResult
      BY <1>5 DEF Result, Results, ScenarioResult
  <2>3. stored'.BASELINE = stored.BASELINE /\ stored'.SCENARIO = Result
        /\ stored' = [BASELINE |-> stored'.BASELINE, SCENARIO |-> stored'.SCENARIO]
      BY <2>1 DEF ResultInv
  <2>4. Results(DirectLines(BaselineInput), BaselineInput, {})' =
            Results(DirectLines(BaselineInput), BaselineInput, {})
      BY <1>3 DEF Results
  <2>5. BaselineRead' = BaselineRead
      BY <2>3 DEF BaselineRead
  <2>6. ScenarioResult' = ScenarioResult
      BY <1>1, <2>5 DEF Results, ScenarioResult
  <2>7. Applied(request) # Refused /\ input = Applied(request)
        /\ stored.BASELINE = Results(DirectLines(BaselineInput), BaselineInput, {})
      BY <1>5 DEF ResultInv
  <2> QED
      BY <1>1, <1>2, <1>3, <2>1, <2>2, <2>3, <2>4, <2>6, <2>7 DEF ResultInv
<1> QED
    BY <1>1, <1>4, <1>5

\* A step that leaves the store and what it is about alone.
LEMMA ResultStays ==
    ASSUME ResultInv, UNCHANGED <<book, stored>>,
           phase # phase' => phase' \in {"choosing", "refused"},
           phase' \in {"choosing", "refused"} => phase \notin {"ready", "baseline"},
           phase' \notin {"choosing", "refused", "ready"} =>
              UNCHANGED <<request, input>>,
           phase' = "stored" => lines' = lines
    PROVE  ResultInv'
<1>1. \A in : DirectLines(in)' = DirectLines(in)
    BY SameLedger
<1>2. /\ DirectLines(BaselineInput)' = DirectLines(BaselineInput)
      /\ BaselineInput' = BaselineInput
  <2>1. BaselineInput' = BaselineInput
      BY DEF BaselineInput
  <2> QED
      BY <1>1, <2>1
<1>3. request' = request => Applied(request)' = Applied(request)
    BY SameApplied
<1>4. BaselineRead' = BaselineRead
    BY DEF BaselineRead
<1>5. phase' = "baseline" => phase = "baseline" /\ input' = input
    OBVIOUS
<1>6. phase' \in {"scenario", "stored"} => phase = phase' /\ input' = input /\ request' = request
    OBVIOUS
<1>7. phase' \notin {"ready", "baseline"} => phase \notin {"ready", "baseline"}
    OBVIOUS
<1>8. (phase = "baseline" => input = BaselineInput)'
    BY <1>2, <1>5 DEF ResultInv
<1>9. (phase \in {"scenario", "stored"} =>
          Applied(request) # Refused /\ input = Applied(request))'
    BY <1>3, <1>6 DEF ResultInv
<1>10. (phase \notin {"ready", "baseline"} =>
          stored.BASELINE = Results(DirectLines(BaselineInput), BaselineInput, {}))'
    BY <1>2, <1>7 DEF ResultInv, Results
<1>11. phase' = "stored" =>
          /\ lines' = DirectLines(input)'
          /\ stored'.SCENARIO = ScenarioResult'
  <2> SUFFICES ASSUME phase' = "stored"
               PROVE  /\ lines' = DirectLines(input)'
                      /\ stored'.SCENARIO = ScenarioResult'
      OBVIOUS
  <2>1. phase = "stored" /\ input' = input /\ lines' = lines
      BY <1>6
  <2>2. lines' = DirectLines(input)'
      BY <1>1, <2>1 DEF ResultInv
  <2>3. ScenarioResult' = ScenarioResult
      BY <1>4, <2>1 DEF Results, ScenarioResult
  <2> QED
      BY <2>1, <2>2, <2>3 DEF ResultInv
<1>12. (stored = [BASELINE |-> stored.BASELINE, SCENARIO |-> stored.SCENARIO])'
    BY DEF ResultInv
<1> QED
    BY <1>8, <1>9, <1>10, <1>11, <1>12 DEF ResultInv

LEMMA ResultNext ==
    ASSUME ForecastInv, AgendaInv, LedgerInv, ResultInv, [Next]_vars
    PROVE  ResultInv'
<1>1. CASE Store
    BY <1>1, StoreWrites
<1>2. CASE ComputeBaseline
  <2>1. phase' = "baseline" /\ input' = BaselineInput /\ book' = book /\ stored' = stored
      BY <1>2 DEF ComputeBaseline, Begin
  <2>2. BaselineInput' = BaselineInput
      BY <2>1 DEF BaselineInput
  <2> QED
      BY <2>1, <2>2 DEF ResultInv
<1>3. CASE Submit /\ Accepted(Applied(request))
  <2>1. /\ phase = "choosing" /\ phase' = "scenario" /\ input' = Applied(request)
        /\ UNCHANGED <<book, request, stored>>
      BY <1>3 DEF Submit, Begin
  <2>2. Applied(request)' = Applied(request)
      BY <2>1, SameApplied
  <2>3. DirectLines(BaselineInput)' = DirectLines(BaselineInput)
        /\ BaselineInput' = BaselineInput
    <3>1. BaselineInput' = BaselineInput
        BY <2>1 DEF BaselineInput
    <3>2. \A in : DirectLines(in)' = DirectLines(in)
        BY <2>1, SameLedger
    <3> QED
        BY <3>1, <3>2
  <2> QED
      BY <1>3, <2>1, <2>2, <2>3 DEF ResultInv, Results, Accepted
<1>4. CASE Submit /\ ~Accepted(Applied(request))
  <2>1. /\ phase = "choosing" /\ phase' = "refused"
        /\ UNCHANGED <<book, stored>>
      BY <1>4 DEF Submit
  <2> QED
      BY <2>1, ResultStays
<1>5. CASE AddAssumption
  <2>1. phase = "choosing" /\ phase' = "choosing" /\ UNCHANGED <<book, stored>>
      BY <1>5 DEF AddAssumption
  <2> QED
      BY <2>1, ResultStays
<1>6. CASE JobStep
  <2>1. phase' = phase /\ UNCHANGED <<book, stored, request, input>> /\ todo # <<>>
      BY <1>6 DEF JobStep, HistoricalStep, TakeSnapshotLines, ExistingStep,
                  WorkloadStep, PlannedStep, Next_
  <2>2. phase \in {"baseline", "scenario"}
      BY <2>1 DEF ForecastInv, Running
  <2> QED
      BY <2>1, <2>2, ResultStays
<1>7. CASE UNCHANGED vars
  <2>1. phase' = phase /\ UNCHANGED <<book, stored, request, input, lines>>
      BY <1>7 DEF vars
  <2>2. phase' \in {"choosing", "refused"} => phase \notin {"ready", "baseline"}
      BY <2>1
  <2> QED
      BY <2>1, <2>2, ResultStays
<1> QED
    BY <1>1, <1>2, <1>3, <1>4, <1>5, <1>6, <1>7 DEF Next, JobStep

LEMMA ResultsHold == Spec => [](ForecastInv /\ AgendaInv /\ LedgerInv /\ ResultInv)
<1>1. Init => ResultInv
    BY DEF Init, ResultInv
<1>2. ForecastInv /\ AgendaInv /\ LedgerInv /\ ResultInv /\ [Next]_vars => ResultInv'
    BY ResultNext
<1> QED
    BY <1>1, <1>2, LedgerHolds, PTL DEF Spec
-----------------------------------------------------------------------------
(* What the changes tell *)

Tells(in, target, fields) ==
    \E c \in ToSet(in.changes) : c.target = target /\ c.field \in fields

CardChanges == {"accelerated_life_months", "start_rule"}

DriverChange(type) ==
    IF type = "PRODUCTION" THEN "production_driver" ELSE "workload_driver"

\* Whatever of an input is not as in the book is the target of a change.
ChangesTell(in) ==
    /\ IsSequence(in.changes)
    /\ \A k \in DOMAIN book.cards :
          \/ in.cards[k] = book.cards[k]
          \/ Tells(in, book.cards[k].id, CardChanges)
    /\ \A type \in {"PRODUCTION", "WORKLOAD"} : \A t, p :
          \/ Driver(in.drivers, type, t, p) = Driver(book.drivers, type, t, p)
          \/ Tells(in, t, {DriverChange(type)})
    /\ \A e \in in.events : Tells(in, e.target, {"impairment_amount"})
    /\ \A k \in DOMAIN in.planned : Tells(in, in.planned[k].id, {"new_asset"})

LEMMA TellsMore ==
    ASSUME NEW in, IsSequence(in.changes), NEW out, NEW c,
           out.changes = Append(in.changes, c)
    PROVE  /\ IsSequence(out.changes)
           /\ \A target, fields : Tells(in, target, fields) => Tells(out, target, fields)
           /\ \A fields : c.field \in fields => Tells(out, c.target, fields)
<1> DEFINE s == in.changes
           t == out.changes
<1>1. /\ IsSequence(t)
      /\ DOMAIN t = DOMAIN s \cup {Len(s) + 1}
      /\ t[Len(s) + 1] = c
      /\ \A k \in DOMAIN s : t[k] = s[k]
    BY SequenceGrows
<1> HIDE DEF s, t
<1>2. ToSet(s) \subseteq ToSet(t) /\ c \in ToSet(t)
    BY <1>1 DEF ToSet
<1> QED
    BY <1>1, <1>2 DEF Tells, s, t

LEMMA AddAssetTells ==
    ASSUME BookInv, NEW n \in 1..MaxAssumptions, NEW in, InputAfter(in, n - 1),
           ChangesTell(in), NEW s, IsAssumption(s)
    PROVE  ChangesTell(AddAsset(in, s, n))
<1> DEFINE reference == IF CardIndex(in.cards, s.target) = 0
                        THEN in.cards[1]
                        ELSE AssetById(in.cards, s.target)
           new == PlannedLike(reference, s, n)
           out == AddAsset(in, s, n)
           planned == Append(in.planned, new)
           c == Change(n, NewId(n), "new_asset")
           changes == Append(in.changes, c)
<1>1. IsCard(reference)
  <2>1. 1 \in DOMAIN in.cards
      BY BookIs DEF InputAfter
  <2>2. CardIndex(in.cards, s.target) # 0 =>
            CardIndex(in.cards, s.target) \in DOMAIN in.cards
      BY InputCards, FoundById DEF InputAfter
  <2> QED
      BY <2>1, <2>2 DEF InputAfter, AreCards, AssetById
<1>2. out = [in EXCEPT !.planned = planned, !.changes = changes]
    BY DEF AddAsset
<1> HIDE DEF reference
<1>3. new.id = NewId(n)
  <2>1. reference \in [CardFields -> {reference[f] : f \in CardFields}]
      BY <1>1 DEF IsCard
  <2> QED
      BY <2>1 DEF PlannedLike, CardFields
<1> HIDE DEF out, new
<1>4. PICK l : /\ DOMAIN planned = DOMAIN in.planned \cup {l}
               /\ planned[l] = new
               /\ \A k \in DOMAIN in.planned : planned[k] = in.planned[k]
    BY SequenceGrows DEF InputAfter, AreCards
<1> HIDE DEF planned, changes, c
<1>5. /\ out.cards = in.cards /\ out.planned = planned
      /\ out.events = in.events /\ out.drivers = in.drivers
      /\ out.changes = changes
    BY <1>2 DEF InputAfter
<1>6. c.field = "new_asset" /\ c.target = NewId(n)
    BY DEF c, Change
<1>7. /\ IsSequence(out.changes)
      /\ \A target, fields : Tells(in, target, fields) => Tells(out, target, fields)
      /\ \A fields : c.field \in fields => Tells(out, c.target, fields)
  <2>1. out.changes = Append(in.changes, c) /\ IsSequence(in.changes)
      BY <1>5 DEF changes, ChangesTell
  <2> QED
      BY <2>1, TellsMore
<1>8. Tells(out, NewId(n), {"new_asset"})
    BY <1>6, <1>7
<1>9. \A k \in DOMAIN planned : Tells(out, planned[k].id, {"new_asset"})
    BY <1>3, <1>4, <1>7, <1>8 DEF ChangesTell
<1> QED
    BY <1>5, <1>7, <1>9 DEF ChangesTell, out

LEMMA ImpairTells ==
    ASSUME NEW n, NEW in, InputAfter(in, n),
           ChangesTell(in), NEW s, Impair(in, s, n) # Refused
    PROVE  ChangesTell(Impair(in, s, n))
<1> DEFINE event == [id |-> n, type |-> "IMPAIRMENT", target |-> s.target,
                     amount |-> s.amount, period |-> s.date]
           c == Change(n, s.target, "impairment_amount")
           changes == Append(in.changes, c)
           events == in.events \cup {event}
           out == [in EXCEPT !.events = events, !.changes = changes]
<1>1. Impair(in, s, n) = out
    BY DEF Impair, InputAfter
<1>2. event.target = s.target /\ c.target = s.target /\ c.field = "impairment_amount"
    BY DEF Change
<1>3. \A e \in events : e \in in.events \/ e.target = s.target
    BY <1>2
<1> HIDE DEF changes, events, c
<1>4. /\ out.cards = in.cards /\ out.planned = in.planned
      /\ out.events = events /\ out.drivers = in.drivers
      /\ out.changes = changes
    BY DEF InputAfter
<1> HIDE DEF out
<1>5. /\ IsSequence(out.changes)
      /\ \A target, fields : Tells(in, target, fields) => Tells(out, target, fields)
      /\ \A fields : c.field \in fields => Tells(out, c.target, fields)
  <2>1. out.changes = Append(in.changes, c) /\ IsSequence(in.changes)
      BY <1>4 DEF changes, ChangesTell
  <2> QED
      BY <2>1, TellsMore
<1>6. Tells(out, s.target, {"impairment_amount"})
    BY <1>2, <1>5
<1>7. \A e \in out.events : Tells(out, e.target, {"impairment_amount"})
    BY <1>3, <1>4, <1>5, <1>6 DEF ChangesTell
<1>8. ChangesTell(out)
    BY <1>4, <1>5, <1>7 DEF ChangesTell
<1> QED
    BY <1>1, <1>8

LEMMA ReplaceTells ==
    ASSUME BookInv, NEW n, NEW in, InputAfter(in, n),
           ChangesTell(in), NEW s, Replace(in, s, n) # Refused
    PROVE  ChangesTell(Replace(in, s, n))
<1> DEFINE k == CardIndex(in.cards, s.target)
           a == in.cards[k]
           c == Change(n, s.target,
                       IF s.template = "straight_accelerated"
                       THEN "accelerated_life_months" ELSE "start_rule")
           changed == IF s.template = "straight_accelerated"
                      THEN [a EXCEPT !.life = ShorterLife(a)]
                      ELSE [a EXCEPT !.startRule = Blank(s.startRule, "NEXT_MONTH")]
           cards == [in.cards EXCEPT ![k] = changed]
           changes == Append(in.changes, c)
           out == [in EXCEPT !.cards = cards, !.changes = changes]
<1>1. k \in DOMAIN in.cards /\ in.cards[k].id = s.target
  <2>1. k # 0
      BY DEF Replace
  <2> QED
      BY <2>1, InputCards, FoundById DEF InputAfter, AssetById
<1>2. Replace(in, s, n) = out
  <2>1. DOMAIN in = {"cards", "planned", "events", "drivers", "changes"}
      BY DEF InputAfter
  <2>2. Replace(in, s, n) =
            [in EXCEPT !.cards = [in.cards EXCEPT ![k] = changed],
                       !.changes = Append(@, c)]
      BY <1>1, <2>1 DEF Replace
  <2> QED
      BY <2>1, <2>2
<1> HIDE DEF changed, k
<1>3. \A j \in DOMAIN in.cards : j # k => cards[j] = in.cards[j]
    BY <1>1
<1> HIDE DEF cards, changes
<1>4. /\ out.cards = cards /\ out.planned = in.planned
      /\ out.events = in.events /\ out.drivers = in.drivers
      /\ out.changes = changes
    BY DEF InputAfter
<1> HIDE DEF out
<1>5. c.target = s.target /\ c.field \in CardChanges
    BY DEF Change, CardChanges
<1> HIDE DEF c
<1>6. /\ IsSequence(out.changes)
      /\ \A target, fields : Tells(in, target, fields) => Tells(out, target, fields)
      /\ \A fields : c.field \in fields => Tells(out, c.target, fields)
  <2>1. out.changes = Append(in.changes, c) /\ IsSequence(in.changes)
      BY <1>4 DEF changes, ChangesTell
  <2> QED
      BY <2>1, TellsMore
<1>7. book.cards[k].id = s.target
    BY <1>1 DEF InputAfter, SameAsset, CardFields
<1>8. \A j \in DOMAIN book.cards : \/ out.cards[j] = book.cards[j]
                                   \/ Tells(out, book.cards[j].id, CardChanges)
  <2> SUFFICES ASSUME NEW j \in DOMAIN book.cards
               PROVE  \/ out.cards[j] = book.cards[j]
                      \/ Tells(out, book.cards[j].id, CardChanges)
      OBVIOUS
  <2>1. CASE j = k
      BY <1>5, <1>6, <1>7, <2>1
  <2>2. CASE j # k
      BY <1>3, <1>4, <1>6, <2>2 DEF InputAfter, ChangesTell
  <2> QED
      BY <2>1, <2>2
<1>9. ChangesTell(out)
    BY <1>4, <1>6, <1>8 DEF ChangesTell
<1> QED
    BY <1>2, <1>9

LEMMA SetDriverTells ==
    ASSUME NEW n, NEW in, InputAfter(in, n),
           ChangesTell(in), NEW s, SetDriver(in, s, n) # Refused,
           s.template \in {"production_driver", "workload_driver"}
    PROVE  ChangesTell(SetDriver(in, s, n))
<1> DEFINE type == IF s.template = "production_driver"
                   THEN "PRODUCTION" ELSE "WORKLOAD"
           key == <<type, s.target, s.date>>
           old == IF key \in DOMAIN in.drivers THEN in.drivers[key] ELSE NoDriver
           new == [f \in DOMAIN old |->
                      IF f \in DOMAIN s.fields THEN s.fields[f] ELSE old[f]]
           drivers == [k \in {key} \cup DOMAIN in.drivers |->
                          IF k = key THEN new ELSE in.drivers[k]]
           c == Change(n, s.target, s.template)
           changes == Append(in.changes, c)
           out == [in EXCEPT !.drivers = drivers, !.changes = changes]
<1>1. SetDriver(in, s, n) = out
    BY DEF SetDriver, InputAfter
<1> HIDE DEF new
<1>2. \A x : x # key => /\ x \in DOMAIN drivers <=> x \in DOMAIN in.drivers
                        /\ x \in DOMAIN drivers => drivers[x] = in.drivers[x]
    OBVIOUS
<1> HIDE DEF drivers, changes
<1>3. /\ out.cards = in.cards /\ out.planned = in.planned
      /\ out.events = in.events /\ out.drivers = drivers
      /\ out.changes = changes
    BY DEF InputAfter
<1> HIDE DEF out
<1>4. c.target = s.target /\ c.field = s.template
    BY DEF Change
<1> HIDE DEF c
<1>5. /\ IsSequence(out.changes)
      /\ \A target, fields : Tells(in, target, fields) => Tells(out, target, fields)
      /\ \A fields : c.field \in fields => Tells(out, c.target, fields)
  <2>1. out.changes = Append(in.changes, c) /\ IsSequence(in.changes)
      BY <1>3 DEF changes, ChangesTell
  <2> QED
      BY <2>1, TellsMore
<1>6. ASSUME NEW kind \in {"PRODUCTION", "WORKLOAD"}, NEW t, NEW p
      PROVE  \/ Driver(out.drivers, kind, t, p) = Driver(book.drivers, kind, t, p)
             \/ Tells(out, t, {DriverChange(kind)})
  <2>1. CASE <<kind, t, p>> = key
    <3>1. t = s.target /\ kind = type
        BY <2>1
    <3>2. DriverChange(kind) = s.template
        BY <3>1 DEF DriverChange
    <3> QED
        BY <1>4, <1>5, <3>1, <3>2
  <2>2. CASE <<kind, t, p>> # key
    <3>1. Driver(out.drivers, kind, t, p) = Driver(in.drivers, kind, t, p)
        BY <1>2, <1>3, <2>2 DEF Driver
    <3> QED
        BY <1>5, <3>1 DEF ChangesTell
  <2> QED
      BY <2>1, <2>2
<1>7. ChangesTell(out)
    BY <1>3, <1>5, <1>6 DEF ChangesTell
<1> QED
    BY <1>1, <1>7

LEMMA AppliedTells ==
    ASSUME BookInv, NEW q \in Seq(Assumptions), Len(q) <= MaxAssumptions,
           Applied(q) # Refused
    PROVE  ChangesTell(Applied(q))
<1> DEFINE n == Len(q)
           One(before, i) == IF before = Refused THEN Refused
                             ELSE ApplyOne(before, q[i], i)
           Good(i, in) == in # Refused => InputAfter(in, i) /\ ChangesTell(in)
<1>1. n \in Nat /\ n <= MaxAssumptions /\ MaxAssumptions \in Nat
      /\ \A i \in 1..n : IsAssumption(q[i])
    BY AssumptionsAssumption, LimitsAssumption
<1>2. PICK after : IsApplied(after, q) /\ Applied(q) = after[n]
    BY <1>1, AppliedInSteps
<1>3. Good(0, BaselineInput)
  <2>1. InputAfter(BaselineInput, 0)
      BY BaselineInputIs
  <2>2. IsSequence(<<>>)
      BY DEF IsSequence
  <2>3. /\ BaselineInput.changes = <<>> /\ BaselineInput.cards = book.cards
        /\ BaselineInput.drivers = book.drivers /\ BaselineInput.events = {}
        /\ BaselineInput.planned = <<>>
      BY DEF BaselineInput
  <2>4. ChangesTell(BaselineInput)
      BY <2>2, <2>3 DEF ChangesTell
  <2> QED
      BY <2>1, <2>4
<1>4. ASSUME NEW i \in 1..n, NEW in, Good(i - 1, in)
      PROVE  Good(i, One(in, i))
  <2> SUFFICES ASSUME One(in, i) # Refused
               PROVE  InputAfter(One(in, i), i) /\ ChangesTell(One(in, i))
      OBVIOUS
  <2>1. in # Refused /\ One(in, i) = ApplyOne(in, q[i], i)
      OBVIOUS
  <2>2. InputAfter(in, i - 1) /\ IsAssumption(q[i]) /\ i \in 1..MaxAssumptions
        /\ ChangesTell(in)
      BY <1>1, <1>4, <2>1
  <2>3. InputAfter(in, i)
    <3>1. \A m \in 1..(i - 1) : m \in 1..i
        OBVIOUS
    <3> QED
        BY <2>2, <3>1 DEF InputAfter
  <2> HIDE DEF One, Good, n
  <2>4. ApplyOne(in, q[i], i) # Refused
      BY <2>1
  <2>5. \/ ApplyOne(in, q[i], i) \in {AddAsset(in, q[i], i), Impair(in, q[i], i),
                                      Replace(in, q[i], i), Refused}
        \/ /\ q[i].template \in {"production_driver", "workload_driver"}
           /\ ApplyOne(in, q[i], i) = SetDriver(in, q[i], i)
      BY DEF ApplyOne
  <2>6. InputAfter(AddAsset(in, q[i], i), i) /\ ChangesTell(AddAsset(in, q[i], i))
      BY <2>2, AddAssetKeeps, AddAssetTells
  <2>7. Impair(in, q[i], i) # Refused =>
            InputAfter(Impair(in, q[i], i), i) /\ ChangesTell(Impair(in, q[i], i))
      BY <2>2, <2>3, NotRefused, ImpairKeeps, ImpairTells
  <2>8. Replace(in, q[i], i) # Refused =>
            InputAfter(Replace(in, q[i], i), i) /\ ChangesTell(Replace(in, q[i], i))
      BY <2>2, <2>3, NotRefused, ReplaceKeeps, ReplaceTells
  <2>9. SetDriver(in, q[i], i) # Refused
        /\ q[i].template \in {"production_driver", "workload_driver"} =>
            InputAfter(SetDriver(in, q[i], i), i) /\ ChangesTell(SetDriver(in, q[i], i))
      BY <2>2, <2>3, NotRefused, SetDriverKeeps, SetDriverTells
  <2> QED
      BY <2>1, <2>4, <2>5, <2>6, <2>7, <2>8, <2>9
<1>5. \A i \in 1..n : after[i] = One(after[i - 1], i)
    BY <1>2 DEF IsApplied
<1>6. after[0] = BaselineInput
    BY <1>2 DEF IsApplied
<1> DEFINE Q == {i \in 0..n : Good(i, after[i])}
<1> HIDE DEF Good, One, n
<1>11. 0 \in Q
    BY <1>1, <1>3, <1>6
<1>12. ASSUME NEW i \in 1..n, i - 1 \in Q PROVE i \in Q
    BY <1>1, <1>4, <1>5, <1>12
<1>13. n \in Q
  <2>1. 0..n \subseteq Q
    <3> HIDE DEF Q
    <3> QED
        BY <1>1, <1>11, <1>12, InductionUpTo
  <2> HIDE DEF Q
  <2> QED
      BY <1>1, <2>1
<1> QED
    BY <1>2, <1>13 DEF Good
-----------------------------------------------------------------------------
(* Inputs that are alike for an asset *)

\* What assumptions leave of a card decides whether and how it takes part.
LEMMA SameMethods ==
    ASSUME BookInv, NEW a, IsCard(a), NEW b, IsCard(b), SameAsset(a, b)
    PROVE  /\ Depreciable(book.model, a) <=> Depreciable(book.model, b)
           /\ Depreciable(book.model, b) => MethodOf(a) = MethodOf(b)
           /\ WorkloadTarget(a) = WorkloadTarget(b)
           /\ a.id = b.id /\ a.block = b.block
<1> DEFINE sm == book.model
<1>1. /\ a.id = b.id /\ a.block = b.block /\ a.org = b.org /\ a.company = b.company
      /\ a.code = b.code /\ a.category = b.category /\ a.inService = b.inService
    BY DEF SameAsset, CardFields
<1>2. ResolveForAsset(sm, a) = ResolveForAsset(sm, b)
    BY <1>1 DEF ResolveForAsset
<1>3. Depreciable(sm, a) <=> Depreciable(sm, b)
    BY <1>1, <1>2 DEF Depreciable
<1>4. ASSUME Depreciable(sm, b) PROVE MethodOf(a) = MethodOf(b)
  <2> DEFINE r == ResolveForAsset(sm, b)
  <2>1. r # None
      BY <1>4 DEF Depreciable
  <2>2. IsPolicy(Policy(sm, a)) /\ IsPolicy(Policy(sm, b))
      BY <1>2, <2>1, PolicyIsTyped, BookIs
  <2> HIDE DEF r
  <2>3. /\ Policy(sm, a) = Overridden(r, a)
        /\ Policy(sm, b) = Overridden(r, b)
      BY <1>2 DEF Policy, r
  <2>4. DOMAIN Overridden(r, b) = DOMAIN r
      BY <2>1 DEF Overridden
  <2>5. "method" \in DOMAIN Policy(sm, b)
      BY <2>2 DEF IsPolicy, PolicyFields
  <2>6. Overridden(r, a).method = r.method /\ Overridden(r, b).method = r.method
      BY <2>1, <2>3, <2>4, <2>5 DEF Overridden
  <2> QED
      BY <2>3, <2>6 DEF MethodOf, PolicyFor
<1>5. WorkloadTarget(a) = WorkloadTarget(b)
    BY <1>1 DEF WorkloadTarget
<1> QED
    BY <1>1, <1>3, <1>4, <1>5

\* Which cards take part, and which number is whose.
LEMMA SameParts ==
    ASSUME BookInv, NEW in, NEW n, InputAfter(in, n)
    PROVE  /\ \A id : IdsOf(in.cards, DOMAIN in.cards)
                        = IdsOf(book.cards, DOMAIN book.cards)
           /\ IdsOf(in.cards, Included(in.cards)) = IdsOf(book.cards, Included(book.cards))
           /\ IdsOf(in.cards, Pooled(in.cards)) = IdsOf(book.cards, Pooled(book.cards))
           /\ IdsOf(in.cards, Single(in.cards)) = IdsOf(book.cards, Single(book.cards))
           /\ Pooled(in.cards) = Pooled(book.cards)
           /\ \A k \in DOMAIN book.cards :
                 /\ in.cards[k].id = book.cards[k].id
                 /\ AssetById(book.cards, book.cards[k].id) = book.cards[k]
                 /\ AssetById(in.cards, book.cards[k].id) = in.cards[k]
           /\ \A i \in IdsOf(book.cards, DOMAIN book.cards) :
                 /\ WorkloadTarget(AssetById(in.cards, i))
                       = WorkloadTarget(AssetById(book.cards, i))
                 /\ AssetById(in.cards, i).block = AssetById(book.cards, i).block
<1>1. /\ AreCards(in.cards) /\ Distinct(in.cards) /\ DOMAIN in.cards = DOMAIN book.cards
      /\ AreCards(book.cards) /\ Distinct(book.cards)
    BY BookIs, InputCards DEF InputAfter
<1>2. \A k \in DOMAIN book.cards :
          /\ Depreciable(book.model, in.cards[k]) <=> Depreciable(book.model, book.cards[k])
          /\ Depreciable(book.model, book.cards[k]) =>
                MethodOf(in.cards[k]) = MethodOf(book.cards[k])
          /\ WorkloadTarget(in.cards[k]) = WorkloadTarget(book.cards[k])
          /\ in.cards[k].id = book.cards[k].id
          /\ in.cards[k].block = book.cards[k].block
    BY <1>1, SameMethods DEF AreCards, InputAfter
<1>3. Included(in.cards) = Included(book.cards)
    BY <1>1, <1>2 DEF Included
<1>4. Pooled(in.cards) = Pooled(book.cards)
    BY <1>1, <1>2, <1>3 DEF Pooled, Included
<1>5. Single(in.cards) = Single(book.cards)
    BY <1>3, <1>4 DEF Single
<1>6. \A S \in SUBSET DOMAIN book.cards : IdsOf(in.cards, S) = IdsOf(book.cards, S)
    BY <1>2 DEF IdsOf
<1>7. /\ Included(book.cards) \subseteq DOMAIN book.cards
      /\ Pooled(book.cards) \subseteq DOMAIN book.cards
      /\ Single(book.cards) \subseteq DOMAIN book.cards
    BY DEF Included, Pooled, Single
<1>8. \A k \in DOMAIN book.cards :
          /\ AssetById(book.cards, book.cards[k].id) = book.cards[k]
          /\ AssetById(in.cards, book.cards[k].id) = in.cards[k]
    BY <1>1, <1>2, FoundById
<1>9. \A i \in IdsOf(book.cards, DOMAIN book.cards) :
          /\ WorkloadTarget(AssetById(in.cards, i))
                = WorkloadTarget(AssetById(book.cards, i))
          /\ AssetById(in.cards, i).block = AssetById(book.cards, i).block
    BY <1>2, <1>8 DEF IdsOf
<1> QED
    BY <1>1, <1>2, <1>3, <1>4, <1>5, <1>6, <1>7, <1>8, <1>9

\* What the baseline has to do, every scenario has to do.
LEMMA SameJobs ==
    ASSUME BookInv, NEW in, NEW n, InputAfter(in, n)
    PROVE  /\ \A job \in JobsDue(BaselineInput) :
                 job \in JobsDue(in) /\ job.kind # "PLANNED"
           /\ \A job \in JobsDue(in) :
                 job.kind = "PLANNED" \/ job \in JobsDue(BaselineInput)
           /\ \A job : AssetsOf(job, in) = AssetsOf(job, BaselineInput)
<1>1. /\ BaselineInput.cards = book.cards /\ BaselineInput.planned = <<>>
    BY DEF BaselineInput
<1>2. /\ HistoryDue(in) = HistoryDue(BaselineInput)
      /\ ExistingDue(in) = ExistingDue(BaselineInput)
      /\ PoolDue(in) = PoolDue(BaselineInput)
    BY <1>1, SameParts DEF HistoryDue, ExistingDue, PoolDue
<1>3. PlannedDue(BaselineInput) = {}
    BY <1>1 DEF PlannedDue, IdsOf, Included
<1>4. \A job \in JobsDue(BaselineInput) : job.kind # "PLANNED"
  <2>1. \A job \in HistoryDue(BaselineInput) \cup SnapshotDue
                   \cup ExistingDue(BaselineInput) \cup PoolDue(BaselineInput) :
            job.kind # "PLANNED"
      BY DEF HistoryDue, SnapshotDue, ExistingDue, PoolDue, Job
  <2> QED
      BY <1>3, <2>1 DEF JobsDue
<1>5. \A job \in PlannedDue(in) : job.kind = "PLANNED"
    BY DEF PlannedDue, Job
<1>6. \A job : AssetsOf(job, in) = AssetsOf(job, BaselineInput)
    BY <1>1, SameParts DEF AssetsOf
<1> QED
    BY <1>2, <1>3, <1>4, <1>5, <1>6 DEF JobsDue

LEMMA SameExisting ==
    ASSUME NEW a, NEW p, NEW q, NEW w, NEW E1, NEW E2, NEW D1, NEW D2,
           {e \in E1 : e.target = a.id /\ e.period = q}
              = {e \in E2 : e.target = a.id /\ e.period = q},
           Driver(D1, "PRODUCTION", a.block, q) = Driver(D2, "PRODUCTION", a.block, q)
    PROVE  ExistingMonth(a, p, q, w, E1, D1) = ExistingMonth(a, p, q, w, E2, D2)
<1>1. ASSUME NEW v, NEW opening
      PROVE  MonthlyAmount(a, p, q, v, opening, D1) = MonthlyAmount(a, p, q, v, opening, D2)
    BY DEF MonthlyAmount
<1> QED
    BY <1>1 DEF ExistingMonth

LEMMA SameHistorical ==
    ASSUME NEW a, NEW p, NEW q, NEW s, NEW D1, NEW D2,
           Driver(D1, "PRODUCTION", a.block, q) = Driver(D2, "PRODUCTION", a.block, q),
           Driver(D1, "WORKLOAD", WorkloadTarget(a), q)
              = Driver(D2, "WORKLOAD", WorkloadTarget(a), q)
    PROVE  HistoricalMonth(a, p, q, s, D1) = HistoricalMonth(a, p, q, s, D2)
BY DEF HistoricalMonth, ReversedOpening

\* What a member is charged is a number of its own.
LEMMA ShareIs ==
    ASSUME BookInv, NEW in, NEW n, InputAfter(in, n),
           NEW net \in [IdsOf(in.cards, Pooled(in.cards)) -> Int],
           NEW i \in DOMAIN net, NEW p
    PROVE  AmountFrom(net, in, i, p) \in 0..Greater(net[i], 0)
<1> DEFINE t == WorkloadTarget(AssetById(in.cards, i))
           dues == DuesFrom(net, in, t, p)
           d == Driver(in.drivers, "WORKLOAD", t, p)
           ledger == SumFunctionOnSet(net, dues)
<1>1. i \in MembersOf(net, in, t)
    BY DEF MembersOf
<1>2. IsFiniteSet(dues) /\ dues \subseteq DOMAIN net
  <2>1. IsFiniteSet(DOMAIN net)
      BY FiniteMembers
  <2>2. dues \subseteq DOMAIN net
      BY DEF DuesFrom, MembersOf
  <2> QED
      BY <2>1, <2>2, FS_Subset
<1>3. ledger \in Int
  <2> HIDE DEF dues
  <2> QED
      BY <1>2, SumOfNumbers
<1>4. IsDriver(d)
    BY DriverIsTyped DEF InputAfter
<1>5. AmountFrom(net, in, i, p) =
          WorkloadAmount(net[i], i \in dues, TotalAmortization(d),
                         PoolNetValue(d, ledger))
    BY <1>1 DEF AmountFrom, WorkloadAmounts
<1> HIDE DEF d, ledger, dues
<1>6. TotalAmortization(d) \in Int /\ PoolNetValue(d, ledger) \in Int
    BY <1>3, <1>4, PoolIsTyped
<1> QED
    BY <1>5, <1>6, WorkloadAmountIs

\* The share of a member depends on the members of its pool only.
LEMMA SameShare ==
    ASSUME BookInv, NEW in, NEW n, InputAfter(in, n),
           NEW net \in [IdsOf(book.cards, Pooled(book.cards)) -> Int],
           NEW old \in [IdsOf(book.cards, Pooled(book.cards)) -> Int],
           NEW i \in IdsOf(book.cards, Pooled(book.cards)), NEW p,
           NEW t, t = WorkloadTarget(AssetById(book.cards, i)),
           Driver(in.drivers, "WORKLOAD", t, p) = Driver(book.drivers, "WORKLOAD", t, p),
           \A j \in IdsOf(book.cards, Pooled(book.cards)) :
              WorkloadTarget(AssetById(book.cards, j)) = t =>
                 /\ AssetById(in.cards, j) = AssetById(book.cards, j)
                 /\ net[j] = old[j]
    PROVE  AmountFrom(net, in, i, p) = AmountFrom(old, BaselineInput, i, p)
<1> DEFINE P == IdsOf(book.cards, Pooled(book.cards))
           members == {j \in P : WorkloadTarget(AssetById(book.cards, j)) = t}
           dues == DuesFrom(net, in, t, p)
<1>1. BaselineInput.cards = book.cards /\ BaselineInput.drivers = book.drivers
    BY DEF BaselineInput
<1>2. P \subseteq IdsOf(book.cards, DOMAIN book.cards)
    BY DEF IdsOf, Pooled, Included
<1>3. WorkloadTarget(AssetById(in.cards, i)) = t
    BY <1>2, SameParts
<1>4. MembersOf(net, in, t) = members /\ MembersOf(old, BaselineInput, t) = members
    BY <1>1, <1>2, SameParts DEF MembersOf
<1>5. DuesFrom(old, BaselineInput, t, p) = dues
    BY <1>1, <1>4 DEF DuesFrom
<1>6. dues \subseteq members /\ dues \subseteq P
    BY <1>4 DEF DuesFrom
<1>7. IsFiniteSet(dues)
  <2>1. IsFiniteSet(IdsOf(in.cards, Pooled(in.cards)))
      BY FiniteMembers
  <2>2. IsFiniteSet(P)
      BY <2>1, SameParts
  <2> QED
      BY <1>6, <2>2, FS_Subset
<1>8. SumFunctionOnSet(net, dues) = SumFunctionOnSet(old, dues)
  <2>1. \A x \in dues : net[x] \in Int /\ net[x] = old[x]
      BY <1>6
  <2> HIDE DEF dues
  <2> QED
      BY <1>7, <2>1, SumOfSame
<1>9. i \in members /\ net[i] = old[i]
    OBVIOUS
<1> HIDE DEF members, dues
<1> QED
    BY <1>1, <1>3, <1>4, <1>5, <1>8, <1>9 DEF AmountFrom, WorkloadAmounts, dues

\* Nothing that decides the months of an asset, but events, is changed.
Alike(in, id) ==
    LET a == AssetById(book.cards, id)
        t == WorkloadTarget(a)
        pool == IdsOf(book.cards, Pooled(book.cards))
    IN  /\ AssetById(in.cards, id) = a
        /\ \A p : Driver(in.drivers, "PRODUCTION", a.block, p)
                    = Driver(book.drivers, "PRODUCTION", a.block, p)
        /\ \A p : Driver(in.drivers, "WORKLOAD", t, p)
                    = Driver(book.drivers, "WORKLOAD", t, p)
        /\ id \in pool =>
              \A j \in pool : WorkloadTarget(AssetById(book.cards, j)) = t =>
                                  AssetById(in.cards, j) = AssetById(book.cards, j)

LEMMA BaselineInputFields ==
    /\ BaselineInput.cards = book.cards /\ BaselineInput.planned = <<>>
    /\ BaselineInput.drivers = book.drivers /\ BaselineInput.events = {}
    /\ BaselineInput.changes = <<>>
BY DEF BaselineInput

LEMMA AlikeHistory ==
    ASSUME NEW in, NEW id, Alike(in, id)
    PROVE  Trail(in, "HISTORY", id) = Trail(BaselineInput, "HISTORY", id)
<1> DEFINE a == AssetById(book.cards, id)
<1>1. AssetById(in.cards, id) = a /\ AssetById(BaselineInput.cards, id) = a
    BY BaselineInputFields DEF Alike
<1>2. ASSUME NEW p, NEW s
      PROVE  After(in, "HISTORY", id, p, s) = After(BaselineInput, "HISTORY", id, p, s)
  <2>1. HistoricalMonth(a, PolicyFor(a), p, s, in.drivers)
            = HistoricalMonth(a, PolicyFor(a), p, s, book.drivers)
    <3>1. /\ Driver(in.drivers, "PRODUCTION", a.block, p)
                = Driver(book.drivers, "PRODUCTION", a.block, p)
          /\ Driver(in.drivers, "WORKLOAD", WorkloadTarget(a), p)
                = Driver(book.drivers, "WORKLOAD", WorkloadTarget(a), p)
        BY DEF Alike
    <3> HIDE DEF a
    <3> QED
        BY <3>1, SameHistorical
  <2> QED
      BY <1>1, <2>1, BaselineInputFields DEF After
<1>3. StartOf(in, "HISTORY", id) = StartOf(BaselineInput, "HISTORY", id)
    BY <1>1 DEF StartOf
<1>4. \A t : IsTrail(t, in, "HISTORY", id) <=> IsTrail(t, BaselineInput, "HISTORY", id)
    BY <1>2, <1>3 DEF IsTrail
<1> QED
    BY <1>4 DEF Trail

LEMMA AlikeMonth ==
    ASSUME NEW in, NEW id, NEW p, Alike(in, id), AssetById(book.cards, id).id = id,
           ~ \E e \in in.events : e.target = id /\ e.period = p, NEW w
    PROVE  LET a == AssetById(book.cards, id)
           IN  ExistingMonth(a, PolicyFor(a), p, w, in.events, in.drivers)
                 = ExistingMonth(a, PolicyFor(a), p, w, {}, book.drivers)
<1> DEFINE a == AssetById(book.cards, id)
<1>1. Driver(in.drivers, "PRODUCTION", a.block, p)
        = Driver(book.drivers, "PRODUCTION", a.block, p)
    BY DEF Alike
<1>2. {e \in in.events : e.target = a.id /\ e.period = p}
        = {e \in {} : e.target = a.id /\ e.period = p}
    OBVIOUS
<1> HIDE DEF a
<1>3. ExistingMonth(a, PolicyFor(a), p, w, in.events, in.drivers)
        = ExistingMonth(a, PolicyFor(a), p, w, {}, book.drivers)
    BY <1>1, <1>2, SameExisting
<1> QED
    BY <1>3 DEF a

LEMMA AlikeWork ==
    ASSUME BookInv, NEW in, NEW id, NEW p \in ForecastMonths, Alike(in, id),
           AssetById(book.cards, id).id = id,
           ~ \E e \in in.events : e.target = id /\ e.period <= p
    PROVE  Trail(in, "EXISTING", id)[p] = Trail(BaselineInput, "EXISTING", id)[p]
<1> DEFINE t == Trail(in, "EXISTING", id)
           b == Trail(BaselineInput, "EXISTING", id)
           m == p - FutureStart
           S == {i \in 0..m : t[FutureStart + i] = b[FutureStart + i]}
<1>1. /\ FutureStart \in Int /\ End \in Int /\ p \in Int /\ p <= End /\ m \in Nat
    BY BookIs DEF ForecastMonths
<1>2. IsTrail(t, in, "EXISTING", id) /\ IsTrail(b, BaselineInput, "EXISTING", id)
    BY TrailExists
<1> HIDE DEF t, b
<1>3. AssetById(in.cards, id) = AssetById(BaselineInput.cards, id)
      /\ AssetById(in.cards, id) = AssetById(book.cards, id)
    BY BaselineInputFields DEF Alike
<1>4. t[FutureStart] = b[FutureStart]
    BY <1>2, <1>3 DEF IsTrail, StartOf, FirstMonth
<1>5. 0 \in S
    BY <1>1, <1>4
<1>6. ASSUME NEW i \in 1..m, i - 1 \in S PROVE i \in S
  <2> DEFINE q == FutureStart + (i - 1)
  <2>1. q \in ForecastMonths /\ q + 1 = FutureStart + i /\ q <= p
      BY <1>1 DEF ForecastMonths
  <2>2. t[q] = b[q]
      BY <1>6
  <2> HIDE DEF q
  <2>3. /\ t[q + 1] = After(in, "EXISTING", id, q, t[q])
        /\ b[q + 1] = After(BaselineInput, "EXISTING", id, q, b[q])
      BY <1>2, <2>1 DEF IsTrail, NextMonth, MonthsOf
  <2>4. ~ \E e \in in.events : e.target = id /\ e.period = q
      BY <2>1
  <2>5. After(in, "EXISTING", id, q, t[q]) = After(BaselineInput, "EXISTING", id, q, t[q])
      BY <1>3, <2>4, AlikeMonth, BaselineInputFields DEF After
  <2> QED
      BY <2>1, <2>2, <2>3, <2>5
<1> HIDE DEF S
<1>7. m \in S
  <2>1. 0..m \subseteq S
      BY <1>1, <1>5, <1>6, InductionUpTo
  <2> QED
      BY <1>1, <2>1
<1> QED
    BY <1>1, <1>7 DEF S, t, b

\* The pools of a month: what members of the asset's own pool have.
LEMMA AlikePool ==
    ASSUME BookInv, NEW in, NEW n, InputAfter(in, n), NEW id,
           id \in IdsOf(book.cards, Pooled(book.cards)),
           NEW p \in ForecastMonths, Alike(in, id)
    PROVE  LET P == IdsOf(book.cards, Pooled(book.cards))
               net == Trail(in, "WORKLOAD", None)[p]
               old == Trail(BaselineInput, "WORKLOAD", None)[p]
               t == WorkloadTarget(AssetById(book.cards, id))
           IN  /\ net \in [P -> Int] /\ old \in [P -> Int]
               /\ \A j \in P : WorkloadTarget(AssetById(book.cards, j)) = t =>
                                   net[j] = old[j]
<1> DEFINE P == IdsOf(book.cards, Pooled(book.cards))
           target == WorkloadTarget(AssetById(book.cards, id))
           Mates == {j \in P : WorkloadTarget(AssetById(book.cards, j)) = target}
           t == Trail(in, "WORKLOAD", None)
           b == Trail(BaselineInput, "WORKLOAD", None)
           m == p - FutureStart
           Fit(net, old) == /\ net \in [P -> Int] /\ old \in [P -> Int]
                            /\ \A j \in Mates : net[j] = old[j]
           S == {i \in 0..m : Fit(t[FutureStart + i], b[FutureStart + i])}
<1>1. /\ FutureStart \in Int /\ End \in Int /\ p \in Int /\ p <= End /\ m \in Nat
    BY BookIs DEF ForecastMonths
<1>2. IsTrail(t, in, "WORKLOAD", None) /\ IsTrail(b, BaselineInput, "WORKLOAD", None)
    BY TrailExists
<1> HIDE DEF t, b
<1>3. InputAfter(BaselineInput, 0) /\ AreCards(in.cards) /\ AreCards(book.cards)
    BY BaselineInputIs, BookIs DEF InputAfter
<1>4. IdsOf(in.cards, Pooled(in.cards)) = P
      /\ IdsOf(BaselineInput.cards, Pooled(BaselineInput.cards)) = P
    BY SameParts, BaselineInputFields
<1>5. \A i \in P : /\ IsCard(AssetById(in.cards, i))
                   /\ IsCard(AssetById(book.cards, i))
  <2>1. \A k \in DOMAIN book.cards :
            /\ AssetById(book.cards, book.cards[k].id) = book.cards[k]
            /\ AssetById(in.cards, book.cards[k].id) = in.cards[k]
            /\ k \in DOMAIN in.cards
      BY SameParts DEF InputAfter
  <2>2. \A i \in P : \E k \in DOMAIN book.cards : i = book.cards[k].id
      BY DEF IdsOf, Pooled, Included
  <2> QED
      BY <1>3, <2>1, <2>2 DEF AreCards
<1>6. \A j \in Mates : AssetById(in.cards, j) = AssetById(book.cards, j)
    BY DEF Alike
<1>7. /\ t[FutureStart] = [i \in P |-> CardNet(AssetById(in.cards, i))]
      /\ b[FutureStart] = [i \in P |-> CardNet(AssetById(book.cards, i))]
    BY <1>2, <1>4, BaselineInputFields DEF IsTrail, FirstMonth, StartOf
<1>8. Fit(t[FutureStart], b[FutureStart])
  <2>1. \A i \in P : /\ CardNet(AssetById(in.cards, i)) \in Int
                     /\ CardNet(AssetById(book.cards, i)) \in Int
    <3>1. \A a : IsCard(a) => CardNet(a) \in Int
        BY DEF CardNet, IsCard
    <3> QED
        BY <1>5, <3>1
  <2> HIDE DEF P
  <2>2. \A j \in Mates : j \in P
      OBVIOUS
  <2> QED
      BY <1>6, <1>7, <2>1, <2>2
<1>9. 0 \in S
    BY <1>1, <1>8
<1>10. ASSUME NEW i \in 1..m, i - 1 \in S PROVE i \in S
  <2> DEFINE q == FutureStart + (i - 1)
             net == t[q]
             old == b[q]
  <2>1. q \in ForecastMonths /\ q + 1 = FutureStart + i
      BY <1>1 DEF ForecastMonths
  <2>2. Fit(net, old)
      BY <1>10
  <2> HIDE DEF q
  <2>3. /\ t[q + 1] = After(in, "WORKLOAD", None, q, net)
        /\ b[q + 1] = After(BaselineInput, "WORKLOAD", None, q, old)
      BY <1>2, <2>1 DEF IsTrail, NextMonth, MonthsOf
  <2> HIDE DEF net, old
  <2>4. /\ t[q + 1] = [j \in P |-> net[j] - AmountFrom(net, in, j, q)]
        /\ b[q + 1] = [j \in P |-> old[j] - AmountFrom(old, BaselineInput, j, q)]
      BY <2>2, <2>3 DEF After
  <2>5. ASSUME NEW j \in P
        PROVE  /\ AmountFrom(net, in, j, q) \in Int
               /\ AmountFrom(old, BaselineInput, j, q) \in Int
    <3>1. /\ AmountFrom(net, in, j, q) \in 0..Greater(net[j], 0)
          /\ AmountFrom(old, BaselineInput, j, q) \in 0..Greater(old[j], 0)
      <4>1. DOMAIN net = P /\ DOMAIN old = P
          BY <2>2
      <4> HIDE DEF P
      <4> QED
          BY <1>3, <1>4, <2>2, <4>1, ShareIs
    <3> QED
        BY <3>1
  <2>6. ASSUME NEW j \in Mates
        PROVE  AmountFrom(net, in, j, q) = AmountFrom(old, BaselineInput, j, q)
    <3>1. Driver(in.drivers, "WORKLOAD", target, q)
            = Driver(book.drivers, "WORKLOAD", target, q)
        BY DEF Alike
    <3>2. target = WorkloadTarget(AssetById(book.cards, j)) /\ j \in P
        OBVIOUS
    <3>3. \A k \in P : WorkloadTarget(AssetById(book.cards, k)) = target =>
              AssetById(in.cards, k) = AssetById(book.cards, k) /\ net[k] = old[k]
        BY <1>6, <2>2
    <3>4. net \in [P -> Int] /\ old \in [P -> Int]
        BY <2>2
    <3> HIDE DEF target, Mates
    <3> QED
        BY <3>1, <3>2, <3>3, <3>4, SameShare
  <2>7. Fit(t[q + 1], b[q + 1])
    <3>1. \A j \in Mates : j \in P
        OBVIOUS
    <3> HIDE DEF P, Mates
    <3> QED
        BY <2>2, <2>4, <2>5, <2>6, <3>1
  <2> HIDE DEF Fit
  <2> QED
      BY <2>1, <2>7
<1> HIDE DEF S
<1>11. m \in S
  <2>1. 0..m \subseteq S
      BY <1>1, <1>9, <1>10, InductionUpTo
  <2> QED
      BY <1>1, <2>1
<1>12. Fit(t[p], b[p])
  <2>1. FutureStart + m = p
      BY <1>1
  <2> HIDE DEF Fit, m
  <2> QED
      BY <1>11, <2>1 DEF S
<1> QED
    BY <1>12 DEF t, b

\* The months of an asset are the baseline's as long as nothing hits it.
LEMMA AlikeLines ==
    ASSUME BookInv, NEW in, NEW n, InputAfter(in, n), NEW id, Alike(in, id),
           NEW job \in JobsDue(BaselineInput), id \in AssetsOf(job, BaselineInput),
           ~ \E e \in in.events : e.target = id /\ e.period <= job.period
    PROVE  LineDue(in, job, id) = LineDue(BaselineInput, job, id)
<1> DEFINE a == AssetById(book.cards, id)
<1>1. AssetById(in.cards, id) = a /\ AssetById(BaselineInput.cards, id) = a
    BY BaselineInputFields DEF Alike
<1>2. job.kind # "PLANNED"
    BY BaselineInputIs, SameJobs
<1>3. InputAfter(BaselineInput, 0)
    BY BaselineInputIs
<1>4. CASE job.kind = "SNAPSHOT"
    BY <1>4 DEF LineDue, LineFrom
<1>5. CASE job.kind = "HISTORY"
  <2>1. job = Job("HISTORY", id, job.period) /\ job.id = id
      BY <1>5, JobOfKind DEF AssetsOf
  <2>2. FoundIn(in, job) = FoundIn(BaselineInput, job)
      BY <1>5, <2>1, AlikeHistory DEF FoundIn
  <2>3. ASSUME NEW s
        PROVE  HistoricalMonth(a, PolicyFor(a), job.period, s, in.drivers)
                 = HistoricalMonth(a, PolicyFor(a), job.period, s, book.drivers)
    <3>1. /\ Driver(in.drivers, "PRODUCTION", a.block, job.period)
                = Driver(book.drivers, "PRODUCTION", a.block, job.period)
          /\ Driver(in.drivers, "WORKLOAD", WorkloadTarget(a), job.period)
                = Driver(book.drivers, "WORKLOAD", WorkloadTarget(a), job.period)
        BY DEF Alike
    <3> HIDE DEF a
    <3> QED
        BY <3>1, SameHistorical
  <2> QED
      BY <1>1, <1>5, <2>2, <2>3, BaselineInputFields DEF LineDue, LineFrom
<1>6. CASE job.kind = "EXISTING"
  <2>1. job.id = id /\ job.period \in ForecastMonths
        /\ id \in IdsOf(BaselineInput.cards, Single(BaselineInput.cards))
      BY <1>6, JobOfKind DEF AssetsOf
  <2>2. a.id = id
      BY <1>1, <1>3, <2>1, CardOfJob
  <2>3. FoundIn(in, job) = FoundIn(BaselineInput, job)
      BY <1>6, <2>1, <2>2, AlikeWork DEF FoundIn
  <2>4. ~ \E e \in in.events : e.target = id /\ e.period = job.period
      BY <2>1, MonthsInt
  <2>5. ASSUME NEW w
        PROVE  ExistingMonth(a, PolicyFor(a), job.period, w, in.events, in.drivers)
                 = ExistingMonth(a, PolicyFor(a), job.period, w, {}, book.drivers)
      BY <2>2, <2>4, AlikeMonth
  <2> QED
      BY <1>1, <1>6, <2>3, <2>5, BaselineInputFields DEF LineDue, LineFrom
<1>7. CASE job.kind = "WORKLOAD"
  <2> DEFINE P == IdsOf(book.cards, Pooled(book.cards))
             t == WorkloadTarget(a)
             net == Trail(in, "WORKLOAD", None)[job.period]
             old == Trail(BaselineInput, "WORKLOAD", None)[job.period]
  <2>1. job = Job("WORKLOAD", None, job.period) /\ job.period \in ForecastMonths
      BY <1>7, JobOfKind
  <2>2. job.id = None
      BY <2>1 DEF Job
  <2>3. id \in P
      BY <1>7, BaselineInputFields DEF AssetsOf
  <2>4. /\ net \in [P -> Int] /\ old \in [P -> Int]
        /\ \A j \in P : WorkloadTarget(AssetById(book.cards, j)) = t => net[j] = old[j]
      BY <2>1, <2>3, AlikePool
  <2>5. FoundIn(in, job) = net /\ FoundIn(BaselineInput, job) = old
      BY <1>7, <2>2 DEF FoundIn
  <2>6. AmountFrom(net, in, id, job.period) = AmountFrom(old, BaselineInput, id, job.period)
    <3>1. /\ Driver(in.drivers, "WORKLOAD", t, job.period)
                = Driver(book.drivers, "WORKLOAD", t, job.period)
          /\ \A j \in P : WorkloadTarget(AssetById(book.cards, j)) = t =>
                AssetById(in.cards, j) = AssetById(book.cards, j)
        BY <2>3 DEF Alike
    <3>2. t = WorkloadTarget(AssetById(book.cards, id))
        OBVIOUS
    <3> HIDE DEF t, net, old
    <3> QED
        BY <2>3, <2>4, <3>1, <3>2, SameShare
  <2>7. net[id] = old[id]
      BY <2>3, <2>4
  <2> HIDE DEF net, old
  <2>8. PoolLine(net, in, id, job.period) = PoolLine(old, BaselineInput, id, job.period)
      BY <1>1, <2>6, <2>7 DEF PoolLine
  <2> QED
      BY <1>7, <2>5, <2>8 DEF LineDue, LineFrom
<1> QED
    BY <1>2, <1>4, <1>5, <1>6, <1>7, JobOfKind

LEMMA SourceIs ==
    ASSUME BookInv, NEW in, NEW n, InputAfter(in, n),
           NEW job \in JobsDue(in), NEW i \in AssetsOf(job, in)
    PROVE  LET l == LineDue(in, job, i)
           IN  /\ l.source = IF job.kind = "PLANNED" THEN "PLANNED" ELSE "CURRENT"
               /\ job.kind = "PLANNED" => i \in IdsOf(in.planned, DOMAIN in.planned)
               /\ job.kind # "PLANNED" => i \in IdsOf(book.cards, DOMAIN book.cards)
<1> DEFINE l == LineDue(in, job, i)
<1>1. /\ IdsOf(in.cards, Included(in.cards)) \subseteq IdsOf(book.cards, DOMAIN book.cards)
      /\ IdsOf(in.cards, Single(in.cards)) \subseteq IdsOf(book.cards, DOMAIN book.cards)
      /\ IdsOf(in.cards, Pooled(in.cards)) \subseteq IdsOf(book.cards, DOMAIN book.cards)
  <2>1. IdsOf(in.cards, DOMAIN in.cards) = IdsOf(book.cards, DOMAIN book.cards)
      BY SameParts
  <2> QED
      BY <2>1 DEF IdsOf, Included, Single, Pooled
<1>2. CASE job.kind = "SNAPSHOT"
  <2>1. i \in IdsOf(book.cards, DOMAIN book.cards)
      BY <1>2 DEF AssetsOf
  <2>2. PICK k \in DOMAIN book.cards : AssetById(book.cards, i) = book.cards[k]
      BY <2>1, BookIs, FoundById DEF IdsOf
  <2>3. l = SnapshotLine(book.workbook, book.cards[k])
      BY <1>2, <2>2 DEF LineDue, LineFrom
  <2>4. l.source = "CURRENT"
      BY <2>3, SnapshotLineIs
  <2> HIDE DEF l
  <2> QED
      BY <1>2, <2>1, <2>4 DEF l
<1>3. CASE job.kind = "HISTORY"
  <2>1. l.source = "CURRENT"
      BY <1>3, LineIs DEF LineDue, LineFrom
  <2>2. i \in IdsOf(book.cards, DOMAIN book.cards)
      BY <1>1, <1>3, JobOfKind DEF AssetsOf
  <2> HIDE DEF l
  <2> QED
      BY <1>3, <2>1, <2>2 DEF l
<1>4. CASE job.kind = "EXISTING"
  <2>1. l.source = "CURRENT"
      BY <1>4, LineIs DEF LineDue, LineFrom
  <2>2. i \in IdsOf(book.cards, DOMAIN book.cards)
      BY <1>1, <1>4, JobOfKind DEF AssetsOf
  <2> HIDE DEF l
  <2> QED
      BY <1>4, <2>1, <2>2 DEF l
<1>5. CASE job.kind = "WORKLOAD"
  <2>1. l.source = "CURRENT"
      BY <1>5, LineIs DEF LineDue, LineFrom, PoolLine
  <2>2. i \in IdsOf(book.cards, DOMAIN book.cards)
      BY <1>1, <1>5 DEF AssetsOf
  <2> HIDE DEF l
  <2> QED
      BY <1>5, <2>1, <2>2 DEF l
<1>6. CASE job.kind = "PLANNED"
  <2>1. l.source = "PLANNED"
      BY <1>6, LineIs DEF LineDue, LineFrom
  <2>2. i \in IdsOf(in.planned, DOMAIN in.planned)
      BY <1>6, JobOfKind DEF AssetsOf, IdsOf, Included
  <2> HIDE DEF l
  <2> QED
      BY <1>6, <2>1, <2>2 DEF l
<1> QED
    BY <1>2, <1>3, <1>4, <1>5, <1>6, JobOfKind

\* A line of an untouched asset is a line of both forecasts or of neither.
LEMMA LinesStay ==
    ASSUME BookInv, NEW in, InputAfter(in, MaxAssumptions), NEW l, Alike(in, l.id),
           ~ \E e \in in.events : e.target = l.id /\ e.period <= l.period
    PROVE  /\ l \in DirectLines(in) /\ l.source = "CURRENT" =>
                 l \in DirectLines(BaselineInput)
           /\ l \in DirectLines(BaselineInput) =>
                 l \in DirectLines(in) /\ l.source = "CURRENT"
<1>1. InputAfter(BaselineInput, 0) /\ InputAfter(BaselineInput, MaxAssumptions)
  <2>1. InputAfter(BaselineInput, 0) /\ \A m \in 1..0 : m \in 1..MaxAssumptions
      BY BaselineInputIs
  <2> QED
      BY <2>1 DEF InputAfter
<1>2. ASSUME l \in DirectLines(in), l.source = "CURRENT"
      PROVE  l \in DirectLines(BaselineInput)
  <2>1. PICK job \in JobsDue(in) : \E j \in AssetsOf(job, in) : l = LineDue(in, job, j)
      BY <1>2 DEF DirectLines
  <2>2. PICK i \in AssetsOf(job, in) : l = LineDue(in, job, i)
      BY <2>1
  <2>3. l.id = i /\ JobOf(l) = job
      BY <2>2, LineFromIs DEF LineDue
  <2>4. job.kind # "PLANNED"
      BY <1>2, <2>2, SourceIs
  <2>5. job \in JobsDue(BaselineInput) /\ i \in AssetsOf(job, BaselineInput)
      BY <2>4, SameJobs
  <2>6. job.period = l.period
      BY <2>3 DEF JobOf, Job
  <2>7. l = LineDue(BaselineInput, job, i)
      BY <2>2, <2>3, <2>5, <2>6, AlikeLines
  <2> QED
      BY <2>5, <2>7 DEF DirectLines
<1>3. ASSUME l \in DirectLines(BaselineInput)
      PROVE  l \in DirectLines(in) /\ l.source = "CURRENT"
  <2>1. PICK job \in JobsDue(BaselineInput) :
            \E j \in AssetsOf(job, BaselineInput) : l = LineDue(BaselineInput, job, j)
      BY <1>3 DEF DirectLines
  <2>2. PICK i \in AssetsOf(job, BaselineInput) : l = LineDue(BaselineInput, job, i)
      BY <2>1
  <2>3. l.id = i /\ JobOf(l) = job
      BY <1>1, <2>2, LineFromIs DEF LineDue
  <2>4. job.kind # "PLANNED" /\ job \in JobsDue(in) /\ i \in AssetsOf(job, in)
      BY SameJobs
  <2>5. l.source = "CURRENT"
      BY <1>1, <2>2, <2>4, SourceIs
  <2>6. job.period = l.period
      BY <2>3 DEF JobOf, Job
  <2>7. l = LineDue(in, job, i)
      BY <2>2, <2>3, <2>6, AlikeLines
  <2> QED
      BY <2>4, <2>5, <2>7 DEF DirectLines
<1> QED
    BY <1>2, <1>3

\* What no change reaches is as in the book.
LEMMA QuietIs ==
    ASSUME BookInv, InputAfter(input, MaxAssumptions), ChangesTell(input),
           NEW id \in CardIds, \A c \in Changes : id \notin Reached(c)
    PROVE  Alike(input, id) /\ \A e \in input.events : e.target # id
<1>1. /\ CardIds = IdsOf(book.cards, DOMAIN book.cards)
      /\ IdsOf(input.cards, Pooled(input.cards)) = IdsOf(book.cards, Pooled(book.cards))
    BY SameParts DEF CardIds
<1>2. \A k \in DOMAIN book.cards :
          /\ AssetById(book.cards, book.cards[k].id) = book.cards[k]
          /\ AssetById(input.cards, book.cards[k].id) = input.cards[k]
    BY SameParts
<1>3. \A i \in CardIds : /\ WorkloadTarget(Card(i)) = WorkloadTarget(AssetById(book.cards, i))
                         /\ Card(i).block = AssetById(book.cards, i).block
    BY <1>1, SameParts DEF Card
<1>4. \A target, fields : Tells(input, target, fields) =>
          \E c \in Changes : c.target = target /\ c.field \in fields
    BY DEF Tells, Changes
<1>5. ASSUME NEW i \in CardIds
      PROVE  \/ AssetById(input.cards, i) = AssetById(book.cards, i)
             \/ \E c \in Changes : c.target = i
  <2>1. PICK k \in DOMAIN book.cards : i = book.cards[k].id
      BY <1>1 DEF IdsOf
  <2>2. \/ input.cards[k] = book.cards[k]
        \/ Tells(input, i, CardChanges)
      BY <2>1 DEF ChangesTell
  <2> QED
      BY <1>2, <1>4, <2>1, <2>2
<1>6. \A c \in Changes : c.target # id
    BY DEF Reached
<1>7. AssetById(input.cards, id) = AssetById(book.cards, id)
    BY <1>5, <1>6
<1>8. ASSUME NEW p
      PROVE  Driver(input.drivers, "PRODUCTION", AssetById(book.cards, id).block, p)
               = Driver(book.drivers, "PRODUCTION", AssetById(book.cards, id).block, p)
  <2> DEFINE t == AssetById(book.cards, id).block
  <2>1. ~Tells(input, t, {"production_driver"})
      BY <1>3, <1>4 DEF Reached
  <2> HIDE DEF t
  <2>2. Driver(input.drivers, "PRODUCTION", t, p) = Driver(book.drivers, "PRODUCTION", t, p)
      BY <2>1 DEF ChangesTell, DriverChange
  <2> QED
      BY <2>2 DEF t
<1>9. ASSUME NEW p
      PROVE  LET t == WorkloadTarget(AssetById(book.cards, id))
             IN  Driver(input.drivers, "WORKLOAD", t, p) = Driver(book.drivers, "WORKLOAD", t, p)
  <2> DEFINE t == WorkloadTarget(AssetById(book.cards, id))
  <2>1. ~Tells(input, t, {"workload_driver"})
      BY <1>3, <1>4 DEF Reached
  <2> HIDE DEF t
  <2>2. Driver(input.drivers, "WORKLOAD", t, p) = Driver(book.drivers, "WORKLOAD", t, p)
      BY <2>1 DEF ChangesTell, DriverChange
  <2> QED
      BY <2>2 DEF t
<1>10. ASSUME NEW j \in IdsOf(book.cards, Pooled(book.cards)),
              id \in IdsOf(book.cards, Pooled(book.cards)),
              WorkloadTarget(AssetById(book.cards, j))
                = WorkloadTarget(AssetById(book.cards, id))
       PROVE  AssetById(input.cards, j) = AssetById(book.cards, j)
  <2>1. j \in CardIds
      BY <1>1 DEF IdsOf, Pooled, Included
  <2>2. \A k \in {id, j} : Depreciable(book.model, Card(k)) /\ MethodOf(Card(k)) = "WORKLOAD"
      BY <1>1, <1>10, CardOfJob DEF Card
  <2>3. WorkloadTarget(Card(id)) = WorkloadTarget(Card(j))
      BY <1>3, <1>10, <2>1
  <2>4. \A c \in Changes : c.target # j
      BY <2>1, <2>2, <2>3 DEF Reached
  <2> QED
      BY <1>5, <2>1, <2>4
<1>11. Alike(input, id)
    BY <1>7, <1>8, <1>9, <1>10 DEF Alike
<1>12. \A e \in input.events : e.target # id
    BY <1>4, <1>6 DEF ChangesTell
<1> QED
    BY <1>11, <1>12

\* Impairments and planned assets change neither a card nor a driver.
LEMMA CalmIs ==
    ASSUME BookInv, InputAfter(input, MaxAssumptions), ChangesTell(input),
           \A c \in Changes : c.field \in {"impairment_amount", "new_asset"},
           NEW id \in CardIds
    PROVE  Alike(input, id)
<1>1. CardIds = IdsOf(book.cards, DOMAIN book.cards)
    BY SameParts DEF CardIds
<1>2. /\ \A target : ~Tells(input, target, CardChanges)
      /\ \A target : ~Tells(input, target, {"production_driver"})
      /\ \A target : ~Tells(input, target, {"workload_driver"})
    BY DEF Tells, Changes, CardChanges
<1>3. ASSUME NEW i \in CardIds
      PROVE  AssetById(input.cards, i) = AssetById(book.cards, i)
  <2>1. PICK k \in DOMAIN book.cards : i = book.cards[k].id
      BY <1>1 DEF IdsOf
  <2>2. input.cards[k] = book.cards[k]
      BY <1>2 DEF ChangesTell
  <2> QED
      BY <2>1, <2>2, SameParts
<1>4. \A t, p : /\ Driver(input.drivers, "PRODUCTION", t, p)
                     = Driver(book.drivers, "PRODUCTION", t, p)
                /\ Driver(input.drivers, "WORKLOAD", t, p)
                     = Driver(book.drivers, "WORKLOAD", t, p)
    BY <1>2 DEF ChangesTell, DriverChange
<1>5. IdsOf(book.cards, Pooled(book.cards)) \subseteq CardIds
    BY <1>1 DEF IdsOf, Pooled, Included
<1> QED
    BY <1>3, <1>4, <1>5 DEF Alike

\* At the end of a scenario: what was stored is what two inputs lead to.
LEMMA WhatIsStored ==
    ASSUME ForecastInv, RequestTyped, ResultInv, phase = "stored"
    PROVE  /\ BookInv /\ InputAfter(input, MaxAssumptions) /\ ChangesTell(input)
           /\ stored.BASELINE.lines = DirectLines(BaselineInput)
           /\ stored.SCENARIO.lines = DirectLines(input)
           /\ lines = DirectLines(input)
<1>1. BookInv /\ InputAfter(input, MaxAssumptions)
    BY DEF ForecastInv
<1>2. Applied(request) # Refused /\ input = Applied(request)
    BY DEF ResultInv
<1>3. ChangesTell(input)
    BY <1>1, <1>2, AppliedTells DEF RequestTyped
<1> QED
    BY <1>1, <1>3 DEF ResultInv, ScenarioResult, Results

LEMMA LineOfInput ==
    ASSUME BookInv, NEW in, InputAfter(in, MaxAssumptions), NEW l \in DirectLines(in)
    PROVE  /\ JobOf(l) \in JobsDue(in) /\ l.id \in AssetsOf(JobOf(l), in)
           /\ l = LineDue(in, JobOf(l), l.id)
           /\ l.source \in {"CURRENT", "PLANNED"}
           /\ l.source = "PLANNED" => l.id \in IdsOf(in.planned, DOMAIN in.planned)
           /\ l.source = "CURRENT" => l.id \in IdsOf(in.cards, DOMAIN in.cards)
<1>1. PICK job \in JobsDue(in) : \E j \in AssetsOf(job, in) : l = LineDue(in, job, j)
    BY DEF DirectLines
<1>2. PICK i \in AssetsOf(job, in) : l = LineDue(in, job, i)
    BY <1>1
<1>3. l.id = i /\ JobOf(l) = job
    BY <1>2, LineFromIs DEF LineDue
<1>4. IdsOf(in.cards, DOMAIN in.cards) = IdsOf(book.cards, DOMAIN book.cards)
    BY SameParts
<1>5. /\ l.source = IF job.kind = "PLANNED" THEN "PLANNED" ELSE "CURRENT"
      /\ job.kind = "PLANNED" => i \in IdsOf(in.planned, DOMAIN in.planned)
      /\ job.kind # "PLANNED" => i \in IdsOf(book.cards, DOMAIN book.cards)
    BY <1>2, SourceIs
<1> QED
    BY <1>2, <1>3, <1>4, <1>5

LEMMA TargetsMove ==
    ASSUME ForecastInv, RequestTyped, ResultInv
    PROVE  OnlyTargetsMove
<1> SUFFICES ASSUME phase = "stored",
                    NEW l \in DirectLines(input) \ DirectLines(BaselineInput),
                    l.source = "CURRENT"
             PROVE  /\ \E c \in Changes : l.id \in Reached(c)
                    /\ l.kind # "SNAPSHOT"
                    /\ (\A c \in Changes : c.field \in {"impairment_amount", "new_asset"}) =>
                         \E e \in input.events : e.target = l.id /\ e.period <= l.period
    BY WhatIsStored DEF OnlyTargetsMove
<1>1. BookInv /\ InputAfter(input, MaxAssumptions) /\ ChangesTell(input)
    BY WhatIsStored
<1>2. /\ l.id \in CardIds /\ JobOf(l) \in JobsDue(input)
      /\ l.id \in AssetsOf(JobOf(l), input) /\ l = LineDue(input, JobOf(l), l.id)
    BY <1>1, LineOfInput DEF CardIds
<1>3. Alike(input, l.id) =>
          \E e \in input.events : e.target = l.id /\ e.period <= l.period
    BY <1>1, LinesStay
<1>4. \E c \in Changes : l.id \in Reached(c)
    BY <1>1, <1>2, <1>3, QuietIs
<1>5. l.kind # "SNAPSHOT"
  <2> SUFFICES ASSUME l.kind = "SNAPSHOT" PROVE FALSE
      OBVIOUS
  <2>1. JobOf(l).kind = "SNAPSHOT"
      BY DEF JobOf, Job
  <2>2. JobOf(l) \in JobsDue(BaselineInput) /\ l.id \in AssetsOf(JobOf(l), BaselineInput)
      BY <1>1, <1>2, <2>1, SameJobs
  <2>3. l = LineDue(BaselineInput, JobOf(l), l.id)
      BY <1>2, <2>1 DEF LineDue, LineFrom
  <2> QED
      BY <2>2, <2>3 DEF DirectLines
<1>6. (\A c \in Changes : c.field \in {"impairment_amount", "new_asset"}) =>
          \E e \in input.events : e.target = l.id /\ e.period <= l.period
    BY <1>1, <1>2, <1>3, CalmIs
<1> QED
    BY <1>4, <1>5, <1>6

\* Only what the changes of a scenario reach moves: every other asset has the
\* baseline's lines, no ledger line changes, an impairment changes no month
\* before its own (_apply_customer_assumptions, _run_forecast).
THEOREM ScenariosMoveTargetsOnly == Spec => []OnlyTargetsMove
<1>1. ForecastInv /\ RequestTyped /\ ResultInv => OnlyTargetsMove
    BY TargetsMove
<1> QED
    BY <1>1, ForecastHolds, ResultsHold, PTL
-----------------------------------------------------------------------------
(* What a difference is attributed to *)

LEMMA FiniteIds ==
    ASSUME NEW cards, AreCards(cards)
    PROVE  IsFiniteSet(IdsOf(cards, DOMAIN cards))
<1> DEFINE f == [k \in DOMAIN cards |-> cards[k].id]
<1>1. Len(cards) \in Nat /\ DOMAIN cards = 1..Len(cards)
    BY DEF AreCards, IsSequence
<1>2. IsFiniteSet(DOMAIN cards)
    BY <1>1, FS_Interval
<1>3. IdsOf(cards, DOMAIN cards) = {f[k] : k \in DOMAIN cards}
    BY DEF IdsOf
<1> HIDE DEF f
<1>4. IsFiniteSet({f[k] : k \in DOMAIN cards})
    BY <1>2, FiniteImage
<1> QED
    BY <1>3, <1>4

LEMMA FiniteJobs ==
    ASSUME BookInv, NEW in, NEW n, InputAfter(in, n)
    PROVE  IsFiniteSet(JobsDue(in))
<1> DEFINE K == {"HISTORY", "SNAPSHOT", "EXISTING", "WORKLOAD", "PLANNED"}
           I == IdsOf(in.cards, DOMAIN in.cards) \cup IdsOf(in.planned, DOMAIN in.planned)
                   \cup {None}
           P == HistoryMonths \cup ForecastMonths \cup {Snapshot}
           f == [x \in K \X (I \X P) |-> Job(x[1], x[2][1], x[2][2])]
<1>1. IsFiniteSet(K)
  <2>1. \A S, x : IsFiniteSet(S) => IsFiniteSet(S \cup {x})
      BY FS_AddElement
  <2>2. K = ((({"HISTORY"} \cup {"SNAPSHOT"}) \cup {"EXISTING"}) \cup {"WORKLOAD"})
              \cup {"PLANNED"}
      OBVIOUS
  <2>3. IsFiniteSet({"HISTORY"})
      BY FS_Singleton
  <2> HIDE DEF K
  <2> QED
      BY <2>1, <2>2, <2>3
<1>2. IsFiniteSet(I)
  <2>1. /\ IsFiniteSet(IdsOf(in.cards, DOMAIN in.cards))
        /\ IsFiniteSet(IdsOf(in.planned, DOMAIN in.planned))
      BY FiniteIds DEF InputAfter
  <2> QED
      BY <2>1, FS_AddElement, FS_Union
<1>3. IsFiniteSet(P)
  <2>1. Start \in Int /\ End \in Int /\ Snapshot \in Int /\ FutureStart \in Int
      BY BookIs
  <2>2. IsFiniteSet(HistoryMonths)
      BY <2>1, FS_Interval, FS_EmptySet DEF HistoryMonths
  <2>3. IsFiniteSet(ForecastMonths)
      BY <2>1, FS_Interval DEF ForecastMonths
  <2> QED
      BY <2>2, <2>3, FS_AddElement, FS_Union
<1>4. IsFiniteSet(K \X (I \X P))
  <2> HIDE DEF K, I, P
  <2> QED
      BY <1>1, <1>2, <1>3, FS_Product
<1>5. \A job \in JobsDue(in) : job \in {f[x] : x \in K \X (I \X P)}
  <2> SUFFICES ASSUME NEW job \in JobsDue(in)
               PROVE  job \in {f[x] : x \in K \X (I \X P)}
      OBVIOUS
  <2>1. PICK k \in K, i \in I, p \in P : job = Job(k, i, p)
    <3>1. /\ IdsOf(in.cards, Included(in.cards)) \subseteq I
          /\ IdsOf(in.cards, Single(in.cards)) \subseteq I
          /\ IdsOf(in.planned, Included(in.planned)) \subseteq I
        BY DEF IdsOf, Included, Single
    <3>2. \E k \in K : \E i \in I : \E p \in P : job = Job(k, i, p)
        BY <3>1, JobOfKind
    <3> QED
        BY <3>2
  <2>2. <<k, <<i, p>>>> \in K \X (I \X P)
      OBVIOUS
  <2>3. f[<<k, <<i, p>>>>] = job
      BY <2>1, <2>2
  <2> HIDE DEF f
  <2> QED
      BY <2>2, <2>3
<1> HIDE DEF f, K, I, P
<1>6. IsFiniteSet({f[x] : x \in K \X (I \X P)})
    BY <1>4, FiniteImage
<1> QED
    BY <1>5, <1>6, FS_Subset

LEMMA FiniteLines ==
    ASSUME BookInv, NEW in, NEW n, InputAfter(in, n)
    PROVE  IsFiniteSet(DirectLines(in))
<1> DEFINE of == [job \in JobsDue(in) |-> {LineDue(in, job, i) : i \in AssetsOf(job, in)}]
<1>1. ASSUME NEW job \in JobsDue(in) PROVE IsFiniteSet(of[job])
  <2> DEFINE f == [i \in AssetsOf(job, in) |-> LineDue(in, job, i)]
  <2>1. IsFiniteSet(AssetsOf(job, in))
    <3>1. IsFiniteSet(IdsOf(book.cards, DOMAIN book.cards))
        BY BookIs, FiniteIds
    <3>2. IsFiniteSet(IdsOf(in.cards, Pooled(in.cards)))
        BY FiniteMembers
    <3>3. IsFiniteSet({job.id})
        BY FS_Singleton
    <3> QED
        BY <3>1, <3>2, <3>3 DEF AssetsOf
  <2>2. of[job] = {f[i] : i \in AssetsOf(job, in)}
      OBVIOUS
  <2> HIDE DEF f, of
  <2>3. IsFiniteSet({f[i] : i \in AssetsOf(job, in)})
      BY <2>1, FiniteImage
  <2> QED
      BY <2>2, <2>3
<1>2. DirectLines(in) = UNION {of[job] : job \in JobsDue(in)}
    BY DEF DirectLines
<1> HIDE DEF of
<1>3. IsFiniteSet({of[job] : job \in JobsDue(in)})
    BY FiniteJobs, FiniteImage
<1>4. \A T \in {of[job] : job \in JobsDue(in)} : IsFiniteSet(T)
    BY <1>1
<1> QED
    BY <1>2, <1>3, <1>4, FS_UNION

\* By these the lines are ordered when they are read.
LEMMA LineNumbers ==
    ASSUME BookInv, NEW in, InputAfter(in, MaxAssumptions), NEW l \in DirectLines(in)
    PROVE  l.period \in Int /\ l.department \in Int /\ l.id \in Int
<1> DEFINE job == JobOf(l)
           i == l.id
<1>1. job \in JobsDue(in) /\ i \in AssetsOf(job, in) /\ l = LineDue(in, job, i)
    BY LineOfInput
<1>2. job.period = l.period
    BY DEF JobOf, Job
<1>3. job.period \in Int
    BY <1>1, JobOfKind, MonthsInt, BookIs DEF Job
<1> DEFINE a == AssetById(in.cards, i)
           planned == AssetById(in.planned, i)
<1>4. ASSUME NEW kind, NEW source, NEW c, NEW q, NEW m, IsCard(c)
      PROVE  LET k == Line(kind, source, c, q, m)
             IN  k.department \in Int /\ k.id \in Int
    BY <1>4 DEF Line, IsCard
<1>5. /\ IdsOf(in.cards, Included(in.cards)) \subseteq IdsOf(in.cards, DOMAIN in.cards)
      /\ IdsOf(in.cards, Single(in.cards)) \subseteq IdsOf(in.cards, DOMAIN in.cards)
      /\ IdsOf(in.cards, Pooled(in.cards)) \subseteq IdsOf(in.cards, DOMAIN in.cards)
    BY DEF IdsOf, Included, Single, Pooled
<1>6. job.kind \in {"HISTORY", "EXISTING", "WORKLOAD"} => IsCard(a)
    BY <1>1, <1>5, JobOfKind, CardOfJob DEF AssetsOf
<1>7. job.kind = "PLANNED" => IsCard(planned)
    BY <1>1, JobOfKind, CardOfJob DEF AssetsOf
<1>8. CASE job.kind = "SNAPSHOT"
  <2>1. i \in IdsOf(book.cards, DOMAIN book.cards)
      BY <1>1, <1>8 DEF AssetsOf
  <2>2. PICK k \in DOMAIN book.cards : AssetById(book.cards, i) = book.cards[k]
      BY <2>1, BookIs, FoundById DEF IdsOf
  <2>3. l = SnapshotLine(book.workbook, book.cards[k])
      BY <1>1, <1>8, <2>2 DEF LineDue, LineFrom
  <2>4. IsCard(book.cards[k])
      BY SnapshotLineIs
  <2> QED
      BY <1>2, <1>3, <2>3, <2>4 DEF SnapshotLine, IsCard
<1>9. CASE job.kind # "SNAPSHOT"
  <2> HIDE DEF i, a, planned, job
  <2>1. \E kind, source, c, q, m : l = Line(kind, source, c, q, m) /\ IsCard(c)
      BY <1>1, <1>6, <1>7, <1>9, JobOfKind DEF LineDue, LineFrom, PoolLine, a, planned
  <2> QED
      BY <1>2, <1>3, <1>4, <2>1
<1> QED
    BY <1>8, <1>9

\* All lines are read back when they are no more than the limit.
LEMMA ReadsAll ==
    ASSUME NEW L, IsFiniteSet(L), Cardinality(L) <= ReadLimit,
           \A l \in L : l.period \in Int /\ l.department \in Int /\ l.id \in Int
    PROVE  ForecastLines(L, NoFilter, ReadLimit, 0) = L
<1>1. Filtered(L, NoFilter) = L
    BY DEF Filtered, NoFilter
<1>2. ASSUME NEW l \in L
      PROVE  Cardinality({m \in L : Before(m, l)}) \in 0..(0 + ReadLimit - 1)
  <2> DEFINE earlier == {m \in L : Before(m, l)}
  <2>1. ~Before(l, l)
      BY DEF Before
  <2>2. earlier \subseteq L \ {l}
      BY <2>1
  <2>3. /\ IsFiniteSet(L \ {l}) /\ Cardinality(L \ {l}) = Cardinality(L) - 1
        /\ Cardinality(L) \in Nat
      BY FS_RemoveElement, FS_CardinalityType
  <2>4. Cardinality(earlier) <= Cardinality(L \ {l}) /\ Cardinality(earlier) \in Nat
      BY <2>2, <2>3, FS_Subset, FS_CardinalityType
  <2> QED
      BY <2>3, <2>4, LimitsAssumption
<1> QED
    BY <1>1, <1>2 DEF ForecastLines

\* The lines of a key, and what they add up to.
KeyOf(l) == <<l.source, l.period, l.id>>

Under(L, k) == {l \in L : KeyOf(l) = k}

Amount(L, k) == IF Under(L, k) = {} THEN 0 ELSE Total(Under(L, k))

LEMMA ObjectTotals ==
    ASSUME NEW L, NEW k
    PROVE  /\ k \in DOMAIN ObjectPeriodTotals(L) <=> Under(L, k) # {}
           /\ k \in DOMAIN ObjectPeriodTotals(L) =>
                 ObjectPeriodTotals(L)[k] = Total(Under(L, k))
<1>1. DOMAIN ObjectPeriodTotals(L) = {<<l.source, l.period, l.id>> : l \in L}
    BY DEF ObjectPeriodTotals
<1>2. Under(L, k) = {l \in L : <<l.source, l.period, l.id>> = k}
    BY DEF Under, KeyOf
<1> QED
    BY <1>1, <1>2 DEF ObjectPeriodTotals

LEMMA AttributeIs ==
    ASSUME NEW base, NEW other, NEW changes, NEW x \in Attribute(base, other, changes)
    PROVE  /\ Under(base, x.key) # {} \/ Under(other, x.key) # {}
           /\ x.difference = Amount(other, x.key) - Amount(base, x.key)
           /\ Amount(other, x.key) # Amount(base, x.key)
           /\ x.driver = IF ChangeOf(changes, x.key[3]) = 0 THEN "UNCLASSIFIED"
                         ELSE DriverType(changes[ChangeOf(changes, x.key[3])].field)
<1> DEFINE before == ObjectPeriodTotals(base)
           after == ObjectPeriodTotals(other)
           At(totals, k) == IF k \in DOMAIN totals THEN totals[k] ELSE 0
           Driver_(id) == IF ChangeOf(changes, id) = 0
                          THEN "UNCLASSIFIED"
                          ELSE DriverType(changes[ChangeOf(changes, id)].field)
           Keys == {j \in DOMAIN before \cup DOMAIN after : At(after, j) # At(before, j)}
<1>1. \A L, k : /\ k \in DOMAIN ObjectPeriodTotals(L) <=> Under(L, k) # {}
                /\ k \in DOMAIN ObjectPeriodTotals(L) =>
                      ObjectPeriodTotals(L)[k] = Total(Under(L, k))
    BY ObjectTotals
<1>2. \A k : At(before, k) = Amount(base, k) /\ At(after, k) = Amount(other, k)
    BY <1>1 DEF Amount
<1>3. Attribute(base, other, changes) =
          {[key |-> k, driver |-> Driver_(k[3]), difference |-> At(after, k) - At(before, k)] :
              k \in Keys}
    BY DEF Attribute
<1> HIDE DEF before, after, At, Driver_
<1>4. PICK k \in Keys :
          x = [key |-> k, driver |-> Driver_(k[3]), difference |-> At(after, k) - At(before, k)]
    BY <1>3
<1>5. x.key = k /\ x.driver = Driver_(k[3]) /\ x.difference = At(after, k) - At(before, k)
    BY <1>4
<1>6. Under(base, k) # {} \/ Under(other, k) # {}
    BY <1>1, <1>4 DEF before, after
<1> QED
    BY <1>2, <1>4, <1>5, <1>6 DEF Driver_

LEMMA LastChange ==
    ASSUME NEW changes, IsSequence(changes), NEW id
    PROVE  LET own == {k \in DOMAIN changes : changes[k].target = id}
           IN  ChangeOf(changes, id) = IF own = {} THEN 0 ELSE Max(own)
<1> DEFINE own == {k \in DOMAIN changes : changes[k].target = id}
           I == {i \in 1..Len(changes) : changes[i].target = id}
<1>1. I = own
    BY DEF IsSequence
<1>2. ChangeOf(changes, id) = IF I # {} THEN Max(I) ELSE 0
    BY DEF ChangeOf, SelectLastInSeq
<1> HIDE DEF I, own
<1>3. ChangeOf(changes, id) = IF own = {} THEN 0 ELSE Max(own)
    BY <1>1, <1>2
<1> QED
    BY <1>3 DEF own

\* Of an asset that no change reaches nothing differs.
LEMMA NothingDiffers ==
    ASSUME BookInv, InputAfter(input, MaxAssumptions), ChangesTell(input),
           NEW k, \A c \in Changes : k[3] \notin Reached(c),
           ~ \E c \in Changes : c.target = k[3]
    PROVE  Under(DirectLines(BaselineInput), k) = Under(DirectLines(input), k)
<1>1. InputAfter(BaselineInput, MaxAssumptions)
  <2>1. InputAfter(BaselineInput, 0) /\ \A m \in 1..0 : m \in 1..MaxAssumptions
      BY BaselineInputIs
  <2> QED
      BY <2>1 DEF InputAfter
<1>2. CardIds = IdsOf(book.cards, DOMAIN book.cards)
    BY SameParts DEF CardIds
<1>3. ASSUME NEW l, l.id \in CardIds, l.id = k[3]
      PROVE  /\ l \in DirectLines(input) /\ l.source = "CURRENT" =>
                   l \in DirectLines(BaselineInput)
             /\ l \in DirectLines(BaselineInput) => l \in DirectLines(input)
  <2>1. Alike(input, l.id) /\ \A e \in input.events : e.target # l.id
      BY <1>3, QuietIs
  <2> QED
      BY <2>1, LinesStay
<1>4. ASSUME NEW l \in Under(DirectLines(BaselineInput), k)
      PROVE  l \in Under(DirectLines(input), k)
  <2>1. l \in DirectLines(BaselineInput) /\ KeyOf(l) = k /\ l.id = k[3]
      BY DEF Under, KeyOf
  <2>2. \/ l.source = "CURRENT"
        \/ l.id \in IdsOf(BaselineInput.planned, DOMAIN BaselineInput.planned)
      BY <1>1, <2>1, LineOfInput
  <2>3. IdsOf(BaselineInput.planned, DOMAIN BaselineInput.planned) = {}
      BY BaselineInputFields DEF IdsOf
  <2>4. l.id \in CardIds
      BY <1>1, <1>2, <2>1, <2>2, <2>3, LineOfInput, BaselineInputFields
  <2> QED
      BY <1>3, <2>1, <2>4 DEF Under
<1>5. ASSUME NEW l \in Under(DirectLines(input), k)
      PROVE  l \in Under(DirectLines(BaselineInput), k)
  <2>1. l \in DirectLines(input) /\ KeyOf(l) = k /\ l.id = k[3]
      BY DEF Under, KeyOf
  <2>2. l.source = "CURRENT" /\ l.id \in CardIds
    <3> SUFFICES ASSUME l.source = "PLANNED" PROVE FALSE
        BY <2>1, LineOfInput DEF CardIds
    <3>1. PICK n \in DOMAIN input.planned : l.id = input.planned[n].id
        BY <2>1, LineOfInput DEF IdsOf
    <3>2. Tells(input, l.id, {"new_asset"})
        BY <3>1 DEF ChangesTell
    <3> QED
        BY <2>1, <3>2 DEF Tells, Changes
  <2> QED
      BY <1>3, <2>1, <2>2 DEF Under
<1> QED
    BY <1>4, <1>5

LEMMA BaselineReads ==
    ASSUME ForecastInv, RequestTyped, ResultInv, phase = "stored",
           Cardinality(stored.BASELINE.lines) <= ReadLimit
    PROVE  BaselineRead = DirectLines(BaselineInput)
<1>1. BookInv /\ stored.BASELINE.lines = DirectLines(BaselineInput)
    BY WhatIsStored
<1>2. InputAfter(BaselineInput, MaxAssumptions)
  <2>1. InputAfter(BaselineInput, 0) /\ \A m \in 1..0 : m \in 1..MaxAssumptions
      BY <1>1, BaselineInputIs
  <2> QED
      BY <2>1 DEF InputAfter
<1>3. IsFiniteSet(DirectLines(BaselineInput))
    BY <1>1, <1>2, FiniteLines
<1>4. \A l \in DirectLines(BaselineInput) :
          l.period \in Int /\ l.department \in Int /\ l.id \in Int
    BY <1>1, <1>2, LineNumbers
<1>5. ForecastLines(DirectLines(BaselineInput), NoFilter, ReadLimit, 0)
        = DirectLines(BaselineInput)
    BY <1>1, <1>3, <1>4, ReadsAll
<1> QED
    BY <1>1, <1>5 DEF BaselineRead

LEMMA ChangesFollowed ==
    ASSUME ForecastInv, RequestTyped, ResultInv
    PROVE  AttributionsFollowChanges
<1> SUFFICES ASSUME phase = "stored", NEW x \in stored.SCENARIO.attributions
             PROVE  LET own == {k \in DOMAIN input.changes :
                                   input.changes[k].target = x.key[3]}
                    IN  IF own = {}
                        THEN /\ x.driver = "UNCLASSIFIED"
                             /\ \/ Cardinality(stored.BASELINE.lines) > ReadLimit
                                \/ \E c \in Changes : x.key[3] \in Reached(c)
                        ELSE (x.driver = "IMPAIRMENT_EVENT") <=>
                                input.changes[Max(own)].field = "impairment_amount"
    BY DEF AttributionsFollowChanges
<1> DEFINE id == x.key[3]
           own == {k \in DOMAIN input.changes : input.changes[k].target = id}
<1>1. BookInv /\ InputAfter(input, MaxAssumptions) /\ ChangesTell(input)
      /\ lines = DirectLines(input)
    BY WhatIsStored
<1>2. x \in Attribute(BaselineRead, lines, input.changes)
    BY DEF ResultInv, ScenarioResult, Results
<1>3. ChangeOf(input.changes, id) = IF own = {} THEN 0 ELSE Max(own)
    BY <1>1, LastChange DEF ChangesTell
<1>4. /\ Amount(lines, x.key) # Amount(BaselineRead, x.key)
      /\ x.driver = IF ChangeOf(input.changes, id) = 0 THEN "UNCLASSIFIED"
                    ELSE DriverType(input.changes[ChangeOf(input.changes, id)].field)
    BY <1>2, AttributeIs
<1>5. IsFiniteSet(own) /\ own \subseteq Int
  <2>1. IsSequence(input.changes)
      BY <1>1 DEF ChangesTell
  <2>2. Len(input.changes) \in Nat /\ DOMAIN input.changes = 1..Len(input.changes)
      BY <2>1 DEF IsSequence
  <2>3. own \subseteq 1..Len(input.changes) /\ IsFiniteSet(1..Len(input.changes))
      BY <2>2, FS_Interval
  <2> HIDE DEF own
  <2>4. IsFiniteSet(own)
      BY <2>3, FS_Subset
  <2> QED
      BY <2>3, <2>4
<1>6. own # {} => Max(own) \in own /\ Max(own) # 0
  <2>1. 0 \notin own
    <3>1. IsSequence(input.changes)
        BY <1>1 DEF ChangesTell
    <3> QED
        BY <3>1 DEF IsSequence
  <2> HIDE DEF own
  <2> QED
      BY <1>5, <2>1, EndsOfPeriods
<1>7. CASE own = {}
  <2>1. x.driver = "UNCLASSIFIED"
      BY <1>3, <1>4, <1>7
  <2>2. ASSUME ~(Cardinality(stored.BASELINE.lines) > ReadLimit),
               ~ \E c \in Changes : id \in Reached(c)
        PROVE  FALSE
    <3>1. Cardinality(stored.BASELINE.lines) <= ReadLimit
      <4>1. stored.BASELINE.lines = DirectLines(BaselineInput)
          BY WhatIsStored
      <4>2. Cardinality(stored.BASELINE.lines) \in Nat
          BY <1>1, <4>1, BaselineInputIs, FiniteLines, FS_CardinalityType
      <4> QED
          BY <2>2, <4>2, LimitsAssumption
    <3>2. BaselineRead = DirectLines(BaselineInput)
        BY <3>1, BaselineReads
    <3>3. ~ \E c \in Changes : c.target = id
      <4>1. IsSequence(input.changes)
          BY <1>1 DEF ChangesTell
      <4>2. \A c \in Changes : \E k \in DOMAIN input.changes : c = input.changes[k]
          BY <4>1 DEF Changes, ToSet
      <4> QED
          BY <1>7, <4>2
    <3>4. Under(BaselineRead, x.key) = Under(lines, x.key)
        BY <1>1, <2>2, <3>2, <3>3, NothingDiffers
    <3> QED
        BY <1>4, <3>4 DEF Amount
  <2> QED
      BY <1>7, <2>1, <2>2
<1>8. CASE own # {}
  <2>1. x.driver = DriverType(input.changes[Max(own)].field)
      BY <1>3, <1>4, <1>6, <1>8
  <2> HIDE DEF own
  <2>2. (x.driver = "IMPAIRMENT_EVENT") <=>
            input.changes[Max(own)].field = "impairment_amount"
      BY <2>1 DEF DriverType
  <2> QED
      BY <1>8, <2>2 DEF own
<1> QED
    BY <1>7, <1>8

\* A difference is attributed to the last change of its asset; what stays
\* unclassified was reached by the driver or the pool mate that a change is
\* about, unless the baseline was not read to its end
\* (attribute_what_if_difference).
THEOREM DifferencesFollowChanges == Spec => []AttributionsFollowChanges
<1>1. ForecastInv /\ RequestTyped /\ ResultInv => AttributionsFollowChanges
    BY ChangesFollowed
<1> QED
    BY <1>1, ForecastHolds, ResultsHold, PTL
-----------------------------------------------------------------------------
(* Results that are read back *)

\* The baseline that is stored was computed from the book.
BaselineFits ==
    phase \notin {"ready", "baseline"} =>
        \A l \in stored.BASELINE.lines : LineFits(l, BaselineInput)

LEMMA FitsStay ==
    ASSUME BaselineFits, UNCHANGED <<book, stored>>,
           phase' \notin {"ready", "baseline"} => phase \notin {"ready", "baseline"}
    PROVE  BaselineFits'
<1>1. BaselineInput' = BaselineInput
    BY DEF BaselineInput
<1>2. \A l : LineFits(l, BaselineInput)' = LineFits(l, BaselineInput)
  <2>1. \A l, in : LineFits(l, in)' = LineFits(l, in)
      BY SameMeaning
  <2> QED
      BY <1>1, <2>1
<1> QED
    BY <1>1, <1>2 DEF BaselineFits

LEMMA FitsStored ==
    ASSUME ForecastInv, ResultInv, BaselineFits, Store
    PROVE  BaselineFits'
<1>1. BaselineInput' = BaselineInput /\ book' = book
    BY DEF BaselineInput, Store
<1>2. \A l : LineFits(l, BaselineInput)' = LineFits(l, BaselineInput)
  <2>1. \A l, in : LineFits(l, in)' = LineFits(l, in)
      BY <1>1, SameMeaning
  <2> QED
      BY <1>1, <2>1
<1>3. CASE phase = "baseline"
  <2>1. stored' = [stored EXCEPT !.BASELINE = Result]
      BY <1>3 DEF Store
  <2>2. stored'.BASELINE = Result
      BY <2>1 DEF ResultInv
  <2>3. Result.lines = lines
      BY DEF Result
  <2>4. \A l \in lines : LineFits(l, BaselineInput)
      BY <1>3 DEF ForecastInv, ResultInv
  <2> QED
      BY <1>2, <2>2, <2>3, <2>4 DEF BaselineFits
<1>4. CASE phase = "scenario"
  <2>1. stored' = [stored EXCEPT !.SCENARIO = Result]
      BY <1>4 DEF Store
  <2>2. stored'.BASELINE = stored.BASELINE
      BY <2>1 DEF ResultInv
  <2> QED
      BY <1>2, <1>4, <2>2 DEF BaselineFits
<1> QED
    BY <1>3, <1>4 DEF Store

LEMMA FitsNext ==
    ASSUME ForecastInv, ResultInv, BaselineFits, [Next]_vars
    PROVE  BaselineFits'
<1>1. CASE Store
    BY <1>1, FitsStored
<1>2. CASE ~Store
  <2>1. UNCHANGED <<book, stored>>
      BY <1>2 DEF Next, vars, ComputeBaseline, AddAssumption, Submit, HistoricalStep,
         TakeSnapshotLines, ExistingStep, WorkloadStep, PlannedStep
  <2>2. phase' \notin {"ready", "baseline"} => phase \notin {"ready", "baseline"}
      BY <1>2 DEF Next, vars, ComputeBaseline, AddAssumption, Submit, HistoricalStep,
         TakeSnapshotLines, ExistingStep, WorkloadStep, PlannedStep
  <2> QED
      BY <2>1, <2>2, FitsStay
<1> QED
    BY <1>1, <1>2

LEMMA BaselineHolds == Spec => []BaselineFits
<1>1. Init => BaselineFits
    BY DEF Init, BaselineFits
<1>2. ForecastInv /\ ResultInv /\ BaselineFits /\ [Next]_vars => BaselineFits'
    BY FitsNext
<1> QED
    BY <1>1, <1>2, ResultsHold, PTL DEF Spec

LEMMA BaselineInputFits ==
    ASSUME BookInv
    PROVE  InputAfter(BaselineInput, MaxAssumptions)
<1>1. InputAfter(BaselineInput, 0) /\ \A m \in 1..0 : m \in 1..MaxAssumptions
    BY BaselineInputIs
<1> QED
    BY <1>1 DEF InputAfter

LEMMA DirectAreLines ==
    ASSUME BookInv, NEW in, InputAfter(in, MaxAssumptions),
           \A l \in DirectLines(in) : LineFits(l, in)
    PROVE  AreLines(DirectLines(in))
<1>1. IsFiniteSet(DirectLines(in))
    BY FiniteLines
<1> QED
    BY <1>1, LineNumbers, LineOfInput DEF AreLines, LineFits

\* The result that was stored last.
LastResult == IF phase = "stored" THEN stored.SCENARIO ELSE stored.BASELINE

LEMMA LastResultIs ==
    ASSUME ForecastInv, RequestTyped, ResultInv, BaselineFits, Finished
    PROVE  /\ AreLines(LastResult.lines)
           /\ LastResult.summaries = Summarize(LastResult.lines)
           /\ AreLines(stored.BASELINE.lines)
<1>1. BookInv /\ InputAfter(BaselineInput, MaxAssumptions)
    BY BaselineInputFits DEF ForecastInv
<1>2. stored.BASELINE = Results(DirectLines(BaselineInput), BaselineInput, {})
    BY DEF ResultInv, Finished
<1>3. stored.BASELINE.lines = DirectLines(BaselineInput)
      /\ stored.BASELINE.summaries = Summarize(stored.BASELINE.lines)
    BY <1>2 DEF Results
<1>4. AreLines(stored.BASELINE.lines)
    BY <1>1, <1>3, DirectAreLines DEF BaselineFits, Finished
<1>5. CASE phase = "stored"
  <2>1. lines = DirectLines(input) /\ InputAfter(input, MaxAssumptions)
      BY <1>5 DEF ResultInv, ForecastInv
  <2>2. AreLines(lines)
      BY <1>1, <2>1, DirectAreLines DEF ForecastInv
  <2>3. LastResult = ScenarioResult
      BY <1>5 DEF ResultInv, LastResult
  <2>4. LastResult.lines = lines /\ LastResult.summaries = Summarize(lines)
      BY <2>3 DEF ScenarioResult, Results
  <2> QED
      BY <1>4, <2>2, <2>4
<1>6. CASE phase # "stored"
    BY <1>3, <1>4, <1>6 DEF LastResult
<1> QED
    BY <1>5, <1>6
-----------------------------------------------------------------------------
(* Views *)

LEMMA ViewsOfAResult ==
    ASSUME ForecastInv, RequestTyped, ResultInv, BaselineFits
    PROVE  ViewsAgree
<1> SUFFICES ASSUME Finished PROVE ViewsAgree
    BY DEF ViewsAgree
<1> DEFINE result == IF phase = "stored" THEN stored.SCENARIO ELSE stored.BASELINE
           L == result.lines
           board == Dashboard(L, result.summaries)
           cards == AssetCardAmounts(L)
           explained == ExplainChange(L, result.summaries, None, None)
           dims == <<"department", "depreciation_code", "asset">>
           Sum(f) == MapThenSumSet(LAMBDA k : f[k], DOMAIN f)
           Table(d) == WideTable(L, [NoFilter EXCEPT !.department = d], dims)
<1>1. AreLines(L) /\ result.summaries = Summarize(L)
    BY LastResultIs DEF LastResult
<1>2. board.total = Total(L) /\ board.count = Cardinality(L)
    BY DEF Dashboard
<1>3. ASSUME NEW d \in {None} \cup {l.department : l \in L}
      PROVE  MapThenSumSet(LAMBDA t : WideTreeNode(Table(d), t, Periods(L)).annual,
                           Paths(Table(d), 1))
               = IF d = None THEN board.total ELSE board.departments[d]
  <2> DEFINE filter == [NoFilter EXCEPT !.department = d]
  <2>1. Total(Chosen(L, filter)) = IF d = None THEN board.total ELSE board.departments[d]
    <3> HIDE DEF L, result
    <3> QED
        BY <1>1, DepartmentsAddUp
  <2>2. MapThenSumSet(LAMBDA t : WideTreeNode(Table(d), t, Periods(L)).annual,
                      Paths(Table(d), 1)) = Total(Chosen(L, filter))
    <3> HIDE DEF L, result, filter
    <3>1. MapThenSumSet(LAMBDA t : WideTreeNode(WideTable(L, filter, dims), t,
                                                Periods(L)).annual,
                        Paths(WideTable(L, filter, dims), 1)) = Total(Chosen(L, filter))
        BY <1>1, TopsAddUp
    <3> QED
        BY <3>1 DEF filter
  <2> QED
      BY <2>1, <2>2
<1>4. board.total = board.planned + board.current
  <2> HIDE DEF L, result
  <2> QED
      BY <1>1, SourcesAddUp
<1>5. \A f \in {board.annual, board.monthly, board.drivers,
                explained.drivers, explained.contributors} : Sum(f) = board.total
  <2>1. \A f : Sum(f) = SumFunctionOnSet(f, DOMAIN f)
      BY MapSumIs
  <2> HIDE DEF L, result, Sum
  <2> QED
      BY <1>1, <1>2, <2>1, GroupingsAddUp
<1>6. \A field : Sum(Summaries(result.summaries, field)) = board.total
  <2>1. \A f : Sum(f) = SumFunctionOnSet(f, DOMAIN f)
      BY MapSumIs
  <2> HIDE DEF L, result, Sum
  <2> QED
      BY <1>1, <1>2, <2>1, GroupingsAddUp
<1>7. /\ MapThenSumSet(LAMBDA i : cards[i].total, DOMAIN cards) = board.total
      /\ MapThenSumSet(LAMBDA i : cards[i].months, DOMAIN cards) = board.count
  <2> HIDE DEF L, result
  <2> QED
      BY <1>1, <1>2, CardsAddUp
<1>8. \A l \in L :
          Cardinality({k \in 0..(board.count \div PageSize) :
              l \in ForecastLines(L, NoFilter, PageSize, k * PageSize)}) = 1
  <2> HIDE DEF L, result
  <2> QED
      BY <1>1, <1>2, PagesAreRead DEF PageSize
<1>9. \A k \in DOMAIN <<board.annual, board.monthly, board.drivers,
                        explained.drivers, explained.contributors>> :
          Sum(<<board.annual, board.monthly, board.drivers,
                explained.drivers, explained.contributors>>[k]) = board.total
  <2> HIDE DEF board, explained, Sum
  <2> QED
      BY <1>5
<1> QED
    BY <1>3, <1>4, <1>6, <1>7, <1>8, <1>9, ZenonT(60) DEF ViewsAgree

\* The views of a result agree, whatever they group by (BusinessResultStore).
THEOREM EveryViewAddsUp == Spec => []ViewsAgree
<1>1. ForecastInv /\ RequestTyped /\ ResultInv /\ BaselineFits => ViewsAgree
    BY ViewsOfAResult
<1> QED
    BY <1>1, ForecastHolds, ResultsHold, BaselineHolds, PTL
-----------------------------------------------------------------------------
(* One difference, told many ways *)

LEMMA DifferencesSum ==
    ASSUME NEW S
    PROVE  MapThenSumSet(DifferenceOf, S) = SumFunctionOnSet([x \in S |-> x.difference], S)
<1> DEFINE f == [x \in S |-> x.difference]
           L(h) == [T \in SUBSET S |->
                       IF T = {} THEN 0
                       ELSE LET x == CHOOSE x \in T : TRUE IN DifferenceOf(x) + h[T \ {x}]]
<1>1. MapThenSumSet(DifferenceOf, S) = (CHOOSE h : h = L(h))[S]
    BY DEF MapThenSumSet, MapThenFoldSet
<1>2. ASSUME NEW h PROVE L(h) = Fold(f, S, h)
  <2>1. \A T \in SUBSET S : T # {} => (CHOOSE x \in T : TRUE) \in S
      OBVIOUS
  <2> QED
      BY <2>1 DEF Fold, DifferenceOf
<1> HIDE DEF f, L
<1>3. (CHOOSE h : h = L(h)) = (CHOOSE h : h = Fold(f, S, h))
    BY <1>2
<1> QED
    BY <1>1, <1>3, FoldIs DEF f

\* The keys where two results differ.
KeysOf(A, B) == {KeyOf(l) : l \in A \cup B}

Moved(A, B) == {k \in KeysOf(A, B) : Amount(A, k) # Amount(B, k)}

\* There is one attribution for each of them.
LEMMA AttributeAll ==
    ASSUME NEW A, NEW B, NEW changes
    PROVE  \E driver : Attribute(B, A, changes) =
              {[key |-> k, driver |-> driver[k], difference |-> Amount(A, k) - Amount(B, k)] :
                  k \in Moved(A, B)}
<1> DEFINE before == ObjectPeriodTotals(B)
           after == ObjectPeriodTotals(A)
           At(totals, k) == IF k \in DOMAIN totals THEN totals[k] ELSE 0
           Driver_(id) == IF ChangeOf(changes, id) = 0
                          THEN "UNCLASSIFIED"
                          ELSE DriverType(changes[ChangeOf(changes, id)].field)
           Keys == {j \in DOMAIN before \cup DOMAIN after : At(after, j) # At(before, j)}
           driver == [k \in Keys |-> Driver_(k[3])]
<1>1. \A k : At(before, k) = Amount(B, k) /\ At(after, k) = Amount(A, k)
    BY ObjectTotals DEF Amount
<1>2. \A k : k \in DOMAIN before \cup DOMAIN after <=> k \in KeysOf(A, B)
  <2>1. \A k : /\ k \in DOMAIN before <=> \E l \in B : KeyOf(l) = k
               /\ k \in DOMAIN after <=> \E l \in A : KeyOf(l) = k
      BY ObjectTotals DEF Under
  <2> HIDE DEF before, after
  <2> QED
      BY <2>1 DEF KeysOf
<1>3. Attribute(B, A, changes) =
          {[key |-> k, driver |-> Driver_(k[3]), difference |-> At(after, k) - At(before, k)] :
              k \in Keys}
    BY DEF Attribute
<1> HIDE DEF before, after, At
<1>4. Keys = Moved(A, B)
    BY <1>1, <1>2 DEF Moved
<1>5. \A k \in Keys : driver[k] = Driver_(k[3])
    OBVIOUS
<1> HIDE DEF Keys, driver, Driver_
<1>6. Attribute(B, A, changes) =
          {[key |-> k, driver |-> driver[k], difference |-> Amount(A, k) - Amount(B, k)] :
              k \in Moved(A, B)}
    BY <1>1, <1>3, <1>4, <1>5
<1> QED
    BY <1>6

LinesWith(L, W) == {l \in L : KeyOf(l) \in W}

Attributed(A, B, changes, W) ==
    MapThenSumSet(DifferenceOf, {x \in Attribute(B, A, changes) : x.key \in W})

\* The attributions of some keys add up to the difference of their lines.
LEMMA AttributionsAddUp ==
    ASSUME NEW A, AreLines(A), NEW B, AreLines(B), NEW changes, NEW W
    PROVE  Attributed(A, B, changes, W) = Total(LinesWith(A, W)) - Total(LinesWith(B, W))
<1> DEFINE K == KeysOf(A, B) \cap W
           Aw == {l \in A : KeyOf(l) \in W}
           Bw == {l \in B : KeyOf(l) \in W}
           a == [l \in Aw |-> KeyOf(l)]
           b == [l \in Bw |-> KeyOf(l)]
           d == [k \in K |-> Total({l \in Aw : a[l] = k}) - Total({l \in Bw : b[l] = k})]
           D == Moved(A, B) \cap W
           X == {x \in Attribute(B, A, changes) : x.key \in W}
<1>1. IsFiniteSet(K)
  <2> DEFINE key == [l \in A \cup B |-> KeyOf(l)]
  <2>1. IsFiniteSet(A \cup B)
      BY FS_Union DEF AreLines
  <2>2. IsFiniteSet({key[l] : l \in A \cup B})
      BY <2>1, FiniteImage
  <2>3. K \subseteq {key[l] : l \in A \cup B}
      BY DEF KeysOf
  <2> HIDE DEF K, key
  <2> QED
      BY <2>2, <2>3, FS_Subset
<1>2. AreLines(Aw) /\ AreLines(Bw)
  <2>1. Aw \in SUBSET A /\ Bw \in SUBSET B
      OBVIOUS
  <2> HIDE DEF Aw, Bw
  <2> QED
      BY <2>1, TotalIs
<1>3. SumFunctionOnSet(d, K) = Total(Aw) - Total(Bw) /\ Numbers(d, K)
  <2>1. (\A l \in Aw : a[l] \in K) /\ (\A l \in Bw : b[l] \in K)
      BY DEF KeysOf
  <2> HIDE DEF K, Aw, Bw, a, b
  <2> QED
      BY <1>1, <1>2, <2>1, DifferenceByKeys
<1>4. ASSUME NEW k \in K PROVE d[k] = Amount(A, k) - Amount(B, k)
  <2>1. {l \in Aw : a[l] = k} = Under(A, k) /\ {l \in Bw : b[l] = k} = Under(B, k)
      BY DEF Under
  <2>2. Total(Under(A, k)) = Amount(A, k) /\ Total(Under(B, k)) = Amount(B, k)
      BY TotalOfNone DEF Amount
  <2>3. d[k] = Total({l \in Aw : a[l] = k}) - Total({l \in Bw : b[l] = k})
      OBVIOUS
  <2> HIDE DEF Aw, Bw, a, b, d
  <2> QED
      BY <2>1, <2>2, <2>3
<1>5. D \in SUBSET K /\ \A k \in K \ D : d[k] = 0
  <2>1. ASSUME NEW k \in K \ D PROVE d[k] = 0
    <3>1. d[k] = Amount(A, k) - Amount(B, k) /\ Amount(A, k) = Amount(B, k)
        BY <1>4 DEF Moved
    <3>2. Amount(A, k) \in Int
      <4>1. Under(A, k) \in SUBSET A
          BY DEF Under
      <4>2. Total(Under(A, k)) \in Int
          BY <4>1, TotalIs
      <4> QED
          BY <4>2 DEF Amount
    <3> HIDE DEF d
    <3> QED
        BY <3>1, <3>2
  <2> HIDE DEF d
  <2> QED
      BY <2>1 DEF Moved
<1> HIDE DEF K, Aw, Bw, d
<1>6. SumFunctionOnSet(d, K) = SumFunctionOnSet(d, D) /\ IsFiniteSet(D)
  <2> HIDE DEF D
  <2> QED
      BY <1>1, <1>3, <1>5, SumInside, FS_Subset
<1>7. PICK driver : Attribute(B, A, changes) =
          {[key |-> k, driver |-> driver[k], difference |-> Amount(A, k) - Amount(B, k)] :
              k \in Moved(A, B)}
    BY AttributeAll
<1> DEFINE rec == [k \in D |-> [key |-> k, driver |-> driver[k],
                                difference |-> Amount(A, k) - Amount(B, k)]]
           f == [x \in X |-> x.difference]
<1>8. X = {rec[k] : k \in D}
  <2>1. ASSUME NEW x \in X PROVE \E k \in D : x = rec[k]
    <3>1. PICK k \in Moved(A, B) :
              x = [key |-> k, driver |-> driver[k], difference |-> Amount(A, k) - Amount(B, k)]
        BY <1>7
    <3>2. k \in D
        BY <3>1
    <3> QED
        BY <3>1, <3>2
  <2>2. ASSUME NEW k \in D PROVE rec[k] \in X
    <3>1. rec[k] \in Attribute(B, A, changes)
        BY <1>7
    <3>2. rec[k].key = k /\ k \in W
        OBVIOUS
    <3> HIDE DEF rec
    <3> QED
        BY <3>1, <3>2
  <2> HIDE DEF X, rec, D
  <2> QED
      BY <2>1, <2>2
<1>9. \A k \in D : rec[k].key = k /\ rec[k].difference = d[k]
    BY <1>4, <1>5
<1> HIDE DEF rec, X, D
<1>10. \A k \in D : f[rec[k]] = d[k] /\ d[k] \in Int
  <2>1. \A k \in D : rec[k] \in X
      BY <1>8
  <2> QED
      BY <1>3, <1>5, <1>9, <2>1 DEF Numbers
<1> HIDE DEF f
<1>11. SumFunctionOnSet(f, X) = SumFunctionOnSet([k \in D |-> f[rec[k]]], D)
    BY <1>6, <1>8, <1>9, <1>10, SumRenamed
<1>12. SumFunctionOnSet([k \in D |-> f[rec[k]]], D) = SumFunctionOnSet(d, D)
  <2> DEFINE g == [k \in D |-> f[rec[k]]]
  <2>1. \A k \in D : g[k] = d[k] /\ g[k] \in Int
      BY <1>10
  <2> HIDE DEF g
  <2>2. SumFunctionOnSet(g, D) = SumFunctionOnSet(d, D)
      BY <1>6, <2>1, SumOfSame
  <2> QED
      BY <2>2 DEF g
<1>13. MapThenSumSet(DifferenceOf, X) = SumFunctionOnSet(f, X)
    BY DifferencesSum DEF f
<1> QED
    BY <1>3, <1>6, <1>11, <1>12, <1>13 DEF X, Aw, Bw, LinesWith, Attributed

\* Some line of the baseline is of the first month that is forecast.
LEMMA FutureIsForecast ==
    ASSUME BookInv, SomethingToForecast
    PROVE  \E l \in DirectLines(BaselineInput) : l.period = FutureStart
<1> DEFINE in == BaselineInput
<1>1. PICK k \in DOMAIN book.cards : Depreciable(book.model, book.cards[k])
    BY DEF BookInv, SomethingToForecast
<1>2. /\ k \in Included(in.cards) /\ in.cards[k] = book.cards[k] /\ in.cards = book.cards
      /\ k \in DOMAIN in.cards
    BY <1>1, BaselineInputFields DEF Included
<1>3. FutureStart \in ForecastMonths
  <2>1. Snapshot # End /\ Start <= End
      BY HorizonInt, WorkbooksAssumption DEF BookInv, SomethingToForecast, Snapshot, Start, End
  <2>2. Start \in Int /\ End \in Int /\ Snapshot \in Int
      BY BookIs
  <2> QED
      BY <2>1, <2>2 DEF ForecastMonths, FutureStart, SpansSnapshot
<1> HIDE DEF in
<1>4. \E job \in JobsDue(in) : \E i \in AssetsOf(job, in) :
          job.kind \in {"EXISTING", "WORKLOAD"} /\ job.period = FutureStart
  <2>1. CASE k \in Pooled(in.cards)
    <3> DEFINE job == Job("WORKLOAD", None, FutureStart)
    <3>1. job \in JobsDue(in) /\ job.kind = "WORKLOAD" /\ job.period = FutureStart
        BY <1>3, <2>1 DEF JobsDue, PoolDue, Job
    <3>2. in.cards[k].id \in AssetsOf(job, in)
        BY <2>1, <3>1 DEF AssetsOf, IdsOf
    <3> QED
        BY <3>1, <3>2
  <2>2. CASE k \notin Pooled(in.cards)
    <3> DEFINE i == in.cards[k].id
               job == Job("EXISTING", i, FutureStart)
    <3>1. i \in IdsOf(in.cards, Single(in.cards))
        BY <1>2, <2>2 DEF IdsOf, Single
    <3>2. job \in JobsDue(in) /\ job.kind = "EXISTING" /\ job.period = FutureStart
        BY <1>3, <3>1 DEF JobsDue, ExistingDue, Job
    <3>3. i \in AssetsOf(job, in)
        BY <3>2 DEF AssetsOf, Job
    <3> QED
        BY <3>2, <3>3
  <2> QED
      BY <2>1, <2>2
<1>5. PICK job \in JobsDue(in) : \E i \in AssetsOf(job, in) :
          job.kind \in {"EXISTING", "WORKLOAD"} /\ job.period = FutureStart
    BY <1>4
<1>6. PICK i \in AssetsOf(job, in) :
          job.kind \in {"EXISTING", "WORKLOAD"} /\ job.period = FutureStart
    BY <1>5
<1>7. LineDue(in, job, i).period = FutureStart
    BY <1>6 DEF LineDue, LineFrom, PoolLine, Line
<1>8. LineDue(in, job, i) \in DirectLines(in)
    BY <1>5, <1>6 DEF DirectLines
<1> QED
    BY <1>7, <1>8 DEF in

LEMMA WindowAccepted ==
    ASSUME NEW L, AreLines(L), \E l \in L : l.period = FutureStart
    PROVE  AcceptsWindow(L, [NoFilter EXCEPT !.from = FutureStart])
<1> DEFINE period == [l \in L |-> l.period]
           S == Periods(L)
<1>1. S = {period[l] : l \in L} /\ S \in SUBSET Int /\ FutureStart \in S
    BY DEF Periods, AreLines
<1>2. IsFiniteSet(S)
  <2>1. IsFiniteSet({period[l] : l \in L})
      BY FiniteImage DEF AreLines
  <2> HIDE DEF S
  <2> QED
      BY <1>1, <2>1
<1> HIDE DEF S
<1>3. FutureStart \in Min(S)..Max(S)
    BY <1>1, <1>2, EndsOfPeriods
<1> QED
    BY <1>3 DEF AcceptsWindow, NoFilter, S

\* The attributions of a whole result, and of one month.
TellDifference(X, A, B, p) ==
    /\ MapThenSumSet(DifferenceOf, X) = Total(A) - Total(B)
    /\ MapThenSumSet(DifferenceOf, {x \in X : x.key[2] = p})
         = Total({l \in A : l.period = p}) - Total({l \in B : l.period = p})

LEMMA AttributionsTell ==
    ASSUME NEW A, AreLines(A), NEW B, AreLines(B), NEW changes, NEW p
    PROVE  TellDifference(Attribute(B, A, changes), A, B, p)
<1> DEFINE X == Attribute(B, A, changes)
           W == {x.key : x \in X} \cup KeysOf(A, B)
           V == {k \in W : k[2] = p}
<1>1. \A l \in A \cup B : KeyOf(l) \in W /\ KeyOf(l)[2] = l.period
    BY DEF KeysOf, KeyOf
<1>2. \A w : Attributed(A, B, changes, w) = Total(LinesWith(A, w)) - Total(LinesWith(B, w))
    BY AttributionsAddUp
<1>3. /\ {x \in X : x.key \in W} = X
      /\ {x \in X : x.key \in V} = {x \in X : x.key[2] = p}
    OBVIOUS
<1>4. /\ LinesWith(A, W) = A /\ LinesWith(B, W) = B
      /\ LinesWith(A, V) = {l \in A : l.period = p}
      /\ LinesWith(B, V) = {l \in B : l.period = p}
  <2> HIDE DEF W
  <2> QED
      BY <1>1 DEF LinesWith
<1>5. /\ Attributed(A, B, changes, W) = MapThenSumSet(DifferenceOf, X)
      /\ Attributed(A, B, changes, V)
           = MapThenSumSet(DifferenceOf, {x \in X : x.key[2] = p})
    BY <1>3 DEF Attributed
<1> HIDE DEF X, V, W
<1> QED
    BY <1>2, <1>4, <1>5 DEF X, TellDifference

LEMMA OneDifference ==
    ASSUME ForecastInv, RequestTyped, ResultInv, BaselineFits, SomethingToForecast
    PROVE  DifferencesAgree
<1> SUFFICES ASSUME phase = "stored", Cardinality(stored.BASELINE.lines) <= ReadLimit
             PROVE  DifferencesAgree
    BY DEF DifferencesAgree
<1> DEFINE base == stored.BASELINE
           other == stored.SCENARIO
           A == other.lines
           B == base.lines
           window == [NoFilter EXCEPT !.from = FutureStart]
           difference == Total(A) - Total(B)
           months == ComparePeriods(B, <<A>>, window)
           X == other.attributions
           Rows(dims) == CompareRows(B, <<A>>, window, dims)
           Node(dims) == CompareNode(Rows(dims), <<>>, months)
<1>1. /\ BookInv /\ B = DirectLines(BaselineInput) /\ BaselineRead = B /\ lines = A
    BY WhatIsStored, BaselineReads
<1>2. AreLines(A) /\ AreLines(B)
    BY LastResultIs DEF LastResult, Finished
<1>3. X = Attribute(B, A, input.changes)
  <2>1. other = ScenarioResult
      BY DEF ResultInv
  <2> QED
      BY <1>1, <2>1 DEF ScenarioResult, Results
<1>4. PICK l \in B : l.period = FutureStart
    BY <1>1, FutureIsForecast
<1>5. FutureStart \in months
  <2>1. FutureStart \in Int
      BY <1>1, BookIs
  <2>2. FutureStart \in Periods(B)
      BY <1>4 DEF Periods
  <2> HIDE DEF B, A
  <2> QED
      BY <2>1, <2>2 DEF ComparePeriods, NoFilter
<1>6. Chosen(A, window) = A /\ Chosen(B, window) = B
  <2> DEFINE f == [window EXCEPT !.from = None, !.to = None]
  <2>1. f.department = None /\ f.category = None /\ f.from = None /\ f.to = None
      BY DEF NoFilter
  <2> HIDE DEF f
  <2>2. \A L : Filtered(L, f) = L
      BY <2>1 DEF Filtered
  <2> QED
      BY <2>2 DEF Chosen, f
<1>7. /\ Dashboard(A, other.summaries).total - Dashboard(B, base.summaries).total = difference
      /\ Preview.draft - Preview.baseline = difference
    BY <1>1 DEF Dashboard, Preview
<1>8. AcceptsWindow(BaselineRead, window)
    BY <1>1, <1>2, <1>4, WindowAccepted
<1> DEFINE D == {"department", "asset_category", "asset"}
<1>9. \A dims \in CompareDimensions : dims \in Seq(D)
  <2>1. \A a, b \in D : <<a, b>> \in Seq(D) /\ <<a>> \in Seq(D) /\ <<>> \in Seq(D)
    <3> HIDE DEF D
    <3> QED
        OBVIOUS
  <2>2. "department" \in D /\ "asset_category" \in D /\ "asset" \in D
      OBVIOUS
  <2> HIDE DEF D
  <2> QED
      BY <2>1, <2>2 DEF CompareDimensions
<1> HIDE DEF D
<1> HIDE DEF A, B, X, window, months
<1>10. ASSUME NEW p
       PROVE  /\ MapThenSumSet(DifferenceOf, X) = difference
              /\ MapThenSumSet(DifferenceOf, {x \in X : x.key[2] = p})
                   = Total({k \in A : k.period = p}) - Total({k \in B : k.period = p})
  <2>1. TellDifference(X, A, B, p)
      BY <1>2, <1>3, AttributionsTell
  <2> QED
      BY <2>1 DEF TellDifference
<1>11. MapThenSumSet(DifferenceOf, X) = difference
    BY <1>10
<1>12. ASSUME NEW dims \in CompareDimensions, NEW p \in months
       PROVE  /\ Minus(Head(Node(dims).scenarios), Node(dims).baseline).annual = difference
              /\ NodeDifference(Node(dims), p)
                   = MapThenSumSet(LAMBDA k : RowDifference(Rows(dims)[k], p),
                                   DOMAIN Rows(dims))
              /\ NodeDifference(Node(dims), p)
                   = MapThenSumSet(DifferenceOf, {x \in X : x.key[2] = p})
  <2>1. A \cup B # {}
      BY <1>4
  <2>2. /\ Minus(Head(Node(dims).scenarios), Node(dims).baseline).annual = difference
        /\ NodeDifference(Node(dims), p)
             = Total({k \in A : k.period = p}) - Total({k \in B : k.period = p})
        /\ DifferenceIn(Rows(dims), p, DOMAIN Rows(dims))
             = Total({k \in A : k.period = p}) - Total({k \in B : k.period = p})
    <3>1. ShowsDifference(Rows(dims), Node(dims), A, B, p)
        BY <1>2, <1>6, <1>9, <2>1, ComparisonAddsUp DEF months
    <3> HIDE DEF Rows, Node
    <3> QED
        BY <3>1 DEF ShowsDifference
  <2> HIDE DEF Rows, Node
  <2>3. DifferenceIn(Rows(dims), p, DOMAIN Rows(dims))
          = MapThenSumSet(LAMBDA k : RowDifference(Rows(dims)[k], p), DOMAIN Rows(dims))
      BY DEF DifferenceIn
  <2> QED
      BY <1>10, <2>2, <2>3
<1>13. \A dims \in CompareDimensions :
          Minus(Head(Node(dims).scenarios), Node(dims).baseline).annual = difference
    BY <1>5, <1>12
<1> QED
    BY <1>7, <1>8, <1>11, <1>12, <1>13, ZenonT(60) DEF DifferencesAgree, A, B, X, window, months

\* The difference of a scenario is one, wherever it is told, if the horizon
\* goes beyond the ledger month and some card has a policy
\* (AttributionService, wide_table_compare, create_chat_what_if_draft).
THEOREM ScenariosTellOneDifference ==
    SomethingToForecast => (Spec => []DifferencesAgree)
<1> SUFFICES ASSUME SomethingToForecast PROVE Spec => []DifferencesAgree
    OBVIOUS
<1>1. ForecastInv /\ RequestTyped /\ ResultInv /\ BaselineFits => DifferencesAgree
    BY OneDifference
<1> QED
    BY <1>1, ForecastHolds, ResultsHold, BaselineHolds, PTL
=============================================================================
