------------------------- MODULE DepreciationProofs -------------------------
(***************************************************************************)
(* What the depreciation rules, the workbook and the views give for every  *)
(* input: the cards of a ledger, sums over them, rounding, a month of each *)
(* method, totals of lines and of their groups.                            *)
(***************************************************************************)
EXTENDS CustomerWorkbook, ResultViews, InductionLemmas

-----------------------------------------------------------------------------
(* The ledger *)

\* What LoadAssets makes of one more row.
WithRow(cards, row) == IF Excluded(row) THEN cards ELSE Append(cards, CardOf(row))

Ledger(wb) == {CardOf(wb.rows[i]) : i \in {j \in DOMAIN wb.rows : ~Excluded(wb.rows[j])}}

\* Row by row, the cards grow.
Grows(wb, result) ==
    /\ result[0] = <<>>
    /\ \A i \in 1..Len(wb.rows) : result[i] = WithRow(result[i - 1], wb.rows[i])

LEMMA RowByRow ==
    ASSUME NEW wb, IsWorkbook(wb)
    PROVE  \E result : Grows(wb, result) /\ LoadAssets(wb) = result[Len(wb.rows)]
<1> DEFINE n == Len(wb.rows)
           T == Seq(Ledger(wb))
           step == [i \in 1..n |-> [b \in T |-> WithRow(b, wb.rows[i])]]
           Loop(f) == [i \in 0..n |-> IF i = 0 THEN <<>>
                                      ELSE WithRow(f[i - 1], wb.rows[i])]
           result == CHOOSE f : f = Loop(f)
<1>0. LoadAssets(wb) = result[n]
    BY DEF LoadAssets, WithRow
<1>1. /\ n \in Nat /\ DOMAIN wb.rows = 1..n
    BY DEF IsWorkbook, IsSequence
<1>2. ASSUME NEW i \in 1..n, NEW b \in T PROVE WithRow(b, wb.rows[i]) \in T
  <2>1. ~Excluded(wb.rows[i]) => CardOf(wb.rows[i]) \in Ledger(wb)
      BY <1>1 DEF Ledger
  <2> QED
      BY <2>1 DEF WithRow
<1>3. <<>> \in T /\ step \in [1..n -> [T -> T]]
    BY <1>2
<1> HIDE DEF n, T
<1>4. PICK g \in [0..n -> T] :
          g[0] = <<>> /\ \A i \in 1..n : g[i] = step[i][g[i - 1]]
  <2> HIDE DEF step
  <2>1. HasRecursion(n, T, <<>>, step)
      BY <1>1, <1>3, RecursionUpTo
  <2> QED
      BY <2>1 DEF HasRecursion
<1>5. ASSUME NEW i \in 1..n PROVE g[i] = WithRow(g[i - 1], wb.rows[i])
  <2>1. g[i - 1] \in T
      BY <1>1
  <2> QED
      BY <1>4, <2>1
<1>6. g = Loop(g)
    BY <1>1, <1>4, <1>5
<1>7. result = Loop(result)
    BY <1>6
<1> HIDE DEF result
<1>8. Grows(wb, result)
  <2>1. /\ result[0] = <<>>
        /\ \A i \in 1..n : result[i] = WithRow(result[i - 1], wb.rows[i])
      BY <1>1, <1>7
  <2> QED
      BY <2>1 DEF Grows, n
<1> QED
    BY <1>0, <1>8 DEF n

\* The cards are those of the rows that take part, each row's its own
\* (_load_assets).
LEMMA CardsLoaded ==
    ASSUME NEW wb, IsWorkbook(wb)
    PROVE  /\ LoadAssets(wb) \in Seq(Ledger(wb))
           /\ (\A i, j \in DOMAIN wb.rows : wb.rows[i].id = wb.rows[j].id => i = j)
                => \A k, l \in DOMAIN LoadAssets(wb) :
                      LoadAssets(wb)[k].id = LoadAssets(wb)[l].id => k = l
<1> DEFINE n == Len(wb.rows)
           T == Seq(Ledger(wb))
           From(i, cards) ==
               \A k \in DOMAIN cards : \E r \in 1..i : cards[k].id = wb.rows[r].id
           Apart(cards) ==
               \A k, l \in DOMAIN cards : cards[k].id = cards[l].id => k = l
           Told == \A i, j \in 1..n : wb.rows[i].id = wb.rows[j].id => i = j
           Good(i, cards) == cards \in T /\ From(i, cards) /\ (Told => Apart(cards))
<1>1. PICK result : Grows(wb, result) /\ LoadAssets(wb) = result[n]
    BY RowByRow
<1>2. /\ n \in Nat /\ DOMAIN wb.rows = 1..n
    BY DEF IsWorkbook, IsSequence
<1>3. ASSUME NEW i \in 1..n, NEW b, Good(i - 1, b)
      PROVE  Good(i, WithRow(b, wb.rows[i]))
  <2> DEFINE row == wb.rows[i]
  <2>1. From(i, b)
      BY <1>3
  <2>2. CASE Excluded(row)
      BY <1>3, <2>1, <2>2 DEF WithRow
  <2>3. CASE ~Excluded(row)
    <3> DEFINE c == Append(b, CardOf(row))
    <3>1. CardOf(row) \in Ledger(wb) /\ CardOf(row).id = row.id
        BY <1>2, <2>3 DEF Ledger, CardOf
    <3>2. /\ Len(b) \in Nat /\ DOMAIN b = 1..Len(b) /\ c \in T
          /\ DOMAIN c = 1..(Len(b) + 1) /\ c[Len(b) + 1] = CardOf(row)
          /\ \A k \in 1..Len(b) : c[k] = b[k]
      <4>1. b \in T
          BY <1>3
      <4> HIDE DEF From, Apart
      <4> QED
          BY <3>1, <4>1
    <3> HIDE DEF c
    <3>3. From(i, c)
        BY <2>1, <3>1, <3>2
    <3>4. ASSUME Told, NEW k \in DOMAIN c, NEW l \in DOMAIN c, c[k].id = c[l].id
          PROVE  k = l
      <4>1. \A m \in 1..Len(b) : c[m].id # row.id
        <5> SUFFICES ASSUME NEW m \in 1..Len(b), c[m].id = row.id PROVE FALSE
            OBVIOUS
        <5>1. PICK r \in 1..(i - 1) : b[m].id = wb.rows[r].id
            BY <1>3, <3>2
        <5>2. r \in 1..n /\ r # i
            BY <1>2
        <5>3. wb.rows[r].id = wb.rows[i].id
            BY <3>2, <5>1
        <5> QED
            BY <3>4, <5>2, <5>3
      <4>2. CASE k = Len(b) + 1 \/ l = Len(b) + 1
          BY <3>1, <3>2, <3>4, <4>1, <4>2
      <4>3. CASE k \in 1..Len(b) /\ l \in 1..Len(b)
          BY <1>3, <3>2, <3>4, <4>3
      <4> QED
          BY <3>2, <4>2, <4>3
    <3>5. Good(i, c)
        BY <3>2, <3>3, <3>4
    <3> QED
        BY <2>3, <3>5 DEF WithRow, c
  <2> QED
      BY <2>2, <2>3
<1> DEFINE Q == {i \in 0..n : Good(i, result[i])}
<1>4. 0 \in Q
  <2>1. result[0] = <<>>
      BY <1>1 DEF Grows
  <2>2. <<>> \in T /\ \A k : k \notin DOMAIN <<>>
      OBVIOUS
  <2>3. Good(0, <<>>)
    <3> HIDE DEF T
    <3> QED
        BY <2>2
  <2> HIDE DEF Good
  <2> QED
      BY <1>2, <2>1, <2>3
<1>5. ASSUME NEW i \in 1..n, i - 1 \in Q PROVE i \in Q
  <2>1. result[i] = WithRow(result[i - 1], wb.rows[i]) /\ Good(i - 1, result[i - 1])
      BY <1>1, <1>5 DEF Grows
  <2> HIDE DEF Good
  <2> QED
      BY <1>2, <1>3, <2>1
<1>6. 0..n \subseteq Q
  <2> HIDE DEF Q
  <2> QED
      BY <1>2, <1>4, <1>5, InductionUpTo
<1>7. Good(n, LoadAssets(wb))
  <2>1. n \in Q
      BY <1>2, <1>6
  <2> HIDE DEF Good
  <2> QED
      BY <1>1, <2>1
<1> QED
    BY <1>2, <1>7

-----------------------------------------------------------------------------
(* Sums *)

\* g has the sums of f over all subsets of S.
Sums(f, S, g) ==
    /\ g \in [SUBSET S -> Int] /\ g[{}] = 0
    /\ \A T \in SUBSET S : \A x \in T : g[T] = f[x] + g[T \ {x}]

LEMMA SumsExist ==
    ASSUME NEW S, IsFiniteSet(S), NEW f, \A x \in S : f[x] \in Int
    PROVE  \E g : Sums(f, S, g)
<1> DEFINE Q == {T \in SUBSET S : \E g : Sums(f, T, g)}
<1>1. {} \in Q
  <2>1. Sums(f, {}, [T \in SUBSET {} |-> 0])
      BY DEF Sums
  <2> QED
      BY <2>1
<1>2. ASSUME NEW T \in SUBSET S, NEW x \in S, x \notin T, T \in Q
      PROVE  T \cup {x} \in Q
  <2>1. PICK g : Sums(f, T, g)
      BY <1>2
  <2> DEFINE U == T \cup {x}
             h == [V \in SUBSET U |-> IF x \in V THEN f[x] + g[V \ {x}] ELSE g[V]]
  <2>2. \A V \in SUBSET U : V \ {x} \in SUBSET T /\ (x \notin V => V \in SUBSET T)
      OBVIOUS
  <2>3. /\ \A V \in SUBSET T : g[V] \in Int
        /\ \A y \in U : f[y] \in Int
      BY <2>1 DEF Sums
  <2>4. h \in [SUBSET U -> Int]
      BY <2>2, <2>3
  <2>5. h[{}] = 0
      BY <2>1 DEF Sums
  <2>6. ASSUME NEW V \in SUBSET U, NEW y \in V PROVE h[V] = f[y] + h[V \ {y}]
    <3>1. V \ {y} \in SUBSET U
        OBVIOUS
    <3>2. CASE y = x
        BY <2>2, <3>1, <3>2
    <3>3. CASE y # x /\ x \notin V
      <4>1. V \in SUBSET T /\ x \notin V \ {y}
          BY <2>2, <3>3
      <4>2. g[V] = f[y] + g[V \ {y}]
          BY <2>1, <4>1 DEF Sums
      <4> QED
          BY <3>1, <3>3, <4>1, <4>2
    <3>4. CASE y # x /\ x \in V
      <4>1. V \ {x} \in SUBSET T /\ y \in V \ {x}
          BY <2>2, <3>4
      <4>2. g[V \ {x}] = f[y] + g[(V \ {x}) \ {y}]
          BY <2>1, <4>1 DEF Sums
      <4>3. (V \ {x}) \ {y} = (V \ {y}) \ {x} /\ x \in V \ {y}
          BY <3>4
      <4>4. h[V] = f[x] + g[V \ {x}] /\ h[V \ {y}] = f[x] + g[(V \ {y}) \ {x}]
          BY <3>1, <3>4, <4>3
      <4>5. g[(V \ {y}) \ {x}] \in Int /\ f[x] \in Int /\ f[y] \in Int
          BY <2>2, <2>3, <3>1
      <4>6. \A a, b, c \in Int : a + (b + c) = b + (a + c)
          OBVIOUS
      <4> DEFINE rest == g[(V \ {y}) \ {x}]
      <4>7. h[V] = f[x] + (f[y] + rest) /\ h[V \ {y}] = f[x] + rest
          BY <4>2, <4>3, <4>4
      <4> HIDE DEF h, rest
      <4>8. rest \in Int
          BY <4>5 DEF rest
      <4> QED
          BY <4>5, <4>6, <4>7, <4>8
    <3> QED
        BY <3>2, <3>3, <3>4
  <2> HIDE DEF h
  <2>7. Sums(f, U, h)
      BY <2>4, <2>5, <2>6 DEF Sums
  <2> QED
      BY <2>7
<1> HIDE DEF Q
<1>3. SUBSET S \subseteq Q
    BY <1>1, <1>2, InductionOnSubsets
<1>4. S \in Q
    BY <1>3
<1> QED
    BY <1>4 DEF Q

\* How the fold behind SumFunctionOnSet unfolds.
Fold(f, S, h) ==
    [T \in SUBSET S |->
        IF T = {} THEN 0
        ELSE LET x == CHOOSE x \in T : TRUE IN f[x] + h[T \ {x}]]

\* A sum does not depend on the order in which it is taken.
LEMMA SumIs ==
    ASSUME NEW S, IsFiniteSet(S), NEW f, NEW g, Sums(f, S, g)
    PROVE  SumFunctionOnSet(f, S) = g[S]
<1> DEFINE h == CHOOSE h : h = Fold(f, S, h)
<1>1. SumFunctionOnSet(f, S) = h[S]
    BY DEF SumFunctionOnSet, FoldFunctionOnSet, MapThenFoldSet, Fold
<1>2. g = Fold(f, S, g)
  <2>1. ASSUME NEW T \in SUBSET S
        PROVE  g[T] = IF T = {} THEN 0
                      ELSE LET x == CHOOSE x \in T : TRUE IN f[x] + g[T \ {x}]
    <3>1. CASE T = {}
        BY <3>1 DEF Sums
    <3>2. CASE T # {}
      <4> DEFINE c == CHOOSE x \in T : TRUE
      <4>1. c \in T
          BY <3>2
      <4> QED
          BY <3>2, <4>1 DEF Sums
    <3> QED
        BY <3>1, <3>2
  <2>2. g = [T \in SUBSET S |-> g[T]]
      BY DEF Sums
  <2> QED
      BY <2>1, <2>2 DEF Fold
<1>3. h = Fold(f, S, h)
    BY <1>2
<1> HIDE DEF h
<1> DEFINE N == {n \in Nat : \A T \in SUBSET S : Cardinality(T) = n => h[T] = g[T]}
<1>4. \A T \in SUBSET S : IsFiniteSet(T) /\ Cardinality(T) \in Nat
    BY FS_Subset, FS_CardinalityType
<1>5. 0 \in N
  <2>1. \A T \in SUBSET S : Cardinality(T) = 0 => T = {}
      BY <1>4, FS_EmptySet
  <2>2. h[{}] = 0
      BY <1>3 DEF Fold
  <2> QED
      BY <2>1, <2>2 DEF Sums
<1>6. ASSUME NEW n \in Nat, n \in N PROVE n + 1 \in N
  <2> SUFFICES ASSUME NEW T \in SUBSET S, Cardinality(T) = n + 1
               PROVE  h[T] = g[T]
      OBVIOUS
  <2> DEFINE c == CHOOSE x \in T : TRUE
  <2>1. T # {}
      BY FS_EmptySet
  <2>2. c \in T
      BY <2>1
  <2>3. h[T] = f[c] + h[T \ {c}]
      BY <1>3, <2>1 DEF Fold
  <2>4. g[T] = f[c] + g[T \ {c}]
      BY <2>2 DEF Sums
  <2>5. T \ {c} \in SUBSET S /\ Cardinality(T \ {c}) = n
    <3>1. IsFiniteSet(T) /\ Cardinality(T) - 1 = n
        BY <1>4, <1>6
    <3>2. Cardinality(T \ {c}) = Cardinality(T) - 1
        BY <2>2, <3>1, FS_RemoveElement
    <3> QED
        BY <3>1, <3>2
  <2>6. h[T \ {c}] = g[T \ {c}]
      BY <1>6, <2>5
  <2> QED
      BY <2>3, <2>4, <2>6
<1> HIDE DEF N
<1>7. Nat \subseteq N
    BY <1>5, <1>6, InductionOnNat
<1>8. h[S] = g[S]
  <2>1. Cardinality(S) \in N
      BY <1>4, <1>7
  <2> QED
      BY <2>1 DEF N
<1> QED
    BY <1>1, <1>8

\* A sum of numbers is a number: any one of them and the sum of the others.
LEMMA SumOfNumbers ==
    ASSUME NEW S, IsFiniteSet(S), NEW f, \A x \in S : f[x] \in Int
    PROVE  /\ SumFunctionOnSet(f, S) \in Int
           /\ SumFunctionOnSet(f, {}) = 0
           /\ \A x \in S :
                 SumFunctionOnSet(f, S) = f[x] + SumFunctionOnSet(f, S \ {x})
<1>1. PICK g : Sums(f, S, g)
    BY SumsExist
<1>2. SumFunctionOnSet(f, S) = g[S] /\ g[S] \in Int
  <2>1. SumFunctionOnSet(f, S) = g[S]
      BY <1>1, SumIs
  <2>2. g[S] \in Int
      BY <1>1 DEF Sums
  <2> QED
      BY <2>1, <2>2
<1>3. ASSUME NEW T \in SUBSET S PROVE SumFunctionOnSet(f, T) = g[T]
  <2> DEFINE k == [U \in SUBSET T |-> g[U]]
  <2>1. Sums(f, T, k)
      BY <1>1 DEF Sums
  <2>2. IsFiniteSet(T)
      BY FS_Subset
  <2>3. SumFunctionOnSet(f, T) = k[T]
    <3> HIDE DEF k
    <3> QED
        BY <2>1, <2>2, SumIs
  <2> QED
      BY <2>3
<1>4. SumFunctionOnSet(f, {}) = 0
    BY <1>1, <1>3 DEF Sums
<1>5. ASSUME NEW x \in S
      PROVE  SumFunctionOnSet(f, S) = f[x] + SumFunctionOnSet(f, S \ {x})
    BY <1>1, <1>2, <1>3 DEF Sums
<1> QED
    BY <1>2, <1>4, <1>5

\* Where every summand is zero so is the sum.
LEMMA SumOfZeros ==
    ASSUME NEW S, IsFiniteSet(S), NEW f, \A x \in S : f[x] = 0
    PROVE  SumFunctionOnSet(f, S) = 0
<1> DEFINE g == [T \in SUBSET S |-> 0]
<1>1. Sums(f, S, g)
    BY DEF Sums
<1>2. SumFunctionOnSet(f, S) = g[S]
  <2> HIDE DEF g
  <2> QED
      BY <1>1, SumIs
<1> QED
    BY <1>2

\* Sums of the same summands are the same.
LEMMA SumOfSame ==
    ASSUME NEW S, IsFiniteSet(S), NEW f, NEW g,
           \A x \in S : f[x] \in Int /\ f[x] = g[x]
    PROVE  SumFunctionOnSet(f, S) = SumFunctionOnSet(g, S)
<1>1. PICK h : Sums(f, S, h)
    BY SumsExist
<1>2. Sums(g, S, h)
    BY <1>1 DEF Sums
<1> QED
    BY <1>1, <1>2, SumIs

Numbers(f, S) == \A x \in S : f[x] \in Int

Adding(f, T, x) ==
    /\ SumFunctionOnSet(f, T) \in Int
    /\ SumFunctionOnSet(f, T \cup {x}) = f[x] + SumFunctionOnSet(f, T)
    /\ Cardinality(T \cup {x}) = Cardinality(T) + 1
    /\ Cardinality(T) \in Nat

\* One more summand.
LEMMA SumWith ==
    ASSUME NEW S, IsFiniteSet(S), NEW f, Numbers(f, S),
           NEW T, T \subseteq S, NEW x \in S, x \notin T
    PROVE  Adding(f, T, x)
<1> DEFINE U == T \cup {x}
<1>1. IsFiniteSet(U) /\ IsFiniteSet(T) /\ x \in U /\ U \ {x} = T
    BY FS_Subset
<1>2. SumFunctionOnSet(f, U) = f[x] + SumFunctionOnSet(f, U \ {x})
  <2>1. \A y \in U : f[y] \in Int
      BY DEF Numbers
  <2> QED
      BY <1>1, <2>1, SumOfNumbers
<1>3. SumFunctionOnSet(f, T) \in Int
  <2>1. \A y \in T : f[y] \in Int
      BY DEF Numbers
  <2> QED
      BY <1>1, <2>1, SumOfNumbers
<1>4. Cardinality(U) = Cardinality(T) + 1 /\ Cardinality(T) \in Nat
    BY <1>1, FS_AddElement, FS_CardinalityType
<1> QED
    BY <1>1, <1>2, <1>3, <1>4 DEF Adding

EachAtMost(a, f, b, g, c, S) == \A x \in S : a * f[x] <= b * g[x] + c

\* A bound on every summand is a bound on the sum.
LEMMA SumAtMost ==
    ASSUME NEW S, IsFiniteSet(S), NEW f, NEW g,
           \A x \in S : f[x] \in Int /\ g[x] \in Int,
           NEW a \in Int, NEW b \in Int, NEW c \in Int,
           EachAtMost(a, f, b, g, c, S)
    PROVE  a * SumFunctionOnSet(f, S)
              <= b * SumFunctionOnSet(g, S) + c * Cardinality(S)
<1> DEFINE F(T) == SumFunctionOnSet(f, T)
           G(T) == SumFunctionOnSet(g, T)
           Q == {T \in SUBSET S : a * F(T) <= b * G(T) + c * Cardinality(T)}
<1>1. {} \in Q
  <2>1. F({}) = 0 /\ G({}) = 0 /\ Cardinality({}) = 0
      BY SumOfNumbers, FS_EmptySet
  <2> QED
      BY <2>1
<1>2. ASSUME NEW T \in SUBSET S, NEW x \in S, x \notin T, T \in Q
      PROVE  T \cup {x} \in Q
  <2> DEFINE U == T \cup {x}
  <2>1. /\ F(T) \in Int /\ F(U) = f[x] + F(T)
        /\ G(T) \in Int /\ G(U) = g[x] + G(T)
        /\ Cardinality(U) = Cardinality(T) + 1 /\ Cardinality(T) \in Nat
    <3>1. Numbers(f, S) /\ Numbers(g, S)
        BY DEF Numbers
    <3>2. Adding(f, T, x) /\ Adding(g, T, x)
        BY <1>2, <3>1, SumWith
    <3> QED
        BY <3>2 DEF Adding
  <2>2. a * F(T) <= b * G(T) + c * Cardinality(T)
      BY <1>2
  <2>3. a * f[x] <= b * g[x] + c /\ f[x] \in Int /\ g[x] \in Int
      BY DEF EachAtMost
  <2>4. U \in SUBSET S
      OBVIOUS
  <2> HIDE DEF F, G, U
  <2>5. /\ a * (f[x] + F(T)) = a * f[x] + a * F(T)
        /\ b * (g[x] + G(T)) = b * g[x] + b * G(T)
        /\ c * (Cardinality(T) + 1) = c * Cardinality(T) + c
    <3>1. \A x1, x2, x3 \in Int : x1 * (x2 + x3) = x1 * x2 + x1 * x3
        OBVIOUS
    <3>2. \A x1, x2 \in Int : x1 * (x2 + 1) = x1 * x2 + x1
        OBVIOUS
    <3>3. a * (f[x] + F(T)) = a * f[x] + a * F(T)
        BY <2>1, <2>3, <3>1, Zenon
    <3>4. b * (g[x] + G(T)) = b * g[x] + b * G(T)
        BY <2>1, <2>3, <3>1, Zenon
    <3>5. Cardinality(T) \in Int
        BY <2>1
    <3>6. c * (Cardinality(T) + 1) = c * Cardinality(T) + c
        BY <3>2, <3>5, Zenon
    <3> QED
        BY <3>3, <3>4, <3>6
  <2>6. /\ a * f[x] \in Int /\ a * F(T) \in Int
        /\ b * g[x] \in Int /\ b * G(T) \in Int /\ c * Cardinality(T) \in Int
      BY <2>1, <2>3
  <2>7. a * F(U) <= b * G(U) + c * Cardinality(U)
      BY <2>1, <2>2, <2>3, <2>5, <2>6
  <2> QED
      BY <2>4, <2>7 DEF U
<1> HIDE DEF Q
<1>3. SUBSET S \subseteq Q
    BY <1>1, <1>2, InductionOnSubsets
<1>4. S \in Q
    BY <1>3
<1> QED
    BY <1>4 DEF Q

\* Summands may be called by other names, and are as many then.
LEMMA SumRenamed ==
    ASSUME NEW S, IsFiniteSet(S), NEW k, NEW f,
           \A x, y \in S : k[x] = k[y] => x = y,
           \A x \in S : f[k[x]] \in Int
    PROVE  LET T == {k[x] : x \in S}
           IN  /\ SumFunctionOnSet(f, T)
                     = SumFunctionOnSet([x \in S |-> f[k[x]]], S)
               /\ IsFiniteSet(T) /\ Cardinality(T) = Cardinality(S)
<1> DEFINE g == [x \in S |-> f[k[x]]]
           Image(U) == {k[x] : x \in U}
           T == Image(S)
           Same(U) == /\ SumFunctionOnSet(f, Image(U)) = SumFunctionOnSet(g, U)
                      /\ Cardinality(Image(U)) = Cardinality(U)
           Q == {U \in SUBSET S : Same(U)}
<1>1. IsFiniteSet(T)
    BY FiniteImage
<1>2. \A y \in T : f[y] \in Int
    OBVIOUS
<1>3. \A x \in S : g[x] \in Int /\ g[x] = f[k[x]]
    OBVIOUS
<1> HIDE DEF g
<1>4. {} \in Q
  <2>1. Image({}) = {}
      OBVIOUS
  <2>2. SumFunctionOnSet(f, {}) = 0 /\ SumFunctionOnSet(g, {}) = 0
    <3> HIDE DEF T
    <3> QED
        BY <1>1, <1>2, <1>3, SumOfNumbers
  <2> QED
      BY <2>1, <2>2
<1>5. ASSUME NEW U \in SUBSET S, NEW x \in S, x \notin U, U \in Q
      PROVE  U \cup {x} \in Q
  <2>1. /\ Image(U) \in SUBSET T /\ k[x] \in T
        /\ Image(U \cup {x}) = Image(U) \cup {k[x]}
      OBVIOUS
  <2>2. k[x] \notin Image(U)
      BY <1>5
  <2> HIDE DEF T, Image
  <2>3. /\ SumFunctionOnSet(f, Image(U) \cup {k[x]})
              = f[k[x]] + SumFunctionOnSet(f, Image(U))
        /\ Cardinality(Image(U) \cup {k[x]}) = Cardinality(Image(U)) + 1
    <3> DEFINE V == Image(U)
               y == k[x]
    <3>1. V \in SUBSET T /\ y \in T /\ y \notin V
        BY <2>1, <2>2
    <3> HIDE DEF V, y
    <3>2. /\ SumFunctionOnSet(f, V \cup {y}) = f[y] + SumFunctionOnSet(f, V)
          /\ Cardinality(V \cup {y}) = Cardinality(V) + 1
      <4>1. Numbers(f, T) /\ V \subseteq T
          BY <1>2, <3>1 DEF Numbers
      <4> QED
          BY <1>1, <3>1, <4>1, SumWith DEF Adding
    <3> QED
        BY <3>2 DEF V, y
  <2>4. /\ SumFunctionOnSet(g, U \cup {x}) = g[x] + SumFunctionOnSet(g, U)
        /\ Cardinality(U \cup {x}) = Cardinality(U) + 1
    <3>1. Numbers(g, S)
        BY <1>3 DEF Numbers
    <3> QED
        BY <1>5, <3>1, SumWith DEF Adding
  <2>5. Same(U)
      BY <1>5
  <2> QED
      BY <1>3, <2>1, <2>3, <2>4, <2>5
<1> HIDE DEF Q
<1>6. SUBSET S \subseteq Q
    BY <1>4, <1>5, InductionOnSubsets
<1>7. S \in Q
    BY <1>6
<1> QED
    BY <1>1, <1>7 DEF Q, g

\* A sum over some members and over the others.
LEMMA SumSplit ==
    ASSUME NEW S, IsFiniteSet(S), NEW f, Numbers(f, S), NEW A \in SUBSET S
    PROVE  SumFunctionOnSet(f, S) = SumFunctionOnSet(f, A) + SumFunctionOnSet(f, S \ A)
<1> DEFINE F(T) == SumFunctionOnSet(f, T)
           Good(T) == T \cap A = {} => F(A \cup T) = F(A) + F(T)
           Q == {T \in SUBSET S : Good(T)}
<1>1. \A T \in SUBSET S : F(T) \in Int
  <2> SUFFICES ASSUME NEW T \in SUBSET S PROVE F(T) \in Int
      OBVIOUS
  <2>1. IsFiniteSet(T) /\ \A x \in T : f[x] \in Int
      BY FS_Subset DEF Numbers
  <2> QED
      BY <2>1, SumOfNumbers
<1>2. F({}) = 0
    BY SumOfNumbers DEF Numbers
<1>3. {} \in Q
  <2>1. A \cup {} = A
      OBVIOUS
  <2>2. F(A) \in Int
      BY <1>1
  <2> HIDE DEF F
  <2> QED
      BY <1>2, <2>1, <2>2
<1>4. ASSUME NEW T \in SUBSET S, NEW x \in S, x \notin T, T \in Q
      PROVE  T \cup {x} \in Q
  <2> SUFFICES ASSUME (T \cup {x}) \cap A = {}
               PROVE  F(A \cup (T \cup {x})) = F(A) + F(T \cup {x})
      OBVIOUS
  <2>1. A \cup T \subseteq S /\ x \notin A \cup T
      BY <1>4
  <2>2. Adding(f, A \cup T, x) /\ Adding(f, T, x)
      BY <1>4, <2>1, SumWith
  <2>3. (A \cup T) \cup {x} = A \cup (T \cup {x})
      OBVIOUS
  <2>4. /\ F(A \cup (T \cup {x})) = f[x] + F(A \cup T)
        /\ F(T \cup {x}) = f[x] + F(T)
      BY <2>2, <2>3 DEF Adding
  <2>5. f[x] \in Int /\ F(A) \in Int /\ F(T) \in Int
      BY <1>1 DEF Numbers
  <2>6. F(A \cup T) = F(A) + F(T)
    <3>1. Good(T) /\ T \cap A = {}
        BY <1>4
    <3> QED
        BY <3>1
  <2> HIDE DEF F
  <2> QED
      BY <2>4, <2>5, <2>6
<1> HIDE DEF Q
<1>5. SUBSET S \subseteq Q
    BY <1>3, <1>4, InductionOnSubsets
<1>6. S \ A \in Q /\ (S \ A) \cap A = {} /\ A \cup (S \ A) = S
    BY <1>5
<1> QED
    BY <1>6 DEF Q

\* Summands that are zero may be left out.
LEMMA SumInside ==
    ASSUME NEW S, IsFiniteSet(S), NEW f, Numbers(f, S), NEW T \in SUBSET S,
           \A x \in S \ T : f[x] = 0
    PROVE  SumFunctionOnSet(f, S) = SumFunctionOnSet(f, T)
<1>2. IsFiniteSet(S \ T) /\ IsFiniteSet(T)
    BY FS_Subset
<1>3. SumFunctionOnSet(f, S \ T) = 0
    BY <1>2, SumOfZeros
<1>4. SumFunctionOnSet(f, T) \in Int
    BY <1>2, SumOfNumbers DEF Numbers
<1>5. SumFunctionOnSet(f, S) = SumFunctionOnSet(f, T) + SumFunctionOnSet(f, S \ T)
    BY SumSplit
<1> QED
    BY <1>3, <1>4, <1>5

\* Where one summand differs, the sums differ by as much.
LEMMA SumOneOff ==
    ASSUME NEW S, IsFiniteSet(S), NEW f, NEW g, Numbers(f, S), Numbers(g, S),
           NEW x \in S, \A y \in S : y # x => f[y] = g[y]
    PROVE  SumFunctionOnSet(f, S) - SumFunctionOnSet(g, S) = f[x] - g[x]
<1> DEFINE R == S \ {x}
           F == SumFunctionOnSet(f, R)
           G == SumFunctionOnSet(g, R)
<1>1. IsFiniteSet(R) /\ \A y \in R : f[y] \in Int /\ f[y] = g[y]
    BY FS_Subset DEF Numbers
<1>2. F = G /\ F \in Int
    BY <1>1, SumOfSame, SumOfNumbers
<1>3. SumFunctionOnSet(f, S) = f[x] + F
    BY SumOfNumbers DEF Numbers
<1>4. SumFunctionOnSet(g, S) = g[x] + G
    BY SumOfNumbers DEF Numbers
<1>5. f[x] \in Int /\ g[x] \in Int
    BY DEF Numbers
<1> HIDE DEF F, G
<1> QED
    BY <1>2, <1>3, <1>4, <1>5

\* A sum may be taken key by key.
LEMMA SumByKeys ==
    ASSUME NEW S, IsFiniteSet(S), NEW f, Numbers(f, S),
           NEW K, IsFiniteSet(K), NEW key, \A x \in S : key[x] \in K
    PROVE  SumFunctionOnSet(f, S) =
              SumFunctionOnSet([k \in K |-> SumFunctionOnSet(f, {x \in S : key[x] = k})], K)
<1> DEFINE F(T) == SumFunctionOnSet(f, T)
           Of(T, k) == {x \in T : key[x] = k}
           G(T) == [k \in K |-> F(Of(T, k))]
           Good(T) == F(T) = SumFunctionOnSet(G(T), K)
           Q == {T \in SUBSET S : Good(T)}
<1>1. \A T \in SUBSET S : F(T) \in Int
  <2> SUFFICES ASSUME NEW T \in SUBSET S PROVE F(T) \in Int
      OBVIOUS
  <2>1. IsFiniteSet(T) /\ \A x \in T : f[x] \in Int
      BY FS_Subset DEF Numbers
  <2> QED
      BY <2>1, SumOfNumbers
<1>2. \A T \in SUBSET S : Numbers(G(T), K)
  <2>1. \A T \in SUBSET S : \A k \in K : F(Of(T, k)) \in Int
    <3> SUFFICES ASSUME NEW T \in SUBSET S, NEW k \in K PROVE F(Of(T, k)) \in Int
        OBVIOUS
    <3>1. Of(T, k) \in SUBSET S
        OBVIOUS
    <3> HIDE DEF F, Of
    <3> QED
        BY <1>1, <3>1
  <2> HIDE DEF F, Of
  <2> QED
      BY <2>1 DEF Numbers
<1>3. {} \in Q
  <2>1. \A k : Of({}, k) = {}
      OBVIOUS
  <2>2. F({}) = 0
      BY SumOfNumbers DEF Numbers
  <2>3. \A k \in K : G({})[k] = 0
    <3> HIDE DEF F, Of
    <3> QED
        BY <2>1, <2>2
  <2> HIDE DEF G
  <2>4. SumFunctionOnSet(G({}), K) = 0
      BY <2>3, SumOfZeros
  <2> QED
      BY <2>2, <2>4
<1>4. ASSUME NEW T \in SUBSET S, NEW x \in S, x \notin T, T \in Q
      PROVE  T \cup {x} \in Q
  <2> DEFINE U == T \cup {x}
             k == key[x]
  <2>1. U \in SUBSET S /\ k \in K
      OBVIOUS
  <2>2. \A j : j # k => Of(U, j) = Of(T, j)
      OBVIOUS
  <2>3. Of(U, k) = Of(T, k) \cup {x} /\ x \notin Of(T, k) /\ Of(T, k) \subseteq S
      BY <1>4
  <2>4. F(Of(U, k)) = f[x] + F(Of(T, k))
    <3>1. Adding(f, Of(T, k), x)
      <4> HIDE DEF Of, k
      <4> QED
          BY <2>3, SumWith
    <3> QED
        BY <2>3, <3>1 DEF Adding
  <2>5. F(U) = f[x] + F(T) /\ F(T) \in Int /\ f[x] \in Int
    <3>1. Adding(f, T, x)
        BY <1>4, SumWith
    <3> QED
        BY <3>1 DEF Adding, Numbers
  <2>6. Good(T)
      BY <1>4
  <2>7. F(Of(T, k)) \in Int
    <3>1. Of(T, k) \in SUBSET S
        OBVIOUS
    <3> HIDE DEF F, Of, k
    <3> QED
        BY <1>1, <3>1
  <2>8. /\ G(U)[k] = f[x] + G(T)[k] /\ G(T)[k] \in Int
        /\ \A j \in K : j # k => G(U)[j] = G(T)[j]
    <3> HIDE DEF F, Of, U, k
    <3> QED
        BY <2>1, <2>2, <2>4, <2>7
  <2>9. Numbers(G(U), K) /\ Numbers(G(T), K)
      BY <1>2, <2>1
  <2> HIDE DEF G, U, k
  <2>10. SumFunctionOnSet(G(U), K) - SumFunctionOnSet(G(T), K) = G(U)[k] - G(T)[k]
      BY <2>1, <2>8, <2>9, SumOneOff
  <2>11. SumFunctionOnSet(G(U), K) \in Int /\ SumFunctionOnSet(G(T), K) \in Int
      BY <2>9, SumOfNumbers DEF Numbers
  <2> HIDE DEF F
  <2>12. Good(U)
      BY <2>5, <2>6, <2>8, <2>10, <2>11
  <2> HIDE DEF Good
  <2> QED
      BY <2>1, <2>12 DEF U
<1> HIDE DEF Q
<1>5. SUBSET S \subseteq Q
    BY <1>3, <1>4, InductionOnSubsets
<1>6. S \in Q
    BY <1>5
<1> QED
    BY <1>6 DEF Q

\* The difference of two sums is the sum of the differences.
LEMMA SumOfDifferences ==
    ASSUME NEW S, IsFiniteSet(S), NEW f, NEW g, Numbers(f, S), Numbers(g, S)
    PROVE  SumFunctionOnSet([x \in S |-> f[x] - g[x]], S)
              = SumFunctionOnSet(f, S) - SumFunctionOnSet(g, S)
<1> DEFINE d == [x \in S |-> f[x] - g[x]]
           D(T) == SumFunctionOnSet(d, T)
           F(T) == SumFunctionOnSet(f, T)
           G(T) == SumFunctionOnSet(g, T)
           Good(T) == D(T) = F(T) - G(T)
           Q == {T \in SUBSET S : Good(T)}
<1>1. Numbers(d, S) /\ \A x \in S : d[x] = f[x] - g[x]
    BY DEF Numbers
<1> HIDE DEF d
<1>2. {} \in Q
  <2>1. D({}) = 0 /\ F({}) = 0 /\ G({}) = 0
      BY <1>1, SumOfNumbers DEF Numbers
  <2> HIDE DEF D, F, G
  <2> QED
      BY <2>1
<1>3. ASSUME NEW T \in SUBSET S, NEW x \in S, x \notin T, T \in Q
      PROVE  T \cup {x} \in Q
  <2>1. Adding(d, T, x) /\ Adding(f, T, x) /\ Adding(g, T, x)
      BY <1>1, <1>3, SumWith
  <2>2. /\ D(T \cup {x}) = d[x] + D(T) /\ D(T) \in Int
        /\ F(T \cup {x}) = f[x] + F(T) /\ F(T) \in Int
        /\ G(T \cup {x}) = g[x] + G(T) /\ G(T) \in Int
      BY <2>1 DEF Adding
  <2>3. f[x] \in Int /\ g[x] \in Int /\ d[x] = f[x] - g[x]
      BY <1>1 DEF Numbers
  <2>4. Good(T)
      BY <1>3
  <2> HIDE DEF D, F, G
  <2>5. Good(T \cup {x})
      BY <2>2, <2>3, <2>4
  <2> QED
      BY <2>5
<1> HIDE DEF Q
<1>4. SUBSET S \subseteq Q
    BY <1>2, <1>3, InductionOnSubsets
<1>5. S \in Q
    BY <1>4
<1> QED
    BY <1>5 DEF Q, d

\* As many as there are ones.
LEMMA SumOfOnes ==
    ASSUME NEW S, IsFiniteSet(S), NEW f, \A x \in S : f[x] = 1
    PROVE  SumFunctionOnSet(f, S) = Cardinality(S)
<1> DEFINE F(T) == SumFunctionOnSet(f, T)
           Good(T) == F(T) = Cardinality(T)
           Q == {T \in SUBSET S : Good(T)}
<1>1. Numbers(f, S)
    BY DEF Numbers
<1>2. {} \in Q
  <2>1. F({}) = 0
      BY <1>1, SumOfNumbers DEF Numbers
  <2> HIDE DEF F
  <2> QED
      BY <2>1, FS_EmptySet
<1>3. ASSUME NEW T \in SUBSET S, NEW x \in S, x \notin T, T \in Q
      PROVE  T \cup {x} \in Q
  <2>1. Adding(f, T, x)
      BY <1>1, <1>3, SumWith
  <2>2. Good(T)
      BY <1>3
  <2>3. Good(T \cup {x})
      BY <2>1, <2>2 DEF Adding
  <2> HIDE DEF Good
  <2> QED
      BY <2>3
<1> HIDE DEF Q
<1>4. SUBSET S \subseteq Q
    BY <1>2, <1>3, InductionOnSubsets
<1>5. S \in Q
    BY <1>4
<1> QED
    BY <1>5 DEF Q

\* The two ways of the community modules to write a sum.
LEMMA MapSumIs ==
    ASSUME NEW f, NEW S
    PROVE  MapThenSumSet(LAMBDA k : f[k], S) = SumFunctionOnSet(f, S)
BY DEF MapThenSumSet, MapThenFoldSet, SumFunctionOnSet, FoldFunctionOnSet

-----------------------------------------------------------------------------
(* Rounding *)

\* A quotient is the number of times the divisor goes in.
LEMMA Quotient ==
    ASSUME NEW n \in Int, NEW d \in Nat \ {0}
    PROVE  /\ n \div d \in Int
           /\ d * (n \div d) <= n
           /\ n < d * (n \div d) + d
    OBVIOUS

LEMMA MoneyInt ==
    ASSUME NEW n \in Int, NEW d \in Nat \ {0}
    PROVE  Money(n, d) \in Int
<1>1. 2 * d \in Nat \ {0}
    OBVIOUS
<1>2. 2 * n + d \in Int /\ d - 2 * n \in Int
    OBVIOUS
<1> QED
    BY <1>1, <1>2, Quotient DEF Money

\* A share of an amount is rounded to no more than the amount.
LEMMA MoneyWithin ==
    ASSUME NEW n \in Nat, NEW d \in Nat \ {0}, NEW o \in Nat, n <= d * o
    PROVE  Money(n, d) \in 0..o
<1> DEFINE q == (2 * n + d) \div (2 * d)
<1>1. Money(n, d) = q
    BY DEF Money
<1>2. 2 * d \in Nat \ {0} /\ 2 * n + d \in Int
    OBVIOUS
<1>3. /\ q \in Int
      /\ (2 * d) * q <= 2 * n + d
      /\ 2 * n + d < (2 * d) * q + 2 * d
    BY <1>2, Quotient
<1> HIDE DEF q
<1>4. q >= 0
  <2> SUFFICES ASSUME q <= -1 PROVE FALSE
      BY <1>3
  <2>1. (2 * d) * q <= (2 * d) * (-1)
      BY <1>2, <1>3
  <2> QED
      BY <1>3, <2>1
<1>5. q <= o
  <2> SUFFICES ASSUME q >= o + 1 PROVE FALSE
      BY <1>3
  <2>1. (2 * d) * q >= (2 * d) * (o + 1)
      BY <1>2, <1>3
  <2>2. (2 * d) * (o + 1) = 2 * (d * o) + 2 * d
      OBVIOUS
  <2>3. d * o \in Int /\ (2 * d) * q \in Int
      BY <1>3
  <2> QED
      BY <1>3, <2>1, <2>2, <2>3
<1> QED
    BY <1>1, <1>3, <1>4, <1>5

LEMMA MoneyNat ==
    ASSUME NEW n \in Nat, NEW d \in Nat \ {0}
    PROVE  Money(n, d) \in Nat
<1>1. n <= d * n
    OBVIOUS
<1> QED
    BY <1>1, MoneyWithin

\* What is left of an amount in hundredths after whole units were taken off.
LEMMA MoneyLeft ==
    ASSUME NEW n \in Nat, NEW x \in Int
    PROVE  /\ n - 100 * x >= 0 => Money(n - 100 * x, 100) = Money(n, 100) - x
           /\ n - 100 * x < 0 => Money(n, 100) <= x
    BY DEF Money

-----------------------------------------------------------------------------
(* Cards and policies *)

CardFields ==
    {"id", "company", "department", "category", "code", "cost", "inService",
     "acc", "imp", "block", "org", "life", "residual", "startRule", "snapDep",
     "snapNet"}

IsCard(a) ==
    /\ a \in [CardFields -> {a[f] : f \in CardFields}]
    /\ {a.id, a.department} \subseteq Int
    /\ {a.cost, a.acc, a.imp, a.snapDep, a.snapNet} \subseteq Int
    /\ a.inService \in Int \cup {None}
    /\ a.life \in (Nat \ {0}) \cup {None}
    /\ a.residual \in Int \cup {None}

LEMMA RowsGiveCards ==
    ASSUME NEW row, IsLedgerRow(row)
    PROVE  IsCard(CardOf(row))
<1>1. LifeOf(row) \in (Nat \ {0}) \cup {None}
    BY DEF LifeOf, IsLedgerRow
<1> QED
    BY <1>1 DEF IsCard, CardFields, CardOf, IsLedgerRow

PolicyFields == {"id", "company", "category", "method", "life", "residual", "startRule"}

Methods == {"STRAIGHT_LINE", "PRODUCTION", "WORKLOAD"}

IsPolicy(p) ==
    /\ p \in [PolicyFields -> {p[f] : f \in PolicyFields}]
    /\ p.method \in Methods
    /\ p.life \in Nat \ {0}
    /\ p.residual \in Int

IsModel(sm) ==
    /\ IsSequence(sm.policies)
    /\ \A k \in DOMAIN sm.policies :
          IsPolicy(sm.policies[k]) /\ sm.policies[k].residual = 0
    /\ \A c \in DOMAIN sm.parents : sm.parents[c] = "CUSTOMER_ASSET"
    /\ IsFiniteSet(DOMAIN sm.parents)

LEMMA WorkbooksGiveModels ==
    ASSUME NEW wb, IsWorkbook(wb), NEW owner
    PROVE  IsModel(LoadSemanticModel(wb, owner))
<1> DEFINE sm == LoadSemanticModel(wb, owner)
           policies == [k \in DOMAIN wb.codes |->
                           PolicyOf(wb.codes[k][1], wb.codes[k][2], owner)]
           categories == {wb.rows[i].category : i \in DOMAIN wb.rows} \ {None}
<1>1. sm.policies = policies /\ sm.parents = [c \in categories |-> "CUSTOMER_ASSET"]
    BY DEF LoadSemanticModel
<1>2. IsSequence(policies)
  <2>1. PICK n \in Nat : DOMAIN wb.codes = 1..n
      BY DEF IsWorkbook, IsSequence
  <2>2. policies \in [1..n -> {policies[k] : k \in DOMAIN policies}]
      BY <2>1
  <2> HIDE DEF policies
  <2> QED
      BY <2>2 DEF IsSequence
<1>3. \A code, name : /\ IsPolicy(PolicyOf(code, name, owner))
                      /\ PolicyOf(code, name, owner).residual = 0
    BY DEF IsPolicy, PolicyOf, PolicyFields, MethodFromName, Methods
<1>4. IsFiniteSet(categories)
  <2>1. PICK n \in Nat : DOMAIN wb.rows = 1..n
      BY DEF IsWorkbook, IsSequence
  <2>2. IsFiniteSet(1..n)
      BY FS_Interval
  <2> DEFINE f == [i \in 1..n |-> wb.rows[i].category]
  <2>3. IsFiniteSet({f[i] : i \in 1..n})
      BY <2>2, FiniteImage
  <2>4. categories \subseteq {f[i] : i \in 1..n}
      BY <2>1
  <2> HIDE DEF categories, f
  <2> QED
      BY <2>3, <2>4, FS_Subset
<1> HIDE DEF sm, categories
<1> QED
    BY <1>1, <1>2, <1>3, <1>4 DEF IsModel, sm

\* One ancestor more, where there is one.
Longer(sm, below) ==
    LET up == IF below[Len(below)] \in DOMAIN sm.parents
              THEN sm.parents[below[Len(below)]] ELSE None
    IN  IF up = None THEN below ELSE Append(below, up)

LEMMA PathGoesUp ==
    ASSUME NEW sm, IsModel(sm), NEW category
    PROVE  LET n == Cardinality(DOMAIN sm.parents)
           IN  /\ n \in Nat
               /\ \E f : /\ AncestorsIncludingSelf(sm, category) = f[n]
                         /\ f[0] = <<category>>
                         /\ \A i \in 0..n : f[i] \in Seq({category, "CUSTOMER_ASSET"})
                         /\ \A i \in 1..n : f[i] = Longer(sm, f[i - 1])
<1> DEFINE n == Cardinality(DOMAIN sm.parents)
           X == {category, "CUSTOMER_ASSET"}
           T == Seq(X)
           Loop(f) == [i \in 0..n |-> IF i = 0 THEN <<category>>
                                      ELSE Longer(sm, f[i - 1])]
           path == CHOOSE f : f = Loop(f)
           step == [i \in 1..n |-> [b \in T |-> Longer(sm, b)]]
<1>0. AncestorsIncludingSelf(sm, category) = path[n]
    BY DEF AncestorsIncludingSelf, Longer
<1>1. n \in Nat
    BY FS_CardinalityType DEF IsModel
<1>2. ASSUME NEW b \in T PROVE Longer(sm, b) \in T
  <2> DEFINE up == IF b[Len(b)] \in DOMAIN sm.parents
                   THEN sm.parents[b[Len(b)]] ELSE None
  <2>1. up \in X \/ up = None
      BY DEF IsModel
  <2>2. Longer(sm, b) = IF up = None THEN b ELSE Append(b, up)
      BY DEF Longer
  <2> HIDE DEF X, up
  <2> QED
      BY <2>1, <2>2
<1>3. <<category>> \in T
    OBVIOUS
<1> HIDE DEF T, n
<1>4. step \in [1..n -> [T -> T]]
    BY <1>2
<1>5. PICK g \in [0..n -> T] :
          g[0] = <<category>> /\ \A i \in 1..n : g[i] = step[i][g[i - 1]]
  <2> HIDE DEF step
  <2>1. HasRecursion(n, T, <<category>>, step)
      BY <1>1, <1>3, <1>4, RecursionUpTo
  <2> QED
      BY <2>1 DEF HasRecursion
<1>6. ASSUME NEW i \in 1..n PROVE g[i] = Longer(sm, g[i - 1])
  <2>1. g[i - 1] \in T
      BY <1>1
  <2> QED
      BY <1>5, <2>1
<1>7. g = Loop(g)
  <2> HIDE DEF step
  <2>1. g = [i \in 0..n |-> g[i]]
      BY <1>5
  <2>2. ASSUME NEW i \in 0..n
        PROVE  g[i] = IF i = 0 THEN <<category>> ELSE Longer(sm, g[i - 1])
    <3>1. CASE i = 0
        BY <1>5, <3>1
    <3>2. CASE i # 0
      <4>1. i \in 1..n
          BY <1>1, <3>2
      <4> QED
          BY <1>6, <3>2, <4>1
    <3> QED
        BY <3>1, <3>2
  <2> QED
      BY <2>1, <2>2
<1>8. path = Loop(path)
    BY <1>7
<1> HIDE DEF path
<1>9. path[0] = <<category>> /\ \A i \in 1..n : path[i] = Longer(sm, path[i - 1])
    BY <1>1, <1>8
<1> DEFINE Q == {i \in 0..n : path[i] \in T}
<1>10. 0 \in Q
    BY <1>1, <1>3, <1>9
<1>11. ASSUME NEW i \in 1..n, i - 1 \in Q PROVE i \in Q
    BY <1>2, <1>9, <1>11
<1> HIDE DEF Q
<1>12. 0..n \subseteq Q
    BY <1>1, <1>10, <1>11, InductionUpTo
<1>13. \A i \in 0..n : path[i] \in T
    BY <1>12 DEF Q
<1> QED
    BY <1>0, <1>1, <1>9, <1>13 DEF T, n

LEMMA PathIsCounted ==
    ASSUME NEW sm, IsModel(sm), NEW category
    PROVE  DOMAIN AncestorsIncludingSelf(sm, category) \subseteq Nat
<1> DEFINE n == Cardinality(DOMAIN sm.parents)
<1>1. n \in 0..n /\ AncestorsIncludingSelf(sm, category)
                        \in Seq({category, "CUSTOMER_ASSET"})
  <2>1. n \in Nat
      BY PathGoesUp
  <2>2. n \in 0..n
      BY <2>1
  <2> QED
      BY <2>2, PathGoesUp
<1> QED
    BY <1>1

\* Every category of the workbook leads to the root (ancestors).
LEMMA RootIsAncestor ==
    ASSUME NEW sm, IsModel(sm), NEW category, None # "CUSTOMER_ASSET",
           category \in DOMAIN sm.parents \/ category = "CUSTOMER_ASSET"
    PROVE  IsCategoryOrDescendant(sm, category, "CUSTOMER_ASSET")
<1> DEFINE root == "CUSTOMER_ASSET"
           n == Cardinality(DOMAIN sm.parents)
           X == {category, root}
           Has(s) == \E k \in DOMAIN s : s[k] = root
<1>1. n \in Nat
    BY PathGoesUp
<1>2. PICK f : /\ AncestorsIncludingSelf(sm, category) = f[n]
               /\ f[0] = <<category>>
               /\ \A i \in 0..n : f[i] \in Seq(X)
               /\ \A i \in 1..n : f[i] = Longer(sm, f[i - 1])
    BY PathGoesUp
<1>3. ASSUME NEW s \in Seq(X), Has(s) PROVE Has(Longer(sm, s))
  <2>1. Longer(sm, s) = s \/ \E up \in X : Longer(sm, s) = Append(s, up)
      BY DEF Longer, IsModel
  <2> HIDE DEF X
  <2>2. ASSUME NEW up \in X PROVE Has(Append(s, up))
    <3>1. PICK k \in DOMAIN s : s[k] = root
        BY <1>3
    <3>2. k \in DOMAIN Append(s, up) /\ Append(s, up)[k] = root
        BY <3>1
    <3> QED
        BY <3>2
  <2> HIDE DEF Has
  <2> QED
      BY <1>3, <2>1, <2>2
<1>4. category = root => Has(f[0])
    BY <1>2
<1>5. category # root => n >= 1 /\ Has(f[1])
  <2> SUFFICES ASSUME category # root PROVE n >= 1 /\ Has(f[1])
      OBVIOUS
  <2>1. category \in DOMAIN sm.parents /\ sm.parents[category] = root
      BY DEF IsModel
  <2>2. n # 0
      BY <2>1, FS_EmptySet DEF IsModel
  <2>3. 1 \in 1..n
      BY <1>1, <2>2
  <2>4. f[1] = Longer(sm, f[0])
    <3>1. 1 - 1 = 0
        OBVIOUS
    <3> QED
        BY <1>2, <2>3, <3>1
  <2>5. Longer(sm, <<category>>) = Append(<<category>>, root)
      BY <2>1 DEF Longer
  <2>6. Append(<<category>>, root)[2] = root /\ 2 \in DOMAIN Append(<<category>>, root)
      OBVIOUS
  <2> QED
      BY <1>1, <1>2, <2>2, <2>4, <2>5, <2>6
<1> HIDE DEF Has, X, n
<1> DEFINE Q == {i \in 0..n : (i = 0 /\ category # root) \/ Has(f[i])}
<1>6. 0 \in Q
    BY <1>1, <1>4
<1>7. ASSUME NEW i \in 1..n, i - 1 \in Q PROVE i \in Q
  <2>1. CASE i - 1 = 0 /\ category # root
    <3>1. i = 1
        BY <2>1
    <3> QED
        BY <1>5, <2>1, <3>1
  <2>2. CASE Has(f[i - 1])
    <3>1. i - 1 \in 0..n
        BY <1>1
    <3> QED
        BY <1>2, <1>3, <2>2, <3>1
  <2> QED
      BY <1>7, <2>1, <2>2
<1>8. 0..n \subseteq Q
  <2> HIDE DEF Q
  <2> QED
      BY <1>1, <1>6, <1>7, InductionUpTo
<1>9. Has(f[n])
  <2>1. n \in Q
    <3> HIDE DEF Q
    <3> QED
        BY <1>1, <1>8
  <2> QED
      BY <1>1, <1>5, <2>1
<1> QED
    BY <1>2, <1>9 DEF IsCategoryOrDescendant, Has

\* Of the policies of an ancestor there is a nearest one (match_policy).
LEMMA NearestIsPolicy ==
    ASSUME NEW sm, IsModel(sm), NEW path, DOMAIN path \subseteq Nat,
           NEW candidates \in SUBSET DOMAIN sm.policies,
           \A k \in candidates :
               \E i \in DOMAIN path : path[i] = sm.policies[k].category
    PROVE  IF candidates = {}
           THEN Nearest(sm, candidates, path) = None
           ELSE Nearest(sm, candidates, path) \in
                    {sm.policies[k] : k \in DOMAIN sm.policies}
<1> SUFFICES ASSUME candidates # {}
             PROVE  Nearest(sm, candidates, path) \in
                        {sm.policies[k] : k \in DOMAIN sm.policies}
    BY DEF Nearest
<1> DEFINE Distance(k) == CHOOSE i \in DOMAIN path : path[i] = sm.policies[k].category
           near == CHOOSE k \in candidates : \A l \in candidates :
                       \/ Distance(k) < Distance(l)
                       \/ Distance(k) = Distance(l) /\ k <= l
           distances == {Distance(k) : k \in candidates}
<1>1. \A k \in candidates : Distance(k) \in Nat
    OBVIOUS
<1>2. candidates \in SUBSET Nat
    BY DEF IsModel, IsSequence
<1> HIDE DEF Distance
<1>3. PICK x \in distances : \A y \in distances : x <= y
  <2>1. distances \in SUBSET Nat /\ distances # {}
      BY <1>1
  <2> HIDE DEF distances
  <2> QED
      BY <2>1, LeastMember
<1> DEFINE nearest == {k \in candidates : Distance(k) = x}
<1>4. PICK k \in nearest : \A l \in nearest : k <= l
  <2>1. nearest \in SUBSET Nat /\ nearest # {}
      BY <1>2, <1>3
  <2> HIDE DEF nearest
  <2> QED
      BY <2>1, LeastMember
<1>5. \A l \in candidates : \/ Distance(k) < Distance(l)
                            \/ Distance(k) = Distance(l) /\ k <= l
  <2> SUFFICES ASSUME NEW l \in candidates
               PROVE  \/ Distance(k) < Distance(l)
                      \/ Distance(k) = Distance(l) /\ k <= l
      OBVIOUS
  <2>1. Distance(k) = x /\ x \in Nat /\ Distance(l) \in Nat /\ x <= Distance(l)
      BY <1>1, <1>3
  <2>2. CASE x = Distance(l)
      BY <1>4, <2>1, <2>2
  <2>3. CASE x # Distance(l)
      BY <2>1, <2>3
  <2> QED
      BY <2>2, <2>3
<1>6. near \in candidates
    BY <1>4, <1>5
<1>7. Nearest(sm, candidates, path) = sm.policies[near]
    BY DEF Nearest, Distance
<1> HIDE DEF near
<1> QED
    BY <1>6, <1>7

\* The policy of an asset, if it has one, is typed, its life is positive, and
\* its residual rate is the card's or zero (_policy).
LEMMA PolicyIsTyped ==
    ASSUME NEW sm, IsModel(sm), NEW a, IsCard(a), ResolveForAsset(sm, a) # None
    PROVE  /\ IsPolicy(Policy(sm, a))
           /\ Policy(sm, a).residual = IF a.residual = None THEN 0 ELSE a.residual
<1> DEFINE p == ResolveForAsset(sm, a)
           policies == {sm.policies[k] : k \in DOMAIN sm.policies}
           path == AncestorsIncludingSelf(sm, a.category)
<1>1. p # None
    OBVIOUS
<1>2. PolicyForCode(sm, a.code) # None => PolicyForCode(sm, a.code) \in policies
  <2> DEFINE held == {k \in DOMAIN sm.policies :
                   a.code \in DOMAIN sm.codes /\ sm.policies[k].id = sm.codes[a.code]}
  <2>1. PolicyForCode(sm, a.code) =
            IF held = {} THEN None ELSE sm.policies[CHOOSE k \in held : TRUE]
      BY DEF PolicyForCode
  <2>2. held # {} => (CHOOSE k \in held : TRUE) \in DOMAIN sm.policies
      OBVIOUS
  <2> HIDE DEF held
  <2> QED
      BY <2>1, <2>2
<1>3. MatchPolicy(sm, a.company, a.category) # None =>
          MatchPolicy(sm, a.company, a.category) \in policies
  <2> DEFINE candidates == {k \in DOMAIN sm.policies :
                    /\ sm.policies[k].company = a.company
                    /\ IsCategoryOrDescendant(sm, a.category, sm.policies[k].category)}
  <2>1. MatchPolicy(sm, a.company, a.category) = Nearest(sm, candidates, path)
      BY DEF MatchPolicy
  <2>2. DOMAIN path \subseteq Nat
      BY PathIsCounted
  <2>3. \A k \in candidates :
            \E i \in DOMAIN path : path[i] = sm.policies[k].category
      BY DEF IsCategoryOrDescendant
  <2>4. candidates \in SUBSET DOMAIN sm.policies
      OBVIOUS
  <2> HIDE DEF candidates, path, policies
  <2>5. Nearest(sm, candidates, path) # None =>
            Nearest(sm, candidates, path) \in policies
      BY <2>2, <2>3, <2>4, NearestIsPolicy DEF policies
  <2> QED
      BY <2>1, <2>5
<1>4. p \in policies
    BY <1>1, <1>2, <1>3 DEF ResolveForAsset
<1>5. IsPolicy(p) /\ p.residual = 0
    BY <1>4 DEF IsModel
<1> HIDE DEF p
<1>6. Policy(sm, a) = Overridden(p, a)
    BY DEF Policy, p
<1>7. Overridden(p, a) =
         [p EXCEPT !.life = IF a.life = None THEN @ ELSE a.life,
                   !.residual = IF a.residual = None THEN @ ELSE a.residual,
                   !.startRule = IF a.startRule = None THEN @ ELSE a.startRule]
    BY <1>1 DEF Overridden
<1> QED
    BY <1>5, <1>6, <1>7 DEF IsPolicy, PolicyFields, IsCard

-----------------------------------------------------------------------------
(* Drivers *)

DriverFields == {"production", "reserves", "workload", "fee", "total", "pool"}

IsDriver(d) ==
    /\ d \in [DriverFields -> Int \cup {None}]
    /\ {d.production, d.reserves, d.workload, d.fee} \subseteq Int

AreDrivers(drivers) == \A key \in DOMAIN drivers : IsDriver(drivers[key])

LEMMA DriverIsTyped ==
    ASSUME NEW drivers, AreDrivers(drivers), NEW type, NEW target, NEW period
    PROVE  IsDriver(Driver(drivers, type, target, period))
BY DEF Driver, AreDrivers, IsDriver, DriverFields, NoDriver

\* The depletion rate is a proper fraction (_depletion_rate).
LEMMA RateIsFraction ==
    ASSUME NEW d, IsDriver(d)
    PROVE  /\ DepletionRate(d).n \in Nat
           /\ DepletionRate(d).d \in Nat \ {0}
           /\ DepletionRate(d).n <= DepletionRate(d).d
BY DEF DepletionRate, IsDriver

\* Filling in numbers keeps a driver a driver.
LEMMA FilledDriver ==
    ASSUME NEW d, IsDriver(d), NEW f \in DriverFields, NEW x \in Int
    PROVE  IsDriver([d EXCEPT ![f] = x])
<1> DEFINE e == [d EXCEPT ![f] = x]
<1>1. e \in [DriverFields -> Int \cup {None}]
    BY DEF IsDriver
<1>2. \A g \in DriverFields : e[g] = IF g = f THEN x ELSE d[g]
    BY DEF IsDriver
<1> HIDE DEF e
<1>3. \A g \in {"production", "reserves", "workload", "fee"} : e[g] \in Int
    BY <1>2 DEF IsDriver, DriverFields
<1>4. IsDriver(e)
    BY <1>1, <1>3 DEF IsDriver
<1> QED
    BY <1>4 DEF e

LEMMA AverageInt ==
    ASSUME NEW rows, IsFiniteSet(rows), NEW field,
           \A r \in rows : r[field] \in Int
    PROVE  Average(rows, field) \in Int
<1>1. CASE rows = {}
    BY <1>1 DEF Average
<1>2. CASE rows # {}
  <2> DEFINE f == [r \in rows |-> r[field]]
  <2>1. SumFunction(f) \in Int
    <3>1. DOMAIN f = rows /\ \A r \in rows : f[r] \in Int
        OBVIOUS
    <3> HIDE DEF f
    <3> QED
        BY <3>1, SumOfNumbers DEF SumFunction
  <2>2. Cardinality(rows) \in Nat \ {0}
      BY <1>2, FS_CardinalityType, FS_EmptySet
  <2> HIDE DEF f
  <2>3. SumFunction(f) \div Cardinality(rows) \in Int
      BY <2>1, <2>2, Quotient
  <2> QED
      BY <1>2, <2>3 DEF Average, f
<1> QED
    BY <1>1, <1>2

LEMMA WorkbooksGiveDrivers ==
    ASSUME NEW wb, IsWorkbook(wb), NEW cards, NEW start, NEW end
    PROVE  AreDrivers(BaselineDrivers(wb, cards, start, end))
<1>1. ASSUME NEW target, NEW period
      PROVE  IsDriver(BlockDriver(wb, target, period))
  <2> DEFINE rows == BlockRows(wb, target, period)
  <2>1. rows \subseteq wb.blocks
      BY DEF BlockRows
  <2>2. IsFiniteSet(rows) /\ \A r \in rows : IsBlockRow(r)
    <3> HIDE DEF rows
    <3> QED
        BY <2>1, FS_Subset DEF IsWorkbook
  <2> HIDE DEF rows
  <2>3. Average(rows, "production") \in Int /\ Average(rows, "reserves") \in Int
      BY <2>2, AverageInt DEF IsBlockRow
  <2>4. BlockDriver(wb, target, period) =
            [NoDriver EXCEPT !.production = Average(rows, "production"),
                             !.reserves = Average(rows, "reserves")]
      BY DEF BlockDriver, rows
  <2>5. IsDriver(NoDriver)
      BY DEF NoDriver, IsDriver, DriverFields
  <2>6. IsDriver([NoDriver EXCEPT !.production = Average(rows, "production")])
      BY <2>3, <2>5, FilledDriver DEF DriverFields
  <2> QED
      BY <2>3, <2>4, <2>5, <2>6, FilledDriver DEF DriverFields
<1>2. ASSUME NEW target, NEW period
      PROVE  IsDriver(WorkloadDriver(wb, target, period))
  <2> DEFINE rows == WorkloadRows(wb, target, period)
  <2>1. rows \subseteq wb.workloads
      BY DEF WorkloadRows
  <2>2. IsFiniteSet(rows) /\ \A r \in rows : IsWorkloadRow(r)
    <3> HIDE DEF rows
    <3> QED
        BY <2>1, FS_Subset DEF IsWorkbook
  <2> HIDE DEF rows
  <2>3. Average(rows, "total") \in Int /\ Average(rows, "pool") \in Int
      BY <2>2, AverageInt DEF IsWorkloadRow
  <2>4. WorkloadDriver(wb, target, period) =
            IF rows = {}
            THEN NoDriver
            ELSE [NoDriver EXCEPT !.total = Average(rows, "total"),
                                  !.pool = Average(rows, "pool")]
      BY DEF WorkloadDriver, rows
  <2>5. IsDriver(NoDriver)
      BY DEF NoDriver, IsDriver, DriverFields
  <2>6. IsDriver([NoDriver EXCEPT !.total = Average(rows, "total")])
      BY <2>3, <2>5, FilledDriver DEF DriverFields
  <2> QED
      BY <2>3, <2>4, <2>5, <2>6, FilledDriver DEF DriverFields
<1> QED
    BY <1>1, <1>2 DEF BaselineDrivers, AreDrivers

-----------------------------------------------------------------------------
(* One month of an asset of the ledger *)

IsWork(w) == w \in [acc : Int, imp : Int, disposed : {FALSE}]

AreImpairments(events) ==
    /\ IsFiniteSet(events)
    /\ \A e \in events :
          e.type = "IMPAIRMENT" /\ e.amount \in Int /\ e.period \in Int

\* No month takes value back, and an output-based one takes no more than the
\* asset is worth (_monthly_amount).
LEMMA MonthlyAmountIs ==
    ASSUME NEW a, IsCard(a), a.inService \in Int, NEW p, IsPolicy(p),
           NEW period \in Int, NEW w, IsWork(w), NEW opening \in Int,
           NEW drivers, AreDrivers(drivers)
    PROVE  LET amount == MonthlyAmount(a, p, period, w, opening, drivers)
           IN  /\ amount \in Nat
               /\ p.method = "PRODUCTION" => amount <= Greater(opening, 0)
<1> DEFINE first == FirstDepreciationMonth(a.inService, p.startRule)
           index == period - first
           rate == DepletionRate(Driver(drivers, "PRODUCTION", a.block, period))
           base == Greater(opening, 0)
           remaining == TotalDepreciable(a.cost, p.residual) - 100 * (w.acc + w.imp)
           amount == MonthlyAmount(a, p, period, w, opening, drivers)
           taken == Money(base * rate.n, rate.d)
           share == Money(Greater(remaining, 0), 100 * (p.life - index))
<1>1. first \in Int /\ index \in Int
    BY DEF FirstDepreciationMonth
<1>2. rate.n \in Nat /\ rate.d \in Nat \ {0} /\ rate.n <= rate.d
    BY DriverIsTyped, RateIsFraction
<1>3. base \in Nat
    BY DEF Greater
<1>4. remaining \in Int
  <2>1. a.cost \in Int /\ p.residual \in Int /\ w.acc \in Int /\ w.imp \in Int
      BY DEF IsCard, IsPolicy, IsWork
  <2>2. a.cost * (100 - p.residual) \in Int
      BY <2>1
  <2> QED
      BY <2>1, <2>2 DEF TotalDepreciable
<1>5. amount = IF period < first THEN 0
               ELSE IF p.method = "PRODUCTION"
                    THEN Lesser(Greater(taken, 0), base)
               ELSE IF index >= p.life THEN 0
               ELSE share
  <2>1. w.disposed = FALSE
      BY DEF IsWork
  <2> QED
      BY <2>1 DEF MonthlyAmount
<1> HIDE DEF first, index, rate, remaining, amount
<1>6. taken \in 0..base
  <2>1. base * rate.n \in Nat /\ base * rate.n <= rate.d * base
    <3> HIDE DEF base
    <3> QED
        BY <1>2, <1>3
  <2> QED
      BY <1>2, <1>3, <2>1, MoneyWithin
<1>7. index < p.life => share \in Nat
  <2>1. Greater(remaining, 0) \in Nat
      BY <1>4 DEF Greater
  <2>2. index < p.life => 100 * (p.life - index) \in Nat \ {0}
      BY <1>1 DEF IsPolicy
  <2> QED
      BY <2>1, <2>2, MoneyNat
<1>8. p.life \in Int
    BY DEF IsPolicy
<1> HIDE DEF base, taken, share
<1>9. Lesser(Greater(taken, 0), base) \in Nat /\ Lesser(Greater(taken, 0), base) <= base
    BY <1>3, <1>6 DEF Lesser, Greater
<1> QED
    BY <1>1, <1>3, <1>5, <1>7, <1>8, <1>9 DEF amount, base

LEMMA SumAmountsInt ==
    ASSUME NEW events, AreImpairments(events), NEW due \in SUBSET events
    PROVE  /\ SumAmounts(due, "IMPAIRMENT") \in Int
           /\ SumAmounts(due, "DISPOSAL") = 0
<1> DEFINE f == [e \in due |-> IF e.type = "IMPAIRMENT" THEN e.amount ELSE 0]
           z == [e \in due |-> IF e.type = "DISPOSAL" THEN e.amount ELSE 0]
<1>1. IsFiniteSet(due)
    BY FS_Subset DEF AreImpairments
<1>2. DOMAIN f = due /\ \A e \in due : f[e] \in Int
    BY DEF AreImpairments
<1>3. DOMAIN z = due /\ \A e \in due : z[e] = 0
    BY DEF AreImpairments
<1>4. SumAmounts(due, "IMPAIRMENT") = SumFunctionOnSet(f, DOMAIN f)
    BY DEF SumAmounts, SumFunction
<1>5. SumAmounts(due, "DISPOSAL") = SumFunctionOnSet(z, DOMAIN z)
    BY DEF SumAmounts, SumFunction
<1> HIDE DEF f, z
<1>6. SumFunctionOnSet(f, due) \in Int
    BY <1>1, <1>2, SumOfNumbers
<1>7. SumFunctionOnSet(z, due) = 0
    BY <1>1, <1>3, SumOfZeros
<1> QED
    BY <1>2, <1>3, <1>4, <1>5, <1>6, <1>7

LEMMA OpeningWorkIs ==
    ASSUME NEW a, IsCard(a), a.inService \in Int, NEW p, IsPolicy(p),
           NEW start \in Int
    PROVE  LET w == OpeningWork(a, p, start)
           IN  /\ IsWork(w)
               /\ w.imp = a.imp /\ w.acc >= a.acc
               /\ p.method = "PRODUCTION" => w.acc = a.acc
<1> DEFINE first == FirstDepreciationMonth(a.inService, p.startRule)
           elapsed == ElapsedMonths(p, first, start)
           depreciable == TotalDepreciable(a.cost, p.residual)
           scheduled == ScheduledDepreciation(a, p, start)
           acc == IF p.method = "PRODUCTION" THEN a.acc ELSE Greater(a.acc, scheduled)
<1>1. {a.cost, a.acc, a.imp, p.residual} \subseteq Int /\ p.life \in Nat \ {0}
    BY DEF IsCard, IsPolicy
<1>2. elapsed \in Int
    BY <1>1 DEF ElapsedMonths, FirstDepreciationMonth, Greater, Lesser
<1>3. depreciable \in Int
  <2>1. a.cost * (100 - p.residual) \in Int
      BY <1>1
  <2> QED
      BY <2>1 DEF TotalDepreciable
<1>4. scheduled = Money(depreciable * elapsed, 100 * p.life)
    BY DEF ScheduledDepreciation
<1> HIDE DEF elapsed, depreciable, scheduled
<1>5. scheduled \in Int
  <2>1. depreciable * elapsed \in Int /\ 100 * p.life \in Nat \ {0}
      BY <1>1, <1>2, <1>3
  <2> QED
      BY <1>4, <2>1, MoneyInt
<1>6. /\ acc \in Int /\ acc >= a.acc
      /\ p.method = "PRODUCTION" => acc = a.acc
    BY <1>1, <1>5 DEF Greater
<1>7. OpeningWork(a, p, start) = [acc |-> acc, imp |-> a.imp, disposed |-> FALSE]
    BY DEF OpeningWork, scheduled
<1> HIDE DEF acc
<1> QED
    BY <1>1, <1>6, <1>7 DEF IsWork

\* The first month of the forecast finds an asset no further below nothing
\* than its ledger impairment, which its schedule knows nothing of.
LEMMA OpensAtImpairment ==
    ASSUME NEW a, IsCard(a), a.inService \in Int, NEW p, IsPolicy(p),
           a.cost >= 0, p.residual \in 0..100, NEW start \in Int,
           a.acc <= a.cost - a.imp
    PROVE  LET w == OpeningWork(a, p, start)
           IN  a.cost - w.acc - w.imp
                  >= -(IF p.method = "PRODUCTION" THEN 0 ELSE Greater(0, a.imp))
<1> DEFINE first == FirstDepreciationMonth(a.inService, p.startRule)
           elapsed == ElapsedMonths(p, first, start)
           depreciable == TotalDepreciable(a.cost, p.residual)
           scheduled == ScheduledDepreciation(a, p, start)
<1>1. a.cost \in Nat /\ {a.acc, a.imp} \subseteq Int /\ p.life \in Nat \ {0}
    BY DEF IsCard, IsPolicy
<1>2. elapsed \in 0..p.life
    BY <1>1 DEF ElapsedMonths, FirstDepreciationMonth, Greater, Lesser
<1>3. depreciable \in Nat /\ depreciable <= 100 * a.cost
  <2>1. 100 - p.residual \in 0..100
      OBVIOUS
  <2>2. \A r \in 0..100 : a.cost * r \in Nat /\ a.cost * r <= a.cost * 100
      BY <1>1
  <2> QED
      BY <1>1, <2>1, <2>2 DEF TotalDepreciable
<1>4. scheduled = Money(depreciable * elapsed, 100 * p.life)
    BY DEF ScheduledDepreciation
<1>5. /\ OpeningWork(a, p, start).acc = IF p.method = "PRODUCTION" THEN a.acc
                                        ELSE Greater(a.acc, scheduled)
      /\ OpeningWork(a, p, start).imp = a.imp
    BY DEF OpeningWork
<1> HIDE DEF elapsed, depreciable, scheduled
<1>6. scheduled \in 0..a.cost
  <2>1. depreciable * elapsed \in Nat /\ depreciable * elapsed <= depreciable * p.life
      BY <1>1, <1>2, <1>3
  <2>2. depreciable * p.life <= (100 * a.cost) * p.life
      BY <1>1, <1>3
  <2>3. (100 * a.cost) * p.life = (100 * p.life) * a.cost
      BY <1>1
  <2>4. /\ depreciable * elapsed <= (100 * p.life) * a.cost
        /\ 100 * p.life \in Nat \ {0}
    <3>1. depreciable * p.life \in Int /\ (100 * p.life) * a.cost \in Int
        BY <1>1, <1>3
    <3> QED
        BY <1>1, <2>1, <2>2, <2>3, <3>1
  <2> QED
      BY <1>1, <1>4, <2>1, <2>4, MoneyWithin
<1> QED
    BY <1>1, <1>5, <1>6 DEF Greater, scheduled

DueOf(a, period, events) == {e \in events : e.target = a.id /\ e.period = period}

\* What one month does to an asset no event disposes of
\* (_forecast_existing_asset).
ExistingLaw(a, p, period, w, events, drivers, m) ==
    LET hit == [acc |-> w.acc, imp |-> w.imp + m.impairment, disposed |-> FALSE]
    IN  /\ m.opening = a.cost - w.acc - w.imp
        /\ m.impairment = SumAmounts(DueOf(a, period, events), "IMPAIRMENT")
        /\ m.impairment \in Int /\ m.disposal = 0 /\ m.addition = 0
        /\ m.amount = MonthlyAmount(a, p, period, hit, m.opening, drivers)
        /\ m.amount \in Nat
        /\ m.closing = m.opening - m.impairment - m.amount
        /\ m.work = [hit EXCEPT !.acc = w.acc + m.amount]
        /\ IsWork(m.work)

LEMMA ExistingMonthIs ==
    ASSUME NEW a, IsCard(a), a.inService \in Int, NEW p, IsPolicy(p),
           NEW period \in Int, NEW w, IsWork(w),
           NEW events, AreImpairments(events), NEW drivers, AreDrivers(drivers)
    PROVE  ExistingLaw(a, p, period, w, events, drivers,
                       ExistingMonth(a, p, period, w, events, drivers))
<1> DEFINE due == DueOf(a, period, events)
           impaired == SumAmounts(due, "IMPAIRMENT")
           opening == a.cost - w.acc - w.imp
           hit == [acc |-> w.acc, imp |-> w.imp + impaired, disposed |-> FALSE]
           amount == MonthlyAmount(a, p, period, hit, opening, drivers)
           m == ExistingMonth(a, p, period, w, events, drivers)
<1>1. due \in SUBSET events
    BY DEF DueOf
<1>2. impaired \in Int /\ SumAmounts(due, "DISPOSAL") = 0
  <2> HIDE DEF due
  <2> QED
      BY <1>1, SumAmountsInt
<1>3. (w.disposed \/ \E e \in due : e.type = "DISPOSAL") = FALSE
    BY <1>1 DEF IsWork, AreImpairments
<1>4. {a.cost, w.acc, w.imp} \subseteq Int
    BY DEF IsCard, IsWork
<1> HIDE DEF due
<1>5. m = [opening |-> opening, impairment |-> impaired,
           disposal |-> SumAmounts(due, "DISPOSAL"),
           addition |-> 0, amount |-> amount,
           closing |-> a.cost - (w.acc + amount) - (w.imp + impaired)
                         - SumAmounts(due, "DISPOSAL"),
           work |-> [hit EXCEPT !.acc = w.acc + amount]]
  <2>1. due = {e \in events : e.target = a.id /\ e.period = period}
      BY DEF due, DueOf
  <2> QED
      BY <1>3, <2>1 DEF ExistingMonth
<1> HIDE DEF impaired, m
<1>6. IsWork(hit) /\ opening \in Int
    BY <1>2, <1>4 DEF IsWork
<1>7. amount \in Nat
  <2> HIDE DEF hit, opening
  <2> QED
      BY <1>6, MonthlyAmountIs
<1> HIDE DEF amount
<1>8. IsWork([hit EXCEPT !.acc = w.acc + amount])
  <2>1. w.acc + amount \in Int /\ w.imp + impaired \in Int
      BY <1>2, <1>4, <1>7
  <2> HIDE DEF hit
  <2> QED
      BY <1>6, <2>1 DEF IsWork
<1>9. a.cost - (w.acc + amount) - (w.imp + impaired) - 0
          = opening - impaired - amount
    BY <1>2, <1>4, <1>7
<1> QED
    BY <1>2, <1>5, <1>6, <1>7, <1>8, <1>9 DEF m, amount, impaired, due, ExistingLaw

\* A month takes no more than the asset is worth, a straight-line one no more
\* than what its impairment leaves of it.
LEMMA MonthTakesWhatIsLeft ==
    ASSUME NEW a, IsCard(a), a.inService \in Int, NEW p, IsPolicy(p),
           a.cost >= 0, p.residual \in 0..100, NEW period \in Int,
           NEW w, IsWork(w), NEW events, NEW drivers, AreDrivers(drivers), NEW m,
           ExistingLaw(a, p, period, w, events, drivers, m)
    PROVE  m.amount <= IF p.method = "PRODUCTION"
                       THEN Greater(m.opening, 0)
                       ELSE Greater(m.opening - m.impairment, 0)
<1> DEFINE first == FirstDepreciationMonth(a.inService, p.startRule)
           opening == a.cost - w.acc - w.imp
           depreciable == TotalDepreciable(a.cost, p.residual)
           hit == [acc |-> w.acc, imp |-> w.imp + m.impairment, disposed |-> FALSE]
           remaining == depreciable - 100 * (w.acc + (w.imp + m.impairment))
           left == opening - m.impairment
           months == p.life - (period - first)
           share == Money(Greater(remaining, 0), 100 * months)
<1>1. /\ m.opening = opening /\ m.impairment \in Int /\ m.amount \in Nat
      /\ m.amount = MonthlyAmount(a, p, period, hit, m.opening, drivers)
    BY DEF ExistingLaw
<1>2. {a.cost, w.acc, w.imp, opening, left} \subseteq Int /\ a.cost \in Nat
  <2>1. {a.cost, w.acc, w.imp} \subseteq Int
      BY DEF IsCard, IsWork
  <2> QED
      BY <1>1, <2>1
<1>3. IsWork(hit) /\ hit.acc = w.acc /\ hit.imp = w.imp + m.impairment
    BY <1>1, <1>2 DEF IsWork
<1>4. first \in Int /\ p.life \in Nat \ {0} /\ months \in Int
    BY DEF FirstDepreciationMonth, IsPolicy
<1>5. depreciable \in Nat /\ depreciable <= 100 * a.cost
  <2>1. 100 - p.residual \in 0..100
      OBVIOUS
  <2>2. \A r \in 0..100 : a.cost * r \in Nat /\ a.cost * r <= a.cost * 100
      BY <1>2
  <2> QED
      BY <1>2, <2>1, <2>2 DEF TotalDepreciable
<1> HIDE DEF first, depreciable
<1>6. CASE p.method = "PRODUCTION"
  <2> HIDE DEF hit, opening
  <2> QED
      BY <1>1, <1>2, <1>3, <1>6, MonthlyAmountIs
<1>7. CASE p.method # "PRODUCTION"
  <2>1. m.amount = IF period < first \/ period - first >= p.life THEN 0 ELSE share
      BY <1>1, <1>3, <1>7 DEF MonthlyAmount, first, depreciable
  <2>2. ASSUME ~(period < first \/ period - first >= p.life)
        PROVE  share <= Greater(left, 0)
    <3>1. months \in Nat \ {0} /\ 100 * months \in Nat \ {0}
        BY <1>4, <2>2
    <3>2. remaining \in Int /\ remaining <= 100 * left
        BY <1>1, <1>2, <1>5
    <3> HIDE DEF left, remaining, months
    <3> DEFINE top == Greater(left, 0)
    <3>3. /\ Greater(remaining, 0) \in Nat /\ top \in Nat
          /\ Greater(remaining, 0) <= 100 * top
        BY <1>2, <3>2 DEF Greater
    <3> HIDE DEF top
    <3>4. 100 * top <= (100 * months) * top
        BY <3>1, <3>3
    <3>5. Greater(remaining, 0) <= (100 * months) * top
      <4>1. (100 * months) * top \in Int
          BY <3>1, <3>3
      <4> QED
          BY <3>3, <3>4, <4>1
    <3>6. share \in 0..top
        BY <3>1, <3>3, <3>5, MoneyWithin
    <3> QED
        BY <3>6 DEF top
  <2>3. 0 <= Greater(left, 0)
      BY <1>2 DEF Greater
  <2>4. left = m.opening - m.impairment
      BY <1>1
  <2> HIDE DEF left, share
  <2> QED
      BY <1>7, <2>1, <2>2, <2>3, <2>4
<1> QED
    BY <1>6, <1>7

\* The last month of a straight-line life leaves the residual value, or what
\* there was when less is left, and no later month takes anything.
LEMMA LastMonthLeavesResidual ==
    ASSUME NEW a, IsCard(a), a.inService \in Int, NEW p, IsPolicy(p),
           p.method # "PRODUCTION", a.cost >= 0, p.residual \in 0..100,
           NEW period \in Int, NEW w, IsWork(w),
           NEW events, AreImpairments(events), NEW drivers, AreDrivers(drivers)
    PROVE  LET m == ExistingMonth(a, p, period, w, events, drivers)
               last == FirstDepreciationMonth(a.inService, p.startRule) + p.life - 1
               residual == Money(TotalDepreciable(a.cost, p.residual), 100)
           IN  /\ period = last =>
                    m.closing = Lesser(a.cost - residual, m.opening - m.impairment)
               /\ period > last => m.amount = 0
<1> DEFINE first == FirstDepreciationMonth(a.inService, p.startRule)
           last == first + p.life - 1
           depreciable == TotalDepreciable(a.cost, p.residual)
           m == ExistingMonth(a, p, period, w, events, drivers)
           hit == [acc |-> w.acc, imp |-> w.imp + m.impairment, disposed |-> FALSE]
           x == w.acc + (w.imp + m.impairment)
           remaining == depreciable - 100 * x
<1>1. /\ m.opening = a.cost - w.acc - w.imp
      /\ m.impairment \in Int
      /\ m.amount = MonthlyAmount(a, p, period, hit, m.opening, drivers)
      /\ m.amount \in Nat
      /\ m.closing = m.opening - m.impairment - m.amount
  <2>1. ExistingLaw(a, p, period, w, events, drivers, m)
      BY ExistingMonthIs
  <2> HIDE DEF m
  <2> QED
      BY <2>1 DEF ExistingLaw
<1>2. first \in Int /\ p.life \in Nat \ {0}
    BY DEF FirstDepreciationMonth, IsPolicy
<1>3. depreciable \in Nat
  <2>1. a.cost \in Nat /\ 100 - p.residual \in Nat
      BY DEF IsCard
  <2> QED
      BY <2>1 DEF TotalDepreciable
<1>4. {a.cost, w.acc, w.imp} \subseteq Int
    BY DEF IsCard, IsWork
<1> HIDE DEF m
<1>5. x \in Int /\ remaining \in Int
    BY <1>1, <1>3, <1>4
<1>6. period >= first =>
          m.amount = IF period - first >= p.life THEN 0
                     ELSE Money(Greater(remaining, 0), 100 * (p.life - (period - first)))
  <2>1. period >= first => ~(period < first)
      BY <1>2
  <2> QED
      BY <1>1, <2>1 DEF MonthlyAmount
<1> HIDE DEF first, depreciable, x
<1>7. period > last => m.amount = 0
    BY <1>2, <1>6
<1>8. ASSUME period = last
      PROVE  m.closing = Lesser(a.cost - Money(depreciable, 100),
                                m.opening - m.impairment)
  <2>1. m.amount = Money(Greater(remaining, 0), 100)
    <3>1. period >= first /\ p.life - (period - first) = 1 /\ ~(period - first >= p.life)
        BY <1>2, <1>8
    <3> QED
        BY <1>6, <3>1
  <2>2. Money(depreciable, 100) \in Int
      BY <1>3, MoneyInt
  <2>3. m.opening - m.impairment = a.cost - x /\ m.closing = a.cost - x - m.amount
      BY <1>1, <1>4 DEF x
  <2>4. CASE remaining >= 0
    <3>1. m.amount = Money(depreciable, 100) - x
        BY <1>3, <1>5, <2>1, <2>4, MoneyLeft DEF Greater
    <3> QED
        BY <1>1, <1>4, <1>5, <2>2, <2>3, <3>1 DEF Lesser
  <2>5. CASE remaining < 0
    <3>1. m.amount = 0
        BY <1>5, <2>1, <2>5 DEF Greater, Money
    <3>2. Money(depreciable, 100) <= x
        BY <1>3, <1>5, <2>5, MoneyLeft
    <3> QED
        BY <1>1, <1>4, <1>5, <2>2, <2>3, <3>1, <3>2 DEF Lesser
  <2> QED
      BY <1>5, <2>4, <2>5
<1> QED
    BY <1>7, <1>8 DEF m, first, depreciable

-----------------------------------------------------------------------------
(* One month of the history, of a planned asset and of a pool *)

LEMMA GrossedInt ==
    ASSUME NEW closing \in Int, NEW n \in Nat, NEW d \in Nat
    PROVE  Grossed(closing, n, d) \in Int
<1>1. CASE n < d
  <2>1. d - n \in Nat \ {0} /\ closing * d \in Int
      BY <1>1
  <2> QED
      BY <1>1, <2>1, MoneyInt DEF Grossed
<1>2. CASE ~(n < d)
    BY <1>2 DEF Grossed
<1> QED
    BY <1>1, <1>2

LEMMA ReversedOpeningInt ==
    ASSUME NEW a, IsCard(a), a.inService \in Int, NEW p, IsPolicy(p),
           NEW period \in Int, NEW closing \in Int,
           NEW drivers, AreDrivers(drivers)
    PROVE  ReversedOpening(a, p, period, closing, drivers) \in Int
<1> DEFINE production == Driver(drivers, "PRODUCTION", a.block, period)
           rate == DepletionRate(production)
           d == Driver(drivers, "WORKLOAD", WorkloadTarget(a), period)
           total == IF d.total = None THEN 0 ELSE d.total
           pool == IF d.pool = None THEN 0 ELSE d.pool
           monthly == Money(TotalDepreciable(a.cost, p.residual), 100 * p.life)
           grossed == Grossed(closing, Lesser(total, pool), pool)
<1>1. Grossed(closing, rate.n, rate.d) \in Int
  <2>1. rate.n \in Nat /\ rate.d \in Nat
      BY DriverIsTyped, RateIsFraction
  <2> HIDE DEF rate
  <2> QED
      BY <2>1, GrossedInt
<1>2. pool > 0 /\ total > 0 => grossed \in Int
  <2> SUFFICES ASSUME pool > 0, total > 0 PROVE grossed \in Int
      OBVIOUS
  <2>1. total \in Int /\ pool \in Int
    <3>1. IsDriver(d)
        BY DriverIsTyped
    <3> HIDE DEF d
    <3> QED
        BY <3>1 DEF IsDriver, DriverFields
  <2> HIDE DEF total, pool
  <2>2. Lesser(total, pool) \in Nat /\ pool \in Nat
      BY <2>1 DEF Lesser
  <2> QED
      BY <2>1, <2>2, GrossedInt
<1>3. monthly \in Int
  <2>1. a.cost \in Int /\ p.residual \in Int /\ p.life \in Nat \ {0}
      BY DEF IsCard, IsPolicy
  <2>2. TotalDepreciable(a.cost, p.residual) \in Int /\ 100 * p.life \in Nat \ {0}
      BY <2>1 DEF TotalDepreciable
  <2> QED
      BY <2>2, MoneyInt
<1>4. ReversedOpening(a, p, period, closing, drivers)
          \in {closing, Grossed(closing, rate.n, rate.d), closing + monthly}
                \cup (IF pool > 0 /\ total > 0 THEN {grossed} ELSE {})
  <2>1. CASE period < FirstDepreciationMonth(a.inService, p.startRule)
      BY <2>1 DEF ReversedOpening
  <2>2. CASE ~(period < FirstDepreciationMonth(a.inService, p.startRule))
      BY <2>2 DEF ReversedOpening, IsPolicy, Methods
  <2> QED
      BY <2>1, <2>2
<1> HIDE DEF rate, d, total, pool, monthly, grossed
<1> QED
    BY <1>1, <1>2, <1>3, <1>4

\* A reconstructed month (_reconstruct_historical_lines).
HistoricalLaw(a, period, closing, m) ==
    /\ {m.opening, m.amount, m.closing, m.carried} \subseteq Int
    /\ m.impairment = 0 /\ m.disposal = 0 /\ m.addition = 0
    /\ period >= a.inService =>
          /\ m.closing = closing /\ m.carried = m.opening
          /\ m.amount = m.opening - m.closing
          /\ m.opening <= MaximumNet(a)
          /\ closing <= MaximumNet(a) => m.opening >= closing
    /\ period < a.inService =>
          /\ m.opening = 0 /\ m.amount = 0 /\ m.closing = 0
          /\ m.carried = closing

LEMMA HistoricalMonthIs ==
    ASSUME NEW a, IsCard(a), a.inService \in Int, NEW p, IsPolicy(p),
           NEW period \in Int, NEW closing \in Int,
           NEW drivers, AreDrivers(drivers)
    PROVE  HistoricalLaw(a, period, closing,
                         HistoricalMonth(a, p, period, closing, drivers))
<1> DEFINE reversed == ReversedOpening(a, p, period, closing, drivers)
           opening == Lesser(Greater(reversed, closing), MaximumNet(a))
           m == HistoricalMonth(a, p, period, closing, drivers)
           before == period < a.inService
<1>1. reversed \in Int
    BY ReversedOpeningInt
<1>2. MaximumNet(a) \in Int
    BY DEF MaximumNet, Greater, IsCard
<1>3. m = [opening |-> IF before THEN 0 ELSE opening,
           impairment |-> 0, disposal |-> 0, addition |-> 0,
           amount |-> IF before THEN 0 ELSE opening - closing,
           closing |-> IF before THEN 0 ELSE closing,
           carried |-> IF before THEN closing ELSE opening]
    BY DEF HistoricalMonth
<1> HIDE DEF reversed, m
<1>4. /\ opening \in Int /\ opening <= MaximumNet(a)
      /\ closing <= MaximumNet(a) => opening >= closing
    BY <1>1, <1>2 DEF Lesser, Greater
<1> HIDE DEF opening
<1>5. CASE before
    BY <1>3, <1>4, <1>5 DEF HistoricalLaw, m
<1>6. CASE ~before
    BY <1>3, <1>4, <1>6 DEF HistoricalLaw, m
<1> QED
    BY <1>5, <1>6

\* A month of a planned asset (_forecast_planned_asset).
MonthlyShare(a, p) == Money(TotalDepreciable(a.cost, p.residual), 100 * p.life)

PlannedLaw(a, p, acc, m) ==
    /\ {m.addition, m.amount} \subseteq Int
    /\ m.opening = a.cost - acc
    /\ m.impairment = 0 /\ m.disposal = 0
    /\ m.closing = m.opening - m.amount
    /\ a.cost >= 0 => /\ m.amount \in 0..MonthlyShare(a, p)
                      /\ MonthlyShare(a, p) \in Nat

LEMMA PlannedMonthIs ==
    ASSUME NEW a, IsCard(a), a.inService \in Int, NEW p, IsPolicy(p),
           p.residual = 0, NEW period \in Int, NEW acc \in Int
    PROVE  PlannedLaw(a, p, acc, PlannedMonth(a, p, period, acc))
<1> DEFINE first == FirstDepreciationMonth(a.inService, p.startRule)
           monthly == MonthlyShare(a, p)
           amount == IF period \in first .. (first + p.life - 1) THEN monthly ELSE 0
           m == PlannedMonth(a, p, period, acc)
<1>1. a.cost \in Int
    BY DEF IsCard
<1>2. 100 * p.life \in Nat \ {0}
    BY DEF IsPolicy
<1>3. TotalDepreciable(a.cost, p.residual) = 100 * a.cost
    BY <1>1 DEF TotalDepreciable
<1>4. monthly \in Int /\ (a.cost >= 0 => monthly \in Nat)
    BY <1>1, <1>2, <1>3, MoneyInt, MoneyNat DEF MonthlyShare
<1>5. m = [opening |-> a.cost - acc, impairment |-> 0, disposal |-> 0,
           addition |-> IF period = first THEN a.cost ELSE 0,
           amount |-> amount, closing |-> a.cost - acc - amount]
    BY DEF PlannedMonth, MonthlyShare
<1> HIDE DEF m, monthly
<1>6. amount \in Int /\ (a.cost >= 0 => amount \in 0..monthly /\ monthly \in Nat)
    BY <1>4
<1> HIDE DEF amount
<1> QED
    BY <1>1, <1>5, <1>6 DEF PlannedLaw, m, monthly

\* What a pool takes from a member is no more than the member is worth, and
\* nothing from a member without value (_forecast_workload_assets).
LEMMA WorkloadAmountIs ==
    ASSUME NEW opening \in Int, NEW eligible, NEW total \in Int, NEW pool \in Int
    PROVE  LET amount == WorkloadAmount(opening, eligible, total, pool)
           IN  amount \in 0..Greater(opening, 0)
<1> DEFINE share == Money(total * opening, pool)
<1>1. CASE opening <= 0 \/ ~eligible \/ pool <= 0 \/ total <= 0
    BY <1>1 DEF WorkloadAmount, Greater
<1>2. CASE ~(opening <= 0 \/ ~eligible \/ pool <= 0 \/ total <= 0)
  <2>1. total * opening \in Nat /\ pool \in Nat \ {0} /\ opening > 0
      BY <1>2
  <2>2. share \in Nat
      BY <2>1, MoneyNat
  <2> HIDE DEF share
  <2>3. WorkloadAmount(opening, eligible, total, pool) = Lesser(share, opening)
      BY <1>2 DEF WorkloadAmount, share
  <2> QED
      BY <2>1, <2>2, <2>3 DEF Lesser, Greater
<1> QED
    BY <1>1, <1>2

LEMMA PoolIsTyped ==
    ASSUME NEW d, IsDriver(d), NEW ledgerPool \in Int
    PROVE  TotalAmortization(d) \in Int /\ PoolNetValue(d, ledgerPool) \in Int
<1>1. d.workload * d.fee \in Int
    BY DEF IsDriver
<1> QED
    BY <1>1 DEF IsDriver, DriverFields, TotalAmortization, PoolNetValue

LEMMA Cancel ==
    ASSUME NEW d \in Nat \ {0}, NEW x \in Int, NEW y \in Int, d * x <= d * y
    PROVE  x <= y
<1> SUFFICES ASSUME y + 1 <= x PROVE FALSE
    OBVIOUS
<1>1. d * (y + 1) <= d * x
    OBVIOUS
<1>2. d * (y + 1) = d * y + d /\ d * y \in Int /\ d * x \in Int
    OBVIOUS
<1> QED
    BY <1>1, <1>2

\* Rounding is off by no more than half a unit.
LEMMA MoneyNear ==
    ASSUME NEW n \in Nat, NEW d \in Nat \ {0}
    PROVE  /\ (2 * d) * Money(n, d) <= 2 * n + d
           /\ 2 * n <= (2 * d) * Money(n, d) + d
<1> DEFINE q == (2 * n + d) \div (2 * d)
<1>1. Money(n, d) = q
    BY DEF Money
<1>2. 2 * d \in Nat \ {0} /\ 2 * n + d \in Int
    OBVIOUS
<1>3. /\ q \in Int
      /\ (2 * d) * q <= 2 * n + d
      /\ 2 * n + d < (2 * d) * q + 2 * d
    BY <1>2, Quotient
<1> HIDE DEF q
<1>4. (2 * d) * q \in Int
    BY <1>3
<1> QED
    BY <1>1, <1>3, <1>4

\* What the members of a pool take off adds up to the total, up to half a unit
\* for each: to no more of it when the pool's value is not below theirs, and
\* to no less when it is theirs and the total is not above it
\* (_forecast_workload_assets).
PoolAddsUp(S, net, amount, total, pool) ==
    LET ledger == SumFunctionOnSet(net, S)
        charged == SumFunctionOnSet(amount, S)
    IN  /\ pool >= ledger => 2 * charged <= 2 * Greater(total, 0) + Cardinality(S)
        /\ pool = ledger /\ total <= ledger =>
              2 * charged >= 2 * total - Cardinality(S)

LEMMA SharesAddUp ==
    ASSUME NEW S, IsFiniteSet(S), NEW net, Numbers(net, S), \A i \in S : net[i] > 0,
           NEW total \in Int, NEW pool \in Int,
           NEW amount,
           \A i \in S : amount[i] = WorkloadAmount(net[i], TRUE, total, pool)
    PROVE  PoolAddsUp(S, net, amount, total, pool)
<1> DEFINE ledger == SumFunctionOnSet(net, S)
           charged == SumFunctionOnSet(amount, S)
           n == Cardinality(S)
<1>1. \A i \in S : net[i] \in Nat \ {0} /\ net[i] \in Int
    BY DEF Numbers
<1>2. \A i \in S : amount[i] \in Int
  <2>1. \A i \in S : amount[i] \in 0..Greater(net[i], 0)
      BY <1>1, WorkloadAmountIs
  <2> QED
      BY <1>1, <2>1 DEF Greater
<1>3. n \in Nat /\ ledger \in Int /\ charged \in Int
  <2>1. n \in Nat
      BY FS_CardinalityType
  <2>2. ledger \in Int
      BY <1>1, SumOfNumbers
  <2>3. charged \in Int
      BY <1>2, SumOfNumbers
  <2> QED
      BY <2>1, <2>2, <2>3
<1>4. CASE total <= 0 \/ pool <= 0
  <2>1. \A i \in S : amount[i] = 0
      BY <1>1, <1>4 DEF WorkloadAmount
  <2>2. charged = 0
      BY <2>1, SumOfZeros
  <2> HIDE DEF ledger, charged, n
  <2>3. /\ pool >= ledger => 2 * charged <= 2 * Greater(total, 0) + n
        /\ pool = ledger /\ total <= ledger => 2 * charged >= 2 * total - n
      BY <1>3, <1>4, <2>2 DEF Greater
  <2> QED
      BY <2>3 DEF PoolAddsUp, ledger, charged, n
<1>5. CASE total > 0 /\ pool > 0
  <2>1. total \in Nat \ {0} /\ pool \in Nat \ {0} /\ Greater(total, 0) = total
      BY <1>5 DEF Greater
  <2> DEFINE share == [i \in S |-> Money(total * net[i], pool)]
  <2>2. ASSUME NEW i \in S
        PROVE  /\ amount[i] = Lesser(share[i], net[i]) /\ share[i] \in Int
               /\ (2 * pool) * share[i] <= (2 * total) * net[i] + pool
               /\ (2 * total) * net[i] <= (2 * pool) * share[i] + pool
    <3> DEFINE x == total * net[i]
    <3>1. x \in Nat /\ 2 * x = (2 * total) * net[i]
        BY <1>1, <2>1
    <3>2. amount[i] = Lesser(Money(x, pool), net[i])
        BY <1>1, <1>5 DEF WorkloadAmount
    <3>3. share[i] = Money(x, pool)
        OBVIOUS
    <3> HIDE DEF x, share
    <3>4. share[i] \in Int
        BY <2>1, <3>1, <3>3, MoneyInt
    <3>5. /\ (2 * pool) * Money(x, pool) <= 2 * x + pool
          /\ 2 * x <= (2 * pool) * Money(x, pool) + pool
        BY <2>1, <3>1, MoneyNear
    <3> QED
        BY <3>1, <3>2, <3>3, <3>4, <3>5
  <2>3. total <= pool => \A i \in S : share[i] <= net[i]
    <3> SUFFICES ASSUME total <= pool, NEW i \in S PROVE share[i] <= net[i]
        OBVIOUS
    <3> DEFINE v == net[i]
    <3>1. v \in Nat /\ share[i] = Money(total * v, pool)
        BY <1>1
    <3> HIDE DEF v, share
    <3>2. total * v \in Nat /\ total * v <= pool * v
        BY <2>1, <3>1
    <3>3. Money(total * v, pool) \in 0..v
        BY <2>1, <3>1, <3>2, MoneyWithin
    <3> QED
        BY <3>1, <3>3 DEF v
  <2> HIDE DEF share
  <2>4. ASSUME pool >= ledger
        PROVE  2 * charged <= 2 * total + n
    <3>1. ASSUME NEW i \in S
          PROVE  (2 * pool) * amount[i] <= (2 * total) * net[i] + pool
      <4> DEFINE x == amount[i]
                 y == share[i]
                 z == (2 * total) * net[i]
      <4>1. /\ x \in Int /\ y \in Int /\ z \in Int /\ x <= y
            /\ (2 * pool) * y <= z + pool
          BY <1>1, <1>2, <2>1, <2>2 DEF Lesser
      <4> HIDE DEF x, y, z
      <4>2. (2 * pool) * x <= (2 * pool) * y
          BY <2>1, <4>1
      <4>3. (2 * pool) * x \in Int /\ (2 * pool) * y \in Int
          BY <2>1, <4>1
      <4>4. (2 * pool) * x <= z + pool
          BY <2>1, <4>1, <4>2, <4>3
      <4> QED
          BY <4>4 DEF x, z
    <3>2. (2 * pool) * charged <= (2 * total) * ledger + pool * n
      <4>1. EachAtMost(2 * pool, amount, 2 * total, net, pool, S)
          BY <3>1 DEF EachAtMost
      <4>2. \A i \in S : amount[i] \in Int /\ net[i] \in Int
          BY <1>1, <1>2
      <4>3. 2 * pool \in Int /\ 2 * total \in Int
          OBVIOUS
      <4> QED
          BY <4>1, <4>2, <4>3, SumAtMost
    <3> HIDE DEF ledger, charged, n
    <3>3. (2 * total) * ledger <= (2 * total) * pool
        BY <1>3, <2>1, <2>4
    <3>4. /\ (2 * pool) * charged = pool * (2 * charged)
          /\ (2 * total) * pool + pool * n = pool * (2 * total + n)
        BY <1>3, <2>1
    <3>5. /\ (2 * total) * ledger \in Int /\ (2 * total) * pool \in Int
          /\ pool * n \in Int /\ (2 * pool) * charged \in Int
        BY <1>3, <2>1
    <3>6. pool * (2 * charged) <= pool * (2 * total + n)
        BY <3>2, <3>3, <3>4, <3>5
    <3>7. 2 * charged \in Int /\ 2 * total + n \in Int
        BY <1>3
    <3> QED
        BY <2>1, <3>6, <3>7, Cancel
  <2>5. ASSUME pool = ledger, total <= ledger
        PROVE  2 * total <= 2 * charged + n
    <3>1. ASSUME NEW i \in S
          PROVE  (2 * total) * net[i] <= (2 * pool) * amount[i] + pool
      <4>1. amount[i] = share[i]
          BY <1>1, <2>2, <2>3, <2>5 DEF Lesser
      <4> QED
          BY <2>2, <4>1
    <3>2. (2 * total) * ledger <= (2 * pool) * charged + pool * n
      <4>1. EachAtMost(2 * total, net, 2 * pool, amount, pool, S)
          BY <3>1 DEF EachAtMost
      <4>2. \A i \in S : net[i] \in Int /\ amount[i] \in Int
          BY <1>1, <1>2
      <4>3. 2 * pool \in Int /\ 2 * total \in Int
          OBVIOUS
      <4> QED
          BY <4>1, <4>2, <4>3, SumAtMost
    <3> HIDE DEF ledger, charged, n
    <3>3. /\ (2 * pool) * charged + pool * n = pool * (2 * charged + n)
          /\ (2 * total) * ledger = pool * (2 * total)
        BY <1>3, <2>1, <2>5
    <3>4. pool * (2 * total) <= pool * (2 * charged + n)
        BY <3>2, <3>3
    <3>5. 2 * total \in Int /\ 2 * charged + n \in Int
        BY <1>3
    <3> QED
        BY <2>1, <3>4, <3>5, Cancel
  <2> HIDE DEF ledger, charged, n
  <2>6. /\ pool >= ledger => 2 * charged <= 2 * Greater(total, 0) + n
        /\ pool = ledger /\ total <= ledger => 2 * charged >= 2 * total - n
    <3>1. pool = ledger /\ total <= ledger => 2 * charged >= 2 * total - n
        BY <1>3, <2>5
    <3> QED
        BY <2>1, <2>4, <3>1
  <2> QED
      BY <2>6 DEF PoolAddsUp, ledger, charged, n
<1> QED
    BY <1>4, <1>5
-----------------------------------------------------------------------------
(* Lines and their totals *)

Amounts(l) ==
    {l.opening, l.addition, l.disposal, l.impairment, l.amount, l.closing}

\* Lines as the views find them.
AreLines(L) ==
    /\ IsFiniteSet(L)
    /\ \A l \in L : /\ Amounts(l) \subseteq Int
                    /\ l.period \in Int /\ l.department \in Int /\ l.id \in Int
                    /\ l.source \in {"CURRENT", "PLANNED"}

AmountsOf(L) == [l \in L |-> l.amount]

LEMMA TotalIs ==
    ASSUME NEW L, AreLines(L), NEW M \in SUBSET L
    PROVE  /\ Total(M) = SumFunctionOnSet(AmountsOf(L), M)
           /\ Total(M) \in Int /\ IsFiniteSet(M) /\ AreLines(M)
           /\ Numbers(AmountsOf(L), L)
<1> DEFINE f == AmountsOf(L)
           g == AmountsOf(M)
<1>1. IsFiniteSet(M) /\ IsFiniteSet(L) /\ AreLines(M)
    BY FS_Subset DEF AreLines
<1>2. Numbers(f, L)
    BY DEF Numbers, AreLines, Amounts, AmountsOf
<1>3. \A x \in M : g[x] \in Int /\ g[x] = f[x]
    BY <1>2 DEF Numbers, AmountsOf
<1>4. Total(M) = SumFunctionOnSet(g, M)
    BY DEF Total, SumFunction, AmountsOf
<1> HIDE DEF f, g
<1>5. SumFunctionOnSet(g, M) = SumFunctionOnSet(f, M) /\ SumFunctionOnSet(g, M) \in Int
    BY <1>1, <1>3, SumOfSame, SumOfNumbers
<1> QED
    BY <1>1, <1>2, <1>4, <1>5 DEF f

\* The total is that of the parts of any key.
LEMMA TotalByKeys ==
    ASSUME NEW L, AreLines(L), NEW M \in SUBSET L, NEW K, IsFiniteSet(K),
           NEW key, \A l \in M : key[l] \in K
    PROVE  /\ Total(M) = SumFunctionOnSet([k \in K |-> Total({l \in M : key[l] = k})], K)
           /\ Numbers([k \in K |-> Total({l \in M : key[l] = k})], K)
<1> DEFINE f == AmountsOf(L)
           g == [k \in K |-> SumFunctionOnSet(f, {l \in M : key[l] = k})]
           h == [k \in K |-> Total({l \in M : key[l] = k})]
<1>1. IsFiniteSet(M) /\ Numbers(f, M) /\ Total(M) = SumFunctionOnSet(f, M)
    BY TotalIs DEF Numbers
<1>2. \A k \in K : {l \in M : key[l] = k} \in SUBSET L
    OBVIOUS
<1>3. \A k \in K : h[k] \in Int /\ h[k] = g[k]
  <2>1. \A T \in SUBSET L : Total(T) \in Int /\ Total(T) = SumFunctionOnSet(f, T)
      BY TotalIs
  <2> HIDE DEF f
  <2> QED
      BY <1>2, <2>1
<1>4. SumFunctionOnSet(f, M) = SumFunctionOnSet(g, K)
  <2> HIDE DEF f
  <2> QED
      BY <1>1, SumByKeys
<1> HIDE DEF f, g, h
<1>5. SumFunctionOnSet(h, K) = SumFunctionOnSet(g, K)
    BY <1>3, SumOfSame
<1> QED
    BY <1>1, <1>3, <1>4, <1>5 DEF h, Numbers

LEMMA BySums ==
    ASSUME NEW L, AreLines(L), NEW key
    PROVE  /\ SumFunctionOnSet(By(L, key), DOMAIN By(L, key)) = Total(L)
           /\ IsFiniteSet(DOMAIN By(L, key))
<1> DEFINE K == {key[l] : l \in L}
<1>1. IsFiniteSet(K)
    BY FiniteImage DEF AreLines
<1>2. DOMAIN By(L, key) = K /\ By(L, key) = [k \in K |-> Total({l \in L : key[l] = k})]
    BY DEF By
<1> HIDE DEF K
<1>3. Total(L) = SumFunctionOnSet([k \in K |-> Total({l \in L : key[l] = k})], K)
  <2>1. \A l \in L : key[l] \in K
      BY DEF K
  <2> QED
      BY <1>1, <2>1, TotalByKeys
<1> QED
    BY <1>1, <1>2, <1>3
-----------------------------------------------------------------------------
(* Views of a result *)

LEMMA FoldIs ==
    ASSUME NEW f, NEW S
    PROVE  SumFunctionOnSet(f, S) = (CHOOSE h : h = Fold(f, S, h))[S]
BY DEF SumFunctionOnSet, FoldFunctionOnSet, MapThenFoldSet, Fold

\* Sums of summaries.
SumsOf(S) == [s \in S |-> s.sum]

LEMMA SummariesSum ==
    ASSUME NEW S
    PROVE  MapThenSumSet(SumOf, S) = SumFunctionOnSet(SumsOf(S), S)
<1> DEFINE f == SumsOf(S)
           L(h) == [T \in SUBSET S |->
                       IF T = {} THEN 0
                       ELSE LET x == CHOOSE x \in T : TRUE IN SumOf(x) + h[T \ {x}]]
<1>1. MapThenSumSet(SumOf, S) = (CHOOSE h : h = L(h))[S]
    BY DEF MapThenSumSet, MapThenFoldSet
<1>2. ASSUME NEW h PROVE L(h) = Fold(f, S, h)
  <2>1. \A T \in SUBSET S : T # {} => (CHOOSE x \in T : TRUE) \in S
      OBVIOUS
  <2> QED
      BY <2>1 DEF Fold, SumsOf, SumOf
<1> HIDE DEF f, L
<1>3. (CHOOSE h : h = L(h)) = (CHOOSE h : h = Fold(f, S, h))
    BY <1>2
<1> QED
    BY <1>1, <1>3, FoldIs DEF f

\* The summaries of lines add up to the lines.
LEMMA SummariesAre ==
    ASSUME NEW L, AreLines(L)
    PROVE  LET S == Summarize(L)
           IN  /\ IsFiniteSet(S) /\ Numbers(SumsOf(S), S)
               /\ SumFunctionOnSet(SumsOf(S), S) = Total(L)
<1> DEFINE S == Summarize(L)
           K == {SummaryKey(l) : l \in L}
           Group(k) == {l \in L : SummaryKey(l) = k}
           rec == [k \in K |->
                      [key |-> k, sum |-> Total(Group(k)),
                       addition |-> Total({l \in Group(k) : l.addition # 0}),
                       disposal |-> Total({l \in Group(k) : l.disposal # 0}),
                       impairment |-> Total({l \in Group(k) : l.impairment # 0})]]
           key == [l \in L |-> SummaryKey(l)]
           f == SumsOf(S)
           g == [k \in K |-> Total({l \in L : key[l] = k})]
<1>1. S = {rec[k] : k \in K}
    BY DEF Summarize
<1>2. /\ \A j, k \in K : rec[j] = rec[k] => j = k
      /\ \A k \in K : rec[k].sum = Total(Group(k))
  <2>1. \A k \in K : rec[k].key = k /\ rec[k].sum = Total(Group(k))
      OBVIOUS
  <2> HIDE DEF rec
  <2> QED
      BY <2>1
<1>3. IsFiniteSet(K)
  <2>1. IsFiniteSet({key[l] : l \in L})
      BY FiniteImage DEF AreLines
  <2> QED
      BY <2>1
<1>4. \A k \in K : Total(Group(k)) = g[k]
  <2>1. \A k : Group(k) = {l \in L : key[l] = k}
      OBVIOUS
  <2> QED
      BY <2>1
<1>5. Total(L) = SumFunctionOnSet(g, K) /\ Numbers(g, K)
  <2>1. \A l \in L : key[l] \in K
      OBVIOUS
  <2> HIDE DEF key, K
  <2> QED
      BY <1>3, <2>1, TotalByKeys
<1> HIDE DEF S, K, Group, rec, g
<1>6. \A k \in K : f[rec[k]] = g[k] /\ g[k] \in Int
  <2>1. \A k \in K : rec[k] \in S
      BY <1>1
  <2> QED
      BY <1>2, <1>4, <1>5, <2>1 DEF SumsOf, Numbers
<1> HIDE DEF f
<1>7. /\ SumFunctionOnSet(f, S) = SumFunctionOnSet([k \in K |-> f[rec[k]]], K)
      /\ IsFiniteSet(S)
    BY <1>1, <1>2, <1>3, <1>6, SumRenamed
<1>8. SumFunctionOnSet([k \in K |-> f[rec[k]]], K) = SumFunctionOnSet(g, K)
  <2> DEFINE d == [k \in K |-> f[rec[k]]]
  <2>1. \A k \in K : d[k] = g[k] /\ d[k] \in Int
      BY <1>6
  <2> HIDE DEF d
  <2>2. SumFunctionOnSet(d, K) = SumFunctionOnSet(g, K)
      BY <1>3, <2>1, SumOfSame
  <2> QED
      BY <2>2 DEF d
<1>9. \A s \in S : f[s] \in Int
    BY <1>1, <1>6
<1> QED
    BY <1>5, <1>7, <1>8, <1>9 DEF Numbers, S, f

\* Summaries grouped by whatever key add up to all of them.
GroupedBy(S, key) ==
    [v \in {key[s] : s \in S} |-> MapThenSumSet(SumOf, {s \in S : key[s] = v})]

LEMMA GroupsAddUp ==
    ASSUME NEW S, IsFiniteSet(S), Numbers(SumsOf(S), S), NEW key
    PROVE  SumFunctionOnSet(GroupedBy(S, key), DOMAIN GroupedBy(S, key))
              = SumFunctionOnSet(SumsOf(S), S)
<1> DEFINE f == SumsOf(S)
           V == {key[s] : s \in S}
           Of(v) == {s \in S : key[s] = v}
           g == GroupedBy(S, key)
           h == [v \in V |-> SumFunctionOnSet(f, Of(v))]
<1>1. IsFiniteSet(V)
    BY FiniteImage
<1>2. SumFunctionOnSet(f, S) = SumFunctionOnSet(h, V)
  <2>1. Numbers(f, S) /\ \A s \in S : key[s] \in V
      OBVIOUS
  <2> HIDE DEF f, V
  <2> QED
      BY <1>1, <2>1, SumByKeys
<1>3. \A T \in SUBSET S : /\ MapThenSumSet(SumOf, T) = SumFunctionOnSet(f, T)
                          /\ SumFunctionOnSet(f, T) \in Int
  <2> SUFFICES ASSUME NEW T \in SUBSET S
               PROVE  /\ MapThenSumSet(SumOf, T) = SumFunctionOnSet(f, T)
                      /\ SumFunctionOnSet(f, T) \in Int
      OBVIOUS
  <2>1. IsFiniteSet(T) /\ \A s \in T : f[s] \in Int /\ SumsOf(T)[s] = f[s]
      BY FS_Subset DEF Numbers, SumsOf
  <2> HIDE DEF f
  <2>2. SumFunctionOnSet(f, T) \in Int /\ SumFunctionOnSet(f, T) = SumFunctionOnSet(SumsOf(T), T)
      BY <2>1, SumOfSame, SumOfNumbers
  <2> QED
      BY <2>2, SummariesSum
<1>4. DOMAIN g = V /\ \A v \in V : g[v] = MapThenSumSet(SumOf, Of(v))
    BY DEF GroupedBy
<1>5. \A v : Of(v) \in SUBSET S
    OBVIOUS
<1> HIDE DEF f, V, Of
<1>6. \A v \in V : h[v] = g[v] /\ h[v] \in Int
    BY <1>3, <1>4, <1>5
<1> HIDE DEF g, h
<1>7. SumFunctionOnSet(h, V) = SumFunctionOnSet(g, V)
    BY <1>1, <1>6, SumOfSame
<1> QED
    BY <1>2, <1>4, <1>7 DEF f, g

\* Every grouping of the summaries, of the dashboard and of the explanation
\* adds up to the total.
LEMMA GroupingsAddUp ==
    ASSUME NEW L, AreLines(L)
    PROVE  LET S == Summarize(L)
               board == Dashboard(L, S)
               explained == ExplainChange(L, S, None, None)
           IN  /\ \A field : SumFunctionOnSet(Summaries(S, field), DOMAIN Summaries(S, field))
                                = Total(L)
               /\ \A f \in {board.annual, board.monthly, board.drivers,
                            explained.drivers, explained.contributors} :
                     SumFunctionOnSet(f, DOMAIN f) = Total(L)
<1> DEFINE S == Summarize(L)
           board == Dashboard(L, S)
           explained == ExplainChange(L, S, None, None)
<1>1. IsFiniteSet(S) /\ Numbers(SumsOf(S), S) /\ SumFunctionOnSet(SumsOf(S), S) = Total(L)
    BY SummariesAre
<1> HIDE DEF S
<1>2. \A key : SumFunctionOnSet(GroupedBy(S, key), DOMAIN GroupedBy(S, key)) = Total(L)
    BY <1>1, GroupsAddUp
<1>3. \A field : Summaries(S, field) = GroupedBy(S, [s \in S |-> SummaryField(s.key, field)])
    BY DEF Summaries, GroupedBy
<1>4. board.drivers = GroupedBy(S, [s \in S |-> s.key.event])
    BY DEF Dashboard, GroupedBy
<1>5. explained.drivers = GroupedBy(S, [s \in S |-> <<s.key.event, s.key.source>>])
  <2>1. S = {s \in S : None \in {None, s.key.department} /\ None \in {None, Year(s.key.period)}}
      OBVIOUS
  <2> QED
      BY <2>1 DEF ExplainChange, GroupedBy
<1>6. \A key : SumFunctionOnSet(By(L, key), DOMAIN By(L, key)) = Total(L)
    BY BySums
<1>7. /\ board.annual = By(L, [l \in L |-> Year(l.period)])
      /\ board.monthly = By(L, [l \in L |-> l.period])
    BY DEF Dashboard
<1>8. explained.contributors = By(L, [l \in L |-> l.id])
  <2>1. L = {l \in L : None \in {None, l.department} /\ None \in {None, Year(l.period)}}
      OBVIOUS
  <2> QED
      BY <2>1 DEF ExplainChange
<1> HIDE DEF board, explained
<1>9. \A field : SumFunctionOnSet(Summaries(S, field), DOMAIN Summaries(S, field)) = Total(L)
    BY <1>2, <1>3
<1>10. \A f \in {board.annual, board.monthly, board.drivers,
                 explained.drivers, explained.contributors} :
           SumFunctionOnSet(f, DOMAIN f) = Total(L)
    BY <1>2, <1>4, <1>5, <1>6, <1>7, <1>8
<1> QED
    BY <1>9, <1>10 DEF S, board, explained

\* The months of a row add up to its year, whatever columns there are beyond
\* its own.
LEMMA RowAddsUp ==
    ASSUME NEW L, AreLines(L), NEW M \in SUBSET L, NEW P, IsFiniteSet(P), Periods(L) \subseteq P
    PROVE  LET row == WideRow(M, P)
           IN  /\ row.annual = Total(M)
               /\ row.months = [p \in P |-> Total({l \in M : l.period = p})]
<1> DEFINE key == [l \in M |-> l.period]
           months == [p \in P |-> Total({l \in M : l.period = p})]
           h == [p \in P |-> Total({l \in M : key[l] = p})]
<1>1. h = months
  <2>1. \A p : {l \in M : key[l] = p} = {l \in M : l.period = p}
      OBVIOUS
  <2> QED
      BY <2>1
<1>2. Total(M) = SumFunctionOnSet(h, P)
  <2>1. \A l \in M : key[l] \in P
      BY DEF Periods
  <2> HIDE DEF key
  <2> QED
      BY <2>1, TotalByKeys
<1>3. WideRow(M, P) = [annual |-> SumMonths(months), months |-> months]
    BY DEF WideRow
<1>4. DOMAIN months = P
    OBVIOUS
<1> HIDE DEF months, h
<1>5. SumMonths(months) = SumFunctionOnSet(months, DOMAIN months)
    BY MapSumIs DEF SumMonths
<1> QED
    BY <1>1, <1>2, <1>3, <1>4, <1>5 DEF months

\* The lines a filter without months leaves, row by row.
Chosen(L, filter) == Filtered(L, [filter EXCEPT !.from = None, !.to = None])

RowLines(L, dims, k) == {l \in L : RowKey(l, dims) = k}

\* A table whose rows are those of the lines C.
HasRows(table, C, dims, P) ==
    /\ DOMAIN table = {RowKey(l, dims) : l \in C}
    /\ IsFiniteSet(DOMAIN table)
    /\ \A k \in DOMAIN table :
          /\ table[k].annual = Total(RowLines(C, dims, k))
          /\ table[k].months = [p \in P |-> Total({l \in RowLines(C, dims, k) : l.period = p})]

Annuals(table) == [k \in DOMAIN table |-> table[k].annual]

LEMMA TableIs ==
    ASSUME NEW L, AreLines(L), NEW filter, NEW dims
    PROVE  LET table == WideTable(L, filter, dims)
               C == Chosen(L, filter)
           IN  /\ C \subseteq L
               /\ HasRows(table, C, dims, Periods(L))
               /\ Numbers(Annuals(table), DOMAIN table)
               /\ SumFunctionOnSet(Annuals(table), DOMAIN table) = Total(C)
<1> DEFINE table == WideTable(L, filter, dims)
           C == Chosen(L, filter)
           key == [l \in C |-> RowKey(l, dims)]
           K == {RowKey(l, dims) : l \in C}
           g == [k \in K |-> Total({l \in C : key[l] = k})]
<1>1. C \in SUBSET L
    BY DEF Chosen, Filtered
<1>2. table = [k \in K |-> WideRow(RowLines(C, dims, k), Periods(L))]
    BY DEF WideTable, Chosen, RowLines
<1>3. IsFiniteSet(Periods(L))
  <2> DEFINE period == [l \in L |-> l.period]
  <2>1. IsFiniteSet({period[l] : l \in L})
      BY FiniteImage DEF AreLines
  <2>2. {period[l] : l \in L} = Periods(L)
      BY DEF Periods
  <2> QED
      BY <2>1, <2>2
<1>4. IsFiniteSet(K)
  <2>1. IsFiniteSet(C)
      BY <1>1, TotalIs
  <2>2. IsFiniteSet({key[l] : l \in C})
      BY <2>1, FiniteImage
  <2>3. {key[l] : l \in C} = K
      OBVIOUS
  <2> QED
      BY <2>2, <2>3
<1>5. ASSUME NEW k \in K
      PROVE  /\ table[k].annual = Total(RowLines(C, dims, k))
             /\ table[k].months = [p \in Periods(L) |->
                   Total({l \in RowLines(C, dims, k) : l.period = p})]
             /\ Total(RowLines(C, dims, k)) \in Int
             /\ Total(RowLines(C, dims, k)) = g[k]
  <2> DEFINE R == RowLines(C, dims, k)
  <2>1. R \in SUBSET L
      BY <1>1 DEF RowLines
  <2>2. {l \in C : key[l] = k} = R
      BY DEF RowLines
  <2>3. table[k] = WideRow(R, Periods(L))
      BY <1>2
  <2>4. g[k] = Total(R)
      BY <2>2
  <2> HIDE DEF R, table, C, K, g
  <2>5. Total(R) \in Int
      BY <2>1, TotalIs
  <2> QED
      BY <1>3, <2>1, <2>3, <2>4, <2>5, RowAddsUp DEF R
<1>6. DOMAIN table = K
    BY <1>2
<1>7. Total(C) = SumFunctionOnSet(g, K)
  <2>1. \A l \in C : key[l] \in K
      OBVIOUS
  <2> HIDE DEF key, K, C
  <2> QED
      BY <1>1, <1>4, <2>1, TotalByKeys
<1> HIDE DEF table, K, C, g
<1>8. \A k \in K : /\ Annuals(table)[k] = g[k] /\ g[k] \in Int
                   /\ Annuals(table)[k] \in Int
    BY <1>5, <1>6 DEF Annuals
<1>9. SumFunctionOnSet(g, K) = SumFunctionOnSet(Annuals(table), K)
    BY <1>4, <1>8, SumOfSame
<1>10. HasRows(table, C, dims, Periods(L))
    BY <1>4, <1>5, <1>6 DEF HasRows, K
<1> QED
    BY <1>1, <1>6, <1>7, <1>8, <1>9, <1>10 DEF Numbers, table, C

LEMMA AnnualsSum ==
    ASSUME NEW table, NEW S \in SUBSET DOMAIN table
    PROVE  MapThenSumSet(LAMBDA k : table[k].annual, S) = SumFunctionOnSet(Annuals(table), S)
<1> DEFINE f == Annuals(table)
           L(h) == [T \in SUBSET S |->
                       IF T = {} THEN 0
                       ELSE LET x == CHOOSE x \in T : TRUE IN table[x].annual + h[T \ {x}]]
<1>1. MapThenSumSet(LAMBDA k : table[k].annual, S) = (CHOOSE h : h = L(h))[S]
    BY DEF MapThenSumSet, MapThenFoldSet
<1>2. ASSUME NEW h PROVE L(h) = Fold(f, S, h)
  <2>1. \A T \in SUBSET S : T # {} => (CHOOSE x \in T : TRUE) \in S
      OBVIOUS
  <2> QED
      BY <2>1 DEF Fold, Annuals
<1> HIDE DEF f, L
<1>3. (CHOOSE h : h = L(h)) = (CHOOSE h : h = Fold(f, S, h))
    BY <1>2
<1> QED
    BY <1>1, <1>3, FoldIs DEF f

\* The nodes at the top of the tree add up to the lines that are chosen.
LEMMA TopsAddUp ==
    ASSUME NEW L, AreLines(L), NEW filter
    PROVE  LET table == WideTable(L, filter, <<"department", "depreciation_code", "asset">>)
           IN  MapThenSumSet(LAMBDA t : WideTreeNode(table, t, Periods(L)).annual,
                             Paths(table, 1))
                 = Total(Chosen(L, filter))
<1> DEFINE dims == <<"department", "depreciation_code", "asset">>
           table == WideTable(L, filter, dims)
           S == Paths(table, 1)
           D == DOMAIN table
           key == [k \in D |-> SubSeq(k, 1, 1)]
           f == [t \in S |-> SumFunctionOnSet(Annuals(table), {k \in D : key[k] = t})]
           B(h) == [T \in SUBSET S |->
                       IF T = {} THEN 0
                       ELSE LET x == CHOOSE x \in T : TRUE
                            IN  WideTreeNode(table, x, Periods(L)).annual + h[T \ {x}]]
<1>1. /\ D = {RowKey(l, dims) : l \in Chosen(L, filter)} /\ IsFiniteSet(D)
      /\ Numbers(Annuals(table), D)
      /\ SumFunctionOnSet(Annuals(table), D) = Total(Chosen(L, filter))
  <2> HIDE DEF dims
  <2> QED
      BY TableIs DEF HasRows
<1>2. \A k \in D : \E a, b, c : k = <<a, b, c>>
  <2>1. ASSUME NEW l PROVE RowKey(l, dims) = <<l.department, l.code, l.id>>
      BY DEF RowKey, DimensionValue
  <2> HIDE DEF dims
  <2> QED
      BY <1>1, <2>1
<1>3. ASSUME NEW k \in D
      PROVE  /\ Len(k) = 3 /\ Len(SubSeq(k, 1, 1)) = 1
             /\ SubSeq(SubSeq(k, 1, 1), 1, 1) = SubSeq(k, 1, 1)
  <2>1. PICK T : k \in Seq(T) /\ Len(k) = 3
    <3>1. PICK a, b, c : k = <<a, b, c>>
        BY <1>2
    <3>2. <<a, b, c>> \in Seq({a, b, c}) /\ Len(<<a, b, c>>) = 3
        OBVIOUS
    <3> QED
        BY <3>1, <3>2
  <2>2. SubSeq(k, 1, 1) \in Seq(T) /\ Len(SubSeq(k, 1, 1)) = 1
      BY <2>1
  <2>3. \A t \in Seq(T) : Len(t) = 1 => SubSeq(t, 1, 1) = t
      OBVIOUS
  <2> QED
      BY <2>1, <2>2, <2>3
<1>4. S = {key[k] : k \in D}
    BY DEF Paths
<1>5. ASSUME NEW t \in S PROVE Beneath(table, t) = {k \in D : key[k] = t}
  <2>2. Len(t) = 1 /\ SubSeq(t, 1, Len(t)) = t
      BY <1>3, <1>4
  <2> HIDE DEF table, D, S
  <2>3. \A k \in D : IsPrefix(t, k) <=> SubSeq(k, 1, 1) = t
      BY <1>3, <2>2 DEF IsPrefix
  <2> QED
      BY <2>3 DEF Beneath, D
<1>6. ASSUME NEW t \in S
      PROVE  WideTreeNode(table, t, Periods(L)).annual = f[t]
  <2>1. WideTreeNode(table, t, Periods(L)).annual
          = MapThenSumSet(LAMBDA k : table[k].annual, Beneath(table, t))
      BY DEF WideTreeNode
  <2>2. Beneath(table, t) \in SUBSET DOMAIN table
      BY DEF Beneath
  <2>3. f[t] = SumFunctionOnSet(Annuals(table), Beneath(table, t))
      BY <1>5
  <2> HIDE DEF table, f
  <2> QED
      BY <2>1, <2>2, <2>3, AnnualsSum
<1> HIDE DEF table
<1>7. MapThenSumSet(LAMBDA t : WideTreeNode(table, t, Periods(L)).annual, S)
        = (CHOOSE h : h = B(h))[S]
    BY DEF MapThenSumSet, MapThenFoldSet
<1>8. ASSUME NEW h PROVE B(h) = Fold(f, S, h)
  <2>1. \A T \in SUBSET S : T # {} => (CHOOSE x \in T : TRUE) \in S
      OBVIOUS
  <2> HIDE DEF f, S
  <2> QED
      BY <1>6, <2>1 DEF Fold
<1>9. SumFunctionOnSet(Annuals(table), D) = SumFunctionOnSet(f, S)
  <2>1. \A k \in D : key[k] \in S
      BY <1>4
  <2> HIDE DEF S, key, D
  <2>2. IsFiniteSet(S)
      BY <1>1, <1>4, FiniteImage
  <2> QED
      BY <1>1, <2>1, <2>2, SumByKeys
<1> HIDE DEF f, B, S, D
<1>10. (CHOOSE h : h = B(h)) = (CHOOSE h : h = Fold(f, S, h))
    BY <1>8
<1>11. SumFunctionOnSet(f, S) = (CHOOSE h : h = Fold(f, S, h))[S]
    BY FoldIs
<1> QED
    BY <1>1, <1>7, <1>9, <1>10, <1>11 DEF S, table

\* A department's part of the table, and the whole of it.
LEMMA DepartmentsAddUp ==
    ASSUME NEW L, AreLines(L), NEW d \in {None} \cup {l.department : l \in L}
    PROVE  LET filter == [NoFilter EXCEPT !.department = d]
               board == Dashboard(L, Summarize(L))
           IN  Total(Chosen(L, filter)) = IF d = None THEN board.total
                                                      ELSE board.departments[d]
<1> DEFINE filter == [NoFilter EXCEPT !.department = d]
           board == Dashboard(L, Summarize(L))
           key == [l \in L |-> l.department]
<1>1. Chosen(L, filter) = {l \in L : d \in {None, l.department}}
    BY DEF Chosen, Filtered, NoFilter
<1>2. CASE d = None
  <2>1. Chosen(L, filter) = L
      BY <1>1, <1>2
  <2> QED
      BY <1>2, <2>1 DEF Dashboard
<1>3. CASE d # None
  <2>1. Chosen(L, filter) = {l \in L : key[l] = d}
      BY <1>1, <1>3
  <2>2. d \in {key[l] : l \in L}
      BY <1>3
  <2>3. board.departments = By(L, key)
      BY DEF Dashboard
  <2> HIDE DEF filter, board, key
  <2>4. By(L, key)[d] = Total({l \in L : key[l] = d})
      BY <2>2 DEF By
  <2> QED
      BY <1>3, <2>1, <2>3, <2>4 DEF filter, board
<1> QED
    BY <1>2, <1>3

\* A line comes from a planned asset or from a present one.
LEMMA SourcesAddUp ==
    ASSUME NEW L, AreLines(L), NEW S
    PROVE  LET board == Dashboard(L, S)
           IN  board.total = board.planned + board.current
<1> DEFINE A == {l \in L : l.source = "PLANNED"}
           B == {l \in L : l.source = "CURRENT"}
           f == AmountsOf(L)
<1>1. A \in SUBSET L /\ B \in SUBSET L /\ L \in SUBSET L /\ B = L \ A
    BY DEF AreLines
<1>2. Dashboard(L, S).total = Total(L) /\ Dashboard(L, S).planned = Total(A)
      /\ Dashboard(L, S).current = Total(B)
    BY DEF Dashboard
<1> HIDE DEF A, B, f
<1>3. /\ Total(L) = SumFunctionOnSet(f, L) /\ Total(A) = SumFunctionOnSet(f, A)
      /\ Total(B) = SumFunctionOnSet(f, B) /\ Numbers(f, L)
    BY <1>1, TotalIs DEF f
<1>4. SumFunctionOnSet(f, L) = SumFunctionOnSet(f, A) + SumFunctionOnSet(f, L \ A)
    BY <1>1, <1>3, SumSplit DEF AreLines
<1> QED
    BY <1>1, <1>2, <1>3, <1>4

LEMMA CardTotalsSum ==
    ASSUME NEW c, NEW S
    PROVE  /\ MapThenSumSet(LAMBDA i : c[i].total, S)
                = SumFunctionOnSet([i \in S |-> c[i].total], S)
           /\ MapThenSumSet(LAMBDA i : c[i].months, S)
                = SumFunctionOnSet([i \in S |-> c[i].months], S)
<1> DEFINE f == [i \in S |-> c[i].total]
           g == [i \in S |-> c[i].months]
           A(h) == [T \in SUBSET S |->
                       IF T = {} THEN 0
                       ELSE LET x == CHOOSE x \in T : TRUE IN c[x].total + h[T \ {x}]]
           B(h) == [T \in SUBSET S |->
                       IF T = {} THEN 0
                       ELSE LET x == CHOOSE x \in T : TRUE IN c[x].months + h[T \ {x}]]
<1>1. /\ MapThenSumSet(LAMBDA i : c[i].total, S) = (CHOOSE h : h = A(h))[S]
      /\ MapThenSumSet(LAMBDA i : c[i].months, S) = (CHOOSE h : h = B(h))[S]
    BY DEF MapThenSumSet, MapThenFoldSet
<1>2. ASSUME NEW h PROVE A(h) = Fold(f, S, h) /\ B(h) = Fold(g, S, h)
  <2>1. \A T \in SUBSET S : T # {} => (CHOOSE x \in T : TRUE) \in S
      OBVIOUS
  <2> QED
      BY <2>1 DEF Fold
<1> HIDE DEF f, g, A, B
<1>3. /\ (CHOOSE h : h = A(h)) = (CHOOSE h : h = Fold(f, S, h))
      /\ (CHOOSE h : h = B(h)) = (CHOOSE h : h = Fold(g, S, h))
    BY <1>2
<1> QED
    BY <1>1, <1>3, FoldIs DEF f, g

\* The asset cards share out the total and the lines.
LEMMA CardsAddUp ==
    ASSUME NEW L, AreLines(L)
    PROVE  LET cards == AssetCardAmounts(L)
           IN  /\ MapThenSumSet(LAMBDA i : cards[i].total, DOMAIN cards) = Total(L)
               /\ MapThenSumSet(LAMBDA i : cards[i].months, DOMAIN cards) = Cardinality(L)
<1> DEFINE cards == AssetCardAmounts(L)
           key == [l \in L |-> l.id]
           K == {l.id : l \in L}
           Of(i) == {l \in L : key[l] = i}
           ones == [l \in L |-> 1]
           totals == [i \in K |-> cards[i].total]
           months == [i \in K |-> cards[i].months]
           counted == [i \in K |-> SumFunctionOnSet(ones, Of(i))]
<1>1. DOMAIN cards = K
    BY DEF AssetCardAmounts
<1>2. ASSUME NEW i \in K
      PROVE  cards[i].total = Total(Of(i)) /\ cards[i].months = Cardinality(Of(i))
  <2>1. {l \in L : l.id = i} = Of(i)
      OBVIOUS
  <2> HIDE DEF Of
  <2> QED
      BY <2>1 DEF AssetCardAmounts
<1>3. totals = By(L, key) /\ K = {key[l] : l \in L}
  <2>1. K = {key[l] : l \in L}
      OBVIOUS
  <2> HIDE DEF cards
  <2> QED
      BY <1>2, <2>1 DEF By
<1>4. SumFunctionOnSet(totals, K) = Total(L) /\ IsFiniteSet(K)
  <2>1. DOMAIN By(L, key) = K
      BY <1>3 DEF By
  <2> HIDE DEF totals, key, K
  <2> QED
      BY <1>3, <2>1, BySums
<1>5. IsFiniteSet(L) /\ Numbers(ones, L) /\ \A l \in L : ones[l] = 1 /\ key[l] \in K
    BY DEF Numbers, AreLines
<1>6. ASSUME NEW i \in K
      PROVE  counted[i] = months[i] /\ months[i] \in Int
  <2>1. IsFiniteSet(Of(i)) /\ \A l \in Of(i) : ones[l] = 1
      BY <1>5, FS_Subset
  <2>2. counted[i] = SumFunctionOnSet(ones, Of(i)) /\ months[i] = Cardinality(Of(i))
      BY <1>2
  <2> HIDE DEF Of, ones, months, counted
  <2> QED
      BY <2>1, <2>2, SumOfOnes, FS_CardinalityType
<1>7. SumFunctionOnSet(ones, L) = SumFunctionOnSet(counted, K)
  <2> HIDE DEF ones, key, K
  <2> QED
      BY <1>4, <1>5, SumByKeys
<1> HIDE DEF ones, counted, K, Of, cards
<1>8. SumFunctionOnSet(ones, L) = Cardinality(L)
    BY <1>5, SumOfOnes
<1>9. SumFunctionOnSet(counted, K) = SumFunctionOnSet(months, K)
  <2> HIDE DEF months
  <2> QED
      BY <1>4, <1>6, SumOfSame
<1>10. /\ MapThenSumSet(LAMBDA i : cards[i].total, K) = SumFunctionOnSet(totals, K)
       /\ MapThenSumSet(LAMBDA i : cards[i].months, K) = SumFunctionOnSet(months, K)
    BY CardTotalsSum
<1> QED
    BY <1>1, <1>4, <1>7, <1>8, <1>9, <1>10 DEF cards

\* Page by page, every line is read once.
LEMMA PagesAreRead ==
    ASSUME NEW L, AreLines(L), NEW size \in Nat \ {0}, NEW l \in L
    PROVE  Cardinality({k \in 0..(Cardinality(L) \div size) :
                           l \in ForecastLines(L, NoFilter, size, k * size)}) = 1
<1> DEFINE n == Cardinality(L)
           earlier == {m \in L : Before(m, l)}
           place == Cardinality(earlier)
           page == place \div size
           pages == {k \in 0..(n \div size) : l \in ForecastLines(L, NoFilter, size, k * size)}
<1>1. n \in Nat /\ place \in Nat /\ place <= n
  <2>1. IsFiniteSet(L) /\ earlier \subseteq L
      BY DEF AreLines
  <2> HIDE DEF earlier
  <2> QED
      BY <2>1, FS_Subset, FS_CardinalityType
<1>2. Filtered(L, NoFilter) = L
    BY DEF Filtered, NoFilter
<1>3. ASSUME NEW k
      PROVE  l \in ForecastLines(L, NoFilter, size, k * size)
                <=> place \in (k * size)..(k * size + size - 1)
    BY <1>2 DEF ForecastLines
<1> HIDE DEF n, place
<1>4. /\ page \in Int /\ size * page <= place /\ place < size * page + size
      /\ n \div size \in Int /\ size * (n \div size) <= n
      /\ n < size * (n \div size) + size
    BY <1>1, Quotient
<1> DEFINE last == n \div size
<1>5. last \in Int /\ n < size * last + size
    BY <1>4
<1> HIDE DEF page, last
<1>6. ASSUME NEW k \in Int
      PROVE  place \in (k * size)..(k * size + size - 1) <=> k = page
  <2>1. k * size = size * k /\ size * k \in Int /\ size * page \in Int
      BY <1>4
  <2>2. ASSUME k = page PROVE place \in (k * size)..(k * size + size - 1)
      BY <1>1, <1>4, <2>1, <2>2
  <2>3. ASSUME k <= page - 1 PROVE place > k * size + size - 1
    <3>1. size * k <= size * (page - 1) /\ size * (page - 1) = size * page - size
        BY <1>4, <2>3
    <3> QED
        BY <1>1, <1>4, <2>1, <3>1
  <2>4. ASSUME k >= page + 1 PROVE place < k * size
    <3>1. size * k >= size * (page + 1) /\ size * (page + 1) = size * page + size
        BY <1>4, <2>4
    <3> QED
        BY <1>1, <1>4, <2>1, <3>1
  <2> QED
      BY <1>1, <1>4, <2>1, <2>2, <2>3, <2>4
<1>7. page \in 0..last
  <2>1. ASSUME page <= -1 PROVE FALSE
    <3>1. size * page <= size * (-1) /\ size * (-1) = -size
        BY <1>4, <2>1
    <3> QED
        BY <1>1, <1>4, <3>1
  <2>2. ASSUME page >= last + 1 PROVE FALSE
    <3>1. size * page >= size * (last + 1) /\ size * (last + 1) = size * last + size
        BY <1>4, <1>5, <2>2
    <3>2. size * page \in Int /\ size * last \in Int
        BY <1>4, <1>5
    <3> QED
        BY <1>1, <1>4, <1>5, <3>1, <3>2
  <2> QED
      BY <1>4, <1>5, <2>1, <2>2
<1>8. pages = {page}
  <2> DEFINE Reads(k) == l \in ForecastLines(L, NoFilter, size, k * size)
  <2>1. \A k \in Int : Reads(k) <=> k = page
      BY <1>3, <1>6
  <2>2. pages = {k \in 0..last : Reads(k)}
      BY DEF last
  <2> HIDE DEF Reads, pages
  <2> QED
      BY <1>5, <1>7, <2>1, <2>2
<1> QED
    BY <1>8, FS_Singleton DEF n
-----------------------------------------------------------------------------
(* Two results compared *)

LEMMA TotalOfNone == Total({}) = 0
<1>1. AreLines({})
    BY FS_EmptySet DEF AreLines
<1>2. Total({}) = SumFunctionOnSet(AmountsOf({}), {}) /\ Numbers(AmountsOf({}), {})
    BY <1>1, TotalIs
<1> QED
    BY <1>2, FS_EmptySet, SumOfNumbers DEF Numbers

\* Key by key, the differences of two results add up.
LEMMA DifferenceByKeys ==
    ASSUME NEW A, AreLines(A), NEW B, AreLines(B), NEW K, IsFiniteSet(K),
           NEW a, \A l \in A : a[l] \in K, NEW b, \A l \in B : b[l] \in K
    PROVE  LET d == [k \in K |-> Total({l \in A : a[l] = k}) - Total({l \in B : b[l] = k})]
           IN  SumFunctionOnSet(d, K) = Total(A) - Total(B) /\ Numbers(d, K)
<1> DEFINE f == [k \in K |-> Total({l \in A : a[l] = k})]
           g == [k \in K |-> Total({l \in B : b[l] = k})]
           d == [k \in K |-> Total({l \in A : a[l] = k}) - Total({l \in B : b[l] = k})]
<1>1. Total(A) = SumFunctionOnSet(f, K) /\ Numbers(f, K)
    BY TotalByKeys
<1>2. Total(B) = SumFunctionOnSet(g, K) /\ Numbers(g, K)
    BY TotalByKeys
<1>3. d = [k \in K |-> f[k] - g[k]]
    OBVIOUS
<1> HIDE DEF f, g, d
<1>4. Numbers(d, K)
    BY <1>1, <1>2, <1>3 DEF Numbers
<1>5. SumFunctionOnSet(d, K) = SumFunctionOnSet(f, K) - SumFunctionOnSet(g, K)
    BY <1>1, <1>2, <1>3, SumOfDifferences
<1> QED
    BY <1>1, <1>2, <1>4, <1>5 DEF d

\* What a row, or everything, amounts to.
Figures(L, periods) ==
    [annual |-> Total(L), months |-> [p \in periods |-> Total({l \in L : l.period = p})]]

RowKeys(L, dims) == {RowKey(l, dims) : l \in L}

\* The table of all lines.
LEMMA WholeTable ==
    ASSUME NEW L, AreLines(L), NEW filter, Chosen(L, filter) = L, NEW dims
    PROVE  /\ HasRows(WideTable(L, filter, dims), L, dims, Periods(L))
           /\ DOMAIN WideTable(L, filter, dims) = RowKeys(L, dims)
           /\ IsFiniteSet(RowKeys(L, dims))
<1>1. HasRows(WideTable(L, filter, dims), Chosen(L, filter), dims, Periods(L))
    BY TableIs
<1> QED
    BY <1>1 DEF HasRows, RowKeys

LEMMA NormalizedIs ==
    ASSUME NEW L, AreLines(L), NEW filter, Chosen(L, filter) = L, NEW dims, NEW k,
           NEW periods
    PROVE  Normalized(WideTable(L, filter, dims), k, periods)
              = Figures(RowLines(L, dims, k), periods)
<1> DEFINE table == WideTable(L, filter, dims)
           R == RowLines(L, dims, k)
<1>1. /\ DOMAIN table = {RowKey(l, dims) : l \in L}
      /\ k \in DOMAIN table =>
           /\ table[k].annual = Total(R)
           /\ table[k].months = [p \in Periods(L) |-> Total({l \in R : l.period = p})]
  <2>1. HasRows(table, L, dims, Periods(L))
      BY WholeTable
  <2> HIDE DEF table
  <2> QED
      BY <2>1 DEF HasRows
<1>2. k \notin DOMAIN table => R = {}
    BY <1>1 DEF RowLines
<1>3. \A p : p \notin Periods(L) => {l \in R : l.period = p} = {}
    BY DEF RowLines, Periods
<1> HIDE DEF table, R
<1>4. CASE k \in DOMAIN table
  <2>1. \A p : (IF p \in DOMAIN table[k].months THEN table[k].months[p] ELSE 0)
                 = Total({l \in R : l.period = p})
      BY <1>1, <1>3, <1>4, TotalOfNone
  <2> QED
      BY <1>1, <1>4, <2>1 DEF Normalized, Figures, table, R
<1>5. CASE k \notin DOMAIN table
  <2>1. \A p : {l \in R : l.period = p} = {}
      BY <1>2, <1>5
  <2> QED
      BY <1>2, <1>5, <2>1, TotalOfNone DEF Normalized, Figures, table, R
<1> QED
    BY <1>4, <1>5

\* The rows of a comparison of B with A.
Compares(rows, A, B, dims, periods) ==
    /\ DOMAIN rows = RowKeys(A, dims) \cup RowKeys(B, dims)
    /\ \A k \in DOMAIN rows :
          /\ rows[k].baseline = Figures(RowLines(B, dims, k), periods)
          /\ rows[k].scenarios = <<Figures(RowLines(A, dims, k), periods)>>

LEMMA RowsAre ==
    ASSUME NEW A, AreLines(A), NEW B, AreLines(B), NEW filter,
           Chosen(A, filter) = A, Chosen(B, filter) = B, NEW dims
    PROVE  Compares(CompareRows(B, <<A>>, filter, dims), A, B, dims,
                    ComparePeriods(B, <<A>>, filter))
<1> DEFINE periods == ComparePeriods(B, <<A>>, filter)
           base == WideTable(B, filter, dims)
           tables == [i \in DOMAIN <<A>> |-> WideTable(<<A>>[i], filter, dims)]
           keys == DOMAIN base \cup UNION {DOMAIN tables[i] : i \in DOMAIN tables}
           rows == CompareRows(B, <<A>>, filter, dims)
<1>1. rows = [k \in keys |->
                 [baseline |-> Normalized(base, k, periods),
                  scenarios |-> [i \in DOMAIN tables |-> Normalized(tables[i], k, periods)]]]
    BY DEF CompareRows
<1>2. DOMAIN tables = {1} /\ tables[1] = WideTable(A, filter, dims)
    OBVIOUS
<1> HIDE DEF periods, rows, tables
<1>3. DOMAIN base = RowKeys(B, dims) /\ DOMAIN tables[1] = RowKeys(A, dims)
    BY <1>2, WholeTable
<1>4. keys = RowKeys(A, dims) \cup RowKeys(B, dims)
  <2> HIDE DEF base
  <2> QED
      BY <1>2, <1>3
<1>5. \A k : /\ Normalized(base, k, periods) = Figures(RowLines(B, dims, k), periods)
             /\ Normalized(tables[1], k, periods) = Figures(RowLines(A, dims, k), periods)
    BY <1>2, NormalizedIs
<1> HIDE DEF base, keys
<1>6. ASSUME NEW k \in keys
      PROVE  /\ rows[k].baseline = Figures(RowLines(B, dims, k), periods)
             /\ rows[k].scenarios = <<Figures(RowLines(A, dims, k), periods)>>
  <2>1. /\ rows[k].baseline = Normalized(base, k, periods)
        /\ rows[k].scenarios = [i \in DOMAIN tables |-> Normalized(tables[i], k, periods)]
      BY <1>1
  <2>2. [i \in DOMAIN tables |-> Normalized(tables[i], k, periods)]
          = <<Normalized(tables[1], k, periods)>>
      BY <1>2
  <2> QED
      BY <1>5, <2>1, <2>2
<1>7. DOMAIN rows = keys
    BY <1>1
<1> QED
    BY <1>4, <1>6, <1>7 DEF Compares, rows, periods

\* The sums over rows.
BaseYear(rows, S) == MapThenSumSet(LAMBDA k : rows[k].baseline.annual, S)

ScenarioYear(rows, i, S) == MapThenSumSet(LAMBDA k : rows[k].scenarios[i].annual, S)

BaseMonth(rows, p, S) == MapThenSumSet(LAMBDA k : rows[k].baseline.months[p], S)

ScenarioMonth(rows, i, p, S) == MapThenSumSet(LAMBDA k : rows[k].scenarios[i].months[p], S)

DifferenceIn(rows, p, S) == MapThenSumSet(LAMBDA k : RowDifference(rows[k], p), S)

BaseYears(rows, S) == [k \in S |-> rows[k].baseline.annual]

ScenarioYears(rows, i, S) == [k \in S |-> rows[k].scenarios[i].annual]

BaseMonths(rows, p, S) == [k \in S |-> rows[k].baseline.months[p]]

ScenarioMonths(rows, i, p, S) == [k \in S |-> rows[k].scenarios[i].months[p]]

DifferencesIn(rows, p, S) == [k \in S |-> RowDifference(rows[k], p)]

LEMMA RowsSum ==
    ASSUME NEW rows, NEW p, NEW i, NEW S
    PROVE  /\ BaseYear(rows, S) = SumFunctionOnSet(BaseYears(rows, S), S)
           /\ ScenarioYear(rows, i, S) = SumFunctionOnSet(ScenarioYears(rows, i, S), S)
           /\ BaseMonth(rows, p, S) = SumFunctionOnSet(BaseMonths(rows, p, S), S)
           /\ ScenarioMonth(rows, i, p, S) = SumFunctionOnSet(ScenarioMonths(rows, i, p, S), S)
           /\ DifferenceIn(rows, p, S) = SumFunctionOnSet(DifferencesIn(rows, p, S), S)
<1> DEFINE f1 == BaseYears(rows, S)
           f2 == ScenarioYears(rows, i, S)
           f3 == BaseMonths(rows, p, S)
           f4 == ScenarioMonths(rows, i, p, S)
           f5 == DifferencesIn(rows, p, S)
           L1(h) == [T \in SUBSET S |-> IF T = {} THEN 0
                       ELSE LET x == CHOOSE x \in T : TRUE
                            IN  rows[x].baseline.annual + h[T \ {x}]]
           L2(h) == [T \in SUBSET S |-> IF T = {} THEN 0
                       ELSE LET x == CHOOSE x \in T : TRUE
                            IN  rows[x].scenarios[i].annual + h[T \ {x}]]
           L3(h) == [T \in SUBSET S |-> IF T = {} THEN 0
                       ELSE LET x == CHOOSE x \in T : TRUE
                            IN  rows[x].baseline.months[p] + h[T \ {x}]]
           L4(h) == [T \in SUBSET S |-> IF T = {} THEN 0
                       ELSE LET x == CHOOSE x \in T : TRUE
                            IN  rows[x].scenarios[i].months[p] + h[T \ {x}]]
           L5(h) == [T \in SUBSET S |-> IF T = {} THEN 0
                       ELSE LET x == CHOOSE x \in T : TRUE
                            IN  RowDifference(rows[x], p) + h[T \ {x}]]
<1>1. /\ BaseYear(rows, S) = (CHOOSE h : h = L1(h))[S]
      /\ ScenarioYear(rows, i, S) = (CHOOSE h : h = L2(h))[S]
      /\ BaseMonth(rows, p, S) = (CHOOSE h : h = L3(h))[S]
      /\ ScenarioMonth(rows, i, p, S) = (CHOOSE h : h = L4(h))[S]
      /\ DifferenceIn(rows, p, S) = (CHOOSE h : h = L5(h))[S]
    BY DEF MapThenSumSet, MapThenFoldSet, BaseYear, ScenarioYear, BaseMonth, ScenarioMonth,
           DifferenceIn
<1>2. ASSUME NEW h
      PROVE  /\ L1(h) = Fold(f1, S, h) /\ L2(h) = Fold(f2, S, h) /\ L3(h) = Fold(f3, S, h)
             /\ L4(h) = Fold(f4, S, h) /\ L5(h) = Fold(f5, S, h)
  <2>1. \A T \in SUBSET S : T # {} => (CHOOSE x \in T : TRUE) \in S
      OBVIOUS
  <2> QED
      BY <2>1 DEF Fold, BaseYears, ScenarioYears, BaseMonths, ScenarioMonths, DifferencesIn
<1> HIDE DEF f1, f2, f3, f4, f5, L1, L2, L3, L4, L5
<1>3. /\ (CHOOSE h : h = L1(h)) = (CHOOSE h : h = Fold(f1, S, h))
      /\ (CHOOSE h : h = L2(h)) = (CHOOSE h : h = Fold(f2, S, h))
      /\ (CHOOSE h : h = L3(h)) = (CHOOSE h : h = Fold(f3, S, h))
      /\ (CHOOSE h : h = L4(h)) = (CHOOSE h : h = Fold(f4, S, h))
      /\ (CHOOSE h : h = L5(h)) = (CHOOSE h : h = Fold(f5, S, h))
    BY <1>2
<1> QED
    BY <1>1, <1>3, FoldIs DEF f1, f2, f3, f4, f5

\* Row by row the parts of lines add up to the whole, and so do the months.
LEMMA PartsAddUp ==
    ASSUME NEW L, AreLines(L), NEW dims, NEW K, IsFiniteSet(K), RowKeys(L, dims) \subseteq K,
           NEW periods, NEW p \in periods
    PROVE  /\ SumFunctionOnSet([k \in K |-> Figures(RowLines(L, dims, k), periods).annual], K)
                = Total(L)
           /\ SumFunctionOnSet([k \in K |-> Figures(RowLines(L, dims, k), periods).months[p]], K)
                = Total({l \in L : l.period = p})
           /\ Numbers([k \in K |-> Figures(RowLines(L, dims, k), periods).months[p]], K)
<1> DEFINE key == [l \in L |-> RowKey(l, dims)]
           M == {l \in L : l.period = p}
           f == [k \in K |-> Figures(RowLines(L, dims, k), periods).annual]
           g == [k \in K |-> Figures(RowLines(L, dims, k), periods).months[p]]
           F == [k \in K |-> Total({l \in L : key[l] = k})]
           G == [k \in K |-> Total({l \in M : key[l] = k})]
<1>1. \A k : /\ {l \in L : key[l] = k} = RowLines(L, dims, k)
             /\ {l \in M : key[l] = k} = {l \in RowLines(L, dims, k) : l.period = p}
    BY DEF RowLines
<1>2. f = F /\ g = G
  <2>1. \A k \in K : f[k] = F[k] /\ g[k] = G[k]
      BY <1>1 DEF Figures
  <2> HIDE DEF key, M
  <2> QED
      BY <2>1
<1>3. M \in SUBSET L /\ L \in SUBSET L /\ \A l \in L : key[l] \in K
    BY DEF RowKeys
<1> HIDE DEF key, M
<1>4. Total(L) = SumFunctionOnSet(F, K)
    BY <1>3, TotalByKeys
<1>5. Total(M) = SumFunctionOnSet(G, K) /\ Numbers(G, K)
    BY <1>3, TotalByKeys
<1> HIDE DEF f, g, F, G
<1>6. SumFunctionOnSet(f, K) = Total(L) /\ SumFunctionOnSet(g, K) = Total(M) /\ Numbers(g, K)
    BY <1>2, <1>4, <1>5
<1> QED
    BY <1>6 DEF f, g, M

LEMMA NothingIsPrefix ==
    ASSUME NEW D, NEW dims \in Seq(D), NEW l
    PROVE  IsPrefix(<<>>, RowKey(l, dims))
<1> DEFINE n == Len(dims)
           T == {DimensionValue(l, dims[i]) : i \in 1..n}
           k == RowKey(l, dims)
<1>1. n \in Nat /\ DOMAIN dims = 1..n
    OBVIOUS
<1>2. k \in Seq(T) /\ Len(k) = n
  <2>1. k = [i \in 1..n |-> DimensionValue(l, dims[i])]
      BY <1>1 DEF RowKey
  <2> HIDE DEF n, k
  <2> QED
      BY <1>1, <2>1
<1> HIDE DEF n, T, k
<1>3. SubSeq(k, 1, 0) = <<>>
    BY <1>1, <1>2
<1>4. Len(<<>>) = 0 /\ SubSeq(<<>>, 1, 0) = <<>>
    OBVIOUS
<1> QED
    BY <1>1, <1>2, <1>3, <1>4 DEF IsPrefix, k

\* The rows and the root of the tree of a comparison show the difference of
\* the two results, month by month and as a whole.
ShowsDifference(rows, node, A, B, p) ==
    LET difference == Total({l \in A : l.period = p}) - Total({l \in B : l.period = p})
    IN  /\ Minus(Head(node.scenarios), node.baseline).annual = Total(A) - Total(B)
        /\ NodeDifference(node, p) = difference
        /\ DifferenceIn(rows, p, DOMAIN rows) = difference

LEMMA ComparisonAddsUp ==
    ASSUME NEW A, AreLines(A), NEW B, AreLines(B), A \cup B # {}, NEW filter,
           Chosen(A, filter) = A, Chosen(B, filter) = B, NEW D, NEW dims \in Seq(D),
           NEW p \in ComparePeriods(B, <<A>>, filter)
    PROVE  LET rows == CompareRows(B, <<A>>, filter, dims)
           IN  ShowsDifference(rows, CompareNode(rows, <<>>, ComparePeriods(B, <<A>>, filter)),
                               A, B, p)
<1> DEFINE rows == CompareRows(B, <<A>>, filter, dims)
           periods == ComparePeriods(B, <<A>>, filter)
           node == CompareNode(rows, <<>>, periods)
           K == DOMAIN rows
           OfA(k) == Figures(RowLines(A, dims, k), periods)
           OfB(k) == Figures(RowLines(B, dims, k), periods)
           first == [annual |-> ScenarioYear(rows, 1, K),
                     months |-> [q \in periods |-> ScenarioMonth(rows, 1, q, K)]]
           base == [annual |-> BaseYear(rows, K),
                    months |-> [q \in periods |-> BaseMonth(rows, q, K)]]
<1>1. /\ K = RowKeys(A, dims) \cup RowKeys(B, dims)
      /\ \A k \in K : rows[k].baseline = OfB(k) /\ rows[k].scenarios = <<OfA(k)>>
  <2>1. Compares(rows, A, B, dims, periods)
      BY RowsAre
  <2> HIDE DEF rows, periods
  <2> QED
      BY <2>1 DEF Compares
<1>2. IsFiniteSet(K) /\ K # {}
  <2>1. IsFiniteSet(RowKeys(A, dims)) /\ IsFiniteSet(RowKeys(B, dims))
      BY WholeTable
  <2>2. RowKeys(A, dims) \cup RowKeys(B, dims) # {}
      BY DEF RowKeys
  <2> HIDE DEF rows
  <2> QED
      BY <1>1, <2>1, <2>2, FS_Union
<1>3. Beneath(rows, <<>>) = K
  <2>1. \A k \in K : IsPrefix(<<>>, k)
      BY <1>1, NothingIsPrefix DEF RowKeys
  <2> HIDE DEF rows
  <2> QED
      BY <2>1 DEF Beneath
<1>4. K = DOMAIN rows /\ \A k \in K : rows[k].scenarios[1] = OfA(k)
    BY <1>1
<1> HIDE DEF K, rows, periods
<1>5. /\ node.baseline = base
      /\ node.scenarios # <<>> /\ Head(node.scenarios) = first
  <2>1. (CHOOSE k \in K : TRUE) \in K
      BY <1>2
  <2>2. Len(rows[CHOOSE k \in K : TRUE].scenarios) = 1
      BY <1>1, <2>1
  <2>3. node.baseline = base
      BY <1>3 DEF CompareNode, BaseYear, BaseMonth
  <2>4. node.scenarios = [i \in 1..1 |->
            [annual |-> ScenarioYear(rows, i, K),
             months |-> [q \in periods |-> ScenarioMonth(rows, i, q, K)]]]
      BY <1>3, <2>2 DEF CompareNode, ScenarioYear, ScenarioMonth
  <2>5. node.scenarios # <<>> /\ Head(node.scenarios) = node.scenarios[1]
    <3> HIDE DEF node
    <3>1. \A s : DOMAIN s = 1..1 /\ s = [i \in 1..1 |-> s[i]] =>
              s # <<>> /\ Head(s) = s[1]
        OBVIOUS
    <3>2. DOMAIN node.scenarios = 1..1
        BY <2>4
    <3>3. node.scenarios = [i \in 1..1 |-> node.scenarios[i]]
        BY <2>4
    <3> QED
        BY <3>1, <3>2, <3>3
  <2>6. node.scenarios[1] = first
      BY <2>4
  <2> QED
      BY <2>3, <2>5, <2>6
<1> DEFINE allA == [k \in K |-> OfA(k).annual]
           allB == [k \in K |-> OfB(k).annual]
           inA == [k \in K |-> OfA(k).months[p]]
           inB == [k \in K |-> OfB(k).months[p]]
<1>6. /\ first.annual = SumFunctionOnSet(allA, K)
      /\ base.annual = SumFunctionOnSet(allB, K)
      /\ first.months[p] = SumFunctionOnSet(inA, K)
      /\ base.months[p] = SumFunctionOnSet(inB, K)
      /\ DOMAIN base.months = periods
  <2>1. /\ allA = ScenarioYears(rows, 1, K) /\ allB = BaseYears(rows, K)
        /\ inA = ScenarioMonths(rows, 1, p, K) /\ inB = BaseMonths(rows, p, K)
      BY <1>1, <1>4 DEF ScenarioYears, BaseYears, ScenarioMonths, BaseMonths
  <2>2. p \in periods
      BY DEF periods
  <2>3. /\ first.annual = ScenarioYear(rows, 1, K) /\ base.annual = BaseYear(rows, K)
        /\ DOMAIN base.months = periods
      OBVIOUS
  <2>4. /\ first.months[p] = ScenarioMonth(rows, 1, p, K)
        /\ base.months[p] = BaseMonth(rows, p, K)
      BY <2>2
  <2> HIDE DEF first, base, allA, allB, inA, inB
  <2> QED
      BY <2>1, <2>3, <2>4, RowsSum
<1>7. /\ SumFunctionOnSet(allA, K) = Total(A) /\ SumFunctionOnSet(allB, K) = Total(B)
      /\ SumFunctionOnSet(inA, K) = Total({l \in A : l.period = p}) /\ Numbers(inA, K)
      /\ SumFunctionOnSet(inB, K) = Total({l \in B : l.period = p}) /\ Numbers(inB, K)
  <2>1. /\ RowKeys(A, dims) \subseteq K /\ RowKeys(B, dims) \subseteq K /\ p \in periods
      BY <1>1 DEF periods
  <2>2. /\ SumFunctionOnSet(allA, K) = Total(A)
        /\ SumFunctionOnSet(inA, K) = Total({l \in A : l.period = p}) /\ Numbers(inA, K)
      BY <1>2, <2>1, PartsAddUp
  <2>3. /\ SumFunctionOnSet(allB, K) = Total(B)
        /\ SumFunctionOnSet(inB, K) = Total({l \in B : l.period = p}) /\ Numbers(inB, K)
      BY <1>2, <2>1, PartsAddUp
  <2> QED
      BY <2>2, <2>3
<1> DEFINE gap == DifferencesIn(rows, p, K)
<1>8. gap = [k \in K |-> inA[k] - inB[k]]
  <2>1. ASSUME NEW k \in K PROVE RowDifference(rows[k], p) = inA[k] - inB[k]
    <3>1. rows[k].scenarios # <<>> /\ Last(rows[k].scenarios) = OfA(k)
        BY <1>1 DEF Last
    <3>2. p \in DOMAIN OfB(k).months
        BY DEF Figures, periods
    <3>3. inA[k] = OfA(k).months[p] /\ inB[k] = OfB(k).months[p]
        OBVIOUS
    <3> HIDE DEF OfA, OfB, inA, inB
    <3> QED
        BY <1>1, <3>1, <3>2, <3>3 DEF RowDifference, Minus
  <2> HIDE DEF inA, inB
  <2> QED
      BY <2>1 DEF DifferencesIn
<1>9. /\ DifferenceIn(rows, p, K) = SumFunctionOnSet(gap, K)
      /\ SumFunctionOnSet(gap, K) = SumFunctionOnSet(inA, K) - SumFunctionOnSet(inB, K)
  <2> HIDE DEF inA, inB
  <2>1. SumFunctionOnSet([k \in K |-> inA[k] - inB[k]], K)
          = SumFunctionOnSet(inA, K) - SumFunctionOnSet(inB, K)
      BY <1>2, <1>7, SumOfDifferences
  <2>2. DifferenceIn(rows, p, K) = SumFunctionOnSet(gap, K)
      BY RowsSum
  <2> QED
      BY <1>8, <2>1, <2>2
<1>10. p \in periods
    BY DEF periods
<1> HIDE DEF first, base, allA, allB, inA, inB, node, gap
<1>11. Minus(Head(node.scenarios), node.baseline).annual = Total(A) - Total(B)
    BY <1>5, <1>6, <1>7 DEF Minus
<1>12. NodeDifference(node, p)
         = Total({l \in A : l.period = p}) - Total({l \in B : l.period = p})
    BY <1>5, <1>6, <1>7, <1>10 DEF NodeDifference, Minus
<1> QED
    BY <1>4, <1>7, <1>9, <1>11, <1>12 DEF rows, periods, node, ShowsDifference
=============================================================================
