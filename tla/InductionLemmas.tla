--------------------------- MODULE InductionLemmas ---------------------------
(***************************************************************************)
(* Induction and recursion without operators as parameters: a property is  *)
(* the set of the values that have it, a recursive definition a function   *)
(* of functions.  The proofs of the other modules cite these facts for     *)
(* what the folds, merges and sums of the code compute.                    *)
(***************************************************************************)
EXTENDS Integers, Sequences, FiniteSetTheorems, WellFoundedInduction, TLAPS

\* A set of natural numbers that is not empty has a least member.
LEMMA LeastMember ==
    ASSUME NEW T \in SUBSET Nat, T # {}
    PROVE  \E x \in T : \A y \in T : x <= y
<1>0. IsWellFoundedOn(OpToRel(<, Nat), Nat)
    BY NatLessThanWellFounded
<1> DEFINE R == OpToRel(<, Nat)
<1>1. IsWellFoundedOn(R, Nat)
    BY <1>0
<1>2. \A x, y \in Nat : <<y, x>> \in R <=> y < x
    BY DEF OpToRel
<1> HIDE DEF R
<1>3. PICK x \in T : \A y \in T : ~(<<y, x>> \in R)
    BY <1>1, WFMin
<1>4. \A y \in T : ~(y < x)
    BY <1>2, <1>3
<1> QED
    BY <1>4

\* A set of natural numbers with 0 and the successors of its members is Nat.
LEMMA InductionOnNat ==
    ASSUME NEW S, 0 \in S, \A n \in Nat : n \in S => n + 1 \in S
    PROVE  Nat \subseteq S
<1> SUFFICES ASSUME Nat \ S # {} PROVE FALSE
    OBVIOUS
<1>1. PICK x \in Nat \ S : \A y \in Nat \ S : x <= y
    BY LeastMember
<1>2. x - 1 \in Nat /\ x - 1 \in S
    BY <1>1
<1> QED
    BY <1>1, <1>2

\* The same up to a bound.
LEMMA InductionUpTo ==
    ASSUME NEW n \in Nat, NEW S, 0 \in S, \A i \in 1..n : i - 1 \in S => i \in S
    PROVE  0..n \subseteq S
<1> DEFINE M == {m \in Nat : m <= n => m \in S}
<1>1. 0 \in M
    OBVIOUS
<1>2. ASSUME NEW m \in Nat, m \in M PROVE m + 1 \in M
  <2> SUFFICES ASSUME m + 1 <= n PROVE m + 1 \in S
      OBVIOUS
  <2>1. m \in S /\ m + 1 \in 1..n
      BY <1>2
  <2> QED
      BY <2>1
<1> HIDE DEF M
<1>3. Nat \subseteq M
    BY <1>1, <1>2, InductionOnNat
<1> QED
    BY <1>3 DEF M

\* A family of subsets of a finite set with {} and, with a set, every larger
\* one by a member, has all subsets.
LEMMA InductionOnSubsets ==
    ASSUME NEW S, IsFiniteSet(S), NEW Q, {} \in Q,
           \A T \in SUBSET S, x \in S :
               x \notin T /\ T \in Q => T \cup {x} \in Q
    PROVE  SUBSET S \subseteq Q
<1> DEFINE N == {n \in Nat : \A T \in SUBSET S : Cardinality(T) = n => T \in Q}
<1>1. \A T \in SUBSET S : IsFiniteSet(T) /\ Cardinality(T) \in Nat
    BY FS_Subset, FS_CardinalityType
<1>2. 0 \in N
    BY <1>1, FS_EmptySet
<1>3. ASSUME NEW n \in Nat, n \in N PROVE n + 1 \in N
  <2> SUFFICES ASSUME NEW T \in SUBSET S, Cardinality(T) = n + 1
               PROVE  T \in Q
      OBVIOUS
  <2>1. T # {}
      BY <1>1, <1>3, FS_EmptySet
  <2>2. PICK x \in T : TRUE
      BY <2>1
  <2>3. Cardinality(T \ {x}) = n /\ T \ {x} \in SUBSET S
    <3>1. IsFiniteSet(T) /\ Cardinality(T) - 1 = n
        BY <1>1, <1>3
    <3>2. Cardinality(T \ {x}) = Cardinality(T) - 1
        BY <2>2, <3>1, FS_RemoveElement
    <3> QED
        BY <3>1, <3>2
  <2>4. T \ {x} \in Q
      BY <1>3, <2>3
  <2>5. (T \ {x}) \cup {x} = T
      BY <2>2
  <2> QED
      BY <2>2, <2>3, <2>4, <2>5
<1> HIDE DEF N
<1>4. Nat \subseteq N
    BY <1>2, <1>3, InductionOnNat
<1> QED
    BY <1>1, <1>4 DEF N

\* A finite set of integers has a greatest member.
LEMMA GreatestMember ==
    ASSUME NEW T \in SUBSET Int, IsFiniteSet(T), T # {}
    PROVE  \E x \in T : \A y \in T : y <= x
<1> DEFINE Q == {U \in SUBSET T : U = {} \/ \E x \in U : \A y \in U : y <= x}
<1>1. {} \in Q
    OBVIOUS
<1>2. ASSUME NEW U \in SUBSET T, NEW z \in T, z \notin U, U \in Q
      PROVE  U \cup {z} \in Q
  <2>1. CASE U = {}
      BY <2>1
  <2>2. CASE U # {}
    <3>1. PICK x \in U : \A y \in U : y <= x
        BY <1>2, <2>2
    <3>2. CASE z <= x
        BY <3>1, <3>2
    <3>3. CASE ~(z <= x)
      <4>1. \A y \in U \cup {z} : y <= z
          BY <3>1, <3>3
      <4> QED
          BY <4>1
    <3> QED
        BY <3>2, <3>3
  <2> QED
      BY <2>1, <2>2
<1> HIDE DEF Q
<1>3. SUBSET T \subseteq Q
    BY <1>1, <1>2, InductionOnSubsets
<1>4. T \in Q
    BY <1>3
<1> QED
    BY <1>4 DEF Q

\* What a function makes of a finite set is finite.
LEMMA FiniteImage ==
    ASSUME NEW S, IsFiniteSet(S), NEW f
    PROVE  IsFiniteSet({f[x] : x \in S})
<1> DEFINE g == [x \in S |-> f[x]]
<1>1. g \in Surjection(S, {f[x] : x \in S})
    BY DEF Surjection
<1> QED
    BY <1>1, FS_Surjection

\* A recursive function on an interval exists: what its value becomes at i is
\* a function of what it was at i - 1.
HasRecursion(n, S, s0, step) ==
    \E g \in [0..n -> S] :
        g[0] = s0 /\ \A i \in 1..n : g[i] = step[i][g[i - 1]]

LEMMA RecursionUpTo ==
    ASSUME NEW n \in Nat, NEW S, NEW s0 \in S, NEW step \in [1..n -> [S -> S]]
    PROVE  HasRecursion(n, S, s0, step)
<1> DEFINE
      Good(m, g) == /\ g \in [0..m -> S] /\ g[0] = s0
                    /\ \A i \in 1..m : g[i] = step[i][g[i - 1]]
      M == {m \in Nat : m <= n => \E g : Good(m, g)}
<1>1. 0 \in M
  <2>1. Good(0, [i \in 0..0 |-> s0])
      OBVIOUS
  <2> QED
      BY <2>1
<1>2. ASSUME NEW m \in Nat, m \in M PROVE m + 1 \in M
  <2> SUFFICES ASSUME m + 1 <= n PROVE \E g : Good(m + 1, g)
      OBVIOUS
  <2>1. PICK g : Good(m, g)
      BY <1>2
  <2> DEFINE h == [i \in 0..(m + 1) |-> IF i <= m THEN g[i] ELSE step[i][g[m]]]
  <2>2. step[m + 1] \in [S -> S] /\ g[m] \in S
      BY <2>1
  <2>3. step[m + 1][g[m]] \in S
      BY <2>2
  <2>4. ASSUME NEW i \in 0..(m + 1) PROVE h[i] \in S
    <3>1. CASE i <= m
        BY <2>1, <3>1
    <3>2. CASE i = m + 1
        BY <2>3, <3>2
    <3> QED
        BY <3>1, <3>2
  <2>5. h \in [0..(m + 1) -> S] /\ h[0] = s0
      BY <2>1, <2>4
  <2>6. ASSUME NEW i \in 1..(m + 1) PROVE h[i] = step[i][h[i - 1]]
    <3>1. CASE i <= m
        BY <2>1, <3>1
    <3>2. CASE i = m + 1
        BY <3>2
    <3> QED
        BY <3>1, <3>2
  <2> QED
      BY <2>5, <2>6
<1> HIDE DEF M
<1>3. Nat \subseteq M
    BY <1>1, <1>2, InductionOnNat
<1>4. n \in M
    BY <1>3
<1> QED
    BY <1>4 DEF M, HasRecursion
=============================================================================
