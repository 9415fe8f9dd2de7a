---------------------------- MODULE NatSetTheorems ----------------------------
(***************************************************************************)
(* Sets of natural numbers: least and greatest elements, induction (what   *)
(* is to be shown of every n is that a set contains it) and ranks.  The    *)
(* other proofs take from here what is known of sequences and numbers of   *)
(* any length; all of it follows from the well-foundedness of the strict   *)
(* inclusion of finite sets.                                               *)
(***************************************************************************)
EXTENDS Integers, FiniteSets, FiniteSetTheorems, TLAPS

\* A set of natural numbers that is not empty has a least element.
LEMMA LeastExists ==
  ASSUME NEW S \in SUBSET Nat, S # {}
  PROVE  \E m \in S : \A n \in S : m <= n
PROOF
  <1> DEFINE T == {0..n : n \in S}
             R == StrictSubsetOrdering(Nat)
             F == FiniteSubsetsOf(Nat)
  <1>1. T \subseteq F
    <2> SUFFICES ASSUME NEW n \in S
                 PROVE  0..n \in F
      OBVIOUS
    <2>1. n \in Nat
      OBVIOUS
    <2>2. IsFiniteSet(0..n)
      BY <2>1, FS_Interval
    <2>3. 0..n \in SUBSET Nat
      BY <2>1
    <2> QED BY <2>2, <2>3 DEF FiniteSubsetsOf
  <1>2. T # {}
    OBVIOUS
  <1>3. IsWellFoundedOn(R, F)
    BY FS_StrictSubsetOrderingWellFounded
  <1>4. \E x \in T : \A y \in T : ~(<<y, x>> \in R)
    <2> HIDE DEF T, R, F
    <2> QED BY <1>1, <1>2, <1>3, WFMin, Zenon
  <1>5. PICK m \in S : \A y \in T : ~(<<y, 0..m>> \in R)
    BY <1>4
  <1>6. ASSUME NEW n \in S, n < m
        PROVE  FALSE
    <2>1. n \in Nat /\ m \in Nat
      OBVIOUS
    <2>2. 0..n \in SUBSET Nat /\ 0..m \in SUBSET Nat /\ 0..n \subseteq 0..m
      BY <2>1, <1>6
    <2>3. 0..n # 0..m
      <3>1. m \in 0..m /\ m \notin 0..n
        BY <2>1, <1>6
      <3> QED BY <3>1
    <2>4. <<0..n, 0..m>> \in R
      BY <2>2, <2>3, Zenon DEF StrictSubsetOrdering
    <2> QED BY <2>4, <1>5
  <1>7. \A n \in S : m <= n
    BY <1>6
  <1> QED BY <1>7

\* A set that contains k and with every number its successor up to n contains
\* all numbers from k to n.
LEMMA IntervalInduction ==
  ASSUME NEW k \in Nat, NEW n \in Nat, NEW S, k \in S,
         \A i \in k..(n - 1) : i \in S => i + 1 \in S
  PROVE  k..n \subseteq S
PROOF
  <1> DEFINE Out == (k..n) \ S
  <1> SUFFICES ASSUME Out # {}
               PROVE  FALSE
    OBVIOUS
  <1>1. Out \in SUBSET Nat
    OBVIOUS
  <1>2. PICK m \in Out : \A i \in Out : m <= i
    BY <1>1, LeastExists
  <1>3. m # k /\ m \in k..n /\ m \notin S
    OBVIOUS
  <1>4. m - 1 \in k..(n - 1) /\ m - 1 \in k..n /\ ~(m <= m - 1)
    BY <1>3
  <1>5. m - 1 \in S
    BY <1>2, <1>4
  <1> QED BY <1>3, <1>4, <1>5

\* A set that contains 0 and with every natural number its successor contains
\* every natural number.
LEMMA NatInductionInSet ==
  ASSUME NEW S, 0 \in S, \A i \in Nat : i \in S => i + 1 \in S
  PROVE  Nat \subseteq S
PROOF
  <1> SUFFICES ASSUME NEW n \in Nat
               PROVE  n \in S
    OBVIOUS
  <1>1. 0..n \subseteq S
    BY IntervalInduction
  <1> QED BY <1>1

\* A finite set of natural numbers that is not empty has a greatest element.
LEMMA GreatestExists ==
  ASSUME NEW S \in SUBSET Nat, S # {}, NEW b \in Nat, \A n \in S : n <= b
  PROVE  \E m \in S : \A n \in S : n <= m
PROOF
  <1> DEFINE T == {b - n : n \in S}
  <1>0. \A n \in S : n \in Nat /\ b - n \in Nat
    OBVIOUS
  <1>1. T \in SUBSET Nat /\ T # {}
    BY <1>0, Zenon
  <1>2. PICK t \in T : \A u \in T : t <= u
    BY <1>1, LeastExists
  <1>3. PICK m \in S : t = b - m
    OBVIOUS
  <1>4. ASSUME NEW n \in S
        PROVE  n <= m
    <2>1. b - n \in T
      OBVIOUS
    <2>2. b - m <= b - n
      BY <1>2, <1>3, <2>1
    <2> QED BY <2>2
  <1> QED BY <1>4

\* The rank of a number in a set: how many numbers of the set it is not
\* smaller than.
Rank(S, n) == Cardinality({m \in S : m <= n})

\* Ranks grow with the numbers, and a number's rank counts it.
LEMMA RankGrows ==
  ASSUME NEW S \in SUBSET Nat, IsFiniteSet(S)
  PROVE  /\ Cardinality(S) \in Nat
         /\ \A n \in S : Rank(S, n) \in 1..Cardinality(S)
         /\ \A m, n \in S : m < n => Rank(S, m) < Rank(S, n)
PROOF
  <1> DEFINE Below(n) == {m \in S : m <= n}
  <1>1. Cardinality(S) \in Nat
    BY FS_CardinalityType
  <1>2. ASSUME NEW n \in S
        PROVE  /\ IsFiniteSet(Below(n)) /\ Cardinality(Below(n)) \in 1..Cardinality(S)
    <2>1. Below(n) \in SUBSET S /\ {n} \in SUBSET Below(n)
      OBVIOUS
    <2>2. IsFiniteSet(Below(n)) /\ Cardinality(Below(n)) <= Cardinality(S)
      BY <2>1, FS_Subset
    <2>3. Cardinality({n}) <= Cardinality(Below(n)) /\ Cardinality({n}) = 1
      BY <2>1, <2>2, FS_Subset, FS_Singleton
    <2>4. Cardinality(Below(n)) \in Nat
      BY <2>2, FS_CardinalityType
    <2> QED BY <1>1, <2>2, <2>3, <2>4
  <1>3. ASSUME NEW m \in S, NEW n \in S, m < n
        PROVE  Cardinality(Below(m)) < Cardinality(Below(n))
    <2>1. m \in Nat /\ n \in Nat
      OBVIOUS
    <2>2. Below(m) \in SUBSET Below(n) /\ n \in Below(n) /\ n \notin Below(m)
      <3>1. \A i \in S : i <= m => i <= n
        BY <2>1, <1>3
      <3>2. n <= n /\ ~(n <= m)
        BY <2>1, <1>3
      <3> QED BY <3>1, <3>2, Zenon
    <2>3. Below(m) # Below(n)
      BY <2>2
    <2>4. IsFiniteSet(Below(n)) /\ IsFiniteSet(Below(m))
      BY <1>2
    <2>5. /\ Cardinality(Below(m)) <= Cardinality(Below(n))
          /\ Cardinality(Below(m)) # Cardinality(Below(n))
      <3> HIDE DEF Below
      <3> QED BY <2>2, <2>3, <2>4, FS_Subset
    <2>6. Cardinality(Below(m)) \in Nat /\ Cardinality(Below(n)) \in Nat
      BY <2>4, FS_CardinalityType
    <2> QED BY <2>5, <2>6
  <1> QED BY <1>1, <1>2, <1>3 DEF Rank

\* Every number up to the size of a finite set is the rank of one element.
LEMMA RankIsOnto ==
  ASSUME NEW S \in SUBSET Nat, IsFiniteSet(S), NEW k \in 1..Cardinality(S)
  PROVE  \E n \in S : Rank(S, n) = k
PROOF
  <1> DEFINE c == Cardinality(S)
             rank == [n \in S |-> Rank(S, n)]
  <1>1. /\ c \in Nat
        /\ \A n \in S : Rank(S, n) \in 1..c
        /\ \A m, n \in S : m < n => Rank(S, m) < Rank(S, n)
    BY RankGrows
  <1>2. \A m, n \in S : Rank(S, m) = Rank(S, n) => m = n
    <2> SUFFICES ASSUME NEW m \in S, NEW n \in S, m # n
                 PROVE  Rank(S, m) # Rank(S, n)
      OBVIOUS
    <2>1. m < n \/ n < m
      OBVIOUS
    <2>2. Rank(S, m) < Rank(S, n) \/ Rank(S, n) < Rank(S, m)
      BY <1>1, <2>1
    <2>3. Rank(S, m) \in Nat /\ Rank(S, n) \in Nat
      BY <1>1
    <2> QED BY <2>2, <2>3
  <1>3. rank \in Injection(S, 1..c)
    BY <1>1, <1>2 DEF Injection, IsInjective
  <1>4. IsFiniteSet(1..c) /\ Cardinality(1..c) = c
    BY <1>1, FS_Interval
  <1>5. rank \in Surjection(S, 1..c)
    <2> HIDE DEF rank
    <2> QED BY <1>3, <1>4, FS_Injection
  <1> QED BY <1>5 DEF Surjection

-----------------------------------------------------------------------------
\* The sums of the first entries of a sequence of increments exist: what is
\* defined by that recursion satisfies it.
LEMMA RunningSumsExist ==
  ASSUME NEW n \in Nat \ {0}, NEW inc
  PROVE  \E g : g = [f \in 1..n |-> IF f = 1 THEN 0 ELSE g[f - 1] + inc[f]]
PROOF
  <1> DEFINE IsSum(g, m) == g = [f \in 1..m |-> IF f = 1 THEN 0 ELSE g[f - 1] + inc[f]]
             S == {m \in 1..n : \E g : IsSum(g, m)}
  <1>1. 1 \in S
    <2> DEFINE g == [f \in 1..1 |-> 0]
    <2>1. IsSum(g, 1)
      <3>1. \A f \in 1..1 : f = 1
        OBVIOUS
      <3> QED BY <3>1
    <2>2. 1 \in 1..n
      OBVIOUS
    <2> HIDE DEF IsSum, g
    <2> QED BY <2>1, <2>2, Zenon
  <1>2. ASSUME NEW m \in 1..(n - 1), m \in S
        PROVE  m + 1 \in S
    <2>1. PICK g : IsSum(g, m)
      BY <1>2
    <2> DEFINE h == [f \in 1..(m + 1) |-> IF f \in 1..m THEN g[f] ELSE g[m] + inc[f]]
    <2>2. ASSUME NEW f \in 1..(m + 1)
          PROVE  h[f] = IF f = 1 THEN 0 ELSE h[f - 1] + inc[f]
      <3>1. CASE f \in 1..m
        <4>1. h[f] = g[f] /\ (f # 1 => h[f - 1] = g[f - 1])
          BY <3>1
        <4>2. g[f] = IF f = 1 THEN 0 ELSE g[f - 1] + inc[f]
          <5>1. \A e \in 1..m : g[e] = IF e = 1 THEN 0 ELSE g[e - 1] + inc[e]
            BY <2>1, Zenon
          <5> QED BY <3>1, <5>1
        <4> QED BY <4>1, <4>2
      <3>2. CASE f \notin 1..m
        <4>1. f = m + 1 /\ f # 1 /\ f - 1 = m /\ m \in 1..m
          BY <3>2
        <4> QED BY <4>1, <3>2
      <3> QED BY <3>1, <3>2
    <2>3. IsSum(h, m + 1)
      <3>1. h = [f \in 1..(m + 1) |-> h[f]]
        BY Zenon
      <3>2. [f \in 1..(m + 1) |-> h[f]]
              = [f \in 1..(m + 1) |-> IF f = 1 THEN 0 ELSE h[f - 1] + inc[f]]
        <4> HIDE DEF h
        <4> QED BY <2>2, Zenon
      <3> HIDE DEF h
      <3> QED BY <3>1, <3>2, Zenon
    <2>4. m + 1 \in 1..n
      OBVIOUS
    <2> HIDE DEF IsSum, h
    <2> QED BY <2>3, <2>4, Zenon
  <1>3. 1..n \subseteq S
    <2> HIDE DEF S
    <2>1. \A i \in 1..(n - 1) : i \in S => i + 1 \in S
      BY <1>2
    <2> QED BY <1>1, <2>1, IntervalInduction
  <1>4. n \in S
    <2>1. n \in 1..n
      OBVIOUS
    <2> QED BY <1>3, <2>1, Zenon
  <1> QED BY <1>4

\* A recursion from one place to the next.
IsRecursion(g, n, base, step) == g = [k \in 0..n |-> IF k = 0 THEN base ELSE step[<<k, g[k - 1]>>]]

\* It has a solution: what is defined by it satisfies it.
LEMMA RecursionExists ==
  ASSUME NEW n \in Nat, NEW S, NEW base \in S, NEW step,
         \A k \in 1..n, x \in S : step[<<k, x>>] \in S
  PROVE  \E g \in [0..n -> S] : IsRecursion(g, n, base, step)
PROOF
  <1> DEFINE IsRun(g, m) == g = [k \in 0..m |-> IF k = 0 THEN base ELSE step[<<k, g[k - 1]>>]]
             T == {m \in 0..n : \E g \in [0..m -> S] : IsRun(g, m)}
  <1>1. 0 \in T
    <2> DEFINE g == [k \in 0..0 |-> base]
    <2>1. IsRun(g, 0)
      <3>1. \A k \in 0..0 : k = 0
        OBVIOUS
      <3> QED BY <3>1
    <2>2. 0 \in 0..n /\ g \in [0..0 -> S]
      OBVIOUS
    <2> HIDE DEF IsRun, g
    <2> QED BY <2>1, <2>2, Zenon
  <1>2. ASSUME NEW m \in 0..(n - 1), m \in T
        PROVE  m + 1 \in T
    <2>1. PICK g \in [0..m -> S] : IsRun(g, m)
      BY <1>2
    <2> DEFINE h == [k \in 0..(m + 1) |-> IF k \in 0..m THEN g[k] ELSE step[<<m + 1, g[m]>>]]
    <2>0. m \in Nat /\ m \in 0..m /\ m + 1 \in 1..n
      OBVIOUS
    <2>2. h \in [0..(m + 1) -> S]
      <3>1. g[m] \in S
        BY <2>0
      <3>2. step[<<m + 1, g[m]>>] \in S
        BY <3>1, <2>0
      <3> QED BY <3>2
    <2>3. ASSUME NEW k \in 0..(m + 1)
          PROVE  h[k] = IF k = 0 THEN base ELSE step[<<k, h[k - 1]>>]
      <3>1. CASE k \in 0..m
        <4>1. h[k] = g[k] /\ (k # 0 => h[k - 1] = g[k - 1])
          BY <3>1
        <4>2. g[k] = IF k = 0 THEN base ELSE step[<<k, g[k - 1]>>]
          <5>1. \A e \in 0..m : g[e] = IF e = 0 THEN base ELSE step[<<e, g[e - 1]>>]
            BY <2>1, Zenon
          <5> QED BY <3>1, <5>1
        <4> QED BY <4>1, <4>2
      <3>2. CASE k \notin 0..m
        <4>1. k = m + 1 /\ k # 0 /\ k - 1 = m
          BY <3>2
        <4>2. h[k] = step[<<m + 1, g[m]>>] /\ h[m] = g[m]
          BY <4>1, <2>0
        <4> QED BY <4>1, <4>2
      <3> QED BY <3>1, <3>2
    <2>4. IsRun(h, m + 1)
      <3>1. h = [k \in 0..(m + 1) |-> h[k]]
        BY Zenon
      <3>2. [k \in 0..(m + 1) |-> h[k]]
              = [k \in 0..(m + 1) |-> IF k = 0 THEN base ELSE step[<<k, h[k - 1]>>]]
        <4> HIDE DEF h
        <4> QED BY <2>3, Zenon
      <3> HIDE DEF h
      <3> QED BY <3>1, <3>2, Zenon
    <2>5. m + 1 \in 0..n
      OBVIOUS
    <2> HIDE DEF IsRun, h
    <2> QED BY <2>2, <2>4, <2>5, Zenon
  <1>3. 0..n \subseteq T
    <2> HIDE DEF T
    <2>1. \A i \in 0..(n - 1) : i \in T => i + 1 \in T
      BY <1>2
    <2> QED BY <1>1, <2>1, IntervalInduction
  <1>4. n \in T
    <2>1. n \in 0..n
      OBVIOUS
    <2> QED BY <1>3, <2>1, Zenon
  <1> QED BY <1>4 DEF IsRecursion
=============================================================================
