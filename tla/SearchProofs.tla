---------------------------- MODULE SearchProofs ----------------------------
(***************************************************************************)
(* The searches of a query, between the text tree that they ask and the    *)
(* cleaning that ends them (both in ResultGeneratorProofs): what they find *)
(* has a place, a quality and the name that it was found by, and crossings *)
(* are nodes of two differently named things.                              *)
(*                                                                         *)
(* Every step of a search computes with data of the map: sums, means,      *)
(* recursions along texts, sorted lists, walks between hits.  The lemmas   *)
(* say of each what it returns, in the order of the modules they are about *)
(* (Utf8, Tokenizer, TokenProcessor, MapAnalysis, ResultGenerator).  A     *)
(* recursive function is defined by choice, so first there has to be one:  *)
(* RecursionIn.                                                            *)
(***************************************************************************)
EXTENDS ResultGeneratorProofs, TLAPS

-----------------------------------------------------------------------------
(* Numbers.                                                                *)

\* The least number of a set of natural numbers, and the greatest one of a
\* bounded set.
LEMMA MinIsIn ==
  ASSUME NEW S \in SUBSET Nat, S # {}
  PROVE  Min(S) \in S /\ \A n \in S : Min(S) <= n
PROOF
  <1>1. \E m \in S : \A n \in S : m <= n
    BY LeastExists
  <1> QED BY <1>1, Zenon DEF Min

LEMMA MaxIsIn ==
  ASSUME NEW S \in SUBSET Nat, S # {}, NEW b \in Nat, \A n \in S : n <= b
  PROVE  Max(S) \in S /\ \A n \in S : n <= Max(S)
PROOF
  <1>1. \E m \in S : \A n \in S : n <= m
    BY GreatestExists
  <1>2. \E m \in S : \A n \in S : m >= n
    BY <1>1
  <1>3. Max(S) \in S /\ \A n \in S : Max(S) >= n
    BY <1>2, Zenon DEF Max
  <1> QED BY <1>3

\* The less and the greater of two integers.
LEMMA OfTwo ==
  ASSUME NEW m \in Int, NEW n \in Int
  PROVE  Min({m, n}) \in Int /\ Max({m, n}) \in Int
PROOF
  <1>1. (\E x \in {m, n} : \A y \in {m, n} : x <= y) /\ (\E x \in {m, n} : \A y \in {m, n} : x >= y)
    OBVIOUS
  <1>2. Min({m, n}) \in {m, n} /\ Max({m, n}) \in {m, n}
    BY <1>1, Zenon DEF Min, Max
  <1> QED BY <1>2

\* A function of natural numbers has a least value.
LEMMA LeastIsSomewhere ==
  ASSUME NEW f, DOMAIN f # {}, \A x \in DOMAIN f : f[x] \in Nat
  PROVE  Least(f) # {} /\ Least(f) \subseteq DOMAIN f
PROOF
  <1> DEFINE S == {f[x] : x \in DOMAIN f}
  <1>1. S \in SUBSET Nat /\ S # {}
    OBVIOUS
  <1>2. PICK m \in S : \A n \in S : m <= n
    BY <1>1, LeastExists
  <1>3. PICK x \in DOMAIN f : m = f[x]
    OBVIOUS
  <1>4. x \in Least(f)
    BY <1>2, <1>3 DEF Least
  <1> QED BY <1>4 DEF Least

-----------------------------------------------------------------------------
(* Sums.                                                                   *)

\* The recursion that adds the values of a function up over a set.
OneOf(s) == CHOOSE x \in s : TRUE
AddStep(f, g, s) == IF s = {} THEN 0 ELSE f[OneOf(s)] + g[s \ {OneOf(s)}]
IsSum(f, g, S) == g = [s \in SUBSET S |-> AddStep(f, g, s)]

\* A set without the one that is chosen has one element less.
LEMMA OneLess ==
  ASSUME NEW S, IsFiniteSet(S), NEW s \in SUBSET S
  PROVE  /\ IsFiniteSet(s) /\ Cardinality(s) \in Nat /\ (s = {} <=> Cardinality(s) = 0)
         /\ s # {} => /\ OneOf(s) \in s /\ s \ {OneOf(s)} \in SUBSET S
                      /\ Cardinality(s) = Cardinality(s \ {OneOf(s)}) + 1
                      /\ Cardinality(s \ {OneOf(s)}) \in Nat
PROOF
  <1>1. IsFiniteSet(s) /\ Cardinality(s) \in Nat /\ (Cardinality(s) = 0 <=> s = {})
    BY FS_Subset, FS_CardinalityType, FS_EmptySet
  <1>2. ASSUME s # {}
        PROVE  /\ OneOf(s) \in s /\ s \ {OneOf(s)} \in SUBSET S
               /\ Cardinality(s) = Cardinality(s \ {OneOf(s)}) + 1
               /\ Cardinality(s \ {OneOf(s)}) \in Nat
    <2>1. OneOf(s) \in s
      BY <1>2, Zenon DEF OneOf
    <2>2. Cardinality(s \ {OneOf(s)}) = Cardinality(s) - 1 /\ IsFiniteSet(s \ {OneOf(s)})
      BY <1>1, <2>1, FS_RemoveElement
    <2>3. Cardinality(s \ {OneOf(s)}) \in Nat
      BY <2>2, FS_CardinalityType
    <2> QED BY <1>1, <2>1, <2>2, <2>3
  <1> QED BY <1>1, <1>2

\* It satisfies its equation.
LEMMA SumsExist ==
  ASSUME NEW S, IsFiniteSet(S), NEW f
  PROVE  \E g : IsSum(f, g, S)
PROOF
  <1> DEFINE Sets(k)  == {s \in SUBSET S : Cardinality(s) <= k}
             Found(g, k) == g = [s \in Sets(k) |-> AddStep(f, g, s)]
             T == {k \in Nat : \E g : Found(g, k)}
  <1>0. \A s \in SUBSET S : IsFiniteSet(s) /\ Cardinality(s) \in Nat /\ (Cardinality(s) = 0 <=> s = {})
    BY OneLess
  <1>1. 0 \in T
    <2> DEFINE g == [s \in Sets(0) |-> 0]
    <2>1. \A s \in Sets(0) : s = {}
      BY <1>0
    <2>2. \A s \in Sets(0) : AddStep(f, g, s) = 0
      BY <2>1 DEF AddStep
    <2>3. Found(g, 0)
      BY <2>2
    <2> HIDE DEF Found
    <2> QED BY <2>3
  <1>2. ASSUME NEW k \in Nat, k \in T
        PROVE  k + 1 \in T
    <2>1. PICK g : Found(g, k)
      BY <1>2
    <2>2. \A s \in Sets(k) : g[s] = AddStep(f, g, s)
      <3> HIDE DEF Sets
      <3> QED BY <2>1
    <2> DEFINE h == [s \in Sets(k + 1) |-> AddStep(f, g, s)]
    <2>4. \A s \in Sets(k) : s \in Sets(k + 1)
      BY <1>0
    <2>5. \A s \in Sets(k) : h[s] = g[s]
      <3> HIDE DEF Sets, Found
      <3> QED BY <2>2, <2>4
    <2>6. ASSUME NEW s \in Sets(k + 1)
          PROVE  h[s] = AddStep(f, h, s)
      <3>1. h[s] = AddStep(f, g, s)
        BY <2>6, Zenon
      <3>2. CASE s = {}
        BY <3>1, <3>2 DEF AddStep
      <3>3. CASE s # {}
        <4> DEFINE r == s \ {OneOf(s)}
        <4>1. r \in SUBSET S /\ Cardinality(s) = Cardinality(r) + 1 /\ Cardinality(r) \in Nat /\ Cardinality(s) <= k + 1
          BY <3>3, OneLess
        <4>2. r \in Sets(k)
          BY <4>1
        <4>3. h[r] = g[r]
          <5> HIDE DEF Sets, h, Found
          <5> QED BY <2>5, <4>2
        <4> HIDE DEF h, Sets, Found
        <4> QED BY <3>1, <3>3, <4>3 DEF AddStep
      <3> QED BY <3>2, <3>3
    <2>7. Found(h, k + 1)
      <3>1. h = [s \in Sets(k + 1) |-> h[s]]
        BY Zenon
      <3> HIDE DEF h, Sets
      <3> QED BY <2>6, <3>1, Zenon
    <2>8. k + 1 \in Nat
      OBVIOUS
    <2> HIDE DEF Found
    <2> QED BY <2>7, <2>8
  <1>3. Nat \subseteq T
    <2> HIDE DEF T
    <2> QED BY <1>1, <1>2, NatInductionInSet
  <1>4. Sets(Cardinality(S)) = SUBSET S
    <2>1. \A s \in SUBSET S : Cardinality(s) <= Cardinality(S)
      BY FS_Subset
    <2> QED BY <2>1
  <1>5. Cardinality(S) \in T
    <2> HIDE DEF T
    <2> QED BY <1>0, <1>3
  <1> QED BY <1>4, <1>5 DEF IsSum

\* A sum of natural numbers is one, and is not more than the greatest of them
\* as often as there are numbers.
LEMMA SumsAreBounded ==
  ASSUME NEW S, IsFiniteSet(S), NEW f, NEW b \in Nat, \A x \in S : f[x] \in 0..b,
         NEW g, IsSum(f, g, S)
  PROVE  \A s \in SUBSET S : g[s] \in 0..(b * Cardinality(s))
PROOF
  <1> DEFINE Bounded(s) == g[s] \in 0..(b * Cardinality(s))
             T == {k \in Nat : \A s \in SUBSET S : Cardinality(s) = k => Bounded(s)}
  <1>0. \A s \in SUBSET S : g[s] = AddStep(f, g, s)
    BY DEF IsSum
  <1>1. 0 \in T
    <2>1. ASSUME NEW s \in SUBSET S, Cardinality(s) = 0
          PROVE  Bounded(s)
      <3>1. s = {}
        <4>1. s = {} <=> Cardinality(s) = 0
          BY OneLess
        <4> QED BY <2>1, <4>1
      <3>0. b * 0 = 0
        OBVIOUS
      <3>2. g[s] = 0
        BY <1>0, <3>1 DEF AddStep
      <3> QED BY <2>1, <3>0, <3>2
    <2> QED BY <2>1
  <1>2. ASSUME NEW k \in Nat, k \in T
        PROVE  k + 1 \in T
    <2>1. ASSUME NEW s \in SUBSET S, Cardinality(s) = k + 1
          PROVE  Bounded(s)
      <3> DEFINE r == s \ {OneOf(s)}
      <3>1. s # {} /\ r \in SUBSET S /\ Cardinality(r) = k /\ OneOf(s) \in S
        <4>1. s # {}
          <5>1. s = {} <=> Cardinality(s) = 0
            BY OneLess
          <5> QED BY <2>1, <5>1
        <4>2. r \in SUBSET S /\ Cardinality(s) = Cardinality(r) + 1 /\ Cardinality(r) \in Nat /\ OneOf(s) \in S
          BY <4>1, OneLess
        <4> HIDE DEF r
        <4> QED BY <2>1, <4>1, <4>2
      <3>2. g[r] \in 0..(b * k)
        <4> HIDE DEF r
        <4> QED BY <1>2, <3>1
      <3>3. f[OneOf(s)] \in 0..b
        BY <3>1
      <3>4. g[s] = f[OneOf(s)] + g[r]
        BY <1>0, <3>1 DEF AddStep
      <3>5. b * (k + 1) = b * k + b /\ b * k \in Nat
        OBVIOUS
      <3> HIDE DEF r
      <3> QED BY <2>1, <3>2, <3>3, <3>4, <3>5
    <2> QED BY <2>1
  <1>3. Nat \subseteq T
    <2> HIDE DEF T
    <2> QED BY <1>1, <1>2, NatInductionInSet
  <1> SUFFICES ASSUME NEW s \in SUBSET S
               PROVE  Bounded(s)
    OBVIOUS
  <1>4. Cardinality(s) \in T
    <2>1. Cardinality(s) \in Nat
      BY OneLess
    <2> HIDE DEF T
    <2> QED BY <1>3, <2>1
  <1> HIDE DEF Bounded
  <1> QED BY <1>4

\* The library's sum is such a recursion, so it is bounded as well.
LEMMA SumIsNumber ==
  ASSUME NEW S, IsFiniteSet(S), NEW f, NEW b \in Nat, \A x \in S : f[x] \in 0..b
  PROVE  SumFunctionOnSet(f, S) \in 0..(b * Cardinality(S))
PROOF
  <1> DEFINE g == CHOOSE g : IsSum(f, g, S)
  <1>1. IsSum(f, g, S)
    BY SumsExist, Zenon
  <1>2. SumFunctionOnSet(f, S) = g[S]
    BY Zenon DEF SumFunctionOnSet, FoldFunctionOnSet, MapThenFoldSet, IsSum, AddStep, OneOf
  <1> HIDE DEF g
  <1>3. g[S] \in 0..(b * Cardinality(S))
    BY <1>1, SumsAreBounded
  <1> QED BY <1>2, <1>3

\* The mean of natural numbers is one, and is not more than the greatest.
LEMMA MeanIsNumber ==
  ASSUME NEW S, IsFiniteSet(S), S # {}, NEW f, NEW b \in Nat, \A x \in S : f[x] \in 0..b
  PROVE  SumFunctionOnSet(f, S) \div Cardinality(S) \in 0..b
PROOF
  <1> DEFINE n == SumFunctionOnSet(f, S)
             c == Cardinality(S)
  <1>1. n \in 0..(b * c)
    BY SumIsNumber
  <1>2. c \in Nat /\ c # 0
    BY FS_CardinalityType, FS_EmptySet
  <1> HIDE DEF n, c
  <1>3. ASSUME NEW d \in Nat \ {0}, NEW m \in 0..(b * d)
        PROVE  m \div d \in 0..b
    <2>1. b * d \in Nat /\ m \in Nat /\ m <= b * d
      OBVIOUS
    <2>2. m \div d \in Nat /\ (m \div d) * d <= m
      OBVIOUS
    <2>3. ASSUME m \div d > b
          PROVE  FALSE
      <3> DEFINE q == m \div d
      <3>1. q \in Nat /\ q >= b + 1 /\ q * d <= m
        BY <2>2, <2>3
      <3> HIDE DEF q
      <3>2. q * d >= (b + 1) * d
        BY <3>1
      <3>3. (b + 1) * d = b * d + d
        OBVIOUS
      <3> QED BY <2>1, <3>1, <3>2, <3>3
    <2> QED BY <2>2, <2>3
  <1>4. n \div c \in 0..b
    BY <1>1, <1>2, <1>3
  <1> QED BY <1>4 DEF n, c

-----------------------------------------------------------------------------
(* Texts.                                                                  *)

\* What begins in a set, and stays there in each step, is there in the end.
LEMMA StaysThere ==
  ASSUME NEW n \in Nat, NEW S, NEW g, g[0] \in S, \A k \in 1..n : g[k - 1] \in S => g[k] \in S
  PROVE  \A k \in 0..n : g[k] \in S
PROOF
  <1> DEFINE T == {k \in 0..n : g[k] \in S}
  <1>1. 0 \in T
    OBVIOUS
  <1>2. ASSUME NEW i \in 0..(n - 1), i \in T
        PROVE  i + 1 \in T
    <2>1. i + 1 \in 1..n /\ (i + 1) - 1 = i /\ i + 1 \in 0..n
      OBVIOUS
    <2>2. g[(i + 1) - 1] \in S => g[i + 1] \in S
      BY <2>1
    <2> QED BY <1>2, <2>1, <2>2
  <1>3. 0..n \subseteq T
    <2> HIDE DEF T
    <2> QED BY <1>1, <1>2, IntervalInduction
  <1> QED BY <1>3

\* A recursion whose steps stay in a set, along a sequence of functions.
GoesBy(g, n, base, next) == g[0] = base /\ \A k \in 1..n : g[k] = next[k][g[k - 1]]

\* There is a function that goes by given steps, and it stays in their set: what
\* a recursive definition chooses exists.
LEMMA RecursionIn ==
  ASSUME NEW n \in Nat, NEW S, NEW base \in S, NEW next \in [1..n -> [S -> S]]
  PROVE  \E g \in [0..n -> S] : GoesBy(g, n, base, next)
PROOF
  <1> DEFINE step == [x \in (1..n) \X S |-> next[x[1]][x[2]]]
  <1>0. \A k \in 1..n, x \in S : step[<<k, x>>] = next[k][x] /\ step[<<k, x>>] \in S
    OBVIOUS
  <1> HIDE DEF step
  <1>1. PICK g \in [0..n -> S] : IsRecursion(g, n, base, step)
    BY <1>0, RecursionExists
  <1>2. \A k \in 0..n : g[k] = IF k = 0 THEN base ELSE step[<<k, g[k - 1]>>]
    BY <1>1, Zenon DEF IsRecursion
  <1>3. g[0] = base
    <2>1. 0 \in 0..n
      OBVIOUS
    <2> QED BY <1>2, <2>1, Zenon
  <1>4. ASSUME NEW k \in 1..n
        PROVE  g[k] = next[k][g[k - 1]]
    <2>1. k \in 0..n /\ k # 0 /\ k - 1 \in 0..n
      OBVIOUS
    <2>2. g[k - 1] \in S
      BY <2>1
    <2> QED BY <1>0, <1>2, <2>1, <2>2, Zenon
  <1> QED BY <1>3, <1>4 DEF GoesBy

\* The entries of a sequence that are in a set.
LEMMA WithinType ==
  ASSUME NEW T, NEW seq \in Seq(T), NEW S
  PROVE  Within(seq, S) \in Seq(T \cap S)
PROOF
  <1> DEFINE n == Len(seq)
             Q == Seq(T \cap S)
             After(x, c) == IF c \in S THEN Append(x, c) ELSE x
             next == [k \in 1..n |-> [x \in Q |-> After(x, seq[k])]]
             IsTaken(g) == g = [i \in 0..n |-> IF i = 0 THEN <<>> ELSE IF seq[i] \in S THEN Append(g[i - 1], seq[i]) ELSE g[i - 1]]
             taken == CHOOSE g : IsTaken(g)
  <1>1. n \in Nat /\ <<>> \in Q
    OBVIOUS
  <1>2. \A k \in 1..n, x \in Q : After(x, seq[k]) \in Q
    OBVIOUS
  <1>3. next \in [1..n -> [Q -> Q]]
    <2> HIDE DEF After, Q
    <2> QED BY <1>2
  <1>4. \E g : IsTaken(g)
    <2> DEFINE base == <<>>
    <2>1. PICK g \in [0..n -> Q] : GoesBy(g, n, base, next)
      <3>1. base \in Q
        BY <1>1
      <3> HIDE DEF Q, next, n, base
      <3> QED BY <1>1, <1>3, <3>1, RecursionIn
    <2>2. ASSUME NEW i \in 0..n
          PROVE  g[i] = IF i = 0 THEN <<>> ELSE After(g[i - 1], seq[i])
      <3> SUFFICES ASSUME i # 0
                   PROVE  g[i] = After(g[i - 1], seq[i])
        BY <2>1 DEF GoesBy
      <3>1. i \in 1..n /\ i - 1 \in 0..n
        BY <1>1
      <3> HIDE DEF After, Q, n
      <3> QED BY <2>1, <3>1 DEF GoesBy
    <2>3. g = [i \in 0..n |-> g[i]]
      OBVIOUS
    <2> HIDE DEF n
    <2> QED BY <2>2, <2>3, Zenon
  <1>5. IsTaken(taken)
    BY <1>4, Zenon
  <1>6. taken[n] \in Q
    <2>1. \A i \in 0..n : taken[i] = IF i = 0 THEN <<>> ELSE After(taken[i - 1], seq[i])
      <3> HIDE DEF n, taken
      <3> QED BY <1>5, Zenon
    <2> HIDE DEF taken, Q, After, next
    <2>2. taken[0] \in Q /\ \A i \in 1..n : taken[i - 1] \in Q => taken[i] \in Q
      BY <1>1, <1>2, <2>1
    <2>3. \A k \in 0..n : taken[k] \in Q
      <3> HIDE DEF n
      <3> QED BY <1>1, <2>2, StaysThere
    <2> QED BY <1>1, <2>3
  <1>7. Within(seq, S) = taken[n]
    BY Zenon DEF Within
  <1> QED BY <1>6, <1>7

\* What sequences are put together to has what they have, if it is closed under
\* putting two of them together.
LEMMA FlattenKeeps ==
  ASSUME NEW P, \A s, t \in P : s \o t \in P, NEW seqs \in Seq(P), seqs = <<>> => <<>> \in P
  PROVE  FlattenSeq(seqs) \in P
PROOF
  <1> DEFINE n == Len(seqs)
             IsFlat(f) == f = [i \in 1..n |-> IF i = 1 THEN seqs[i] ELSE f[i - 1] \o seqs[i]]
             flat == CHOOSE f : IsFlat(f)
  <1>1. n \in Nat /\ \A i \in 1..n : seqs[i] \in P
    OBVIOUS
  <1>2. CASE n = 0
    <2>1. FlattenSeq(seqs) = seqs /\ seqs = <<>>
      BY <1>2 DEF FlattenSeq
    <2> QED BY <2>1
  <1>3. CASE n # 0
    <2> DEFINE m == n - 1
               base == seqs[1]
               next == [k \in 1..m |-> [x \in P |-> x \o seqs[k + 1]]]
    <2>1. m \in Nat /\ n = m + 1 /\ base \in P
      BY <1>1, <1>3
    <2>2. next \in [1..m -> [P -> P]]
      <3>1. \A k \in 1..m : k + 1 \in 1..n
        BY <2>1
      <3> HIDE DEF m, n
      <3> QED BY <1>1, <3>1
    <2>3. PICK g \in [0..m -> P] : GoesBy(g, m, base, next)
      <3> HIDE DEF m, base, next
      <3> QED BY <2>1, <2>2, RecursionIn
    <2> DEFINE f == [i \in 1..n |-> g[i - 1]]
    <2>4. ASSUME NEW i \in 1..n
          PROVE  f[i] = IF i = 1 THEN seqs[i] ELSE f[i - 1] \o seqs[i]
      <3>1. CASE i = 1
        <4>1. f[i] = g[0]
          BY <3>1
        <4> HIDE DEF f, n
        <4> QED BY <2>3, <3>1, <4>1 DEF GoesBy
      <3>2. CASE i # 1
        <4> DEFINE j == i - 1
        <4>1. j \in 1..m /\ j \in 1..n /\ j - 1 \in 0..m /\ i = j + 1 /\ j \in 0..m
          BY <2>1, <3>2
        <4>2. f[i] = g[j] /\ f[j] = g[j - 1]
          <5> HIDE DEF n, m
          <5> QED BY <4>1
        <4>3. g[j] = next[j][g[j - 1]]
          <5> HIDE DEF n, m, j, next
          <5> QED BY <2>3, <4>1 DEF GoesBy
        <4>4. next[j][g[j - 1]] = g[j - 1] \o seqs[j + 1]
          <5> HIDE DEF n, m, j
          <5> QED BY <4>1
        <4> HIDE DEF f, n, next, m
        <4> QED BY <3>2, <4>1, <4>2, <4>3, <4>4
      <3> QED BY <3>1, <3>2
    <2>5. IsFlat(f)
      <3>1. f = [i \in 1..n |-> f[i]]
        BY Zenon
      <3> HIDE DEF f, n
      <3> QED BY <2>4, <3>1, Zenon
    <2>6. IsFlat(flat)
      <3> HIDE DEF f, IsFlat
      <3> QED BY <2>5, Zenon
    <2>7. \A i \in 1..n : flat[i] = IF i = 1 THEN seqs[i] ELSE flat[i - 1] \o seqs[i]
      <3> HIDE DEF flat, n
      <3> QED BY <2>6, Zenon
    <2> HIDE DEF flat
    <2> DEFINE T == {i \in 1..n : flat[i] \in P}
    <2>8. 1 \in T
      <3>1. 1 \in 1..n /\ flat[1] = seqs[1]
        BY <1>1, <1>3, <2>7
      <3> QED BY <1>1, <3>1
    <2>9. ASSUME NEW i \in 1..(n - 1), i \in T
          PROVE  i + 1 \in T
      <3>1. i + 1 \in 1..n /\ i + 1 # 1 /\ (i + 1) - 1 = i
        BY <1>1
      <3>2. flat[i + 1] = flat[i] \o seqs[i + 1]
        <4>1. flat[i + 1] = flat[(i + 1) - 1] \o seqs[i + 1]
          <5> HIDE DEF n
          <5> QED BY <2>7, <3>1, Zenon
        <4> QED BY <3>1, <4>1
      <3>3. flat[i] \in P /\ seqs[i + 1] \in P
        BY <1>1, <2>9, <3>1
      <3> HIDE DEF n
      <3> QED BY <3>1, <3>2, <3>3
    <2>10. n \in T
      <3>1. 1..n \subseteq T
        <4>1. 1 \in Nat /\ n \in Nat
          BY <1>1
        <4> HIDE DEF T, n
        <4> QED BY <2>8, <2>9, <4>1, IntervalInduction
      <3>2. n \in 1..n
        BY <1>1, <1>3
      <3> HIDE DEF T, n
      <3> QED BY <3>1, <3>2
    <2>11. FlattenSeq(seqs) = flat[n]
      BY <1>3, Zenon DEF FlattenSeq, flat
    <2> QED BY <2>10, <2>11
  <1> QED BY <1>2, <1>3

\* A character in lower case, or what it is rewritten to.
LEMMA RewrittenAreLetters == \A c \in DOMAIN Rewritten : Rewritten[c] \in Seq(Nat)
PROOF
  <1> DEFINE IsFor(r) == r.letters \in Seq(Nat)
  <1>1. \A r \in Latin1 : IsFor(r)
    <2>1. \A c : IsFor(For(<<97>>, c)) /\ IsFor(For(<<97, 101>>, c)) /\ IsFor(For(<<99>>, c))
                /\ IsFor(For(<<100>>, c)) /\ IsFor(For(<<101>>, c)) /\ IsFor(For(<<105>>, c))
                /\ IsFor(For(<<110>>, c)) /\ IsFor(For(<<111>>, c)) /\ IsFor(For(<<115, 115>>, c))
                /\ IsFor(For(<<121>>, c))
      BY DEF For
    <2> HIDE DEF IsFor
    <2> QED BY <2>1 DEF Latin1
  <1>2. \A r \in LatinExtendedA : IsFor(r)
    <2>1. \A c : IsFor(For(<<97>>, c)) /\ IsFor(For(<<99>>, c)) /\ IsFor(For(<<100>>, c))
                /\ IsFor(For(<<101>>, c)) /\ IsFor(For(<<103>>, c)) /\ IsFor(For(<<104>>, c))
                /\ IsFor(For(<<105, 106>>, c)) /\ IsFor(For(<<106>>, c)) /\ IsFor(For(<<108>>, c))
                /\ IsFor(For(<<110>>, c)) /\ IsFor(For(<<111>>, c)) /\ IsFor(For(<<115>>, c))
      BY DEF For
    <2> HIDE DEF IsFor
    <2> QED BY <2>1 DEF LatinExtendedA
  <1>3. \A r \in LatinAdditional : IsFor(r)
    <2>1. \A c : IsFor(For(<<97>>, c)) /\ IsFor(For(<<101>>, c)) /\ IsFor(For(<<105>>, c))
                /\ IsFor(For(<<111>>, c)) /\ IsFor(For(<<117>>, c)) /\ IsFor(For(<<121>>, c))
      BY DEF For
    <2> HIDE DEF IsFor
    <2> QED BY <2>1 DEF LatinAdditional
  <1>4. \A r \in Mistakes : IsFor(r)
    <2>1. \A c : IsFor(For(<<>>, c)) /\ IsFor(For(<<34>>, c)) /\ IsFor(For(<<39>>, c)) /\ IsFor(For(<<46>>, c))
      BY DEF For
    <2> HIDE DEF IsFor
    <2> QED BY <2>1 DEF Mistakes
  <1>5. \A r \in Symbols : IsFor(r)
    <2>1. \A c : IsFor(For(<<33>>, c)) /\ IsFor(For(<<>>, c)) /\ IsFor(For(<<50>>, c))
                /\ IsFor(For(<<39>>, c)) /\ IsFor(For(<<45>>, c)) /\ IsFor(For(<<46, 46, 46>>, c))
      BY DEF For
    <2> HIDE DEF IsFor
    <2> QED BY <2>1 DEF Symbols
  <1>6. \A r \in Rewriting : IsFor(r)
    BY <1>1, <1>2, <1>3, <1>4, <1>5, Zenon DEF Rewriting
  <1> SUFFICES ASSUME NEW c \in DOMAIN Rewritten
               PROVE  Rewritten[c] \in Seq(Nat)
    OBVIOUS
  <1>7. \E r \in Rewriting : c \in r.chars
    BY DEF Rewritten
  <1>8. Rewritten[c] = (CHOOSE r \in Rewriting : c \in r.chars).letters
    BY DEF Rewritten
  <1>9. (CHOOSE r \in Rewriting : c \in r.chars) \in Rewriting
    BY <1>7, Zenon
  <1> QED BY <1>6, <1>8, <1>9

\* A text in lower case is a text (utf8tolower, helper.cpp).
LEMMA LoweredWithType ==
  ASSUME NEW done \in Seq(Nat), NEW c \in Nat
  PROVE  LoweredWith(done, c) \in Seq(Nat)
PROOF
  <1>1. LowerCase(c) \in Nat
    <2>1. c % 2 \in 0..1 /\ c + 32 \in Nat /\ (c \in 256..311 \cup 330..382 => c - (c % 2) + 1 \in Nat)
      OBVIOUS
    <2> QED BY <2>1, Zenon DEF LowerCase
  <1>2. CASE Marked(done, c) # {}
    <2> DEFINE t == CHOOSE t \in Marked(done, c) : TRUE
    <2>1. t \in Marked(done, c)
      BY <1>2, Zenon
    <2>2. t \in Combined
      BY <2>1 DEF Marked
    <2>3. t[3] \in Nat
      <3> HIDE DEF t
      <3> QED BY <2>2 DEF Combined
    <2>4. Front(done) \in Seq(Nat)
      BY DEF Front
    <2> HIDE DEF t
    <2>5. Append(Front(done), t[3]) \in Seq(Nat)
      BY <2>3, <2>4
    <2> QED BY <1>2, <2>5 DEF LoweredWith, t
  <1>3. CASE Marked(done, c) = {}
    <2> DEFINE u == IF c \in DOMAIN Rewritten THEN Rewritten[c] ELSE <<LowerCase(c)>>
    <2>1. u \in Seq(Nat)
      BY <1>1, RewrittenAreLetters
    <2>2. LoweredWith(done, c) = done \o u
      BY <1>3 DEF LoweredWith
    <2> HIDE DEF u
    <2> QED BY <2>1, <2>2
  <1> QED BY <1>2, <1>3

LEMMA LoweredType ==
  ASSUME NEW text_ \in Seq(Nat)
  PROVE  Lowered(text_) \in Seq(Nat)
PROOF
  <1> DEFINE n == Len(text_)
             Q == Seq(Nat)
             base == <<>>
             next == [k \in 1..n |-> [x \in Q |-> LoweredWith(x, text_[k])]]
             IsDone(g) == g = [i \in 0..n |-> IF i = 0 THEN <<>> ELSE LoweredWith(g[i - 1], text_[i])]
             done == CHOOSE g : IsDone(g)
  <1>1. n \in Nat /\ base \in Q
    OBVIOUS
  <1>2. \A k \in 1..n, x \in Q : LoweredWith(x, text_[k]) \in Q
    <2>1. \A k \in 1..n : text_[k] \in Nat
      OBVIOUS
    <2> HIDE DEF n
    <2> QED BY <2>1, LoweredWithType
  <1>3. next \in [1..n -> [Q -> Q]]
    <2> HIDE DEF Q, n
    <2> QED BY <1>2
  <1>4. \E g : IsDone(g)
    <2>1. PICK g \in [0..n -> Q] : GoesBy(g, n, base, next)
      <3> HIDE DEF Q, next, n, base
      <3> QED BY <1>1, <1>3, RecursionIn
    <2>2. ASSUME NEW i \in 0..n
          PROVE  g[i] = IF i = 0 THEN base ELSE LoweredWith(g[i - 1], text_[i])
      <3> SUFFICES ASSUME i # 0
                   PROVE  g[i] = LoweredWith(g[i - 1], text_[i])
        BY <2>1 DEF GoesBy
      <3>1. i \in 1..n /\ i - 1 \in 0..n
        BY <1>1
      <3> HIDE DEF Q, n
      <3> QED BY <2>1, <3>1 DEF GoesBy
    <2>3. g = [i \in 0..n |-> g[i]]
      OBVIOUS
    <2> HIDE DEF n
    <2> QED BY <2>2, <2>3, Zenon
  <1>5. IsDone(done)
    BY <1>4, Zenon
  <1>6. done[n] \in Q
    <2>1. \A i \in 0..n : done[i] = IF i = 0 THEN base ELSE LoweredWith(done[i - 1], text_[i])
      <3> HIDE DEF n, done
      <3> QED BY <1>5, Zenon
    <2> HIDE DEF done, Q, next
    <2>2. done[0] \in Q /\ \A i \in 1..n : done[i - 1] \in Q => done[i] \in Q
      BY <1>1, <1>2, <2>1
    <2>3. \A k \in 0..n : done[k] \in Q
      <3> HIDE DEF n
      <3> QED BY <1>1, <2>2, StaysThere
    <2> QED BY <1>1, <2>3
  <1>7. Lowered(text_) = done[n]
    BY Zenon DEF Lowered
  <1> QED BY <1>6, <1>7

\* Words between gaps.
Reads == [words : Seq(Seq(Nat)), last : Seq(Nat)]

LEMMA EndedType ==
  ASSUME NEW r \in Reads
  PROVE  Ended(r) \in Reads
BY DEF Ended, Reads

\* What a line is split into are words (Tokenizer::input_text, tokenizer.cpp).
LEMMA SplitType ==
  ASSUME NEW line \in Seq(Nat)
  PROVE  Split(line) \in Seq(Seq(Nat))
PROOF
  <1> DEFINE n == Len(line)
             base == [words |-> <<>>, last |-> <<>>]
             After(r, c) == IF c \in Gaps THEN Ended(r) ELSE [words |-> r.words, last |-> Append(r.last, c)]
             next == [k \in 1..n |-> [x \in Reads |-> After(x, line[k])]]
             IsRead(g) == g = [i \in 0..n |-> IF i = 0 THEN [words |-> <<>>, last |-> <<>>]
                                              ELSE IF line[i] \in Gaps THEN Ended(g[i - 1])
                                              ELSE [words |-> g[i - 1].words, last |-> Append(g[i - 1].last, line[i])]]
             read == CHOOSE g : IsRead(g)
  <1>1. n \in Nat /\ base \in Reads
    BY DEF Reads
  <1>2. \A k \in 1..n, x \in Reads : After(x, line[k]) \in Reads
    <2> SUFFICES ASSUME NEW k \in 1..n, NEW x \in Reads
                 PROVE  After(x, line[k]) \in Reads
      OBVIOUS
    <2>1. Ended(x) \in Reads
      BY EndedType
    <2>2. [words |-> x.words, last |-> Append(x.last, line[k])] \in Reads
      BY DEF Reads
    <2> QED BY <2>1, <2>2
  <1>3. next \in [1..n -> [Reads -> Reads]]
    <2> HIDE DEF After, n
    <2> QED BY <1>2
  <1>4. \E g : IsRead(g)
    <2>1. PICK g \in [0..n -> Reads] : GoesBy(g, n, base, next)
      <3> HIDE DEF next, n, base
      <3> QED BY <1>1, <1>3, RecursionIn
    <2>2. ASSUME NEW i \in 0..n
          PROVE  g[i] = IF i = 0 THEN base ELSE After(g[i - 1], line[i])
      <3> HIDE DEF After, base
      <3> SUFFICES ASSUME i # 0
                   PROVE  g[i] = After(g[i - 1], line[i])
        BY <2>1 DEF GoesBy
      <3>1. i \in 1..n /\ i - 1 \in 0..n
        BY <1>1
      <3> HIDE DEF n
      <3> QED BY <2>1, <3>1 DEF GoesBy
    <2>3. g = [i \in 0..n |-> g[i]]
      OBVIOUS
    <2> HIDE DEF n
    <2> QED BY <2>2, <2>3, Zenon
  <1>5. IsRead(read)
    BY <1>4, Zenon
  <1>6. read[n] \in Reads
    <2>1. \A i \in 0..n : read[i] = IF i = 0 THEN base ELSE After(read[i - 1], line[i])
      <3> HIDE DEF n, read
      <3> QED BY <1>5, Zenon
    <2> HIDE DEF read, After, next, base
    <2>2. read[0] \in Reads /\ \A i \in 1..n : read[i - 1] \in Reads => read[i] \in Reads
      BY <1>1, <1>2, <2>1
    <2>3. \A k \in 0..n : read[k] \in Reads
      <3> HIDE DEF n
      <3> QED BY <1>1, <2>2, StaysThere
    <2> QED BY <1>1, <2>3
  <1>7. Split(line) = Ended(read[n]).words
    BY Zenon DEF Split
  <1>8. Ended(read[n]) \in Reads
    BY <1>6, EndedType
  <1> HIDE DEF read, n
  <1> QED BY <1>7, <1>8 DEF Reads

\* The words of a line are words, ...
LEMMA TokensType ==
  ASSUME NEW line \in Seq(Nat)
  PROVE  Tokens(line) \in Seq(Seq(Nat))
PROOF
  <1>1. Lowered(line) \in Seq(Nat)
    BY LoweredType
  <1>2. Within(Lowered(line), Supported) \in Seq(Nat \cap Supported)
    BY <1>1, WithinType
  <1>3. Within(Lowered(line), Supported) \in Seq(Nat)
    <2> HIDE DEF Supported
    <2> QED BY <1>2
  <1> QED BY <1>3, SplitType DEF Tokens

\* ... and so are those of sequences of sequences put together.
LEMMA FlattenWords ==
  ASSUME NEW T, NEW seqs \in Seq(Seq(T))
  PROVE  FlattenSeq(seqs) \in Seq(T)
PROOF
  <1> DEFINE P == Seq(T)
  <1>1. <<>> \in P /\ \A s, t \in P : s \o t \in P
    OBVIOUS
  <1> HIDE DEF P
  <1> QED BY <1>1, FlattenKeeps DEF P

\* The words of a text are words (Tokenizer::read_words).
LEMMA ReadWordsType ==
  ASSUME NEW txt \in Seq(Seq(Nat))
  PROVE  ReadWords(txt) \in Seq(Seq(Nat))
PROOF
  <1> DEFINE S == {line \in Range(txt) : ~IsComment(line)}
             lines == Within(txt, S)
             tokens == [i \in DOMAIN lines |-> Tokens(lines[i])]
             wds == FlattenSeq(tokens)
             W == {w \in Range(wds) : ~IsStopword(w) /\ ~(Len(w) = 1 /\ w[1] \in Punctuation)}
  <1>1. lines \in Seq(Seq(Nat))
    <2> HIDE DEF S
    <2>1. lines \in Seq(Seq(Nat) \cap S)
      BY WithinType
    <2> QED BY <2>1
  <1>2. tokens \in Seq(Seq(Seq(Nat)))
    <2> HIDE DEF lines
    <2>1. \A i \in 1..Len(lines) : Tokens(lines[i]) \in Seq(Seq(Nat))
      BY <1>1, TokensType
    <2> DEFINE U == Seq(Seq(Nat))
    <2>2. DOMAIN lines = 1..Len(lines) /\ Len(lines) \in Nat
      BY <1>1
    <2> HIDE DEF U
    <2>3. tokens \in Seq(U)
      BY <2>1, <2>2 DEF U
    <2> QED BY <2>3 DEF U
  <1>3. wds \in Seq(Seq(Nat))
    <2> DEFINE U == Seq(Nat)
    <2> HIDE DEF tokens, U
    <2> QED BY <1>2, FlattenWords DEF U
  <1>4. Within(wds, W) \in Seq(Seq(Nat))
    <2> HIDE DEF W, wds
    <2>1. Within(wds, W) \in Seq(Seq(Nat) \cap W)
      BY <1>3, WithinType
    <2> QED BY <2>1
  <1>5. ReadWords(txt) = Within(wds, W)
    BY DEF ReadWords
  <1> QED BY <1>4, <1>5

\* A function on 1..n is a sequence of its values.
LEMMA SequenceOf ==
  ASSUME NEW U, NEW n \in Nat, NEW f, f = [i \in 1..n |-> f[i]], \A i \in 1..n : f[i] \in U
  PROVE  f \in Seq(U) /\ Len(f) = n /\ DOMAIN f = 1..n
PROOF
  <1>1. f \in [1..n -> U]
    OBVIOUS
  <1>2. \A g \in [1..n -> U] : g \in Seq(U) /\ Len(g) = n /\ DOMAIN g = 1..n
    OBVIOUS
  <1> QED BY <1>1, <1>2

\* Words joined by blanks are a text.
LEMMA JoinedType ==
  ASSUME NEW ws \in Seq(Seq(Nat)), Len(ws) > 0
  PROVE  Joined(ws) \in Seq(Nat)
PROOF
  <1> DEFINE parts == [i \in DOMAIN ws |-> <<Blank>> \o ws[i]]
             U == {s \in Seq(Nat) : Len(s) > 0}
  <1>1. parts \in Seq(U)
    <2>1. \A i \in 1..Len(ws) : <<Blank>> \o ws[i] \in U
      <3> SUFFICES ASSUME NEW i \in 1..Len(ws)
                   PROVE  <<Blank>> \o ws[i] \in U
        OBVIOUS
      <3>1. ws[i] \in Seq(Nat) /\ <<Blank>> \in Seq(Nat)
        BY DEF Blank
      <3>2. \A s, t \in Seq(Nat) : s \o t \in Seq(Nat) /\ Len(s \o t) = Len(s) + Len(t)
        OBVIOUS
      <3>3. Len(<<Blank>>) = 1
        OBVIOUS
      <3> QED BY <3>1, <3>2, <3>3
    <2>2. DOMAIN ws = 1..Len(ws) /\ Len(ws) \in Nat
      OBVIOUS
    <2> DEFINE n == Len(ws)
    <2>3. n \in Nat /\ DOMAIN parts = 1..n
      BY <2>2
    <2>4. \A i \in 1..n : parts[i] \in U
      <3> SUFFICES ASSUME NEW i \in 1..n
                   PROVE  parts[i] \in U
        OBVIOUS
      <3>1. parts[i] = <<Blank>> \o ws[i]
        <4>1. i \in DOMAIN ws
          OBVIOUS
        <4> QED BY <4>1, Zenon
      <3> QED BY <2>1, <3>1
    <2>5. parts = [i \in 1..n |-> parts[i]]
      <3>1. parts = [i \in DOMAIN parts |-> parts[i]]
        BY Zenon
      <3> HIDE DEF parts, n
      <3> QED BY <2>3, <3>1
    <2> HIDE DEF U, n, parts
    <2> QED BY <2>3, <2>4, <2>5, SequenceOf
  <1>2. FlattenSeq(parts) \in U
    <2>1. \A s, t \in U : s \o t \in U
      OBVIOUS
    <2>2. parts # <<>>
      <3>1. 1 \in DOMAIN parts
        OBVIOUS
      <3> HIDE DEF parts
      <3> QED BY <3>1
    <2> HIDE DEF parts, U
    <2> QED BY <1>1, <2>1, <2>2, FlattenKeeps
  <1>3. Joined(ws) = Tail(FlattenSeq(parts))
    BY DEF Joined
  <1> DEFINE f == FlattenSeq(parts)
  <1>4. f \in Seq(Nat) /\ f # <<>>
    BY <1>2
  <1> HIDE DEF f
  <1>5. Tail(f) \in Seq(Nat)
    BY <1>4
  <1> QED BY <1>3, <1>5 DEF f

\* The grammatical forms of a word are words.
LEMMA FormsType ==
  ASSUME NEW w \in Seq(Nat)
  PROVE  Forms(w) \subseteq Seq(Nat)
PROOF
  <1> DEFINE n == Len(w)
             a == SubSeq(w, 1, n - 1)
             b == SubSeq(w, 1, n - 2)
  <1>1. a \in Seq(Nat) /\ b \in Seq(Nat)
    OBVIOUS
  <1>2. Forms(w) \subseteq {w, a, b}
    <2> HIDE DEF a, b
    <2>1. \A f \in Forms(w) : f = w \/ f = a \/ f = b
      BY Zenon DEF Forms, a, b
    <2> QED BY <2>1
  <1> HIDE DEF a, b
  <1> QED BY <1>1, <1>2

\* What is looked up are texts.
LEMMA CombinationsType ==
  ASSUME NEW ws \in Seq(Seq(Nat)), NEW maxWords \in Nat, NEW minWords \in Nat
  PROVE  Combinations(ws, maxWords, minWords) \subseteq Seq(Nat)
PROOF
  <1> DEFINE W == {w \in Range(ws) : ~IsSkipped(w)}
             list == Within(ws, W)
             n == Len(list)
             lo == Max({1, minWords})
             hi == Max({1, Min({maxWords, n})})
             From(i, s) == {Joined(Append(SubSeq(list, i, i + s - 2), form)) :
                       form \in {f \in Forms(list[i + s - 1]) : s > 1 \/ f \notin Blacklisted}}
  <1>1. list \in Seq(Seq(Nat)) /\ n \in Nat
    <2> HIDE DEF W
    <2>1. list \in Seq(Seq(Nat) \cap W)
      BY WithinType
    <2>2. list \in Seq(Seq(Nat))
      BY <2>1
    <2> HIDE DEF list
    <2> QED BY <2>2
  <1>2. lo \in Int /\ hi \in Int /\ lo >= 1
    <2>1. \A u, v \in Int : Max({u, v}) \in Int /\ Min({u, v}) \in Int
      BY OfTwo
    <2>2. maxWords \in Int /\ minWords \in Int /\ n \in Int
      BY <1>1
    <2>3. \E x \in {1, minWords} : \A y \in {1, minWords} : x >= y
      OBVIOUS
    <2>4. \A y \in {1, minWords} : Max({1, minWords}) >= y
      BY <2>3, Zenon DEF Max
    <2> DEFINE m == Min({maxWords, n})
    <2>5. m \in Int /\ lo \in Int
      <3> HIDE DEF n
      <3>1. m \in Int
        BY <2>1, <2>2
      <3>2. 1 \in Int
        OBVIOUS
      <3>3. lo \in Int
        BY <2>1, <2>2, <3>2, Zenon
      <3> QED BY <3>1, <3>3
    <2>6. hi \in Int
      <3>1. hi = Max({1, m})
        OBVIOUS
      <3> HIDE DEF m, hi
      <3> QED BY <2>1, <2>5, <3>1
    <2>7. lo >= 1
      BY <2>4
    <2> HIDE DEF lo, hi
    <2> QED BY <2>5, <2>6, <2>7
  <1>3. ASSUME NEW s \in lo..hi, NEW i \in 1..(n - s + 1), NEW c \in From(i, s)
        PROVE  c \in Seq(Nat)
    <2> HIDE DEF lo, hi, list
    <2>1. s \in Int /\ s >= 1 /\ i \in Nat /\ i + s - 1 \in 1..n
      BY <1>1, <1>2
    <2>2. list[i + s - 1] \in Seq(Nat)
      BY <1>1, <2>1
    <2>3. PICK form \in Forms(list[i + s - 1]) : c = Joined(Append(SubSeq(list, i, i + s - 2), form))
      BY <1>3
    <2>4. form \in Seq(Nat)
      BY <2>2, <2>3, FormsType
    <2> DEFINE U == Seq(Nat)
    <2>5. SubSeq(list, i, i + s - 2) \in Seq(U)
      <3>1. list \in Seq(U)
        BY <1>1
      <3>2. i + s - 2 <= Len(list) /\ i + s - 2 \in Int /\ i \in Nat /\ i >= 1
        BY <1>1, <2>1
      <3> HIDE DEF U
      <3> QED BY <3>1, <3>2
    <2>6. Append(SubSeq(list, i, i + s - 2), form) \in Seq(U)
      <3> HIDE DEF U
      <3> QED BY <2>4, <2>5 DEF U
    <2>7. Len(Append(SubSeq(list, i, i + s - 2), form)) > 0
      <3> DEFINE u == SubSeq(list, i, i + s - 2)
      <3> HIDE DEF U, u
      <3>1. u \in Seq(U)
        BY <2>5 DEF u
      <3>2. Len(Append(u, form)) > 0
        BY <3>1
      <3> QED BY <3>2 DEF u
    <2> QED BY <2>3, <2>6, <2>7, JoinedType
  <1>4. Combinations(ws, maxWords, minWords) = UNION {UNION {From(i, s) : i \in 1..(n - s + 1)} : s \in lo..hi}
    BY Zenon DEF Combinations
  <1>5. \A c \in Combinations(ws, maxWords, minWords) : \E s \in lo..hi : \E i \in 1..(n - s + 1) : c \in From(i, s)
    <2> HIDE DEF lo, hi, n, From
    <2> QED BY <1>4
  <1> HIDE DEF lo, hi, n, From
  <1> QED BY <1>3, <1>5

-----------------------------------------------------------------------------
(* Qualities.                                                              *)

\* The length of a text is a sum of the lengths of its characters.
LEMMA ByteLengthType ==
  ASSUME NEW txt \in Seq(Nat)
  PROVE  ByteLength(txt) \in Nat
PROOF
  <1> DEFINE f == [i \in DOMAIN txt |-> Bytes(txt[i])]
             S == DOMAIN txt
  <1>1. S = 1..Len(txt) /\ Len(txt) \in Nat
    OBVIOUS
  <1>2. IsFiniteSet(S) /\ Cardinality(S) \in Nat
    <2>1. IsFiniteSet(1..Len(txt))
      <3> DEFINE n == Len(txt)
      <3>1. 1 \in Int /\ n \in Int
        BY <1>1
      <3> HIDE DEF n
      <3> QED BY <3>1, FS_Interval
    <2> HIDE DEF S
    <2> QED BY <1>1, <2>1, FS_CardinalityType
  <1>3. \A i \in S : f[i] \in 0..4
    BY DEF Bytes
  <1>4. ByteLength(txt) = SumFunctionOnSet(f, S)
    <2>1. DOMAIN f = S
      OBVIOUS
    <2> QED BY <2>1, Zenon DEF ByteLength, SumFunction
  <1>5. SumFunctionOnSet(f, S) \in 0..(4 * Cardinality(S))
    <2> HIDE DEF f, S
    <2> QED BY <1>2, <1>3, SumIsNumber
  <1> DEFINE c == Cardinality(S)
             x == SumFunctionOnSet(f, S)
  <1>6. c \in Nat /\ x \in 0..(4 * c)
    BY <1>2, <1>5
  <1> HIDE DEF c, x
  <1>7. x \in Nat
    BY <1>6
  <1> QED BY <1>4, <1>7 DEF x

\* How far back and how long a combination stands in a name is a number: the
\* length of the name, that is divided by, is not 0 where the combination occurs.
LEMMA LateQualityType ==
  ASSUME NEW a \in Seq(Nat), NEW b \in Seq(Nat)
  PROVE  LateQuality(a, b) \in Nat
PROOF
  <1>1. CASE ~Occurs(b, a)
    BY <1>1 DEF LateQuality
  <1>2. CASE Occurs(b, a)
    <2> DEFINE S == {i \in 0..(Len(a) - Len(b)) : SubSeq(a, i + 1, i + Len(b)) = b}
               m == Min(S)
               u == SubSeq(a, 1, m)
               v == SubSeq(a, m + 1, Len(a))
    <2>1. S # {} /\ S \in SUBSET Nat
      <3> S \subseteq 0..(Len(a) - Len(b))
        OBVIOUS
      <3>1. S \in SUBSET Nat
        <4> HIDE DEF S
        <4> QED OBVIOUS
      <3>2. S # {}
        BY <1>2 DEF Occurs
      <3> QED BY <3>1, <3>2
    <2>2. m \in S
      <3> HIDE DEF S
      <3> QED BY <2>1, MinIsIn
    <2>3. m \in Nat /\ m <= Len(a)
      <3> HIDE DEF m
      <3>1. m \in 0..(Len(a) - Len(b)) /\ Len(a) \in Nat /\ Len(b) \in Nat
        BY <2>2
      <3> QED BY <3>1
    <2>4. u \in Seq(Nat) /\ v \in Seq(Nat)
      <3> HIDE DEF m
      <3> QED BY <2>3
    <2> DEFINE x == ByteLength(u)
               y == ByteLength(v)
    <2>5. x \in Nat /\ y \in Nat
      <3> HIDE DEF u, v
      <3> QED BY <2>4, ByteLengthType
    <2>6. LateQuality(a, b) = (x * 1000) \div (y + 1)
      BY <1>2, SMTT(30) DEF LateQuality
    <2> HIDE DEF x, y
    <2>7. (x * 1000) \div (y + 1) \in Nat
      BY <2>5
    <2> QED BY <2>6, <2>7
  <1> QED BY <1>1, <1>2

-----------------------------------------------------------------------------
(* Positions and distances.                                                *)

\* Finitely many numbers have a bound.
LEMMA BoundExists ==
  ASSUME NEW S, IsFiniteSet(S), NEW f, \A x \in S : f[x] \in Nat
  PROVE  \E b \in Nat : \A x \in S : f[x] <= b
PROOF
  <1> DEFINE Bounded(s) == \E b \in Nat : \A x \in s : f[x] <= b
             T == {k \in Nat : \A s \in SUBSET S : Cardinality(s) = k => Bounded(s)}
  <1>1. 0 \in T
    <2> SUFFICES ASSUME NEW s \in SUBSET S, Cardinality(s) = 0
                 PROVE  Bounded(s)
      OBVIOUS
    <2>1. s = {} <=> Cardinality(s) = 0
      BY OneLess
    <2>2. s = {}
      BY <2>1
    <2>3. 0 \in Nat /\ \A x \in s : f[x] <= 0
      BY <2>2
    <2> QED BY <2>3
  <1>2. ASSUME NEW k \in Nat, k \in T
        PROVE  k + 1 \in T
    <2>1. ASSUME NEW s \in SUBSET S, Cardinality(s) = k + 1
          PROVE  Bounded(s)
      <3> DEFINE r == s \ {OneOf(s)}
                 y == f[OneOf(s)]
      <3>1. s # {} /\ r \in SUBSET S /\ Cardinality(r) = k /\ OneOf(s) \in S
        <4>1. s # {}
          <5>1. s = {} <=> Cardinality(s) = 0
            BY OneLess
          <5> QED BY <2>1, <5>1
        <4>2. r \in SUBSET S /\ Cardinality(s) = Cardinality(r) + 1 /\ Cardinality(r) \in Nat /\ OneOf(s) \in S
          BY <4>1, OneLess
        <4> HIDE DEF r
        <4> QED BY <2>1, <4>1, <4>2
      <3>2. PICK b \in Nat : \A x \in r : f[x] <= b
        <4> HIDE DEF r
        <4> QED BY <1>2, <3>1
      <3>3. y \in Nat
        BY <3>1
      <3> DEFINE c == b + y
      <3>4. c \in Nat /\ b <= c /\ y <= c
        BY <3>3
      <3>5. \A x \in s : f[x] <= c
        <4> SUFFICES ASSUME NEW x \in s
                     PROVE  f[x] <= c
          OBVIOUS
        <4>1. f[x] \in Nat
          OBVIOUS
        <4>2. CASE x = OneOf(s)
          <5>1. f[x] = y
            BY <4>2
          <5> HIDE DEF c, y
          <5> QED BY <3>4, <5>1
        <4>3. CASE x # OneOf(s)
          <5>1. f[x] <= b
            BY <3>2, <4>3
          <5> HIDE DEF c, y
          <5> QED BY <3>4, <4>1, <5>1
        <4> QED BY <4>2, <4>3
      <3> HIDE DEF c
      <3> QED BY <3>4, <3>5
    <2> QED BY <2>1
  <1>3. Nat \subseteq T
    <2> HIDE DEF T
    <2> QED BY <1>1, <1>2, NatInductionInSet
  <1>4. Cardinality(S) \in T
    <2>1. Cardinality(S) \in Nat
      BY FS_CardinalityType
    <2> HIDE DEF T
    <2> QED BY <1>3, <2>1
  <1> HIDE DEF Bounded
  <1>5. Bounded(S)
    BY <1>4
  <1> QED BY <1>5 DEF Bounded

\* Of all positions there is a last one, and distances have logarithms.
IsFarthest(b) ==
  /\ b \in Nat /\ \A n \in DOMAIN Position : Position[n] \in 0..b
  /\ \A d \in 1..b : d \in DOMAIN Log10 /\ Log10[d] \in Int
Farthest == CHOOSE b : IsFarthest(b)

LEMMA FarthestIsThere == IsFarthest(Farthest)
PROOF
  <1> DEFINE S == {Position[n] : n \in DOMAIN Position}
  <1>1. IsFiniteSet(DOMAIN Position) /\ \A n \in DOMAIN Position : Position[n] \in Nat
    BY DistanceAssumption
  <1>2. \E b : IsFarthest(b)
    <2>1. CASE DOMAIN Position = {}
      <3>1. IsFarthest(0)
        BY <2>1 DEF IsFarthest
      <3> QED BY <3>1
    <2>2. CASE DOMAIN Position # {}
      <3>1. PICK c \in Nat : \A n \in DOMAIN Position : Position[n] <= c
        BY <1>1, BoundExists
      <3>2. S \in SUBSET Nat /\ S # {} /\ \A x \in S : x <= c
        BY <1>1, <2>2, <3>1
      <3>3. PICK b \in S : \A x \in S : x <= b
        <4> HIDE DEF S
        <4> QED BY <3>2, GreatestExists
      <3>4. PICK n \in DOMAIN Position : b = Position[n]
        BY <3>3
      <3>5. b \in Nat /\ \A m \in DOMAIN Position : Position[m] \in 0..b
        BY <1>1, <3>2, <3>3
      <3>6. \A d \in 1..b : d \in DOMAIN Log10 /\ Log10[d] \in Int
        BY <3>4, DistanceAssumption
      <3>7. IsFarthest(b)
        BY <3>5, <3>6 DEF IsFarthest
      <3> QED BY <3>7
    <2> QED BY <2>1, <2>2
  <1> QED BY <1>2, Zenon DEF Farthest

\* Two nodes are not further apart than the last of all positions.
LEMMA DistanceType ==
  ASSUME NEW b \in Nat, NEW x \in 0..b, NEW y \in 0..b
  PROVE  Distance(x, y) \in 0..b
BY DEF Distance

\* The centre of what has one is not beyond the last position.
LEMMA CentreType ==
  ASSUME NEW e, HasCentre(e)
  PROVE  Centre(e) \in 0..Farthest /\ Centre(e) \in Nat
PROOF
  <1> DEFINE S == Placed(e)
  <1>1. S # {} /\ S \subseteq DOMAIN Position
    BY DEF HasCentre, Placed
  <1>2. IsFiniteSet(S)
    BY <1>1, DistanceAssumption, FS_Subset
  <1>3. Farthest \in Nat /\ \A x \in S : Position[x] \in 0..Farthest
    BY <1>1, FarthestIsThere DEF IsFarthest
  <1>4. Centre(e) \in 0..Farthest
    <2>1. Centre(e) = SumFunctionOnSet(Position, S) \div Cardinality(S)
      BY Zenon DEF Centre
    <2> HIDE DEF S
    <2> QED BY <1>1, <1>2, <1>3, <2>1, MeanIsNumber
  <1> QED BY <1>3, <1>4

\* The quality of a road is computed with a logarithm of its distance, which the
\* model takes from a table: it covers all distances between nodes.
LEMMA RoadQualityType ==
  ASSUME NEW d \in 0..Farthest
  PROVE  RoadQuality(d) \in Int
PROOF
  <1>1. CASE d = 0
    BY <1>1 DEF RoadQuality
  <1>2. CASE d # 0
    <2>1. Log10[d] \in Int
      <3>1. Farthest \in Nat /\ d \in 1..Farthest
        BY <1>2, FarthestIsThere DEF IsFarthest
      <3> QED BY <3>1, FarthestIsThere DEF IsFarthest
    <2> DEFINE x == 1000 - (Log10[d] - 3000) \div 2
    <2>2. x \in Int
      BY <2>1
    <2>3. RoadQuality(d) = Max({0, Min({1000, x})})
      BY <1>2 DEF RoadQuality
    <2> HIDE DEF x
    <2>4. \A u, v \in Int : Min({u, v}) \in Int /\ Max({u, v}) \in Int
      BY OfTwo
    <2>5. 1000 \in Int /\ 0 \in Int
      OBVIOUS
    <2>6. Max({0, Min({1000, x})}) \in Int
      <3>1. \A a, b, z \in Int : Max({a, Min({b, z})}) \in Int
        BY <2>4, Zenon
      <3> DEFINE a == 0
                 b == 1000
      <3>2. a \in Int /\ b \in Int
        OBVIOUS
      <3> HIDE DEF a, b
      <3>3. Max({a, Min({b, x})}) \in Int
        BY <2>2, <3>1, <3>2, Zenon
      <3> QED BY <3>3 DEF a, b
    <2> QED BY <2>3, <2>6
  <1> QED BY <1>1, <1>2

-----------------------------------------------------------------------------
(* What is found.                                                          *)

\* What the text tree returns is a list of elements.
LEMMA RetrieveType ==
  ASSUME TreeInv, NEW phrase
  PROVE  Retrieve(phrase) \in Seq(Elements)
BY DEF TreeInv, GoodTree, IsTree, Retrieve

\* The first pair of a place and a node of a road among the closest ones.
LEMMA RoadMatchType ==
  ASSUME TreeInv, NEW c, NEW road \in Roads, PlacesCalled(c) # {}, NodesKnown(road) # {}
  PROVE  LET m == RoadMatch(c, road)
         IN  m.combined = c /\ m.node \in DOMAIN Position /\ m.distance \in Nat /\ m.quality \in Int
PROOF
  <1> DEFINE far == [x \in PlacesCalled(c) \X NodesKnown(road) |->
                       Distance(Position[Retrieve(c)[x[1]].id], Position[road.nodes[x[2]]])]
             L == Least(far)
             I == {x[1] : x \in L}
             i == Min(I)
             K == {x[2] : x \in {x \in L : x[1] = i}}
             k == Min(K)
  <1>1. PlacesCalled(c) \subseteq Nat /\ \A j \in PlacesCalled(c) : Retrieve(c)[j].id \in DOMAIN Position
    <2>1. DOMAIN Retrieve(c) = 1..Len(Retrieve(c))
      BY RetrieveType
    <2> QED BY <2>1 DEF PlacesCalled
  <1>2. NodesKnown(road) \subseteq Nat /\ \A j \in NodesKnown(road) : road.nodes[j] \in DOMAIN Position
    <2>1. road.nodes \in Seq(Nat)
      BY DistanceAssumption
    <2>2. DOMAIN road.nodes = 1..Len(road.nodes)
      BY <2>1
    <2> QED BY <2>2 DEF NodesKnown
  <1>3. \A x \in DOMAIN far : far[x] \in 0..Farthest /\ far[x] \in Nat
    <2>1. Farthest \in Nat /\ \A n \in DOMAIN Position : Position[n] \in 0..Farthest
      BY FarthestIsThere DEF IsFarthest
    <2>2. ASSUME NEW j \in PlacesCalled(c), NEW n \in NodesKnown(road)
          PROVE  Distance(Position[Retrieve(c)[j].id], Position[road.nodes[n]]) \in 0..Farthest
      BY <1>1, <1>2, <2>1, DistanceType
    <2>3. \A x \in PlacesCalled(c) \X NodesKnown(road) : far[x] \in 0..Farthest
      BY <2>2
    <2>4. DOMAIN far = PlacesCalled(c) \X NodesKnown(road)
      BY Zenon
    <2>5. 0..Farthest \subseteq Nat
      BY <2>1
    <2> HIDE DEF far
    <2> QED BY <2>3, <2>4, <2>5
  <1>4. DOMAIN far = PlacesCalled(c) \X NodesKnown(road) /\ DOMAIN far # {}
    <2>1. DOMAIN far = PlacesCalled(c) \X NodesKnown(road)
      BY Zenon
    <2>2. PICK u \in PlacesCalled(c), v \in NodesKnown(road) : TRUE
      OBVIOUS
    <2>3. <<u, v>> \in PlacesCalled(c) \X NodesKnown(road)
      BY <2>2
    <2> HIDE DEF far
    <2> QED BY <2>1, <2>3
  <1>5. L # {} /\ L \subseteq DOMAIN far
    <2> HIDE DEF far
    <2> QED BY <1>3, <1>4, LeastIsSomewhere
  <1>6. i \in I
    <2>1. I # {} /\ I \in SUBSET Nat
      <3> HIDE DEF far, L
      <3> QED BY <1>1, <1>4, <1>5
    <2> HIDE DEF I
    <2> QED BY <2>1, MinIsIn
  <1>7. k \in K
    <2>1. K # {} /\ K \in SUBSET Nat
      <3> HIDE DEF far, L, i
      <3> QED BY <1>2, <1>4, <1>5, <1>6
    <2> HIDE DEF K
    <2> QED BY <2>1, MinIsIn
  <1>8. <<i, k>> \in DOMAIN far
    <2> HIDE DEF far, L, i, k
    <2> QED BY <1>4, <1>5, <1>7
  <1>9. k \in NodesKnown(road) /\ far[<<i, k>>] \in 0..Farthest /\ far[<<i, k>>] \in Nat
    <2> HIDE DEF far, i, k
    <2> QED BY <1>3, <1>4, <1>8
  <1>10. RoadMatch(c, road) =
           [combined |-> c, node |-> road.nodes[k], place |-> Retrieve(c)[i].id,
            distance |-> far[<<i, k>>], quality |-> RoadQuality(far[<<i, k>>])]
    BY Zenon DEF RoadMatch
  <1> HIDE DEF far, i, k
  <1> QED BY <1>2, <1>9, <1>10, RoadQualityType

-----------------------------------------------------------------------------
(* What the searches find has a place and a quality.                       *)

IsResult(r) == r.at \in Nat /\ r.quality \in Int /\ r.elements # <<>>

\* A result that is made of a position and a quality has a position and a quality.
LEMMA ResultType ==
  ASSUME NEW by, NEW at \in Nat, NEW quality \in Int, NEW via, NEW e
  PROVE  IsResult(Result(by, at, quality, <<e>>, via)) /\ \A f : IsResult(Result(by, at, quality, <<f, e>>, via))
PROOF
  <1>1. <<e>> # <<>> /\ \A f : <<f, e>> # <<>>
    OBVIOUS
  <1> QED BY <1>1, Zenon DEF IsResult, Result

\* A node that has a position has a number for it.
LEMMA PositionType ==
  ASSUME NEW n \in DOMAIN Position
  PROVE  Position[n] \in Nat
BY DistanceAssumption

\* Roads.
LEMMA RoadsAreGood ==
  ASSUME TreeInv, NEW m \in EvaluateRoads(combos, words)
  PROVE  m.node \in DOMAIN Position /\ m.quality \in Int
PROOF
  <1>1. PICK x \in combos \X IdentifyRoads(words) :
               /\ PlacesCalled(x[1]) # {} /\ NodesKnown(x[2]) # {} /\ m = RoadMatch(x[1], x[2])
    BY DEF EvaluateRoads
  <1>2. x[2] \in Roads
    BY <1>1 DEF IdentifyRoads
  <1> QED BY <1>1, <1>2, RoadMatchType

\* Crossings: the windows have sizes, and the loops reach them in some order.
LEMMA WindowsType ==
  ASSUME NEW n \in Nat, NEW w \in Windows(n)
  PROVE  Turn(w, n) \in Nat /\ w[2] * w[2] + w[3] * w[3] \in 1..18
PROOF
  <1>1. w \in (0..5) \X (1..3) \X (1..3) \X (1..n)
    BY DEF Windows, MaxBetween, MaxWords
  <1>2. w[1] \in 0..5 /\ w[2] \in 1..3 /\ w[3] \in 1..3 /\ w[4] \in 1..n
    BY <1>1
  <1> DEFINE a == w[1]
             b == w[2]
             c == w[3]
             d == w[4]
  <1> HIDE DEF a, b, c, d
  <1>3. a \in 0..5 /\ b \in 1..3 /\ c \in 1..3 /\ d \in 1..n
    BY <1>2 DEF a, b, c, d
  <1>4. b * b + c * c \in 1..18
    <2>1. b \in {1, 2, 3} /\ c \in {1, 2, 3}
      BY <1>3
    <2>2. b * b \in {1, 4, 9} /\ c * c \in {1, 4, 9}
      <3>1. \A u \in {1, 2, 3} : u * u \in {1, 4, 9}
        OBVIOUS
      <3> QED BY <2>1, <3>1
    <2> DEFINE x == b * b
               y == c * c
    <2> HIDE DEF x, y
    <2>3. x \in {1, 4, 9} /\ y \in {1, 4, 9}
      BY <2>2 DEF x, y
    <2>4. x + y \in 1..18
      BY <2>3
    <2> QED BY <2>4 DEF x, y
  <1>5. ((a * 4 + b) * 4 + c) * (n + 1) + d \in Nat
    <2> DEFINE e == (a * 4 + b) * 4 + c
    <2>1. e \in Nat
      BY <1>3
    <2> HIDE DEF e
    <2>2. e * (n + 1) \in Nat
      BY <2>1
    <2> DEFINE f == e * (n + 1)
    <2> HIDE DEF f
    <2>3. f \in Nat
      BY <2>2 DEF f
    <2>4. f + d \in Nat
      BY <1>3, <2>3
    <2> QED BY <2>4 DEF f, e
  <1>6. Turn(w, n) = ((a * 4 + b) * 4 + c) * (n + 1) + d
    <2>1. MaxWords + 1 = 4
      BY DEF MaxWords
    <2> QED BY <2>1, Zenon DEF Turn, a, b, c, d
  <1> QED BY <1>4, <1>5, <1>6 DEF b, c

\* A candidate is a pair of windows of at most three words each, reached at a
\* turn of its own.
LEMMA CandidatesType ==
  ASSUME NEW ws, Len(ws) \in Nat, NEW order, NEW c \in Candidates(ws, order)
  PROVE  c.turn \in Nat /\ c.size \in 1..18
PROOF
  <1> DEFINE LastOf(ids) == order[Max({i \in DOMAIN order : order[i] \in ids})]
             Found(w) == {[at |-> LastOf(Shared(pair)), names |-> pair, size |-> w[2] * w[2] + w[3] * w[3],
                    turn |-> Turn(w, Len(ws))] : pair \in {pair \in PairsOf(ws, w) : Shared(pair) # {}}}
  <1>1. c \in UNION {Found(w) : w \in Windows(Len(ws))}
    BY Zenon DEF Candidates
  <1>2. PICK w \in Windows(Len(ws)) : c \in Found(w)
    <2> HIDE DEF Found
    <2> QED BY <1>1
  <1>3. c.size = w[2] * w[2] + w[3] * w[3] /\ c.turn = Turn(w, Len(ws))
    <2> HIDE DEF LastOf
    <2> QED BY <1>2
  <1>4. Turn(w, Len(ws)) \in Nat /\ w[2] * w[2] + w[3] * w[3] \in 1..18
    BY WindowsType
  <1> QED BY <1>3, <1>4, Zenon

\* The first pair that shares a node is one of them.
LEMMA FirstIsFound ==
  ASSUME NEW found, \A c \in found : c.turn \in Nat, NEW c \in found
  PROVE  FirstAt(found, c.at) \in found /\ FirstAt(found, c.at).at = c.at
PROOF
  <1> DEFINE S == {d.turn : d \in {d \in found : d.at = c.at}}
  <1>1. S \in SUBSET Nat /\ S # {}
    OBVIOUS
  <1>2. PICK t \in S : \A u \in S : t <= u
    <2> HIDE DEF S
    <2> QED BY <1>1, LeastExists
  <1>3. PICK b \in found : b.at = c.at /\ b.turn = t
    OBVIOUS
  <1>4. \A d \in found : d.at = c.at => b.turn <= d.turn
    BY <1>2, <1>3
  <1>5. \E b1 \in found : b1.at = c.at /\ \A d \in found : d.at = c.at => b1.turn <= d.turn
    BY <1>3, <1>4
  <1> QED BY <1>5, Zenon DEF FirstAt

\* The crossings are the first candidates at their nodes.
LEMMA CrossingsType ==
  ASSUME NEW ws, Len(ws) \in Nat, NEW order, NEW m \in IdentifyCrossingRoads(ws, order)
  PROVE  m \in Candidates(ws, order) /\ m.size \in 1..18 /\ m = FirstAt(Candidates(ws, order), m.at)
PROOF
  <1>1. PICK c \in Candidates(ws, order) : m = FirstAt(Candidates(ws, order), c.at)
    BY DEF IdentifyCrossingRoads
  <1>2. \A d \in Candidates(ws, order) : d.turn \in Nat /\ d.size \in 1..18
    BY CandidatesType
  <1>3. m \in Candidates(ws, order) /\ m.at = c.at
    BY <1>1, <1>2, FirstIsFound
  <1> QED BY <1>1, <1>2, <1>3

\* The sizes of the crossings have a greatest one, not 0, to divide by.
LEMMA CrossingQuality ==
  ASSUME NEW ws, Len(ws) \in Nat, NEW order, NEW m \in IdentifyCrossingRoads(ws, order)
  PROVE  (800 * m.size) \div Max({o.size : o \in IdentifyCrossingRoads(ws, order)}) \in Int
PROOF
  <1> DEFINE S == {o.size : o \in IdentifyCrossingRoads(ws, order)}
  <1>1. S # {} /\ m.size \in S
    OBVIOUS
  <1>2. S \subseteq 1..18
    BY CrossingsType
  <1>3. Max(S) \in S
    <2>1. S \in SUBSET Nat /\ \A n \in S : n <= 18
      <3> HIDE DEF S
      <3>1. 1..18 \subseteq Nat /\ \A n \in 1..18 : n <= 18
        OBVIOUS
      <3> QED BY <1>2, <3>1
    <2>2. 18 \in Nat
      OBVIOUS
    <2> HIDE DEF S
    <2> QED BY <1>1, <2>1, <2>2, MaxIsIn
  <1> DEFINE x == m.size
             y == Max(S)
  <1>4. x \in 1..18 /\ y \in 1..18
    <2> HIDE DEF S
    <2> QED BY <1>1, <1>2, <1>3
  <1> HIDE DEF x, y, S
  <1>5. (800 * x) \div y \in Int
    BY <1>4
  <1> QED BY <1>5 DEF x, y, S

-----------------------------------------------------------------------------
(* Hits.                                                                   *)
\* A hit is an element that the text tree has for a combination.
LEMMA HitsType ==
  ASSUME TreeInv, NEW cs, NEW h \in Hits(cs)
  PROVE  h = <<h[1], h[2]>> /\ h[1] \in cs /\ h[2] \in DOMAIN Retrieve(h[1]) /\ Hit(h) \in Elements
PROOF
  <1>1. PICK c \in cs : h \in {c} \X DOMAIN Retrieve(c)
    BY DEF Hits
  <1>2. h = <<h[1], h[2]>> /\ h[1] = c /\ h[2] \in DOMAIN Retrieve(c)
    BY <1>1
  <1>3. Retrieve(c)[h[2]] \in Elements
    <2>1. Retrieve(c) \in Seq(Elements)
      BY RetrieveType
    <2> QED BY <1>2, <2>1
  <1> QED BY <1>1, <1>2, <1>3 DEF Hit

LEMMA TypeQualityType == \A e : TypeQuality(e) \in Nat
BY DEF TypeQuality

\* Regions.
LEMMA TestedHaveCentres ==
  ASSUME NEW hits, NEW i \in Tested(hits)
  PROVE  i \in DOMAIN hits /\ HasCentre(hits[i])
BY Zenon DEF Tested

\* The quality of a place in a region.
LEMMA RegionQualityType ==
  ASSUME NEW h, NEW region, h[1] \in Seq(Nat), region.name \in Seq(Nat), region.level \in Int
  PROVE  RegionQuality(h, region) \in Int
PROOF
  <1> DEFINE l == LateQuality(h[1], region.name)
             f == IF Hit(h).rwt \in PlaceLarge..PlaceSmall THEN 10 ELSE 9
             v == region.level
             k == Max({2, Min({9, v})})
  <1>1. l \in Nat
    BY LateQualityType
  <1>2. f \in Nat
    OBVIOUS
  <1>3. k \in Int
    <2>1. \A a, b \in Int : Min({a, b}) \in Int /\ Max({a, b}) \in Int
      BY OfTwo
    <2>2. \A a, b, z \in Int : Max({a, Min({b, z})}) \in Int
      BY <2>1, Zenon
    <2> DEFINE a == 2
               b == 9
    <2>3. a \in Int /\ b \in Int /\ v \in Int
      OBVIOUS
    <2> HIDE DEF a, b, v
    <2>4. Max({a, Min({b, v})}) \in Int
      BY <2>2, <2>3, Zenon
    <2> QED BY <2>4 DEF a, b
  <1>4. RegionQuality(h, region) = (l * f * (k + 18)) \div 270
    BY Zenon DEF RegionQuality
  <1> HIDE DEF l, f, k
  <1>5. (l * f * (k + 18)) \div 270 \in Int
    <2>1. l * f * (k + 18) \in Int
      BY <1>1, <1>2, <1>3
    <2> DEFINE x == l * f * (k + 18)
    <2> HIDE DEF x
    <2>2. x \in Int
      BY <2>1 DEF x
    <2>3. x \div 270 \in Int
      BY <2>2
    <2> QED BY <2>3 DEF x
  <1> QED BY <1>4, <1>5

\* What is taken for a region is a relation that has one, found by its name.
LEMMA IdentifiedRegions ==
  ASSUME NEW cs \in SUBSET Seq(Nat), NEW g \in IdentifyRegions(cs)
  PROVE  g.name \in Seq(Nat) /\ g.level \in Int
PROOF
  <1> DEFINE Finder(r) == CHOOSE c \in cs : r \in RegionFound(c)
  <1>1. PICK r \in UNION {RegionFound(c) : c \in cs} : g = [relation |-> r.relation, name |-> Finder(r), level |-> r.level]
    BY DEF IdentifyRegions
  <1>2. PICK c \in cs : r \in RegionFound(c)
    BY <1>1
  <1>3. Finder(r) \in cs
    BY <1>2, Zenon
  <1>4. r \in Regions
    BY <1>2, Zenon DEF RegionFound
  <1>5. r.level \in Int
    BY <1>4, DistanceAssumption
  <1> HIDE DEF Finder
  <1>6. g.name = Finder(r) /\ g.level = r.level
    BY <1>1
  <1> QED BY <1>3, <1>5, <1>6

\* Qualities are made relative to the greatest one.
LEMMA QualityAmongType ==
  ASSUME NEW matches, NEW m, NEW quality \in Int
  PROVE  QualityAmong(matches, m, quality) \in Int
BY WorldAssumption DEF QualityAmong

LEMMA RegionsAreGood ==
  ASSUME TreeInv, combos \subseteq Seq(Nat), NEW m \in EvaluateRegions(combos, IdentifyRegions(combos))
  PROVE  HasCentre(m.element) /\ m.quality \in Int
PROOF
  <1> DEFINE regions == IdentifyRegions(combos)
             matches == {n \in Hits(combos) \X regions :
                    n[1][2] \in Tested(Retrieve(n[1][1])) /\ n[2] \in RegionsAround(Hit(n[1]), regions)}
  <1>1. PICK n \in matches : m = [combined |-> n[1][1], element |-> Hit(n[1]), region |-> n[2],
                                  quality |-> QualityAmong(matches, n, RegionQuality(n[1], n[2]))]
    BY Zenon DEF EvaluateRegions
  <1>2. n[1] \in Hits(combos) /\ n[2] \in IdentifyRegions(combos) /\ n[1][2] \in Tested(Retrieve(n[1][1]))
    BY <1>1
  <1>3. HasCentre(Hit(n[1]))
    BY <1>2, TestedHaveCentres DEF Hit
  <1>4. RegionQuality(n[1], n[2]) \in Int
    <2>1. n[1][1] \in Seq(Nat)
      <3>1. n[1][1] \in combos
        BY <1>2, HitsType
      <3> QED BY <3>1
    <2>2. n[2].name \in Seq(Nat) /\ n[2].level \in Int
      BY <1>2, IdentifiedRegions
    <2> QED BY <2>1, <2>2, RegionQualityType
  <1> HIDE DEF matches
  <1>5. QualityAmong(matches, n, RegionQuality(n[1], n[2])) \in Int
    BY <1>4, QualityAmongType
  <1> QED BY <1>1, <1>3, <1>5, Zenon

-----------------------------------------------------------------------------
(* Places.                                                                 *)
\* The names that are known are texts.
Named == DOMAIN name \subseteq Elements /\ \A e \in DOMAIN name : name[e] \in Seq(Nat)

\* How well a combination matches the name of what was found by it.
LEMMA NameQualityType ==
  ASSUME Named, NEW c \in Seq(Nat), NEW p
  PROVE  NameQuality(c, p, name) \in Int
PROOF
  <1> DEFINE called == IF p \in DOMAIN name THEN Lowered(name[p]) ELSE <<>>
             l == LateQuality(c, called)
             t == TypeQuality(p)
  <1>1. called \in Seq(Nat)
    <2>1. CASE p \in DOMAIN name
      BY <2>1, LoweredType DEF Named
    <2>2. CASE p \notin DOMAIN name
      BY <2>2
    <2> QED BY <2>1, <2>2
  <1> HIDE DEF called
  <1>2. l \in Nat
    BY <1>1, LateQualityType
  <1>3. t \in Nat
    BY TypeQualityType, Zenon
  <1>4. NameQuality(c, p, name) = (l * t) \div 1000
    BY Zenon DEF NameQuality, called
  <1> HIDE DEF l, t
  <1>5. l * t \in Nat
    BY <1>2, <1>3
  <1> DEFINE x == l * t
  <1> HIDE DEF x
  <1>6. x \in Nat
    BY <1>5 DEF x
  <1>7. x \div 1000 \in Int
    BY <1>6
  <1> QED BY <1>4, <1>7 DEF x

LEMMA PlacesAreGood ==
  ASSUME TreeInv, Named, combos \subseteq Seq(Nat), NEW places, NEW m \in EvaluateNearPlaces(combos, places, name)
  PROVE  HasCentre(m.local) /\ m.quality \in Int
PROOF
  <1> DEFINE matches == {h \in Hits(combos) : /\ ~IsAmong(Hit(h), places) /\ HasCentre(Hit(h))
                                       /\ \E p \in places : HasCentre(p) /\ p.id # Hit(h).id
                                       /\ Distance(Centre(Hit(h)), Centre(Nearest(Hit(h), places))) <= ClosePlace}
  <1>1. PICK h \in matches : m = [combined |-> h[1], global |-> Nearest(Hit(h), places), local |-> Hit(h),
        quality |-> QualityAmong(matches, h, NameQuality(h[1], Nearest(Hit(h), places), name))]
    BY Zenon DEF EvaluateNearPlaces
  <1>2. h \in Hits(combos) /\ HasCentre(Hit(h))
    BY <1>1, Zenon
  <1>3. h[1] \in Seq(Nat)
    <2>1. h[1] \in combos
      BY <1>2, HitsType
    <2> QED BY <2>1
  <1>4. NameQuality(h[1], Nearest(Hit(h), places), name) \in Int
    BY <1>3, NameQualityType
  <1> HIDE DEF matches
  <1>5. QualityAmong(matches, h, NameQuality(h[1], Nearest(Hit(h), places), name)) \in Int
    BY <1>4, QualityAmongType
  <1> QED BY <1>1, <1>2, <1>5, Zenon

-----------------------------------------------------------------------------
(* The walks that sample distances.                                        *)
\* The walk over the hits of a combination takes a number of steps.
LEMMA StepCountType ==
  ASSUME NEW n \in Nat, n > 1
  PROVE  StepCount(n) \in Nat
PROOF
  <1> DEFINE h == n \div 2
             x == Max({1, h})
             m == n - 1
             S == {m, 7, x}
  <1>1. h \in Nat /\ m \in Nat
    OBVIOUS
  <1>2. x \in {1, h}
    <2>1. \E a \in {1, h} : \A b \in {1, h} : a >= b
      <3> HIDE DEF h
      <3> QED BY <1>1
    <2> HIDE DEF h
    <2> QED BY <2>1, Zenon DEF Max
  <1>3. x \in Nat
    <2> HIDE DEF x, h
    <2> QED BY <1>1, <1>2
  <1>4. S \in SUBSET Nat /\ S # {}
    <2> HIDE DEF x, m
    <2> QED BY <1>1, <1>3
  <1>5. StepCount(n) = Min(S)
    BY Zenon DEF StepCount
  <1> HIDE DEF S
  <1>6. Min(S) \in S
    BY <1>4, MinIsIn
  <1> QED BY <1>4, <1>5, <1>6

\* The distances that are sampled between the nodes of a walk are distances.
LEMMA StepsBetweenType ==
  ASSUME NEW nodes, Len(nodes) \in Nat, Len(nodes) > 1
  PROVE  /\ IsFiniteSet(StepsBetweenKnown(nodes))
         /\ \A x \in StepsBetweenKnown(nodes) :
              /\ x[1] \in Nat /\ nodes[x[1] + 1] \in DOMAIN Position
              /\ StepLengths(nodes)[x] \in 0..Farthest
PROOF
  <1> DEFINE n == Len(nodes)
             A == 0..(n - 1)
             B == 1..StepCount(n)
  <1>1. StepCount(n) \in Nat /\ n \in Nat
    BY StepCountType
  <1>2. IsFiniteSet(A) /\ IsFiniteSet(B)
    <2>1. 0 \in Int /\ 1 \in Int /\ n - 1 \in Int /\ StepCount(n) \in Int
      BY <1>1
    <2> HIDE DEF n
    <2> QED BY <2>1, FS_Interval
  <1>3. StepsBetweenKnown(nodes) = {x \in A \X B : nodes[x[1] + 1] \in DOMAIN Position /\ nodes[To(n, x) + 1] \in DOMAIN Position}
    BY Zenon DEF StepsBetweenKnown
  <1>4. IsFiniteSet(A \X B)
    <2> HIDE DEF A, B
    <2> QED BY <1>2, FS_Product
  <1>5. IsFiniteSet(StepsBetweenKnown(nodes))
    <2>1. StepsBetweenKnown(nodes) \subseteq A \X B
      <3> HIDE DEF A, B
      <3> QED BY <1>3
    <2> HIDE DEF A, B
    <2> QED BY <1>4, <2>1, FS_Subset
  <1>6. ASSUME NEW x \in StepsBetweenKnown(nodes)
        PROVE  /\ x[1] \in Nat /\ nodes[x[1] + 1] \in DOMAIN Position
               /\ StepLengths(nodes)[x] \in 0..Farthest
    <2>1. x \in A \X B /\ nodes[x[1] + 1] \in DOMAIN Position /\ nodes[To(n, x) + 1] \in DOMAIN Position
      <3> HIDE DEF A, B
      <3> QED BY <1>3
    <2>2. x[1] \in Nat
      <3>1. x[1] \in A
        <4> HIDE DEF A, B
        <4> QED BY <2>1
      <3>2. A \subseteq Nat
        BY <1>1
      <3> HIDE DEF A
      <3> QED BY <3>1, <3>2
    <2>3. StepLengths(nodes)[x] = Distance(Position[nodes[x[1] + 1]], Position[nodes[To(Len(nodes), x) + 1]])
      BY Zenon DEF StepLengths
    <2>4. Farthest \in Nat /\ \A k \in DOMAIN Position : Position[k] \in 0..Farthest
      BY FarthestIsThere DEF IsFarthest
    <2>5. Distance(Position[nodes[x[1] + 1]], Position[nodes[To(Len(nodes), x) + 1]]) \in 0..Farthest
      <3> DEFINE u == nodes[x[1] + 1]
                 v == nodes[To(n, x) + 1]
      <3>1. u \in DOMAIN Position /\ v \in DOMAIN Position
        BY <2>1
      <3> HIDE DEF u, v
      <3>2. Distance(Position[u], Position[v]) \in 0..Farthest
        BY <2>4, <3>1, DistanceType
      <3> QED BY <3>2 DEF u, v
    <2> QED BY <2>1, <2>2, <2>3, <2>5, Zenon
  <1> QED BY <1>5, <1>6

\* There is a central node if there are steps.
LEMMA CentralNodeType ==
  ASSUME NEW nodes, Len(nodes) \in Nat, Len(nodes) > 1, StepsBetweenKnown(nodes) # {}
  PROVE  CentralNode(nodes) \in DOMAIN Position
PROOF
  <1> DEFINE S == StepsBetweenKnown(nodes)
             A == {x[1] : x \in S}
             f == Averages(nodes)
             L == Least(f)
             a == Min(L)
  <1>1. IsFiniteSet(S) /\ \A x \in S : /\ x[1] \in Nat /\ nodes[x[1] + 1] \in DOMAIN Position
                                       /\ StepLengths(nodes)[x] \in 0..Farthest
    BY StepsBetweenType
  <1>2. DOMAIN f = A /\ A # {} /\ A \in SUBSET Nat
    <2>1. DOMAIN f = A
      BY Zenon DEF Averages
    <2> HIDE DEF S, f
    <2>2. S # {}
      BY DEF S
    <2> QED BY <1>1, <2>1, <2>2
  <1>3. ASSUME NEW b \in A
        PROVE  f[b] \in Nat
    <2> DEFINE T == StepsFrom(nodes, b)
    <2>1. T \subseteq S /\ T # {}
      BY DEF StepsFrom
    <2>2. IsFiniteSet(T)
      <3> HIDE DEF T, S
      <3> QED BY <1>1, <2>1, FS_Subset
    <2>3. f[b] = SumFunctionOnSet(StepLengths(nodes), T) \div Cardinality(T)
      BY Zenon DEF Averages
    <2>4. Farthest \in Nat
      BY FarthestIsThere DEF IsFarthest
    <2>5. \A x \in T : StepLengths(nodes)[x] \in 0..Farthest
      <3> HIDE DEF T, S
      <3> QED BY <1>1, <2>1
    <2> DEFINE g == StepLengths(nodes)
    <2>6. SumFunctionOnSet(g, T) \div Cardinality(T) \in 0..Farthest
      <3> HIDE DEF T, g
      <3>1. \A x \in T : g[x] \in 0..Farthest
        BY <2>5 DEF g
      <3> QED BY <2>1, <2>2, <2>4, <3>1, MeanIsNumber
    <2>7. 0..Farthest \subseteq Nat
      BY <2>4
    <2> HIDE DEF T, f
    <2> QED BY <2>3, <2>6, <2>7
  <1>4. L # {} /\ L \subseteq A
    <2> HIDE DEF f, A
    <2> QED BY <1>2, <1>3, LeastIsSomewhere
  <1>5. a \in L
    <2>1. L \in SUBSET Nat
      BY <1>2, <1>4
    <2> HIDE DEF L
    <2> QED BY <1>4, <2>1, MinIsIn
  <1>6. PICK x \in S : x[1] = a
    <2> HIDE DEF L, a, S
    <2> QED BY <1>4, <1>5
  <1>7. CentralNode(nodes) = nodes[a + 1]
    BY Zenon DEF CentralNode
  <1> HIDE DEF a, S
  <1> QED BY <1>1, <1>6, <1>7

\* A quartile is asked for only of a walk that has steps.
LEMMA QuartileNeedsSteps ==
  ASSUME NEW nodes, Quartile(nodes) # 0, Len(nodes) \in Nat
  PROVE  Len(nodes) > 1 /\ StepsBetweenKnown(nodes) # {}
PROOF
  <1> DEFINE once == {x \in StepsBetweenKnown(nodes) : x[1] < To(Len(nodes), x)}
  <1>1. ~(Len(nodes) <= 1 \/ once = {})
    BY Zenon DEF Quartile
  <1> QED BY <1>1

\* Unique matches.
LEMMA UniqueIsGood ==
  ASSUME TreeInv, NEW c, NEW order \in NodeOrders, NEW m \in UniqueMatch(c, order)
  PROVE  m.quality \in Int /\ m.combined = c /\ m.element \in Ids(Retrieve(c))
PROOF
  <1> DEFINE hits  == Retrieve(c)
             nodes == Within(order, UNION {NodesOf(e) : e \in Ids(hits)})
             far   == [i \in {i \in DOMAIN hits : HasCentre(hits[i])} |->
                         Distance(Centre(hits[i]), Position[CentralNode(nodes)])]
             best  == Min(Least(far))
             Match(i, d) == [combined |-> c, element |-> hits[i],
                      quality |-> IF d > InnerThreshold THEN (TypeQuality(hits[i]) * (4500 - Log10[d])) \div 1500
                                  ELSE TypeQuality(hits[i])]
             Alone == [combined |-> c, element |-> hits[1], quality |-> TypeQuality(hits[1])]
  <1>1. \/ Len(hits) = 1 /\ m = Alone
        \/ /\ Quartile(nodes) \in 1..(OuterThreshold - 1) /\ DOMAIN far # {}
           /\ m = Match(best, far[best])
    <2>1. UniqueMatch(c, order) =
            IF Len(hits) = 1 THEN {Alone}
            ELSE IF hits = <<>> \/ Len(hits) >= ManyHits \/ Quartile(nodes) \notin 1..(OuterThreshold - 1) THEN {}
            ELSE IF DOMAIN far = {} \/ far[best] >= OuterThreshold THEN {}
            ELSE {Match(best, far[best])}
      BY Zenon DEF UniqueMatch
    <2> HIDE DEF far, best, Match, Alone, nodes, hits
    <2> QED BY <2>1
  <1>2. CASE Len(hits) = 1 /\ m = Alone
    <2>1. TypeQuality(hits[1]) \in Nat
      BY TypeQualityType, Zenon
    <2>2. m.quality = TypeQuality(hits[1])
      <3> HIDE DEF hits
      <3> QED BY <1>2
    <2>3. m.combined = c /\ m.element \in Ids(hits)
      <3>1. Len(hits) = 1 /\ hits \in Seq(Elements)
        BY <1>2, RetrieveType
      <3>2. 1 \in DOMAIN hits /\ m.combined = c /\ m.element = hits[1]
        <4> HIDE DEF hits
        <4> QED BY <1>2, <3>1
      <3> HIDE DEF hits
      <3> QED BY <3>2 DEF Ids
    <2> HIDE DEF hits, Alone
    <2> QED BY <2>1, <2>2, <2>3 DEF hits
  <1>3. CASE /\ Quartile(nodes) \in 1..(OuterThreshold - 1) /\ DOMAIN far # {}
             /\ m = Match(best, far[best])
    <2>1. nodes \in Seq(Nat)
      <3> DEFINE N == UNION {NodesOf(e) : e \in Ids(hits)}
      <3>1. order \in Seq(Nat)
        BY AskingAssumption
      <3>2. Within(order, N) \in Seq(Nat \cap N)
        <4> HIDE DEF N
        <4> QED BY <3>1, WithinType
      <3>3. Within(order, N) \in Seq(Nat)
        <4> HIDE DEF N
        <4> QED BY <3>2
      <3> HIDE DEF N, hits
      <3> QED BY <3>3 DEF N
    <2>2. Len(nodes) \in Nat /\ Quartile(nodes) # 0
      <3> HIDE DEF nodes, far, Match
      <3>1. OuterThreshold \in Nat
        BY DistanceAssumption
      <3> QED BY <1>3, <2>1, <3>1
    <2>3. Position[CentralNode(nodes)] \in 0..Farthest
      <3>1. Len(nodes) > 1 /\ StepsBetweenKnown(nodes) # {}
        <4> HIDE DEF nodes
        <4> QED BY <2>2, QuartileNeedsSteps
      <3>2. CentralNode(nodes) \in DOMAIN Position
        <4> HIDE DEF nodes
        <4> QED BY <2>2, <3>1, CentralNodeType
      <3> HIDE DEF nodes
      <3> QED BY <3>2, FarthestIsThere DEF IsFarthest
    <2>4. Farthest \in Nat /\ 0..Farthest \subseteq Nat
      BY FarthestIsThere DEF IsFarthest
    <2> DEFINE D == {i \in DOMAIN hits : HasCentre(hits[i])}
    <2>5. DOMAIN far = D
      BY Zenon
    <2>6. D \in SUBSET Nat
      <3>1. hits \in Seq(Elements)
        BY RetrieveType
      <3> HIDE DEF hits
      <3>2. DOMAIN hits = 1..Len(hits) /\ Len(hits) \in Nat
        BY <3>1
      <3> QED BY <3>2
    <2>7. \A i \in D : far[i] \in 0..Farthest
      <3> SUFFICES ASSUME NEW i \in D
                   PROVE  far[i] \in 0..Farthest
        OBVIOUS
      <3> DEFINE x == Centre(hits[i])
                 y == Position[CentralNode(nodes)]
      <3>1. far[i] = Distance(x, y)
        <4> HIDE DEF hits, nodes
        <4> QED BY Zenon
      <3>2. x \in 0..Farthest
        <4>1. HasCentre(hits[i])
          <5> HIDE DEF hits
          <5> QED OBVIOUS
        <4> HIDE DEF hits
        <4> QED BY <4>1, CentreType
      <3>3. y \in 0..Farthest
        BY <2>3
      <3> HIDE DEF x, y, far
      <3> QED BY <2>4, <3>1, <3>2, <3>3, DistanceType
    <2>8. best \in D
      <3> DEFINE L == Least(far)
      <3>1. \A i \in DOMAIN far : far[i] \in Nat
        <4> HIDE DEF far, D
        <4> QED BY <2>4, <2>5, <2>7
      <3>2. L # {} /\ L \subseteq DOMAIN far
        <4> HIDE DEF far
        <4> QED BY <1>3, <3>1, LeastIsSomewhere
      <3>3. L \in SUBSET Nat
        <4> HIDE DEF far, L, D
        <4> QED BY <2>5, <2>6, <3>2
      <3>4. Min(L) \in L
        <4> HIDE DEF L
        <4> QED BY <3>2, <3>3, MinIsIn
      <3> HIDE DEF far, D
      <3> QED BY <2>5, <3>2, <3>4
    <2> DEFINE d == far[best]
               q == TypeQuality(hits[best])
    <2>9. d \in 0..Farthest
      <3> HIDE DEF best, far, D
      <3> QED BY <2>7, <2>8
    <2>10. q \in Nat
      BY TypeQualityType, Zenon
    <2>11. m.quality = IF d > InnerThreshold THEN (q * (4500 - Log10[d])) \div 1500 ELSE q
      <3> HIDE DEF hits, far, best
      <3> QED BY <1>3
    <2> HIDE DEF d, q
    <2>12. ASSUME d > InnerThreshold
           PROVE  m.quality \in Int
      <3>1. d \in 1..Farthest
        BY <2>4, <2>9, <2>12, DistanceAssumption
      <3>2. Log10[d] \in Int
        BY <3>1, FarthestIsThere DEF IsFarthest
      <3> DEFINE u == 4500 - Log10[d]
      <3>3. u \in Int
        BY <3>2
      <3> HIDE DEF u
      <3>4. q * u \in Int
        BY <2>10, <3>3
      <3> DEFINE v == q * u
      <3>5. v \in Int
        BY <3>4
      <3> HIDE DEF v
      <3>6. v \div 1500 \in Int
        BY <3>5
      <3> QED BY <2>11, <2>12, <3>6 DEF u, v
    <2>13. ASSUME ~(d > InnerThreshold)
           PROVE  m.quality \in Int
      BY <2>10, <2>11, <2>13
    <2>14. m.combined = c /\ m.element \in Ids(hits)
      <3>1. best \in DOMAIN hits
        <4> HIDE DEF best, hits
        <4> QED BY <2>8
      <3>2. m.combined = c /\ m.element = hits[best]
        <4> HIDE DEF hits, best, d
        <4> QED BY <1>3
      <3> HIDE DEF hits, best
      <3> QED BY <3>1, <3>2 DEF Ids
    <2>15. m.quality \in Int
      BY <2>12, <2>13
    <2> HIDE DEF hits
    <2> QED BY <2>14, <2>15 DEF hits
  <1> QED BY <1>1, <1>2, <1>3

-----------------------------------------------------------------------------
(* Names.                                                                  *)
Tags == Seq(STRING \X Seq(Nat))

\* The tags of an element that count are tags (insertNames, osmpbfreader.cpp).
LEMMA UsableType ==
  ASSUME NEW tags \in Tags
  PROVE  Usable(tags) \in Tags
PROOF
  <1> DEFINE n == Len(tags)
             base == <<>>
             Counts(t) == t[1] # "foreign" /\ ByteLength(t[2]) > 1
             After(x, c) == IF ~Counts(c) \/ \E t \in Ids(x) : t[2] = c[2] THEN x ELSE Append(x, c)
             next == [k \in 1..n |-> [x \in Tags |-> After(x, tags[k])]]
             IsUsed(g) == g = [i \in 0..n |-> IF i = 0 THEN <<>>
                                              ELSE IF ~Counts(tags[i]) \/ \E t \in Ids(g[i - 1]) : t[2] = tags[i][2] THEN g[i - 1]
                                              ELSE Append(g[i - 1], tags[i])]
             used == CHOOSE g : IsUsed(g)
  <1>1. n \in Nat /\ base \in Tags
    BY DEF Tags
  <1>2. \A k \in 1..n, x \in Tags : After(x, tags[k]) \in Tags
    <2> SUFFICES ASSUME NEW k \in 1..n, NEW x \in Tags
                 PROVE  After(x, tags[k]) \in Tags
      OBVIOUS
    <2> DEFINE c == tags[k]
               U == STRING \X Seq(Nat)
    <2>1. c \in U
      BY DEF Tags
    <2> HIDE DEF c, U
    <2>2. Append(x, c) \in Tags
      BY <2>1 DEF Tags, U
    <2>3. After(x, c) \in Tags
      BY <2>2, Zenon
    <2> QED BY <2>3 DEF c
  <1>3. next \in [1..n -> [Tags -> Tags]]
    <2> HIDE DEF After, n
    <2> QED BY <1>2
  <1>4. \E g : IsUsed(g)
    <2>1. PICK g \in [0..n -> Tags] : GoesBy(g, n, base, next)
      <3> HIDE DEF next, n, base
      <3> QED BY <1>1, <1>3, RecursionIn
    <2>2. ASSUME NEW i \in 0..n
          PROVE  g[i] = IF i = 0 THEN base ELSE After(g[i - 1], tags[i])
      <3> HIDE DEF After, base
      <3> SUFFICES ASSUME i # 0
                   PROVE  g[i] = After(g[i - 1], tags[i])
        BY <2>1 DEF GoesBy
      <3>1. i \in 1..n /\ i - 1 \in 0..n
        BY <1>1
      <3> HIDE DEF n
      <3> QED BY <2>1, <3>1 DEF GoesBy
    <2>3. g = [i \in 0..n |-> g[i]]
      OBVIOUS
    <2>4. g = [i \in 0..n |-> IF i = 0 THEN base ELSE After(g[i - 1], tags[i])]
      <3> HIDE DEF n, After, base
      <3> QED BY <2>2, <2>3
    <2>5. IsUsed(g)
      <3> HIDE DEF n, Counts
      <3> QED BY <2>4, Zenon
    <2> HIDE DEF IsUsed
    <2> QED BY <2>5
  <1>5. IsUsed(used)
    BY <1>4, Zenon
  <1>6. used[n] \in Tags
    <2>1. \A i \in 0..n : used[i] = IF i = 0 THEN base ELSE After(used[i - 1], tags[i])
      <3> HIDE DEF n, used, Counts
      <3> QED BY <1>5, Zenon
    <2> HIDE DEF used, After, next, base
    <2>2. used[0] \in Tags /\ \A i \in 1..n : used[i - 1] \in Tags => used[i] \in Tags
      BY <1>1, <1>2, <2>1
    <2>3. \A k \in 0..n : used[k] \in Tags
      <3> HIDE DEF n
      <3> QED BY <1>1, <2>2, StaysThere
    <2> QED BY <1>1, <2>3
  <1>7. Usable(tags) = used[n]
    BY Zenon DEF Usable
  <1> QED BY <1>6, <1>7

\* The names of an element are texts, ...
LEMMA NamesInType ==
  ASSUME NEW tags \in Tags
  PROVE  /\ NamesIn(tags) \in Seq(Seq(Nat)) /\ DOMAIN NamesIn(tags) = DOMAIN Usable(tags)
         /\ DOMAIN NamesIn(tags) = 1..Len(NamesIn(tags))
PROOF
  <1> DEFINE u == Usable(tags)
             U == Seq(Nat)
             n == Len(u)
             f == NamesIn(tags)
  <1>1. u \in Seq(STRING \X U)
    BY UsableType DEF Tags
  <1>2. n \in Nat /\ DOMAIN u = 1..n /\ \A i \in 1..n : u[i][2] \in U
    <2> HIDE DEF u, U
    <2>1. n \in Nat /\ DOMAIN u = 1..n /\ \A i \in 1..n : u[i] \in STRING \X U
      BY <1>1
    <2> QED BY <2>1
  <1>3. f = [i \in DOMAIN u |-> u[i][2]]
    BY Zenon DEF NamesIn
  <1> HIDE DEF u, U, n, f
  <1>4. f = [i \in 1..n |-> f[i]] /\ \A i \in 1..n : f[i] \in U
    BY <1>2, <1>3
  <1>5. f \in Seq(U) /\ Len(f) = n /\ DOMAIN f = 1..n
    BY <1>2, <1>4, SequenceOf
  <1> QED BY <1>2, <1>5 DEF f, u, U

\* ... and so is the one that is kept for it.
LEMMA BestNameType ==
  ASSUME NEW tags \in Tags, NamesIn(tags) # <<>>
  PROVE  BestName(tags) \in Seq(Nat)
PROOF
  <1> DEFINE f == NamesIn(tags)
             U == Seq(Nat)
             own == {i \in DOMAIN Usable(tags) : Usable(tags)[i][1] = "name"}
             k == IF own = {} THEN 1 ELSE Min(own)
  <1>1. f \in Seq(U) /\ DOMAIN f = DOMAIN Usable(tags) /\ DOMAIN f = 1..Len(f) /\ f # <<>>
    BY NamesInType
  <1>2. k \in 1..Len(f)
    <2>1. CASE own = {}
      <3> HIDE DEF f, U
      <3>1. Len(f) \in Nat /\ Len(f) # 0
        BY <1>1
      <3> QED BY <2>1, <3>1
    <2>2. CASE own # {}
      <3>1. own \in SUBSET Nat /\ own \subseteq 1..Len(f)
        <4> HIDE DEF f
        <4>1. own \subseteq DOMAIN Usable(tags)
          OBVIOUS
        <4> HIDE DEF own
        <4> QED BY <1>1, <4>1
      <3>2. Min(own) \in own
        <4> HIDE DEF own
        <4> QED BY <2>2, <3>1, MinIsIn
      <3> HIDE DEF own
      <3> QED BY <2>2, <3>1, <3>2
    <2> QED BY <2>1, <2>2
  <1>3. BestName(tags) = f[k]
    BY Zenon DEF BestName
  <1> HIDE DEF f, k, U
  <1>4. f[k] \in U
    BY <1>1, <1>2
  <1> QED BY <1>3, <1>4 DEF U

-----------------------------------------------------------------------------
(* The invariant.                                                          *)
\* What is asked for are texts.
Asked == /\ proximity \in Proximities \cup {0}
         /\ words \in Seq(Seq(Nat)) /\ combos \in SUBSET Seq(Nat)
AreResults == \A r \in results : IsResult(r)
Typed == Named /\ Asked /\ AreResults

\* At the start nothing is known and nothing is asked.
LEMMA InitiallyTyped == Init => Typed
PROOF
  <1> SUFFICES ASSUME Init
               PROVE  Typed
    OBVIOUS
  <1>1. proximity = 0 /\ words = <<>> /\ combos = {} /\ name = <<>> /\ results = {}
    BY DEF Init
  <1>2. <<>> \in Seq(Seq(Nat)) /\ DOMAIN <<>> = {}
    OBVIOUS
  <1> QED BY <1>1, <1>2 DEF Typed, Named, Asked, AreResults

\* Names that are read are texts, and keep the others.
LEMMA InsertNamesTyped ==
  ASSUME TreeInv, Typed, NEW m \in unread, InsertNames(m)
  PROVE  Typed'
PROOF
  <1>1. m.element \in Elements /\ m.tags \in Tags
    BY MapsAssumption DEF TreeInv, Tags
  <1>2. name' = IF NamesIn(m.tags) = <<>> THEN name
                ELSE [e \in DOMAIN name \cup {m.element} |-> IF e = m.element THEN BestName(m.tags) ELSE name[e]]
    BY DEF InsertNames
  <1>3. Named'
    <2>1. CASE NamesIn(m.tags) = <<>>
      BY <1>2, <2>1 DEF Typed, Named
    <2>2. CASE NamesIn(m.tags) # <<>>
      <3> DEFINE b == BestName(m.tags)
      <3>1. b \in Seq(Nat)
        BY <1>1, <2>2, BestNameType
      <3>2. name' = [e \in DOMAIN name \cup {m.element} |-> IF e = m.element THEN b ELSE name[e]]
        BY <1>2, <2>2, Zenon
      <3> HIDE DEF b
      <3> QED BY <1>1, <3>1, <3>2 DEF Typed, Named
    <2> QED BY <2>1, <2>2
  <1>4. UNCHANGED <<proximity, words, combos, results>>
    BY DEF InsertNames, askVars
  <1> QED BY <1>3, <1>4 DEF Typed, Asked, AreResults

\* What is asked for is split into texts.
LEMMA AskingTyped ==
  ASSUME Typed, NEW t \in Texts, NEW p \in Proximities, Ask(t, p)
  PROVE  Typed'
PROOF
  <1>1. t \in Seq(Seq(Nat))
    BY AskingAssumption
  <1>2. ReadWords(t) \in Seq(Seq(Nat))
    BY <1>1, ReadWordsType
  <1>3. Combinations(ReadWords(t), 3, 1) \in SUBSET Seq(Nat)
    <2>1. 3 \in Nat /\ 1 \in Nat
      OBVIOUS
    <2>2. Combinations(ReadWords(t), 3, 1) \subseteq Seq(Nat)
      BY <1>2, <2>1, CombinationsType
    <2> QED BY <2>2
  <1>4. /\ words' = ReadWords(t) /\ combos' = Combinations(ReadWords(t), 3, 1) /\ proximity' = p
        /\ results' = {} /\ name' = name
    BY DEF Ask, mapVars
  <1> QED BY <1>2, <1>3, <1>4 DEF Typed, Named, Asked, AreResults

\* A search keeps what is known, and adds results.
LEMMA SearchTyped ==
  ASSUME Typed, UNCHANGED <<mapVars, askVars>>, NEW found, results' = results \cup found, \A r \in found : IsResult(r)
  PROVE  Typed'
BY DEF Typed, Named, Asked, AreResults, mapVars, askVars

\* Each search adds results that are somewhere and have a quality.
LEMMA FindRoadsTyped == TreeInv /\ Typed /\ FindRoads => Typed'
PROOF
  <1> SUFFICES ASSUME TreeInv, Typed, FindRoads
               PROVE  Typed'
    OBVIOUS
  <1> DEFINE close == {m \in EvaluateRoads(combos, words) : m.distance < CloseRoad}
             Of(m) == Result("road", Position[m.node], m.quality, <<NodeElement(m.node), NodeElement(m.place)>>, <<m.combined>>)
             found == {Of(m) : m \in close}
  <1>1. results' = results \cup found /\ UNCHANGED <<mapVars, askVars>>
    BY Zenon DEF FindRoads, Search
  <1>2. ASSUME NEW m \in close
        PROVE  IsResult(Of(m))
    <2>1. m.node \in DOMAIN Position /\ m.quality \in Int
      BY RoadsAreGood
    <2> QED BY <2>1, PositionType, ResultType, Zenon
  <1>3. \A r \in found : IsResult(r)
    <2> HIDE DEF Of, close
    <2> QED BY <1>2
  <1> HIDE DEF found
  <1> QED BY <1>1, <1>3, SearchTyped

LEMMA FindCrossingsTyped == TreeInv /\ Typed /\ FindCrossings => Typed'
PROOF
  <1> SUFFICES ASSUME TreeInv, Typed, FindCrossings
               PROVE  Typed'
    OBVIOUS
  <1> DEFINE All(order)   == IdentifyCrossingRoads(words, order)
             Most(order)  == Max({m.size : m \in All(order)})
             There(order) == {m \in All(order) : m.at \in DOMAIN Position}
             Of(m, order) == Result("crossing", Position[m.at], (800 * m.size) \div Most(order), <<NodeElement(m.at)>>, m.names)
             Found(order) == {Of(m, order) : m \in There(order)}
  <1>1. PICK order \in NodeOrders : results' = results \cup Found(order) /\ UNCHANGED <<mapVars, askVars>>
    BY Zenon DEF FindCrossings, Search
  <1>2. ASSUME NEW m \in There(order)
        PROVE  IsResult(Of(m, order))
    <2>1. m \in IdentifyCrossingRoads(words, order) /\ m.at \in DOMAIN Position
      OBVIOUS
    <2>2. Len(words) \in Nat
      BY DEF Typed, Asked
    <2>3. (800 * m.size) \div Most(order) \in Int
      BY <2>1, <2>2, CrossingQuality
    <2> DEFINE q == (800 * m.size) \div Most(order)
               x == Position[m.at]
    <2>4. q \in Int /\ x \in Nat
      BY <2>1, <2>3, PositionType
    <2>5. Of(m, order) = Result("crossing", x, q, <<NodeElement(m.at)>>, m.names)
      OBVIOUS
    <2> HIDE DEF q, x, Of
    <2> QED BY <2>4, <2>5, ResultType, Zenon
  <1>3. \A r \in Found(order) : IsResult(r)
    <2> HIDE DEF Of, There
    <2> QED BY <1>2
  <1> DEFINE found == Found(order)
  <1> HIDE DEF Found
  <1>4. results' = results \cup found /\ UNCHANGED <<mapVars, askVars>> /\ \A r \in found : IsResult(r)
    BY <1>1, <1>3
  <1> HIDE DEF found
  <1> QED BY <1>4, SearchTyped

\* A part of a quality is a number.
LEMMA PartOf ==
  ASSUME NEW q \in Int
  PROVE  (q * 95) \div 100 \in Int /\ (q * 75) \div 100 \in Int /\ (q * 8) \div 10 \in Int
OBVIOUS

LEMMA FindRegionsTyped == TreeInv /\ Typed /\ FindRegions => Typed'
PROOF
  <1> SUFFICES ASSUME TreeInv, Typed, FindRegions
               PROVE  Typed'
    OBVIOUS
  <1> DEFINE all == EvaluateRegions(combos, IdentifyRegions(combos))
             Of(m) == Result("region", Centre(m.element), (m.quality * 95) \div 100,
                             <<[type |-> "Relation", id |-> m.region.relation, rwt |-> 0], m.element>>, <<m.combined>>)
             found == {Of(m) : m \in all}
  <1>1. results' = results \cup found /\ UNCHANGED <<mapVars, askVars>>
    BY Zenon DEF FindRegions, Search
  <1>2. ASSUME NEW m \in all
        PROVE  IsResult(Of(m))
    <2>1. HasCentre(m.element) /\ m.quality \in Int
      BY RegionsAreGood DEF Typed, Asked
    <2>2. Centre(m.element) \in Nat /\ (m.quality * 95) \div 100 \in Int
      BY <2>1, CentreType, PartOf
    <2> QED BY <2>2, ResultType, Zenon
  <1>3. \A r \in found : IsResult(r)
    <2> HIDE DEF Of, all
    <2> QED BY <1>2
  <1> HIDE DEF found
  <1> QED BY <1>1, <1>3, SearchTyped

LEMMA FindPlacesTyped == TreeInv /\ Typed /\ FindPlaces => Typed'
PROOF
  <1> SUFFICES ASSUME TreeInv, Typed, FindPlaces
               PROVE  Typed'
    OBVIOUS
  <1> DEFINE all == EvaluateNearPlaces(combos, GlobalPlaces, name)
             Of(m) == Result("place", Centre(m.local), (m.quality * 75) \div 100, <<m.global, m.local>>, <<m.combined>>)
             found == {Of(m) : m \in all}
  <1>1. results' = results \cup found /\ UNCHANGED <<mapVars, askVars>>
    BY Zenon DEF FindPlaces, Search
  <1>2. ASSUME NEW m \in all
        PROVE  IsResult(Of(m))
    <2>1. HasCentre(m.local) /\ m.quality \in Int
      BY PlacesAreGood DEF Typed, Asked
    <2>2. Centre(m.local) \in Nat /\ (m.quality * 75) \div 100 \in Int
      BY <2>1, CentreType, PartOf
    <2> QED BY <2>2, ResultType, Zenon
  <1>3. \A r \in found : IsResult(r)
    <2> HIDE DEF Of, all
    <2> QED BY <1>2
  <1> HIDE DEF found
  <1> QED BY <1>1, <1>3, SearchTyped

LEMMA FindUniqueTyped == TreeInv /\ Typed /\ FindUnique => Typed'
PROOF
  <1> SUFFICES ASSUME TreeInv, Typed, FindUnique
               PROVE  Typed'
    OBVIOUS
  <1> DEFINE There(order) == {m \in EvaluateUniqueMatches(combos, order) : HasCentre(m.element)}
             Of(m) == Result("unique", Centre(m.element), (m.quality * 8) \div 10, <<m.element>>, <<m.combined>>)
             Found(order) == {Of(m) : m \in There(order)}
  <1>1. PICK order \in NodeOrders : results' = results \cup Found(order) /\ UNCHANGED <<mapVars, askVars>>
    BY Zenon DEF FindUnique, Search
  <1>2. ASSUME NEW m \in There(order)
        PROVE  IsResult(Of(m))
    <2>1. HasCentre(m.element) /\ \E c \in combos : m \in UniqueMatch(c, order)
      BY DEF EvaluateUniqueMatches
    <2>2. m.quality \in Int
      BY <2>1, UniqueIsGood
    <2>3. Centre(m.element) \in Nat /\ (m.quality * 8) \div 10 \in Int
      BY <2>1, <2>2, CentreType, PartOf
    <2> QED BY <2>3, ResultType, Zenon
  <1> DEFINE found == Found(order)
  <1>3. \A r \in found : IsResult(r)
    <2> HIDE DEF Of, There
    <2> QED BY <1>2
  <1> HIDE DEF Found
  <1>4. results' = results \cup found /\ UNCHANGED <<mapVars, askVars>>
    BY <1>1
  <1> HIDE DEF found
  <1> QED BY <1>3, <1>4, SearchTyped

LEMMA FindKnownTyped == TreeInv /\ Typed /\ FindKnown => Typed'
PROOF
  <1> SUFFICES ASSUME TreeInv, Typed, FindKnown
               PROVE  Typed'
    OBVIOUS
  <1> DEFINE Of(e) == Result("known", Centre(e), KnownQuality(e.rwt), <<e>>, <<>>)
             Found(best) == {Of(e) : e \in {e \in best : HasCentre(e)}}
             bests == IF BestPlaces = {} THEN {{}} ELSE {{e} : e \in BestPlaces}
  <1>1. PICK best \in bests : results' = results \cup Found(best) /\ UNCHANGED <<mapVars, askVars>>
    BY Zenon DEF FindKnown
  <1>2. ASSUME NEW e, HasCentre(e)
        PROVE  IsResult(Of(e))
    <2>1. KnownQuality(e.rwt) \in Int
      BY DEF KnownQuality
    <2>2. Centre(e) \in Nat
      BY <1>2, CentreType
    <2> QED BY <2>1, <2>2, ResultType, Zenon
  <1> DEFINE found == Found(best)
  <1>3. \A r \in found : IsResult(r)
    <2> HIDE DEF Of, bests
    <2> QED BY <1>2
  <1> HIDE DEF Found, bests
  <1>4. results' = results \cup found /\ UNCHANGED <<mapVars, askVars>>
    BY <1>1
  <1> HIDE DEF found
  <1> QED BY <1>3, <1>4, SearchTyped

LEMMA StepsKeepTyped == TreeInv /\ Typed /\ [Next]_vars => Typed'
PROOF
  <1> SUFFICES ASSUME TreeInv, Typed, [Next]_vars
               PROVE  Typed'
    OBVIOUS
  <1>1. CASE \E m \in unread : InsertNames(m)
    BY <1>1, InsertNamesTyped
  <1>2. CASE \E t \in Texts, p \in Proximities : Ask(t, p)
    BY <1>2, AskingTyped
  <1>3. CASE FindRoads \/ FindCrossings \/ FindRegions \/ FindPlaces \/ FindUnique \/ FindKnown
    BY <1>3, FindRoadsTyped, FindCrossingsTyped, FindRegionsTyped, FindPlacesTyped, FindUniqueTyped, FindKnownTyped
  <1>4. CASE Serve \/ Restart \/ (\E r \in unseen : Examine(r)) \/ Clean \/ (\E r \in Left : Sort(r)) \/ UNCHANGED vars
    <2>1. UNCHANGED <<name, proximity, words, combos, results>>
      BY <1>4 DEF Serve, Restart, Examine, Clean, Sort, vars, mapVars, askVars
    <2> QED BY <2>1 DEF Typed, Named, Asked, AreResults
  <1> QED BY <1>1, <1>2, <1>3, <1>4 DEF Next

\* Names and what is asked for are texts and results are results, in every state.
LEMMA TypedAlways == Spec => []Typed
BY InitiallyTyped, StepsKeepTyped, TreeIsInductive, PTL DEF Spec

-----------------------------------------------------------------------------
(* What a name is found by.                                                *)

\* A name is entered as phrases of its words (SwedishTextTree::insert).
LEMMA PhrasesType ==
  ASSUME NEW ws \in Seq(Seq(Nat))
  PROVE  Phrases(ws) \in Seq(Seq(Nat))
PROOF
  <1> DEFINE U == Seq(Nat)
             n == Len(ws)
             OfSize(s) == [i \in 1..(n - s + 1) |-> Joined(SubSeq(ws, i, i + s - 1))]
             m == Min({n, 3})
             parts == [k \in 1..m |-> OfSize(n - k + 1)]
  <1>1. n \in Nat /\ m \in Nat /\ m <= n
    <2> DEFINE S == {n, 3}
    <2>1. n \in Nat /\ S \in SUBSET Nat /\ S # {} /\ n \in S
      OBVIOUS
    <2> HIDE DEF S, n
    <2>2. Min(S) \in S /\ \A x \in S : Min(S) <= x
      BY <2>1, MinIsIn
    <2>3. m = Min(S)
      BY DEF S
    <2> QED BY <2>1, <2>2, <2>3
  <1>2. ASSUME NEW s \in 1..n
        PROVE  OfSize(s) \in Seq(U)
    <2>1. ASSUME NEW i \in 1..(n - s + 1)
          PROVE  Joined(SubSeq(ws, i, i + s - 1)) \in U
      <3> DEFINE part == SubSeq(ws, i, i + s - 1)
      <3>0. ws \in Seq(U)
        OBVIOUS
      <3>1. i \in Nat /\ i >= 1 /\ i + s - 1 \in Nat /\ i + s - 1 <= Len(ws) /\ i <= i + s - 1
        BY <1>1
      <3>2. part \in Seq(U) /\ Len(part) > 0
        <4> HIDE DEF U
        <4> QED BY <3>0, <3>1
      <3> HIDE DEF part
      <3>3. Joined(part) \in U
        BY <3>2, JoinedType
      <3> QED BY <3>3 DEF part
    <2> DEFINE l == n - s + 1
               f == OfSize(s)
    <2>2. l \in Nat
      BY <1>1
    <2>3. f = [i \in 1..l |-> f[i]] /\ \A i \in 1..l : f[i] \in U
      <3>1. f = [i \in 1..l |-> Joined(SubSeq(ws, i, i + s - 1))]
        OBVIOUS
      <3> HIDE DEF f, l, U
      <3>2. \A i \in 1..l : Joined(SubSeq(ws, i, i + s - 1)) \in U
        BY <2>1 DEF l
      <3> QED BY <3>1, <3>2
    <2> HIDE DEF f, U, l
    <2>4. f \in Seq(U)
      BY <2>2, <2>3, SequenceOf
    <2> QED BY <2>4 DEF f
  <1>3. parts \in Seq(Seq(U))
    <2> DEFINE W == Seq(U)
    <2>1. \A k \in 1..m : OfSize(n - k + 1) \in W
      <3> SUFFICES ASSUME NEW k \in 1..m
                   PROVE  OfSize(n - k + 1) \in W
        OBVIOUS
      <3>1. n - k + 1 \in 1..n
        <4> HIDE DEF n, m
        <4> QED BY <1>1
      <3> HIDE DEF OfSize
      <3> QED BY <1>2, <3>1
    <2>2. parts = [k \in 1..m |-> parts[k]] /\ \A k \in 1..m : parts[k] \in W
      <3> HIDE DEF OfSize, W, m
      <3> QED BY <2>1
    <2> HIDE DEF parts, W, m
    <2>3. parts \in Seq(W)
      BY <1>1, <2>2, SequenceOf
    <2> QED BY <2>3 DEF W
  <1>4. Phrases(ws) = FlattenSeq(parts)
    BY Zenon DEF Phrases
  <1>5. FlattenSeq(parts) \in Seq(U)
    <2> HIDE DEF parts, U
    <2> QED BY <1>3, FlattenWords
  <1> QED BY <1>4, <1>5

\* The paths of a name.
PathsOf(called) ==
  {CodeWord(Phrases(Tokens(called))[j]) : j \in DOMAIN Phrases(Tokens(called))}

LEMMA CodesAreOfPhrases ==
  ASSUME NEW called \in Seq(Nat)
  PROVE  CodesOf(called) \in Seq(PathsOf(called))
PROOF
  <1> DEFINE phrases == Phrases(Tokens(called))
             codes   == [i \in DOMAIN phrases |-> CodeWord(phrases[i])]
             empty   == {i \in DOMAIN codes : codes[i] = <<>>}
             n       == Len(phrases)
             S       == empty \cup {Len(codes) + 1}
             Q       == PathsOf(called)
  <1>1. n \in Nat /\ DOMAIN phrases = 1..n
    <2>1. Tokens(called) \in Seq(Seq(Nat))
      BY TokensType
    <2>2. phrases \in Seq(Seq(Nat))
      BY <2>1, PhrasesType
    <2> HIDE DEF phrases
    <2> QED BY <2>2
  <1>2. codes \in Seq(Q) /\ Len(codes) = n /\ DOMAIN codes = 1..n
    <2>1. \A i \in 1..n : codes[i] \in Q
      <3> SUFFICES ASSUME NEW i \in 1..n
                   PROVE  codes[i] \in Q
        OBVIOUS
      <3>1. i \in DOMAIN phrases
        BY <1>1
      <3>2. codes[i] = CodeWord(phrases[i])
        <4> HIDE DEF phrases
        <4> QED BY <3>1
      <3> HIDE DEF codes
      <3> QED BY <3>1, <3>2 DEF PathsOf
    <2>2. codes = [i \in 1..n |-> codes[i]]
      <3> HIDE DEF phrases, n
      <3> QED BY <1>1
    <2> HIDE DEF codes, Q, n
    <2> QED BY <1>1, <2>1, <2>2, SequenceOf
  <1>3. Min(S) \in 1..(n + 1)
    <2>1. S \in SUBSET Nat /\ S # {} /\ S \subseteq 1..(n + 1)
      <3> HIDE DEF codes, n
      <3> QED BY <1>1, <1>2
    <2>2. Min(S) \in S
      <3> HIDE DEF S
      <3> QED BY <2>1, MinIsIn
    <2> HIDE DEF S, n
    <2> QED BY <2>1, <2>2
  <1>4. CodesOf(called) = SubSeq(codes, 1, Min(S) - 1)
    BY Zenon DEF CodesOf
  <1> DEFINE k == Min(S) - 1
  <1>5. k \in Nat /\ k <= Len(codes)
    <2> HIDE DEF S, n, codes
    <2> QED BY <1>1, <1>2, <1>3
  <1> HIDE DEF k, codes, Q
  <1>6. SubSeq(codes, 1, k) \in Seq(Q)
    BY <1>2, <1>5
  <1> QED BY <1>4, <1>6 DEF k, Q

\* The paths of the names of an element.
PathsOfTags(tags) == UNION {PathsOf(NamesIn(tags)[i]) : i \in DOMAIN NamesIn(tags)}

LEMMA CodesAreOfNames ==
  ASSUME NEW tags \in Tags, NEW p \in Ids(CodesOfTags(tags))
  PROVE  p \in PathsOfTags(tags)
PROOF
  <1> DEFINE f == NamesIn(tags)
             Q == PathsOfTags(tags)
             W == Seq(Q)
             n == Len(f)
             parts == [i \in DOMAIN f |-> CodesOf(f[i])]
  <1>1. f \in Seq(Seq(Nat)) /\ DOMAIN f = 1..n /\ n \in Nat
    BY NamesInType
  <1>2. ASSUME NEW i \in 1..n
        PROVE  CodesOf(f[i]) \in W
    <2>1. f[i] \in Seq(Nat) /\ i \in DOMAIN f
      <3> HIDE DEF f, n
      <3> QED BY <1>1
    <2>2. CodesOf(f[i]) \in Seq(PathsOf(f[i]))
      <3> HIDE DEF f
      <3> QED BY <2>1, CodesAreOfPhrases
    <2>3. PathsOf(f[i]) \subseteq Q
      BY <2>1 DEF PathsOfTags
    <2> HIDE DEF f, Q
    <2> QED BY <2>2, <2>3
  <1>3. parts \in Seq(W)
    <2>1. parts = [i \in 1..n |-> parts[i]] /\ \A i \in 1..n : parts[i] \in W
      <3> HIDE DEF f, W, n
      <3> QED BY <1>1, <1>2
    <2> HIDE DEF parts, W, n
    <2> QED BY <1>1, <2>1, SequenceOf
  <1>4. CodesOfTags(tags) = FlattenSeq(parts)
    BY Zenon DEF CodesOfTags
  <1>5. FlattenSeq(parts) \in Seq(Q)
    <2> HIDE DEF parts, Q
    <2> QED BY <1>3, FlattenWords
  <1> DEFINE u == CodesOfTags(tags)
  <1>6. u \in Seq(Q)
    BY <1>4, <1>5
  <1> HIDE DEF u, Q
  <1>7. p \in Q
    <2>1. PICK i \in DOMAIN u : p = u[i]
      BY DEF Ids, u
    <2>2. i \in 1..Len(u)
      BY <1>6, <2>1
    <2> QED BY <1>6, <2>1, <2>2
  <1> QED BY <1>7 DEF Q

\* What is found at a path of a name of an element is called like the path.
LEMMA PathsCall ==
  ASSUME NEW m \in map, NEW phrase, CodeWord(phrase) \in PathsOfTags(m.tags)
  PROVE  IsCalled(m.element, phrase)
PROOF
  <1>1. PICK i \in DOMAIN NamesIn(m.tags) : CodeWord(phrase) \in PathsOf(NamesIn(m.tags)[i])
    BY DEF PathsOfTags
  <1>2. PICK j \in DOMAIN Phrases(Tokens(NamesIn(m.tags)[i])) :
               CodeWord(phrase) = CodeWord(Phrases(Tokens(NamesIn(m.tags)[i]))[j])
    BY <1>1 DEF PathsOf
  <1> QED BY <1>1, <1>2, Zenon DEF IsCalled

-----------------------------------------------------------------------------
(* The nodes of the tree hold what they are named after.                   *)
HasPath(e, p)  == \E m \in map : m.element = e /\ p \in PathsOfTags(m.tags)
NodesAreNamed == \A p \in DOMAIN node : \A e \in Ids(node[p]) : HasPath(e, p)

\* What is retrieved for a phrase has a name that reads like the phrase.
LEMMA FoundAreCalled ==
  ASSUME NodesAreNamed, NEW phrase, NEW e \in Ids(Retrieve(phrase))
  PROVE  IsCalled(e, phrase)
PROOF
  <1> DEFINE p == CodeWord(phrase)
  <1>1. p \in DOMAIN node /\ e \in Ids(node[p])
    <2>1. Ids(<<>>) = {}
      BY DEF Ids
    <2> HIDE DEF p
    <2>2. Retrieve(phrase) = IF p \in DOMAIN node THEN node[p] ELSE <<>>
      BY Zenon DEF Retrieve, p
    <2> QED BY <2>1, <2>2
  <1>2. PICK m \in map : m.element = e /\ p \in PathsOfTags(m.tags)
    BY <1>1, Zenon DEF NodesAreNamed, HasPath
  <1> QED BY <1>2, PathsCall

LEMMA InitiallyNodesAreNamed == Init => NodesAreNamed
PROOF
  <1> SUFFICES ASSUME Init
               PROVE  NodesAreNamed
    OBVIOUS
  <1>1. \A p \in DOMAIN node : node[p] = <<>>
    BY DEF Init, TreeInit
  <1> QED BY <1>1 DEF NodesAreNamed, Ids

LEMMA InsertNamesNamed ==
  ASSUME TreeInv, NodesAreNamed, NEW m \in unread, InsertNames(m)
  PROVE  NodesAreNamed'
PROOF
  <1> DEFINE c == CodesOfTags(m.tags)
             e == m.element
             t == Inserted(node, c, e)
  <1>1. m \in UNION Maps /\ node' = t /\ map' = map /\ m \in map
    BY InsertNamesAdds DEF TreeInv
  <1>2. e \in Elements /\ c \in Seq(Paths) /\ m.tags \in Tags
    BY <1>1, CodesArePaths, MapsAssumption DEF Tags
  <1>3. \A p : /\ Held(node, p) \in Seq(Elements)
               /\ Held(t, p) = Held(node, p) \o Copies(Among(p, c, Len(c)), e)
    <2> HIDE DEF c, e
    <2> QED BY <1>2, AllAreAdded DEF TreeInv
  <1>4. ASSUME NEW p \in DOMAIN t, NEW x \in Ids(t[p])
        PROVE  HasPath(x, p)
    <2> DEFINE h == Held(node, p)
               a == Among(p, c, Len(c))
               k == Copies(a, e)
    <2>1. t[p] = h \o k /\ h \in Seq(Elements)
      <3>1. t[p] = Held(t, p)
        BY DEF Held
      <3> HIDE DEF t
      <3> QED BY <1>3, <3>1
    <2>2. a \in Nat /\ (a # 0 => p \in Ids(c))
      <3> HIDE DEF c
      <3> QED BY <1>2, AmongTheWords DEF Ids
    <2>3. k \in Seq(Elements) /\ Len(k) = a /\ \A i \in 1..a : k[i] = e
      <3> HIDE DEF a, e
      <3> QED BY <1>2, <2>2 DEF Copies
    <2>4. PICK i \in DOMAIN t[p] : x = t[p][i]
      <3> HIDE DEF t
      <3> QED BY DEF Ids
    <2> HIDE DEF h, k, a, t
    <2>5. CASE i \in 1..Len(h)
      <3>1. x = h[i] /\ i \in DOMAIN h
        BY <2>1, <2>3, <2>4, <2>5
      <3>2. p \in DOMAIN node /\ x \in Ids(node[p])
        <4>1. p \in DOMAIN node
          <5> SUFFICES ASSUME p \notin DOMAIN node
                       PROVE  FALSE
            OBVIOUS
          <5>1. h = <<>>
            BY DEF h, Held
          <5> QED BY <3>1, <5>1
        <4>2. h = node[p]
          BY <4>1 DEF h, Held
        <4> QED BY <3>1, <4>1, <4>2 DEF Ids
      <3> QED BY <3>2 DEF NodesAreNamed
    <2>6. CASE i \notin 1..Len(h)
      <3>1. a # 0 /\ x = e
        <4>1. i - Len(h) \in 1..a /\ x = k[i - Len(h)]
          BY <2>1, <2>2, <2>3, <2>4, <2>6
        <4> QED BY <2>2, <2>3, <4>1
      <3>2. p \in Ids(c)
        BY <2>2, <3>1
      <3>3. p \in PathsOfTags(m.tags)
        BY <1>2, <3>2, CodesAreOfNames
      <3> QED BY <1>1, <3>1, <3>3 DEF HasPath
    <2> QED BY <2>5, <2>6
  <1> HIDE DEF t
  <1> QED BY <1>1, <1>4 DEF NodesAreNamed, HasPath

LEMMA StepsKeepNodesNamed == TreeInv /\ NodesAreNamed /\ [Next]_vars => NodesAreNamed'
PROOF
  <1> SUFFICES ASSUME TreeInv, NodesAreNamed, [Next]_vars
               PROVE  NodesAreNamed'
    OBVIOUS
  <1>1. CASE \E m \in unread : InsertNames(m)
    BY <1>1, InsertNamesNamed
  <1>2. CASE ~\E m \in unread : InsertNames(m)
    <2>1. UNCHANGED <<map, node>>
      BY <1>2, OthersKeepTheTree DEF TreeStays
    <2> QED BY <2>1 DEF NodesAreNamed, HasPath
  <1> QED BY <1>1, <1>2

\* In every state a node of the tree holds nothing but what is named after it.
LEMMA NodesAlwaysNamed == Spec => []NodesAreNamed
BY InitiallyNodesAreNamed, StepsKeepNodesNamed, TreeIsInductive, PTL DEF Spec

-----------------------------------------------------------------------------
(* What a result is found by.                                              *)
\* The results that are named after what they were found by.
ByName == {"region", "place", "unique"}
NamedResult(r) == r.by \in ByName => IsCalled(Last(r.elements), r.via[1])
ResultsNamed == \A r \in results : NamedResult(r)

\* The name of a result is that of its last element, ...
LEMMA NamedResultIs ==
  ASSUME NEW by, NEW at, NEW quality, NEW phrase, NEW e, IsCalled(e, phrase)
  PROVE  /\ NamedResult(Result(by, at, quality, <<e>>, <<phrase>>))
         /\ \A f : NamedResult(Result(by, at, quality, <<f, e>>, <<phrase>>))
PROOF
  <1> DEFINE via == <<phrase>>
             one == <<e>>
  <1>1. via[1] = phrase /\ Last(one) = e
    BY DEF Last
  <1>2. \A f : Last(<<f, e>>) = e
    BY DEF Last
  <1>3. NamedResult(Result(by, at, quality, one, via))
    <2> DEFINE r == Result(by, at, quality, one, via)
    <2>1. r.elements = one /\ r.via = via
      BY DEF Result
    <2> HIDE DEF r, one, via
    <2>2. NamedResult(r)
      BY <1>1, <2>1 DEF NamedResult
    <2> QED BY <2>2 DEF r
  <1>4. ASSUME NEW f
        PROVE  NamedResult(Result(by, at, quality, <<f, e>>, via))
    <2> DEFINE two == <<f, e>>
               r == Result(by, at, quality, two, via)
    <2>1. r.elements = two /\ r.via = via
      BY DEF Result
    <2>2. Last(two) = e
      BY <1>2
    <2> HIDE DEF r, two, via
    <2>3. NamedResult(r)
      BY <1>1, <2>1, <2>2 DEF NamedResult
    <2> QED BY <2>3 DEF r, two
  <1> QED BY <1>3, <1>4

\* ... if it was found by a name.
LEMMA OtherResultIs ==
  ASSUME NEW by, by \notin ByName, NEW at, NEW quality, NEW elements, NEW via
  PROVE  NamedResult(Result(by, at, quality, elements, via))
BY DEF NamedResult, Result

\* A hit is called like its combination.
LEMMA HitsAreCalled ==
  ASSUME TreeInv, NodesAreNamed, NEW cs, NEW h \in Hits(cs)
  PROVE  IsCalled(Hit(h), h[1])
PROOF
  <1>1. h[2] \in DOMAIN Retrieve(h[1])
    BY HitsType
  <1>2. Hit(h) \in Ids(Retrieve(h[1]))
    BY <1>1 DEF Ids, Hit
  <1> QED BY <1>2, FoundAreCalled

LEMMA RegionsAreCalled ==
  ASSUME TreeInv, NodesAreNamed, NEW m \in EvaluateRegions(combos, IdentifyRegions(combos))
  PROVE  IsCalled(m.element, m.combined)
PROOF
  <1> DEFINE regions == IdentifyRegions(combos)
             matches == {n \in Hits(combos) \X regions :
                    n[1][2] \in Tested(Retrieve(n[1][1])) /\ n[2] \in RegionsAround(Hit(n[1]), regions)}
  <1>1. PICK n \in matches : m = [combined |-> n[1][1], element |-> Hit(n[1]), region |-> n[2],
                                  quality |-> QualityAmong(matches, n, RegionQuality(n[1], n[2]))]
    BY Zenon DEF EvaluateRegions
  <1>2. n[1] \in Hits(combos)
    BY <1>1
  <1> HIDE DEF matches
  <1>3. m.combined = n[1][1] /\ m.element = Hit(n[1])
    BY <1>1
  <1> QED BY <1>2, <1>3, HitsAreCalled

LEMMA PlacesAreCalled ==
  ASSUME TreeInv, NodesAreNamed, NEW places, NEW m \in EvaluateNearPlaces(combos, places, name)
  PROVE  IsCalled(m.local, m.combined)
PROOF
  <1> DEFINE matches == {h \in Hits(combos) : /\ ~IsAmong(Hit(h), places) /\ HasCentre(Hit(h))
                                       /\ \E p \in places : HasCentre(p) /\ p.id # Hit(h).id
                                       /\ Distance(Centre(Hit(h)), Centre(Nearest(Hit(h), places))) <= ClosePlace}
  <1>1. PICK h \in matches : m = [combined |-> h[1], global |-> Nearest(Hit(h), places), local |-> Hit(h),
        quality |-> QualityAmong(matches, h, NameQuality(h[1], Nearest(Hit(h), places), name))]
    BY Zenon DEF EvaluateNearPlaces
  <1>2. h \in Hits(combos)
    BY <1>1, Zenon
  <1> HIDE DEF matches
  <1>3. m.combined = h[1] /\ m.local = Hit(h)
    BY <1>1
  <1> QED BY <1>2, <1>3, HitsAreCalled

\* A search keeps the results there are, and adds others.
LEMMA SearchNamed ==
  ASSUME ResultsNamed, map' = map, NEW found, results' = results \cup found, \A r \in found : NamedResult(r)
  PROVE  ResultsNamed'
BY DEF ResultsNamed, NamedResult, IsCalled

LEMMA FindRoadsNamed == ResultsNamed /\ FindRoads => ResultsNamed'
PROOF
  <1> SUFFICES ASSUME ResultsNamed, FindRoads
               PROVE  ResultsNamed'
    OBVIOUS
  <1> DEFINE close == {m \in EvaluateRoads(combos, words) : m.distance < CloseRoad}
             Of(m) == Result("road", Position[m.node], m.quality, <<NodeElement(m.node), NodeElement(m.place)>>, <<m.combined>>)
             found == {Of(m) : m \in close}
  <1>1. results' = results \cup found /\ UNCHANGED mapVars
    BY Zenon DEF FindRoads, Search
  <1>2. \A m : NamedResult(Of(m))
    <2>1. "road" \notin ByName
      BY DEF ByName
    <2> QED BY <2>1, OtherResultIs, Zenon
  <1>3. \A r \in found : NamedResult(r)
    <2> HIDE DEF Of, close
    <2> QED BY <1>2
  <1>4. map' = map
    BY <1>1 DEF mapVars
  <1> HIDE DEF found
  <1> QED BY <1>1, <1>3, <1>4, SearchNamed

LEMMA FindCrossingsNamed == ResultsNamed /\ FindCrossings => ResultsNamed'
PROOF
  <1> SUFFICES ASSUME ResultsNamed, FindCrossings
               PROVE  ResultsNamed'
    OBVIOUS
  <1> DEFINE All(order)   == IdentifyCrossingRoads(words, order)
             Most(order)  == Max({m.size : m \in All(order)})
             There(order) == {m \in All(order) : m.at \in DOMAIN Position}
             Of(m, order) == Result("crossing", Position[m.at], (800 * m.size) \div Most(order), <<NodeElement(m.at)>>, m.names)
             Found(order) == {Of(m, order) : m \in There(order)}
  <1>1. PICK order \in NodeOrders : results' = results \cup Found(order) /\ UNCHANGED mapVars
    BY Zenon DEF FindCrossings, Search
  <1>2. \A m : NamedResult(Of(m, order))
    <2>1. "crossing" \notin ByName
      BY DEF ByName
    <2> DEFINE Quality(m) == (800 * m.size) \div Most(order)
               Here(m) == Result("crossing", Position[m.at], Quality(m), <<NodeElement(m.at)>>, m.names)
    <2>2. \A m : Of(m, order) = Here(m)
      BY Zenon
    <2> HIDE DEF Quality, Of
    <2>3. \A m : NamedResult(Here(m))
      BY <2>1, OtherResultIs, Zenon
    <2> HIDE DEF Here
    <2> QED BY <2>2, <2>3
  <1> DEFINE found == Found(order)
  <1>3. \A r \in found : NamedResult(r)
    <2> HIDE DEF Of, There
    <2> QED BY <1>2
  <1> HIDE DEF Found
  <1>4. results' = results \cup found /\ map' = map
    BY <1>1 DEF mapVars
  <1> HIDE DEF found
  <1> QED BY <1>3, <1>4, SearchNamed

LEMMA FindRegionsNamed == TreeInv /\ NodesAreNamed /\ ResultsNamed /\ FindRegions => ResultsNamed'
PROOF
  <1> SUFFICES ASSUME TreeInv, NodesAreNamed, ResultsNamed, FindRegions
               PROVE  ResultsNamed'
    OBVIOUS
  <1> DEFINE all == EvaluateRegions(combos, IdentifyRegions(combos))
             Of(m) == Result("region", Centre(m.element), (m.quality * 95) \div 100,
                             <<[type |-> "Relation", id |-> m.region.relation, rwt |-> 0], m.element>>, <<m.combined>>)
             found == {Of(m) : m \in all}
  <1>1. results' = results \cup found /\ UNCHANGED mapVars
    BY Zenon DEF FindRegions, Search
  <1>2. ASSUME NEW m \in all
        PROVE  NamedResult(Of(m))
    <2>1. IsCalled(m.element, m.combined)
      BY RegionsAreCalled
    <2> QED BY <2>1, NamedResultIs, Zenon
  <1>3. \A r \in found : NamedResult(r)
    <2> HIDE DEF Of, all
    <2> QED BY <1>2
  <1>4. map' = map
    BY <1>1 DEF mapVars
  <1> HIDE DEF found
  <1> QED BY <1>1, <1>3, <1>4, SearchNamed

LEMMA FindPlacesNamed == TreeInv /\ NodesAreNamed /\ ResultsNamed /\ FindPlaces => ResultsNamed'
PROOF
  <1> SUFFICES ASSUME TreeInv, NodesAreNamed, ResultsNamed, FindPlaces
               PROVE  ResultsNamed'
    OBVIOUS
  <1> DEFINE all == EvaluateNearPlaces(combos, GlobalPlaces, name)
             Of(m) == Result("place", Centre(m.local), (m.quality * 75) \div 100, <<m.global, m.local>>, <<m.combined>>)
             found == {Of(m) : m \in all}
  <1>1. results' = results \cup found /\ UNCHANGED mapVars
    BY Zenon DEF FindPlaces, Search
  <1>2. ASSUME NEW m \in all
        PROVE  NamedResult(Of(m))
    <2>1. IsCalled(m.local, m.combined)
      BY PlacesAreCalled
    <2> QED BY <2>1, NamedResultIs, Zenon
  <1>3. \A r \in found : NamedResult(r)
    <2> HIDE DEF Of, all
    <2> QED BY <1>2
  <1>4. map' = map
    BY <1>1 DEF mapVars
  <1> HIDE DEF found
  <1> QED BY <1>1, <1>3, <1>4, SearchNamed

LEMMA FindUniqueNamed == TreeInv /\ NodesAreNamed /\ ResultsNamed /\ FindUnique => ResultsNamed'
PROOF
  <1> SUFFICES ASSUME TreeInv, NodesAreNamed, ResultsNamed, FindUnique
               PROVE  ResultsNamed'
    OBVIOUS
  <1> DEFINE There(order) == {m \in EvaluateUniqueMatches(combos, order) : HasCentre(m.element)}
             Of(m) == Result("unique", Centre(m.element), (m.quality * 8) \div 10, <<m.element>>, <<m.combined>>)
             Found(order) == {Of(m) : m \in There(order)}
  <1>1. PICK order \in NodeOrders : results' = results \cup Found(order) /\ UNCHANGED mapVars
    BY Zenon DEF FindUnique, Search
  <1>2. ASSUME NEW m \in There(order)
        PROVE  NamedResult(Of(m))
    <2>1. PICK c \in combos : m \in UniqueMatch(c, order)
      BY DEF EvaluateUniqueMatches
    <2>2. m.combined = c /\ m.element \in Ids(Retrieve(c))
      BY <2>1, UniqueIsGood
    <2>3. IsCalled(m.element, m.combined)
      BY <2>2, FoundAreCalled
    <2> QED BY <2>3, NamedResultIs, Zenon
  <1> DEFINE found == Found(order)
  <1>3. \A r \in found : NamedResult(r)
    <2> HIDE DEF Of, There
    <2> QED BY <1>2
  <1> HIDE DEF Found
  <1>4. results' = results \cup found /\ map' = map
    BY <1>1 DEF mapVars
  <1> HIDE DEF found
  <1> QED BY <1>3, <1>4, SearchNamed

LEMMA FindKnownNamed == ResultsNamed /\ FindKnown => ResultsNamed'
PROOF
  <1> SUFFICES ASSUME ResultsNamed, FindKnown
               PROVE  ResultsNamed'
    OBVIOUS
  <1> DEFINE Of(e) == Result("known", Centre(e), KnownQuality(e.rwt), <<e>>, <<>>)
             Found(best) == {Of(e) : e \in {e \in best : HasCentre(e)}}
             bests == IF BestPlaces = {} THEN {{}} ELSE {{e} : e \in BestPlaces}
  <1>1. PICK best \in bests : results' = results \cup Found(best) /\ UNCHANGED mapVars
    BY Zenon DEF FindKnown
  <1>2. \A e : NamedResult(Of(e))
    <2>1. "known" \notin ByName
      BY DEF ByName
    <2> QED BY <2>1, OtherResultIs, Zenon
  <1> DEFINE found == Found(best)
  <1>3. \A r \in found : NamedResult(r)
    <2> HIDE DEF Of, bests
    <2> QED BY <1>2
  <1> HIDE DEF Found, bests
  <1>4. results' = results \cup found /\ map' = map
    BY <1>1 DEF mapVars
  <1> HIDE DEF found
  <1> QED BY <1>3, <1>4, SearchNamed

LEMMA StepsKeepResultsNamed == TreeInv /\ NodesAreNamed /\ ResultsNamed /\ [Next]_vars => ResultsNamed'
PROOF
  <1> SUFFICES ASSUME TreeInv, NodesAreNamed, ResultsNamed, [Next]_vars
               PROVE  ResultsNamed'
    OBVIOUS
  <1>1. CASE \E t \in Texts, p \in Proximities : Ask(t, p)
    <2>1. results' = {}
      BY <1>1 DEF Ask
    <2> QED BY <2>1 DEF ResultsNamed
  <1>2. CASE FindRoads \/ FindCrossings \/ FindRegions \/ FindPlaces \/ FindUnique \/ FindKnown
    BY <1>2, FindRoadsNamed, FindCrossingsNamed, FindRegionsNamed, FindPlacesNamed, FindUniqueNamed, FindKnownNamed
  <1>3. CASE \/ \E m \in unread : InsertNames(m)
             \/ Serve \/ Restart \/ (\E r \in unseen : Examine(r)) \/ Clean \/ (\E r \in Left : Sort(r)) \/ UNCHANGED vars
    <2>1. UNCHANGED <<map, results>>
      BY <1>3 DEF InsertNames, Serve, Restart, Examine, Clean, Sort, vars, mapVars
    <2> QED BY <2>1 DEF ResultsNamed, NamedResult, IsCalled
  <1> QED BY <1>1, <1>2, <1>3 DEF Next

LEMMA InitiallyResultsNamed == Init => ResultsNamed
BY DEF Init, ResultsNamed

\* The element of a result that a region, a place or a unique match gave has a
\* name that reads like the word combination it was found by, whatever else
\* was entered into the text tree, and from a tree that was read from a file
\* as well (tokenprocessor.cpp:242-555, resultgenerator.cpp:174-293).
THEOREM ResultsHaveNames == Spec => []ResultsAreNamed
PROOF
  <1>1. Spec => []ResultsNamed
    BY InitiallyResultsNamed, StepsKeepResultsNamed, TreeIsInductive, NodesAlwaysNamed, PTL DEF Spec
  <1>2. ResultsNamed => ResultsAreNamed
    BY DEF ResultsNamed, NamedResult, ResultsAreNamed, ByName
  <1> QED BY <1>1, <1>2, PTL

-----------------------------------------------------------------------------
(* Crossings.                                                              *)
\* Whether a node is, or lies on, something in the map that is called so.
LiesOn(id, phrase) ==
  \E m \in map : /\ IsCalled(m.element, phrase)
                 /\ \/ m.element.type = "Node" /\ m.element.id = id
                    \/ m.element.type = "Way" /\ id \in NodesOfWay(m.element.id)

\* A node that a phrase leads to lies on something called by the phrase.
LEMMA CalledLiesOn ==
  ASSUME NodesAreNamed, NEW phrase, NEW id \in NodesCalled(phrase)
  PROVE  LiesOn(id, phrase)
PROOF
  <1>1. PICK e \in Ids(Retrieve(phrase)) :
               id \in IF e.type = "Node" THEN {e.id} ELSE IF e.type = "Way" THEN NodesOfWay(e.id) ELSE {}
    BY DEF NodesCalled
  <1>2. \/ e.type = "Node" /\ e.id = id
        \/ e.type = "Way" /\ id \in NodesOfWay(e.id)
    BY <1>1
  <1>3. IsCalled(e, phrase)
    BY FoundAreCalled
  <1>4. PICK m \in map : m.element = e
    BY <1>3, Zenon DEF IsCalled
  <1> QED BY <1>2, <1>3, <1>4 DEF LiesOn

\* The nodes that are called so are in every order of ids.
LEMMA CalledAreInOrder ==
  ASSUME TreeInv, NEW order \in NodeOrders, NEW phrase
  PROVE  NodesCalled(phrase) \subseteq Ids(order)
PROOF
  <1> SUFFICES ASSUME NEW id \in NodesCalled(phrase)
               PROVE  id \in Ids(order)
    OBVIOUS
  <1>1. PICK e \in Ids(Retrieve(phrase)) :
               id \in IF e.type = "Node" THEN {e.id} ELSE IF e.type = "Way" THEN NodesOfWay(e.id) ELSE {}
    BY DEF NodesCalled
  <1>2. e \in Elements
    <2> DEFINE u == Retrieve(phrase)
    <2>1. u \in Seq(Elements)
      BY RetrieveType
    <2>2. PICK i \in DOMAIN u : e = u[i]
      BY DEF Ids
    <2> HIDE DEF u
    <2> QED BY <2>1, <2>2
  <1>3. CASE e.type = "Node"
    BY <1>1, <1>2, <1>3, AskingAssumption
  <1>4. CASE e.type = "Way"
    <2>1. id \in NodesOfWay(e.id)
      BY <1>1, <1>4
    <2>2. e.id \in DOMAIN WayNodes
      BY <2>1 DEF NodesOfWay
    <2> QED BY <2>1, <2>2, AskingAssumption
  <1> QED BY <1>1, <1>3, <1>4

\* A sequence is in itself.
LEMMA InItself ==
  ASSUME NEW T, NEW s \in Seq(T)
  PROVE  Occurs(s, s)
PROOF
  <1>1. SubSeq(s, 1, Len(s)) = s /\ Len(s) \in Nat
    OBVIOUS
  <1>2. 0 \in 0..(Len(s) - Len(s)) /\ 0 + 1 = 1 /\ 0 + Len(s) = Len(s)
    BY <1>1
  <1> QED BY <1>1, <1>2 DEF Occurs

\* The names of a window are texts, and not the same.
LEMMA PairsType ==
  ASSUME NEW ws \in Seq(Seq(Nat)), NEW w \in Windows(Len(ws)), NEW p \in PairsOf(ws, w)
  PROVE  p[1] # p[2]
PROOF
  <1> DEFINE Part(from, len) == Combinations(SubSeq(ws, from, from + len - 1), len, len)
             A == Part(w[4], w[2])
             B == Part(w[4] + w[2] + w[1], w[3])
  <1>1. p \in A \X B /\ ~Occurs(p[2], p[1])
    <2>1. p \in {q \in A \X B : ~Occurs(q[2], q[1]) /\ ~Occurs(q[1], q[2])}
      BY Zenon DEF PairsOf
    <2> HIDE DEF A, B
    <2> QED BY <2>1
  <1>2. A \subseteq Seq(Nat)
    <2>1. /\ w \in (0..5) \X (1..3) \X (1..3) \X (1..Len(ws))
          /\ w[1] + w[2] + w[3] + w[4] <= Len(ws) + 1
      BY DEF Windows, MaxBetween, MaxWords
    <2> DEFINE a == w[4]
               b == w[2]
               c == w[1]
               d == w[3]
               u == SubSeq(ws, a, a + b - 1)
    <2>2. a \in Nat /\ a >= 1 /\ b \in Nat /\ b >= 1 /\ a + b - 1 \in Nat /\ a + b - 1 <= Len(ws)
      <3>1. w[1] \in 0..5 /\ w[2] \in 1..3 /\ w[3] \in 1..3 /\ w[4] \in 1..Len(ws) /\ w[1] + w[2] + w[3] + w[4] <= Len(ws) + 1
        BY <2>1
      <3>2. c \in 0..5 /\ b \in 1..3 /\ d \in 1..3 /\ a \in 1..Len(ws) /\ c + b + d + a <= Len(ws) + 1 /\ Len(ws) \in Nat
        BY <3>1
      <3> HIDE DEF a, b, c, d
      <3> QED BY <3>2
    <2>3. u \in Seq(Seq(Nat))
      <3> DEFINE U == Seq(Nat)
                 e == a + b - 1
      <3> HIDE DEF a, U, e
      <3>1. ws \in Seq(U) /\ a \in Nat /\ a >= 1 /\ e \in Nat /\ e <= Len(ws)
        BY <2>2 DEF U, e
      <3>2. SubSeq(ws, a, e) \in Seq(U)
        BY <3>1
      <3> QED BY <3>2 DEF U, e
    <2> HIDE DEF a, b, u
    <2>4. Combinations(u, b, b) \subseteq Seq(Nat)
      BY <2>2, <2>3, CombinationsType
    <2> QED BY <2>4 DEF a, b, u
  <1>3. p[1] \in Seq(Nat)
    <2> HIDE DEF A, B
    <2>1. p[1] \in A
      BY <1>1
    <2> QED BY <1>2, <2>1
  <1> HIDE DEF A, B
  <1> QED BY <1>1, <1>3, InItself

\* A crossing lies on what has its names.
LEMMA CandidatesLieOn ==
  ASSUME TreeInv, NodesAreNamed, NEW ws \in Seq(Seq(Nat)), NEW order \in NodeOrders, NEW c \in Candidates(ws, order)
  PROVE  c.names[1] # c.names[2] /\ LiesOn(c.at, c.names[1]) /\ LiesOn(c.at, c.names[2])
PROOF
  <1> DEFINE LastOf(ids) == order[Max({i \in DOMAIN order : order[i] \in ids})]
             Found(w) == {[at |-> LastOf(Shared(pair)), names |-> pair, size |-> w[2] * w[2] + w[3] * w[3],
                    turn |-> Turn(w, Len(ws))] : pair \in {pair \in PairsOf(ws, w) : Shared(pair) # {}}}
  <1>1. c \in UNION {Found(w) : w \in Windows(Len(ws))}
    BY Zenon DEF Candidates
  <1>2. PICK w \in Windows(Len(ws)) : c \in Found(w)
    <2> HIDE DEF Found
    <2> QED BY <1>1
  <1>3. PICK pair \in PairsOf(ws, w) : Shared(pair) # {} /\ c.at = LastOf(Shared(pair)) /\ c.names = pair
    <2> HIDE DEF LastOf
    <2> QED BY <1>2
  <1>4. pair[1] # pair[2]
    BY PairsType
  <1> DEFINE S == Shared(pair)
             I == {i \in DOMAIN order : order[i] \in S}
  <1>5. S \subseteq NodesCalled(pair[1]) /\ S \subseteq NodesCalled(pair[2]) /\ S # {}
    BY <1>3 DEF Shared
  <1>6. S \subseteq Ids(order)
    <2> HIDE DEF S
    <2> QED BY <1>5, CalledAreInOrder
  <1>7. order \in Seq(Nat)
    BY AskingAssumption
  <1>8. Max(I) \in I
    <2>1. I # {}
      <3> HIDE DEF S
      <3> QED BY <1>5, <1>6 DEF Ids
    <2>2. I \in SUBSET Nat /\ Len(order) \in Nat /\ \A i \in I : i <= Len(order)
      <3> HIDE DEF S
      <3> QED BY <1>7
    <2> HIDE DEF I
    <2> QED BY <2>1, <2>2, MaxIsIn
  <1>9. c.at \in S
    <2>1. c.at = order[Max(I)]
      BY <1>3
    <2> DEFINE k == Max(I)
    <2> HIDE DEF S, k
    <2>2. k \in DOMAIN order /\ order[k] \in S
      BY <1>8 DEF k
    <2> QED BY <2>1, <2>2 DEF k
  <1>10. c.at \in NodesCalled(pair[1]) /\ c.at \in NodesCalled(pair[2])
    <2> HIDE DEF S
    <2> QED BY <1>5, <1>9
  <1> QED BY <1>3, <1>4, <1>10, CalledLiesOn

\* A crossing lies on things called by its two names, and no node is the
\* crossing of two results; before the search there is none.
IsCrossing(r) == r.by = "crossing"
LiesOnBoth(r) == r.via[1] # r.via[2] /\ LiesOn(r.elements[1].id, r.via[1]) /\ LiesOn(r.elements[1].id, r.via[2])
CrossInv ==
  /\ stage \in {"roads", "crossings"} => \A r \in results : ~IsCrossing(r)
  /\ \A r \in results : IsCrossing(r) => LiesOnBoth(r)
  /\ \A r, s \in results : IsCrossing(r) /\ IsCrossing(s) /\ s.elements = r.elements => s = r

\* Other searches add no crossings.
LEMMA OtherSearches ==
  ASSUME CrossInv, map' = map, NEW found, results' = results \cup found, \A r \in found : ~IsCrossing(r),
         stage' = "crossings" => stage = "roads", stage' # "roads"
  PROVE  CrossInv'
PROOF
  <1>1. \A r \in results' : IsCrossing(r) => r \in results
    OBVIOUS
  <1>2. \A r \in results' : IsCrossing(r) => LiesOnBoth(r)'
    BY <1>1 DEF CrossInv, LiesOnBoth, LiesOn, IsCalled
  <1>3. stage' = "crossings" => \A r \in results' : ~IsCrossing(r)
    BY <1>1 DEF CrossInv
  <1> QED BY <1>1, <1>2, <1>3 DEF CrossInv, IsCrossing

LEMMA OthersAreNoCrossings ==
  ASSUME NEW by, by # "crossing", NEW at, NEW quality, NEW elements, NEW via
  PROVE  ~IsCrossing(Result(by, at, quality, elements, via))
BY DEF IsCrossing, Result

LEMMA OthersKeepCrossings ==
  ASSUME CrossInv, FindRoads \/ FindRegions \/ FindPlaces \/ FindUnique \/ FindKnown
  PROVE  CrossInv'
PROOF
  <1>1. CASE FindRoads
    <2> DEFINE found == {Result("road", Position[m.node], m.quality, <<NodeElement(m.node), NodeElement(m.place)>>, <<m.combined>>)
                           : m \in {m \in EvaluateRoads(combos, words) : m.distance < CloseRoad}}
    <2>1. results' = results \cup found /\ UNCHANGED mapVars /\ stage' = "crossings" /\ stage = "roads"
      BY <1>1, Zenon DEF FindRoads, Search
    <2>2. \A r \in found : ~IsCrossing(r)
      BY DEF IsCrossing, Result
    <2>3. map' = map
      BY <2>1 DEF mapVars
    <2> HIDE DEF found
    <2> QED BY <2>1, <2>2, <2>3, OtherSearches
  <1>2. CASE FindRegions
    <2> DEFINE found == {Result("region", Centre(m.element), (m.quality * 95) \div 100,
                 <<[type |-> "Relation", id |-> m.region.relation, rwt |-> 0], m.element>>, <<m.combined>>) :
            m \in EvaluateRegions(combos, IdentifyRegions(combos))}
    <2>1. results' = results \cup found /\ UNCHANGED mapVars /\ stage' = "places"
      BY <1>2, Zenon DEF FindRegions, Search
    <2>2. \A r \in found : ~IsCrossing(r)
      BY DEF IsCrossing, Result
    <2>3. map' = map
      BY <2>1 DEF mapVars
    <2> HIDE DEF found
    <2> QED BY <2>1, <2>2, <2>3, OtherSearches
  <1>3. CASE FindPlaces
    <2> DEFINE found == {Result("place", Centre(m.local), (m.quality * 75) \div 100, <<m.global, m.local>>, <<m.combined>>) :
            m \in EvaluateNearPlaces(combos, GlobalPlaces, name)}
    <2>1. results' = results \cup found /\ UNCHANGED mapVars /\ stage' = "unique"
      BY <1>3, Zenon DEF FindPlaces, Search
    <2>2. \A r \in found : ~IsCrossing(r)
      BY DEF IsCrossing, Result
    <2>3. map' = map
      BY <2>1 DEF mapVars
    <2> HIDE DEF found
    <2> QED BY <2>1, <2>2, <2>3, OtherSearches
  <1>4. CASE FindUnique
    <2> DEFINE Found(order) == {Result("unique", Centre(m.element), (m.quality * 8) \div 10, <<m.element>>, <<m.combined>>) :
                 m \in {m \in EvaluateUniqueMatches(combos, order) : HasCentre(m.element)}}
    <2>1. PICK order \in NodeOrders : results' = results \cup Found(order) /\ UNCHANGED mapVars /\ stage' = "known"
      BY <1>4, Zenon DEF FindUnique, Search
    <2> DEFINE found == Found(order)
    <2>2. \A r \in found : ~IsCrossing(r)
      BY DEF IsCrossing, Result
    <2>3. map' = map
      BY <2>1 DEF mapVars
    <2> HIDE DEF Found
    <2>4. results' = results \cup found /\ stage' = "known"
      BY <2>1
    <2> HIDE DEF found
    <2> QED BY <2>2, <2>3, <2>4, OtherSearches
  <1>5. CASE FindKnown
    <2> DEFINE Found(best) == {Result("known", Centre(e), KnownQuality(e.rwt), <<e>>, <<>>) : e \in {e \in best : HasCentre(e)}}
               bests == IF BestPlaces = {} THEN {{}} ELSE {{e} : e \in BestPlaces}
    <2>1. PICK best \in bests : /\ results' = results \cup Found(best) /\ UNCHANGED mapVars
                                /\ stage' \in {"done", "sorting", "cleaning"}
      <3>1. \E best \in bests : /\ results' = results \cup Found(best) /\ UNCHANGED mapVars
                                /\ stage' = "done" \/ stage' = "sorting" \/ stage' = "cleaning"
        BY <1>5, Zenon DEF FindKnown
      <3> HIDE DEF bests, Found
      <3> QED BY <3>1
    <2> DEFINE found == Found(best)
    <2>2. \A r \in found : ~IsCrossing(r)
      BY DEF IsCrossing, Result
    <2>3. map' = map
      BY <2>1 DEF mapVars
    <2> HIDE DEF Found
    <2>4. results' = results \cup found /\ stage' \in {"done", "sorting", "cleaning"}
      BY <2>1
    <2> HIDE DEF found
    <2> QED BY <2>2, <2>3, <2>4, OtherSearches
  <1> QED BY <1>1, <1>2, <1>3, <1>4, <1>5

\* The search for crossings finds each node at most once, with two names.
LEMMA FindCrossingsKeeps == TreeInv /\ NodesAreNamed /\ Typed /\ CrossInv /\ FindCrossings => CrossInv'
PROOF
  <1> SUFFICES ASSUME TreeInv, NodesAreNamed, Typed, CrossInv, FindCrossings
               PROVE  CrossInv'
    OBVIOUS
  <1> DEFINE All(order)   == IdentifyCrossingRoads(words, order)
             Most(order)  == Max({m.size : m \in All(order)})
             Quality(m, order) == (800 * m.size) \div Most(order)
             There(order) == {m \in All(order) : m.at \in DOMAIN Position}
             Of(m, order) == Result("crossing", Position[m.at], Quality(m, order), <<NodeElement(m.at)>>, m.names)
             Found(order) == {Of(m, order) : m \in There(order)}
  <1>1. PICK order \in NodeOrders : /\ results' = results \cup Found(order) /\ UNCHANGED mapVars
                                    /\ stage = "crossings" /\ stage' = "regions"
    BY Zenon DEF FindCrossings, Search
  <1>2. words \in Seq(Seq(Nat)) /\ Len(words) \in Nat
    BY DEF Typed, Asked
  <1>3. map' = map
    BY <1>1 DEF mapVars
  <1> HIDE DEF Quality
  <1>4. ASSUME NEW r \in Found(order)
        PROVE  /\ LiesOnBoth(r) /\ \E m \in All(order) : r = Of(m, order) /\ r.elements[1].id = m.at
    <2>1. PICK m \in There(order) : r = Of(m, order)
      OBVIOUS
    <2>2. m \in All(order)
      BY <2>1
    <2>3. m \in Candidates(words, order)
      BY <1>2, <2>2, CrossingsType
    <2>4. m.names[1] # m.names[2] /\ LiesOn(m.at, m.names[1]) /\ LiesOn(m.at, m.names[2])
      BY <1>2, <2>3, CandidatesLieOn
    <2> DEFINE one == <<NodeElement(m.at)>>
    <2>5. r.via = m.names /\ r.elements = one
      BY <2>1 DEF Result
    <2>6. one[1].id = m.at
      BY DEF NodeElement
    <2> HIDE DEF one
    <2>7. r.elements[1].id = m.at
      BY <2>5, <2>6
    <2>8. LiesOnBoth(r)
      BY <2>4, <2>5, <2>7 DEF LiesOnBoth
    <2> QED BY <2>1, <2>2, <2>7, <2>8
  <1>5. ASSUME NEW r \in Found(order), NEW s \in Found(order), s.elements = r.elements
        PROVE  s = r
    <2>1. PICK m \in All(order) : r = Of(m, order) /\ r.elements[1].id = m.at
      BY <1>4
    <2>2. PICK n \in All(order) : s = Of(n, order) /\ s.elements[1].id = n.at
      BY <1>4
    <2>3. n.at = m.at
      <3> HIDE DEF Of, Found, All
      <3> QED BY <1>5, <2>1, <2>2
    <2>4. m = FirstAt(Candidates(words, order), m.at) /\ n = FirstAt(Candidates(words, order), n.at)
      BY <1>2, CrossingsType
    <2>5. n = m
      <3> HIDE DEF All, Of, Found
      <3> QED BY <2>3, <2>4
    <2> HIDE DEF Of
    <2> QED BY <2>1, <2>2, <2>5
  <1> DEFINE found == Found(order)
  <1> HIDE DEF Found
  <1>6. results' = results \cup found /\ stage' = "regions" /\ \A r \in results : ~IsCrossing(r)
    BY <1>1 DEF CrossInv
  <1>7. \A r \in results' : IsCrossing(r) => r \in found
    BY <1>6
  <1>8. \A r \in results' : IsCrossing(r) => LiesOnBoth(r)'
    <2>1. \A r : LiesOnBoth(r) => LiesOnBoth(r)'
      BY <1>3 DEF LiesOnBoth, LiesOn, IsCalled
    <2> QED BY <1>4, <1>7, <2>1
  <1>9. \A r, s \in results' : IsCrossing(r) /\ IsCrossing(s) /\ s.elements = r.elements => s = r
    BY <1>5, <1>7
  <1> HIDE DEF found
  <1> QED BY <1>6, <1>8, <1>9 DEF CrossInv, IsCrossing

LEMMA StepsKeepCrossings == TreeInv /\ NodesAreNamed /\ Typed /\ CrossInv /\ [Next]_vars => CrossInv'
PROOF
  <1> SUFFICES ASSUME TreeInv, NodesAreNamed, Typed, CrossInv, [Next]_vars
               PROVE  CrossInv'
    OBVIOUS
  <1>1. CASE \E t \in Texts, p \in Proximities : Ask(t, p)
    <2>1. results' = {}
      BY <1>1 DEF Ask
    <2> QED BY <2>1 DEF CrossInv
  <1>2. CASE FindRoads \/ FindRegions \/ FindPlaces \/ FindUnique \/ FindKnown
    BY <1>2, OthersKeepCrossings
  <1>3. CASE FindCrossings
    BY <1>3, FindCrossingsKeeps
  <1>4. CASE \/ \E m \in unread : InsertNames(m)
             \/ Serve \/ Restart \/ (\E r \in unseen : Examine(r)) \/ Clean \/ (\E r \in Left : Sort(r)) \/ UNCHANGED vars
    <2>1. UNCHANGED <<map, results>> /\ (stage' \in {"roads", "crossings"} => stage \in {"roads", "crossings"})
      BY <1>4 DEF InsertNames, Serve, Restart, Examine, Clean, Sort, vars, mapVars
    <2> QED BY <2>1 DEF CrossInv, IsCrossing, LiesOnBoth, LiesOn, IsCalled
  <1> QED BY <1>1, <1>2, <1>3, <1>4 DEF Next

LEMMA InitiallyCrossings == Init => CrossInv
BY DEF Init, CrossInv

\* A crossing that is reported is a node of two things of the map, called by
\* the two different names that it is reported with, and is reported once,
\* however the windows are gone through and the set of nodes is ordered
\* (mapanalysis.cpp:50-144, resultgenerator.cpp:143-168).
THEOREM CrossingsHaveNames == Spec => []CrossingsAreOfNamedRoads
PROOF
  <1>1. Spec => []CrossInv
    BY InitiallyCrossings, StepsKeepCrossings, TreeIsInductive, NodesAlwaysNamed, TypedAlways, PTL DEF Spec
  <1>2. CrossInv => CrossingsAreOfNamedRoads
    BY DEF CrossInv, IsCrossing, LiesOnBoth, LiesOn, CrossingsAreOfNamedRoads
  <1> QED BY <1>1, <1>2, PTL

-----------------------------------------------------------------------------
(* The whole query.                                                        *)

\* With that the hypothesis about cleaning and sorting is met in every state.
LEMMA InductiveAlways == Spec => []IInv
PROOF
  <1>1. Typed => ResultsAreNumbers
    BY DEF Typed, AreResults, IsResult, ResultsAreNumbers
  <1> QED BY <1>1, TypedAlways, Inductive, PTL

\* Every variable holds what it should: every node of the text tree has its
\* parent, every result is somewhere, has a quality and an element, and the
\* answer is made of results that were found (resultgenerator.cpp:75-363).
THEOREM TypeCorrect == Spec => []TypeOK
PROOF
  <1>1. TreeInv /\ Typed /\ IInv => TypeOK
    <2> SUFFICES ASSUME TreeInv, Typed, IInv
                 PROVE  TypeOK
      OBVIOUS
    <2>1. map \in Maps /\ unread \subseteq map /\ DOMAIN name \subseteq Elements /\ size \in Nat
      BY DEF TreeInv, Typed, Named
    <2>2. ASSUME NEW p \in DOMAIN node
          PROVE  Ids(node[p]) \subseteq Elements /\ (p # <<>> => Front(p) \in DOMAIN node)
      <3>1. node[p] \in Seq(Elements) /\ p \in Seq(UsedCodes) /\ \A k \in 0..Len(p) : SubSeq(p, 1, k) \in DOMAIN node
        BY DEF TreeInv, GoodTree, IsTree, Paths
      <3>2. Ids(node[p]) \subseteq Elements
        BY <3>1 DEF Ids
      <3>3. ASSUME p # <<>>
            PROVE  Front(p) \in DOMAIN node
        <4>1. Len(p) \in Nat /\ Len(p) # 0
          BY <3>1, <3>3
        <4>2. Len(p) - 1 \in 0..Len(p)
          BY <4>1
        <4> QED BY <3>1, <4>2 DEF Front
      <3> QED BY <3>2, <3>3
    <2>3. proximity \in Proximities \cup {0}
      BY DEF Typed, Asked
    <2>4. \A r \in results : r.at \in Nat /\ r.quality \in Int /\ r.elements # <<>>
      BY DEF Typed, AreResults, IsResult
    <2>5. unseen \subseteq results /\ kept \subseteq results
      BY DEF IInv, OnlyResults
    <2>6. Ids(answer) \subseteq kept
      BY DEF IInv, AnswerIsSorted, Ids
    <2>7. stage \in Stages
      BY DEF IInv
    <2> QED BY <2>1, <2>2, <2>3, <2>4, <2>5, <2>6, <2>7 DEF TypeOK, Stages
  <1> QED BY <1>1, TreeIsInductive, TypedAlways, InductiveAlways, PTL

\* No two results of an answer are closer than the caller's proximity, in
\* whatever order the set of results is gone through, although results are
\* removed from it meanwhile (resultgenerator.cpp:334-354).
THEOREM NoTwoAreClose == Spec => []NoTwoClose
BY InductiveAlways, NoneIsCloseInTheEnd, PTL

\* Cleaning never costs the best result: the answer begins with one that is
\* as good as any that was found (resultgenerator.cpp:334-358).
THEOREM BestComesFirst == Spec => []BestIsFirst
PROOF
  <1>1. Typed => ResultsAreNumbers
    BY DEF Typed, AreResults, IsResult, ResultsAreNumbers
  <1> QED BY <1>1, TypedAlways, InductiveAlways, FirstIsBestInTheEnd, PTL
=============================================================================
