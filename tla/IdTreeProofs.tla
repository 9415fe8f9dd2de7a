---------------------------- MODULE IdTreeProofs ----------------------------
(***************************************************************************)
(* Theorems about IdTree, for any depth, number of children, length of the *)
(* zero path, size of the cache, ids and data.                             *)
(***************************************************************************)
EXTENDS IdTree, NatSetTheorems

\* The numbers among the constants.
LEMMA Numbers ==
  /\ Levels \in Nat \ {0} /\ NumChildren \in Nat \ {0} /\ ZeroPathDepth \in Nat \ {0}
  /\ CacheSize \in Nat \ {0} /\ SizeWrap \in Nat \ {0} /\ CounterWrap \in Nat \ {0}
  /\ ZeroPathDepth <= Levels /\ MaxRemovals \in Nat
PROOF BY TreeAssumption

-----------------------------------------------------------------------------
(* Digits: no two ids have the same way through the tree.                  *)

\* What is defined by the recursion of the weights satisfies it.
LEMMA WeightsExist == Weight = [k \in 0..Levels |-> IF k = 0 THEN 1 ELSE NumChildren * Weight[k - 1]]
PROOF
  <1> DEFINE IsW(w, m) == w = [k \in 0..m |-> IF k = 0 THEN 1 ELSE NumChildren * w[k - 1]]
             S         == {m \in 0..Levels : \E w : IsW(w, m)}
  <1>0. Levels \in Nat
    BY Numbers
  <1>1. 0 \in S
    <2>1. \E w : IsW(w, 0)
      <3>1. IsW([k \in 0..0 |-> 1], 0)
        OBVIOUS
      <3> QED BY <3>1
    <2>2. 0 \in 0..Levels
      BY <1>0
    <2> HIDE DEF IsW
    <2> QED BY <2>1, <2>2
  <1>2. ASSUME NEW m \in 0..(Levels - 1), m \in S
        PROVE  m + 1 \in S
    <2>1. PICK w : IsW(w, m)
      BY <1>2
    <2> DEFINE v == [k \in 0..(m + 1) |-> IF k = m + 1 THEN NumChildren * w[m] ELSE w[k]]
    <2>2. ASSUME NEW k \in 0..(m + 1)
          PROVE  v[k] = IF k = 0 THEN 1 ELSE NumChildren * v[k - 1]
      <3>1. CASE k = m + 1
        BY <1>0, <3>1
      <3>2. CASE k # m + 1
        <4>1. k \in 0..m /\ (k # 0 => k - 1 \in 0..m)
          BY <1>0, <3>2
        <4>2. w[k] = IF k = 0 THEN 1 ELSE NumChildren * w[k - 1]
          BY <2>1, <4>1
        <4>3. v[k] = w[k] /\ (k # 0 => v[k - 1] = w[k - 1])
          BY <1>0, <4>1
        <4> QED BY <4>2, <4>3
      <3> QED BY <3>1, <3>2
    <2>3. IsW(v, m + 1)
      <3>1. v = [k \in 0..(m + 1) |-> IF k = 0 THEN 1 ELSE NumChildren * v[k - 1]]
        BY <2>2
      <3> QED BY <3>1
    <2>4. m + 1 \in 0..Levels
      BY <1>0
    <2> HIDE DEF IsW
    <2> QED BY <2>3, <2>4
  <1>3. Levels \in S
    <2>1. 0..Levels \subseteq S
      <3> HIDE DEF S
      <3> QED BY <1>0, <1>1, <1>2, IntervalInduction
    <2> QED BY <1>0, <2>1
  <1>4. PICK u : IsW(u, Levels)
    BY <1>3
  <1>5. IsW(CHOOSE w : IsW(w, Levels), Levels)
    BY <1>4, Zenon
  <1>6. Weight = CHOOSE w : IsW(w, Levels)
    BY Zenon DEF Weight
  <1> QED BY <1>5, <1>6, Zenon

\* Every weight is a number, and that of the next digit is so much greater.
LEMMA Weights ==
  /\ Weight[0] = 1
  /\ \A k \in 0..(Levels - 1) : Weight[k + 1] = NumChildren * Weight[k]
  /\ \A k \in 0..Levels : Weight[k] \in Nat \ {0}
PROOF
  <1>0. Levels \in Nat /\ NumChildren \in Nat \ {0}
    BY Numbers
  <1>1. \A k \in 0..Levels : Weight[k] = IF k = 0 THEN 1 ELSE NumChildren * Weight[k - 1]
    BY WeightsExist
  <1>2. Weight[0] = 1
    BY <1>0, <1>1
  <1>3. ASSUME NEW k \in 0..(Levels - 1)
        PROVE  Weight[k + 1] = NumChildren * Weight[k]
    BY <1>0, <1>1
  <1> DEFINE S == {k \in 0..Levels : Weight[k] \in Nat \ {0}}
  <1>4. 0 \in S
    BY <1>0, <1>2
  <1>5. ASSUME NEW k \in 0..(Levels - 1), k \in S
        PROVE  k + 1 \in S
    <2>1. Weight[k] \in Nat \ {0}
      BY <1>5
    <2>2. NumChildren * Weight[k] \in Nat \ {0}
      BY <1>0, <2>1
    <2>3. k + 1 \in 0..Levels
      BY <1>0
    <2> QED BY <1>3, <2>2, <2>3
  <1>6. 0..Levels \subseteq S
    <2> HIDE DEF S
    <2> QED BY <1>0, <1>4, <1>5, IntervalInduction
  <1> QED BY <1>2, <1>3, <1>6

\* Dividing by a product is dividing twice.
LEMMA DividedTwice ==
  ASSUME NEW x \in Nat, NEW w \in Nat \ {0}, NEW n \in Nat \ {0}
  PROVE  /\ x \div w \in Nat /\ (x \div w) \div n = x \div (n * w)
         /\ x \div w = n * ((x \div w) \div n) + ((x \div w) % n)
PROOF
  <1> DEFINE q == x \div w
             r == x % w
  <1>1. q \in Nat /\ r \in 0..(w - 1) /\ x = w * q + r
    OBVIOUS
  <1>2. q \div n \in Nat /\ q % n \in 0..(n - 1) /\ q = n * (q \div n) + (q % n)
    BY <1>1
  <1>3. q \div n = x \div (n * w)
    BY <1>1, <1>2
  <1> QED BY <1>1, <1>2, <1>3

\* Two numbers with the same quotient and the same digit before it agree.
LEMMA OneMoreDigit ==
  ASSUME NEW x \in Nat, NEW y \in Nat, NEW w \in Nat \ {0}, NEW n \in Nat \ {0},
         x \div (n * w) = y \div (n * w), (x \div w) % n = (y \div w) % n
  PROVE  x \div w = y \div w
PROOF
  <1>1. (x \div w) \div n = (y \div w) \div n
    <2>1. (x \div w) \div n = x \div (n * w)
      BY DividedTwice
    <2>2. (y \div w) \div n = y \div (n * w)
      BY DividedTwice
    <2> QED BY <2>1, <2>2
  <1>2. x \div w = n * ((x \div w) \div n) + ((x \div w) % n)
    BY DividedTwice
  <1>3. y \div w = n * ((y \div w) \div n) + ((y \div w) % n)
    BY DividedTwice
  <1> QED BY <1>1, <1>2, <1>3

\* An id's digits are a way from the root to the lowest level.
LEMMA DigitsAreAPath ==
  ASSUME NEW id \in Ids
  PROVE  Digits[id] \in Seq(0..(NumChildren - 1)) /\ Len(Digits[id]) = Levels
PROOF
  <1>0. Levels \in Nat /\ NumChildren \in Nat \ {0} /\ id \in Nat
    BY Numbers, TreeAssumption, Weights
  <1>1. ASSUME NEW k \in 1..Levels
        PROVE  (id \div Weight[Levels - k]) % NumChildren \in 0..(NumChildren - 1)
    <2>1. Levels - k \in 0..Levels
      BY <1>0
    <2>2. Weight[Levels - k] \in Nat \ {0}
      BY <2>1, Weights
    <2>3. id \div Weight[Levels - k] \in Nat
      BY <1>0, <2>2
    <2> QED BY <1>0, <2>3
  <1>2. Digits[id] = [k \in 1..Levels |-> (id \div Weight[Levels - k]) % NumChildren]
    BY DEF Digits
  <1> QED BY <1>0, <1>1, <1>2

\* No two ids have the same digits.
LEMMA DigitsTellIds ==
  ASSUME NEW id1 \in Ids, NEW id2 \in Ids, Digits[id1] = Digits[id2]
  PROVE  id1 = id2
PROOF
  <1>0. Levels \in Nat /\ NumChildren \in Nat \ {0}
    BY Numbers
  <1>1. Weight[Levels] \in Nat \ {0}
    BY <1>0, Weights
  <1>2. id1 \in 0..(Weight[Levels] - 1) /\ id2 \in 0..(Weight[Levels] - 1)
    BY TreeAssumption
  <1>3. id1 \div Weight[Levels] = 0 /\ id2 \div Weight[Levels] = 0 /\ id1 \in Nat /\ id2 \in Nat
    BY <1>1, <1>2
  <1> DEFINE Same(j) == id1 \div Weight[Levels - j] = id2 \div Weight[Levels - j]
             S       == {j \in 0..Levels : Same(j)}
  <1>4. 0 \in S
    BY <1>0, <1>3
  <1>5. ASSUME NEW j \in 0..(Levels - 1), j \in S
        PROVE  j + 1 \in S
    <2> DEFINE w == Weight[Levels - (j + 1)]
    <2>1. Levels - (j + 1) \in 0..(Levels - 1) /\ Levels - (j + 1) + 1 = Levels - j /\ j + 1 \in 1..Levels
      BY <1>0
    <2>2. w \in Nat \ {0} /\ Weight[Levels - j] = NumChildren * w
      <3>1. Weight[Levels - (j + 1) + 1] = NumChildren * Weight[Levels - (j + 1)]
        BY <2>1, Weights
      <3>2. Weight[Levels - (j + 1)] \in Nat \ {0}
        <4>1. Levels - (j + 1) \in 0..Levels
          BY <1>0, <2>1
        <4> QED BY <4>1, Weights
      <3> QED BY <2>1, <3>1, <3>2
    <2>3. id1 \div (NumChildren * w) = id2 \div (NumChildren * w)
      BY <1>5, <2>2
    <2>4. (id1 \div w) % NumChildren = (id2 \div w) % NumChildren
      <3>1. Digits[id1][j + 1] = (id1 \div w) % NumChildren /\ Digits[id2][j + 1] = (id2 \div w) % NumChildren
        BY <2>1 DEF Digits
      <3> QED BY <3>1
    <2>5. id1 \div w = id2 \div w
      <3> HIDE DEF w
      <3> QED BY <1>0, <1>3, <2>2, <2>3, <2>4, OneMoreDigit
    <2>6. j + 1 \in 0..Levels
      BY <1>0
    <2> QED BY <2>5, <2>6
  <1>6. Levels \in S
    <2> HIDE DEF S
    <2>1. 0..Levels \subseteq S
      BY <1>0, <1>4, <1>5, IntervalInduction
    <2> QED BY <1>0, <2>1
  <1>7. id1 \div 1 = id2 \div 1
    <2>1. Levels - Levels = 0
      BY <1>0
    <2> QED BY <1>6, <2>1, Weights
  <1> QED BY <1>3, <1>7

-----------------------------------------------------------------------------
(***************************************************************************)
(* Trees and their paths.  A tree has a root, a parent for every other     *)
(* node, and no node below the lowest level.                               *)
(***************************************************************************)
Steps == 0..(NumChildren - 1)
Paths == Seq(Steps)

IsTree(t) ==
  /\ t = [p \in DOMAIN t |-> t[p]] /\ \A p \in DOMAIN t : t[p] \in Nodes
  /\ DOMAIN t \subseteq Paths /\ <<>> \in DOMAIN t
  /\ \A p \in DOMAIN t : Len(p) <= Levels /\ \A k \in 0..Len(p) : SubSeq(p, 1, k) \in DOMAIN t

\* A path that is not empty has a first step, and what follows.
LEMMA FirstStep ==
  ASSUME NEW q \in Paths, q # <<>>
  PROVE  /\ q[1] \in Steps /\ Tail(q) \in Paths
         /\ q = <<q[1]>> \o Tail(q)
PROOF
  <1>1. Len(q) \in Nat \ {0} /\ q[1] \in Steps /\ Tail(q) \in Paths
    <2>1. Len(q) \in Nat \ {0}
      BY DEF Paths
    <2>2. q[1] \in Steps
      BY <2>1 DEF Paths
    <2>3. Tail(q) \in Paths
      BY DEF Paths
    <2> QED BY <2>1, <2>2, <2>3
  <1>2. /\ <<q[1]>> \in Paths /\ Len(<<q[1]>>) = 1 /\ <<q[1]>>[1] = q[1]
        /\ Len(Tail(q)) = Len(q) - 1 /\ \A k \in 1..(Len(q) - 1) : Tail(q)[k] = q[k + 1]
    BY <1>1 DEF Paths
  <1>3. <<q[1]>> \o Tail(q) \in Paths /\ Len(<<q[1]>> \o Tail(q)) = Len(q)
    BY <1>1, <1>2 DEF Paths
  <1>4. ASSUME NEW k \in 1..Len(q)
        PROVE  (<<q[1]>> \o Tail(q))[k] = q[k]
    <2>1. CASE k = 1
      BY <1>1, <1>2, <2>1 DEF Paths
    <2>2. CASE k # 1
      <3>1. k - 1 \in 1..(Len(q) - 1) /\ k > 1
        BY <1>1, <2>2
      <3>2. (<<q[1]>> \o Tail(q))[k] = Tail(q)[k - 1]
        BY <1>1, <1>2, <3>1 DEF Paths
      <3> QED BY <1>2, <3>1, <3>2
    <2> QED BY <2>1, <2>2
  <1> QED BY <1>1, <1>3, <1>4 DEF Paths

\* A path with a step before it.
LEMMA StepBefore ==
  ASSUME NEW p \in Paths, NEW q \in Paths, NEW c \in Steps
  PROVE  /\ <<c>> \o q \in Paths /\ <<c>> \o q # <<>> /\ (<<c>> \o q)[1] = c
         /\ Tail(<<c>> \o q) = q
         /\ Append(p, c) \in Paths /\ p \o (<<c>> \o q) = Append(p, c) \o q
         /\ Len(Append(p, c)) = Len(p) + 1
PROOF
  <1>1. <<c>> \in Paths /\ Len(<<c>>) = 1 /\ <<c>>[1] = c
    BY DEF Paths
  <1>2. /\ <<c>> \o q \in Paths /\ Len(<<c>> \o q) = Len(q) + 1 /\ (<<c>> \o q)[1] = c
        /\ \A k \in 1..Len(q) : (<<c>> \o q)[k + 1] = q[k]
    BY <1>1 DEF Paths
  <1>3. <<c>> \o q # <<>>
    BY <1>2 DEF Paths
  <1>4. Tail(<<c>> \o q) = q
    <2>1. /\ Tail(<<c>> \o q) \in Paths /\ Len(Tail(<<c>> \o q)) = Len(q)
          /\ \A k \in 1..Len(q) : Tail(<<c>> \o q)[k] = q[k]
      BY <1>2, <1>3 DEF Paths
    <2> QED BY <2>1 DEF Paths
  <1>5. Append(p, c) \in Paths /\ Len(Append(p, c)) = Len(p) + 1
    BY DEF Paths
  <1>6. p \o (<<c>> \o q) = Append(p, c) \o q
    <2> DEFINE u == p \o (<<c>> \o q)
               v == Append(p, c) \o q
    <2>1. u \in Paths /\ v \in Paths /\ Len(u) = Len(p) + 1 + Len(q) /\ Len(v) = Len(p) + 1 + Len(q)
      BY <1>2, <1>5 DEF Paths
    <2>2. ASSUME NEW k \in 1..(Len(p) + 1 + Len(q))
          PROVE  u[k] = v[k]
      <3>1. CASE k <= Len(p)
        <4>1. u[k] = p[k]
          BY <1>2, <3>1 DEF Paths
        <4>2. v[k] = p[k]
          BY <1>5, <3>1 DEF Paths
        <4> QED BY <4>1, <4>2
      <3>2. CASE k = Len(p) + 1
        <4>1. u[k] = c
          BY <1>2, <3>2 DEF Paths
        <4>2. v[k] = c
          BY <1>5, <3>2 DEF Paths
        <4> QED BY <4>1, <4>2
      <3>3. CASE k > Len(p) + 1
        <4>1. k - Len(p) - 1 \in 1..Len(q)
          BY <3>3 DEF Paths
        <4>2. u[k] = (<<c>> \o q)[k - Len(p)]
          BY <1>2, <3>3 DEF Paths
        <4>3. (<<c>> \o q)[k - Len(p)] = q[k - Len(p) - 1]
          <5>1. (<<c>> \o q)[(k - Len(p) - 1) + 1] = q[k - Len(p) - 1]
            BY <1>2, <4>1
          <5>2. (k - Len(p) - 1) + 1 = k - Len(p)
            BY DEF Paths
          <5> QED BY <5>1, <5>2
        <4>4. v[k] = q[k - Len(p) - 1]
          BY <1>5, <3>3 DEF Paths
        <4> QED BY <4>2, <4>3, <4>4
      <3> QED BY <3>1, <3>2, <3>3 DEF Paths
    <2> QED BY <2>1, <2>2 DEF Paths
  <1> QED BY <1>2, <1>3, <1>4, <1>5, <1>6

\* Where a longer path exists, its first step from p on leads to a child.
LEMMA ChildOnTheWay ==
  ASSUME NEW t, IsTree(t), NEW p \in DOMAIN t, NEW q \in Paths, q # <<>>, p \o q \in DOMAIN t
  PROVE  Child(p, q[1]) \in DOMAIN t /\ q[1] \in Children(t, p)
PROOF
  <1>1. p \in Paths /\ q[1] \in Steps /\ Len(q) \in Nat \ {0} /\ Len(p) \in Nat
    <2>1. q[1] \in Steps
      BY FirstStep
    <2>2. p \in Paths
      BY DEF IsTree
    <2>3. Len(q) \in Nat \ {0}
      BY DEF Paths
    <2>4. Len(p) \in Nat
      BY <2>2 DEF Paths
    <2> QED BY <2>1, <2>2, <2>3, <2>4
  <1>2. /\ p \o q \in Paths /\ Len(p \o q) = Len(p) + Len(q)
        /\ Len(p) + 1 \in 0..Len(p \o q)
    BY <1>1 DEF Paths
  <1>3. SubSeq(p \o q, 1, Len(p) + 1) = Append(p, q[1])
    <2> DEFINE u == SubSeq(p \o q, 1, Len(p) + 1)
               v == Append(p, q[1])
    <2>1. u \in Paths /\ v \in Paths /\ Len(u) = Len(p) + 1 /\ Len(v) = Len(p) + 1
      <3>1. u \in Paths /\ Len(u) = Len(p) + 1
        BY <1>1, <1>2 DEF Paths
      <3>2. v \in Paths /\ Len(v) = Len(p) + 1
        BY <1>1 DEF Paths
      <3> QED BY <3>1, <3>2
    <2>2. ASSUME NEW k \in 1..(Len(p) + 1)
          PROVE  u[k] = v[k]
      <3>1. u[k] = (p \o q)[k]
        BY <1>1, <1>2 DEF Paths
      <3>2. CASE k <= Len(p)
        BY <1>1, <3>1, <3>2 DEF Paths
      <3>3. CASE k = Len(p) + 1
        BY <1>1, <3>1, <3>3 DEF Paths
      <3> QED BY <1>1, <3>2, <3>3
    <2> QED BY <2>1, <2>2 DEF Paths
  <1>4. Append(p, q[1]) \in DOMAIN t
    BY <1>2, <1>3 DEF IsTree
  <1> QED BY <1>1, <1>4 DEF Child, Children, Steps

\* A child is one level below, and not below the lowest one.
LEMMA ChildIsBelow ==
  ASSUME NEW t, IsTree(t), NEW p \in DOMAIN t, NEW c \in Steps, Child(p, c) \in DOMAIN t
  PROVE  /\ p \in Paths /\ Len(p) \in Nat /\ Len(p) + 1 <= Levels
         /\ Child(p, c) \in Paths /\ Len(Child(p, c)) = Len(p) + 1
PROOF
  <1>1. p \in Paths /\ Len(p) \in Nat
    BY DEF IsTree, Paths
  <1>2. Len(Child(p, c)) = Len(p) + 1 /\ Child(p, c) \in Paths
    BY <1>1 DEF Child, Paths
  <1> QED BY <1>1, <1>2 DEF IsTree

-----------------------------------------------------------------------------
(***************************************************************************)
(* What is still to be written: the recursions along a tree end because    *)
(* each of their calls leaves less of it.                                  *)
(***************************************************************************)
Places(t) == (DOMAIN t) \X (0..(NumChildren + 1))
Rest(x)   == (Levels - Len(x[1])) * (NumChildren + 2) + x[2]

LEMMA RestIsNat ==
  ASSUME NEW t, IsTree(t), NEW x \in Places(t)
  PROVE  /\ x = <<x[1], x[2]>> /\ x[1] \in DOMAIN t /\ x[2] \in 0..(NumChildren + 1)
         /\ Rest(x) \in Nat /\ Rest(x) < (Levels + 1) * (NumChildren + 2)
PROOF
  <1>1. x = <<x[1], x[2]>> /\ x[1] \in DOMAIN t /\ x[2] \in 0..(NumChildren + 1)
    BY DEF Places
  <1>2. Len(x[1]) \in 0..Levels
    BY <1>1, Numbers DEF IsTree, Paths
  <1> DEFINE a == Levels - Len(x[1])
             n == NumChildren + 2
  <1>3. a \in Nat /\ n \in Nat /\ a <= Levels /\ Levels \in Nat /\ x[2] \in Nat /\ x[2] < n
    BY <1>1, <1>2, Numbers
  <1> HIDE DEF a, n
  <1>4. a * n \in Nat /\ a * n <= Levels * n /\ (Levels + 1) * n = Levels * n + n
    BY <1>3
  <1>5. a * n + x[2] \in Nat /\ a * n + x[2] < (Levels + 1) * n
    BY <1>3, <1>4
  <1> QED BY <1>1, <1>5 DEF Rest, a, n

\* A node's children, then each of them and those before it.
LEMMA RestFalls ==
  ASSUME NEW t, IsTree(t), NEW p \in DOMAIN t
  PROVE  /\ Rest(<<p, NumChildren>>) < Rest(<<p, NumChildren + 1>>)
         /\ \A c \in 1..NumChildren :
              /\ Rest(<<p, c - 1>>) < Rest(<<p, c>>)
              /\ Child(p, c - 1) \in DOMAIN t =>
                   Rest(<<Child(p, c - 1), NumChildren + 1>>) < Rest(<<p, c>>)
PROOF
  <1> DEFINE a == Levels - Len(p)
             n == NumChildren + 2
  <1>1. a \in Nat /\ n \in Nat /\ NumChildren \in Nat /\ a * n \in Int
    BY Numbers DEF IsTree, Paths
  <1>2. \A c : Rest(<<p, c>>) = a * n + c
    BY DEF Rest
  <1>3. ASSUME NEW c \in 1..NumChildren, Child(p, c - 1) \in DOMAIN t
        PROVE  Rest(<<Child(p, c - 1), NumChildren + 1>>) < Rest(<<p, c>>)
    <2>1. Len(Child(p, c - 1)) = Len(p) + 1 /\ Len(p) \in Nat /\ Len(p) + 1 <= Levels
      <3>1. c - 1 \in Steps
        BY <1>1 DEF Steps
      <3> QED BY <1>3, <3>1, ChildIsBelow
    <2>2. Rest(<<Child(p, c - 1), NumChildren + 1>>) = (a - 1) * n + (NumChildren + 1)
      BY <2>1, Numbers DEF Rest
    <2>3. (a - 1) * n = a * n - n
      <3> HIDE DEF a, n
      <3> QED BY <1>1
    <2>4. (a - 1) * n + (NumChildren + 1) = a * n - 1
      <3> DEFINE b == (a - 1) * n
                 d == a * n
      <3>1. b = d - n /\ n = NumChildren + 2 /\ d \in Int /\ NumChildren \in Nat
        BY <1>1, <2>3
      <3>2. b + (NumChildren + 1) = d - 1
        <4> HIDE DEF b, d, n
        <4> QED BY <3>1
      <3> QED BY <3>2
    <2>5. Rest(<<p, c>>) = a * n + c
      BY <1>2
    <2> HIDE DEF a, n
    <2> QED BY <1>1, <2>2, <2>4, <2>5
  <1>4. ASSUME NEW c \in 1..NumChildren
        PROVE  Rest(<<p, c - 1>>) < Rest(<<p, c>>)
    <2>1. Rest(<<p, c - 1>>) = a * n + (c - 1) /\ Rest(<<p, c>>) = a * n + c
      BY <1>2
    <2> HIDE DEF a, n
    <2> QED BY <1>1, <2>1
  <1>5. Rest(<<p, NumChildren>>) < Rest(<<p, NumChildren + 1>>)
    <2>1. /\ Rest(<<p, NumChildren>>) = a * n + NumChildren
          /\ Rest(<<p, NumChildren + 1>>) = a * n + (NumChildren + 1)
      BY <1>2
    <2> HIDE DEF a, n
    <2> QED BY <1>1, <2>1
  <1> QED BY <1>3, <1>4, <1>5

\* What holds of a place if it holds wherever less is left holds everywhere.
LEMMA AlongTheRest ==
  ASSUME NEW t, IsTree(t), NEW Good,
         \A x \in Places(t) : (\A y \in Places(t) : Rest(y) < Rest(x) => y \in Good) => x \in Good
  PROVE  \A x \in Places(t) : x \in Good
PROOF
  <1> SUFFICES ASSUME NEW x \in Places(t), x \notin Good
               PROVE  FALSE
    OBVIOUS
  <1> DEFINE R == {Rest(y) : y \in {y \in Places(t) : y \notin Good}}
  <1>1. R \in SUBSET Nat /\ R # {}
    BY RestIsNat
  <1>2. PICK m \in R : \A n \in R : m <= n
    <2> HIDE DEF R
    <2> QED BY <1>1, LeastExists
  <1>3. PICK y \in Places(t) : y \notin Good /\ m = Rest(y)
    BY <1>2
  <1>4. ASSUME NEW z \in Places(t), Rest(z) < Rest(y)
        PROVE  z \in Good
    <2>1. z \notin Good => Rest(y) <= Rest(z)
      BY <1>2, <1>3
    <2>2. Rest(z) \in Nat /\ Rest(y) \in Nat
      BY RestIsNat
    <2> QED BY <1>4, <2>1, <2>2
  <1> QED BY <1>3, <1>4

-----------------------------------------------------------------------------
(* Writing: what is defined by the recursion of Stream satisfies it.       *)

WriteStep(t, w, x) ==
  LET p     == x[1]
      c     == x[2]
      child == Child(p, c - 1)
  IN  IF c = 0 THEN <<>>
      ELSE IF c > NumChildren
      THEN IF Children(t, p) = {} THEN << LeafToken(t[p]) >>
           ELSE << InnerToken(t[p]) >> \o w[<<p, NumChildren>>]
      ELSE IF child \in DOMAIN t
      THEN << Sign("1") >> \o w[<<child, NumChildren + 1>>] \o w[<<p, c - 1>>]
      ELSE << Sign("0") >> \o w[<<p, c - 1>>]

IsWriter(t, w) == w = [x \in (DOMAIN t) \X (0..(NumChildren + 1)) |-> WriteStep(t, w, x)]

\* The three kinds of places: no more children, a child, a node.
LEMMA KindsOfPlaces ==
  ASSUME NEW t, IsTree(t), NEW x \in Places(t)
  PROVE  \/ x[2] = 0
         \/ x[2] \in 1..NumChildren /\ x[2] - 1 \in Steps /\ <<x[1], x[2] - 1>> \in Places(t)
         \/ x[2] = NumChildren + 1 /\ x[2] > NumChildren /\ <<x[1], NumChildren>> \in Places(t)
PROOF
  <1>1. NumChildren \in Nat \ {0} /\ x[1] \in DOMAIN t /\ x[2] \in 0..(NumChildren + 1)
    BY Numbers, RestIsNat
  <1>2. CASE x[2] = 0
    BY <1>2
  <1>3. CASE x[2] \in 1..NumChildren
    <2>1. x[2] - 1 \in Steps /\ x[2] - 1 \in 0..(NumChildren + 1)
      BY <1>1, <1>3 DEF Steps
    <2> QED BY <1>1, <1>3, <2>1 DEF Places
  <1>4. CASE x[2] = NumChildren + 1
    <2>1. NumChildren \in 0..(NumChildren + 1) /\ x[2] > NumChildren
      BY <1>1, <1>4
    <2> QED BY <1>1, <1>4, <2>1 DEF Places
  <1> QED BY <1>1, <1>2, <1>3, <1>4

\* A step of writing looks only at places with less of the tree left.
LEMMA WriteStepIsLocal ==
  ASSUME NEW t, IsTree(t), NEW x \in Places(t), NEW v, NEW w,
         \A y \in Places(t) : Rest(y) < Rest(x) => v[y] = w[y]
  PROVE  WriteStep(t, v, x) = WriteStep(t, w, x)
PROOF
  <1> DEFINE p == x[1]
             c == x[2]
  <1>1. NumChildren \in Nat \ {0} /\ x = <<p, c>> /\ p \in DOMAIN t /\ c \in 0..(NumChildren + 1)
    BY Numbers, RestIsNat
  <1>2. CASE c = 0
    BY <1>2 DEF WriteStep
  <1>3. CASE c = NumChildren + 1 /\ c > NumChildren
    <2>1. <<p, NumChildren>> \in Places(t) /\ Rest(<<p, NumChildren>>) < Rest(x)
      BY <1>1, <1>3, RestFalls DEF Places
    <2>2. v[<<p, NumChildren>>] = w[<<p, NumChildren>>]
      BY <2>1
    <2>3. c # 0
      BY <1>1, <1>3
    <2> QED BY <1>3, <2>2, <2>3 DEF WriteStep
  <1>4. CASE c \in 1..NumChildren
    <2>1. <<p, c - 1>> \in Places(t) /\ Rest(<<p, c - 1>>) < Rest(x)
      <3>1. <<p, c - 1>> \in Places(t)
        BY <1>1, <1>4 DEF Places
      <3>2. Rest(<<p, c - 1>>) < Rest(<<p, c>>)
        BY <1>1, <1>4, RestFalls
      <3> QED BY <1>1, <3>1, <3>2
    <2>2. v[<<p, c - 1>>] = w[<<p, c - 1>>]
      BY <2>1
    <2>3. c # 0 /\ ~(c > NumChildren)
      BY <1>1, <1>4
    <2>4. ASSUME Child(p, c - 1) \in DOMAIN t
          PROVE  v[<<Child(p, c - 1), NumChildren + 1>>] = w[<<Child(p, c - 1), NumChildren + 1>>]
      <3>1. <<Child(p, c - 1), NumChildren + 1>> \in Places(t)
        BY <1>1, <2>4 DEF Places
      <3>2. Rest(<<Child(p, c - 1), NumChildren + 1>>) < Rest(x)
        BY <1>1, <1>4, <2>4, RestFalls
      <3> QED BY <3>1, <3>2
    <2> QED BY <2>2, <2>3, <2>4 DEF WriteStep
  <1> QED BY <1>1, <1>2, <1>3, <1>4, KindsOfPlaces

LEMMA WriterExists ==
  ASSUME NEW t, IsTree(t)
  PROVE  \E w : IsWriter(t, w)
PROOF
  <1> DEFINE Upto(w, n) == \A x \in Places(t) : Rest(x) < n => w[x] = WriteStep(t, w, x)
             S == {n \in Nat : \E w : Upto(w, n)}
  <1>1. 0 \in S
    <2>1. \A x \in Places(t) : ~(Rest(x) < 0)
      BY RestIsNat
    <2> QED BY <2>1
  <1>2. ASSUME NEW n \in Nat, n \in S
        PROVE  n + 1 \in S
    <2>1. PICK w : Upto(w, n)
      BY <1>2
    <2> DEFINE v == [x \in Places(t) |-> WriteStep(t, w, x)]
    <2>2. ASSUME NEW x \in Places(t), Rest(x) < n + 1
          PROVE  v[x] = WriteStep(t, v, x)
      <3>1. ASSUME NEW y \in Places(t), Rest(y) < Rest(x)
            PROVE  v[y] = w[y]
        <4>1. Rest(y) \in Nat /\ Rest(x) \in Nat
          BY RestIsNat
        <4>2. Rest(y) < n
          BY <2>2, <3>1, <4>1
        <4> QED BY <2>1, <4>2
      <3>2. WriteStep(t, v, x) = WriteStep(t, w, x)
        <4> HIDE DEF v
        <4> QED BY <3>1, WriteStepIsLocal
      <3> QED BY <3>2
    <2>3. Upto(v, n + 1)
      BY <2>2
    <2>4. \E u : Upto(u, n + 1)
      <3> HIDE DEF Upto
      <3> QED BY <2>3
    <2> QED BY <2>4
  <1>3. Nat \subseteq S
    <2> HIDE DEF S
    <2> QED BY <1>1, <1>2, NatInductionInSet
  <1> DEFINE m == (Levels + 1) * (NumChildren + 2)
  <1>4. m \in Nat
    BY Numbers
  <1>5. PICK w : Upto(w, m)
    BY <1>3, <1>4
  <1> DEFINE u == [x \in Places(t) |-> w[x]]
  <1>6. ASSUME NEW x \in Places(t)
        PROVE  u[x] = WriteStep(t, u, x)
    <2>1. Rest(x) < m
      BY RestIsNat
    <2>2. w[x] = WriteStep(t, w, x)
      BY <1>5, <2>1
    <2>3. \A y \in Places(t) : u[y] = w[y]
      OBVIOUS
    <2>4. WriteStep(t, u, x) = WriteStep(t, w, x)
      <3> HIDE DEF u
      <3> QED BY <2>3, WriteStepIsLocal
    <2>5. u[x] = w[x]
      BY <2>3
    <2> HIDE DEF u
    <2> QED BY <2>2, <2>4, <2>5
  <1>7. u = [x \in Places(t) |-> WriteStep(t, u, x)]
    BY <1>6
  <1> QED BY <1>7 DEF IsWriter, Places

LEMMA WriterOfStream ==
  ASSUME NEW t, IsTree(t)
  PROVE  \E w : IsWriter(t, w) /\ Stream(t) = w[<< <<>>, NumChildren + 1 >>]
PROOF
  <1>1. \E w : IsWriter(t, w)
    BY WriterExists
  <1>2. IsWriter(t, CHOOSE w : IsWriter(t, w))
    BY <1>1, Zenon
  <1>3. Stream(t) = (CHOOSE w : IsWriter(t, w))[<< <<>>, NumChildren + 1 >>]
    BY Zenon DEF Stream, IsWriter, WriteStep
  <1> QED BY <1>2, <1>3, Zenon

-----------------------------------------------------------------------------
(* What is written is a sequence of tokens.                                *)

Tokens == [chr : {"0", "1"}] \cup [chr : {"C"}, id : Ids \cup {0}]
          \cup [chr : {"N"}, id : Ids \cup {0}, data : Values \cup {Empty},
                counter : 0..(CounterWrap - 1)]

LEMMA NodesAreTokens ==
  ASSUME NEW n \in Nodes
  PROVE  /\ LeafToken(n) \in Tokens /\ InnerToken(n) \in Tokens
         /\ Sign("0") \in Tokens /\ Sign("1") \in Tokens
         /\ LeafToken(n).chr = "N" /\ InnerToken(n).chr = "C"
         /\ Sign("0").chr = "0" /\ Sign("1").chr = "1"
         /\ NodeRead(LeafToken(n)) = n
         /\ NodeRead(InnerToken(n)) = [InnerNode EXCEPT !.id = n.id]
PROOF BY DEF Nodes, Tokens, LeafToken, InnerToken, Sign, NodeRead

LEMMA WriterWritesTokens ==
  ASSUME NEW t, IsTree(t), NEW w, IsWriter(t, w)
  PROVE  \A x \in Places(t) : w[x] \in Seq(Tokens) /\ w[x] = WriteStep(t, w, x)
PROOF
  <1>1. \A x \in Places(t) : w[x] = WriteStep(t, w, x)
    BY DEF IsWriter, Places
  <1> DEFINE Good == {x \in Places(t) : w[x] \in Seq(Tokens)}
  <1>2. ASSUME NEW x \in Places(t), \A y \in Places(t) : Rest(y) < Rest(x) => y \in Good
        PROVE  w[x] \in Seq(Tokens)
    <2> DEFINE p == x[1]
               c == x[2]
    <2>1. NumChildren \in Nat \ {0} /\ x = <<p, c>> /\ p \in DOMAIN t /\ c \in 0..(NumChildren + 1)
      BY Numbers, RestIsNat
    <2>2. w[x] = WriteStep(t, w, x) /\ t[p] \in Nodes
      BY <1>1, <2>1 DEF IsTree
    <2>3. /\ <<LeafToken(t[p])>> \in Seq(Tokens) /\ <<InnerToken(t[p])>> \in Seq(Tokens)
          /\ <<Sign("0")>> \in Seq(Tokens) /\ <<Sign("1")>> \in Seq(Tokens)
      <3>1. /\ LeafToken(t[p]) \in Tokens /\ InnerToken(t[p]) \in Tokens
            /\ Sign("0") \in Tokens /\ Sign("1") \in Tokens
        BY <2>2, NodesAreTokens
      <3> QED BY <3>1
    <2>4. CASE c = 0
      <3>1. w[x] = <<>>
        BY <2>2, <2>4 DEF WriteStep
      <3> QED BY <3>1
    <2>5. CASE c = NumChildren + 1 /\ c > NumChildren
      <3>1. c # 0 /\ <<p, NumChildren>> \in Places(t) /\ Rest(<<p, NumChildren>>) < Rest(x)
        BY <2>1, <2>5, RestFalls DEF Places
      <3>2. w[<<p, NumChildren>>] \in Seq(Tokens)
        BY <1>2, <3>1
      <3>3. CASE Children(t, p) = {}
        <4>1. w[x] = <<LeafToken(t[p])>>
          BY <2>2, <2>5, <3>1, <3>3 DEF WriteStep
        <4> QED BY <2>3, <4>1
      <3>4. CASE Children(t, p) # {}
        <4>1. w[x] = <<InnerToken(t[p])>> \o w[<<p, NumChildren>>]
          BY <2>2, <2>5, <3>1, <3>4 DEF WriteStep
        <4> QED BY <2>3, <3>2, <4>1
      <3> QED BY <3>3, <3>4
    <2>6. CASE c \in 1..NumChildren
      <3>1. c # 0 /\ ~(c > NumChildren) /\ <<p, c - 1>> \in Places(t) /\ Rest(<<p, c - 1>>) < Rest(x)
        <4>1. c # 0 /\ ~(c > NumChildren) /\ <<p, c - 1>> \in Places(t)
          BY <2>1, <2>6 DEF Places
        <4>2. Rest(<<p, c - 1>>) < Rest(<<p, c>>)
          BY <2>1, <2>6, RestFalls
        <4> QED BY <2>1, <4>1, <4>2
      <3>2. w[<<p, c - 1>>] \in Seq(Tokens)
        BY <1>2, <3>1
      <3>3. CASE Child(p, c - 1) \in DOMAIN t
        <4>1. <<Child(p, c - 1), NumChildren + 1>> \in Places(t)
          BY <2>1, <3>3 DEF Places
        <4>2. Rest(<<Child(p, c - 1), NumChildren + 1>>) < Rest(x)
          BY <2>1, <2>6, <3>3, RestFalls
        <4>3. w[<<Child(p, c - 1), NumChildren + 1>>] \in Seq(Tokens)
          BY <1>2, <4>1, <4>2
        <4>4. w[x] = <<Sign("1")>> \o w[<<Child(p, c - 1), NumChildren + 1>>] \o w[<<p, c - 1>>]
          BY <2>2, <3>1, <3>3 DEF WriteStep
        <4> QED BY <2>3, <3>2, <4>3, <4>4
      <3>4. CASE Child(p, c - 1) \notin DOMAIN t
        <4>1. w[x] = <<Sign("0")>> \o w[<<p, c - 1>>]
          BY <2>2, <3>1, <3>4 DEF WriteStep
        <4> QED BY <2>3, <3>2, <4>1
      <3> QED BY <3>3, <3>4
    <2> QED BY <2>1, <2>4, <2>5, <2>6, KindsOfPlaces
  <1>3. \A x \in Places(t) : x \in Good
    <2>1. \A x \in Places(t) : (\A y \in Places(t) : Rest(y) < Rest(x) => y \in Good) => x \in Good
      BY <1>2
    <2> HIDE DEF Good
    <2> QED BY <2>1, AlongTheRest
  <1> QED BY <1>1, <1>3

-----------------------------------------------------------------------------
(* Reading: what is defined by the recursion of ReadBack satisfies it.     *)

ReadStep(s, r, x) ==
  LET i        == x[1]
      c        == x[2]
      nothing  == [next |-> i, nodes |-> <<>>]
      children == IF s[i].chr = "N" THEN [nothing EXCEPT !.next = i + 1]
                  ELSE r[<<i + 1, NumChildren>>]
      child    == r[<<i + 1, NumChildren + 1>>]
      others   == r[<<child.next, c - 1>>]
  IN  IF c = 0 \/ i > Len(s) THEN nothing
      ELSE IF c > NumChildren
      THEN [next |-> children.next, nodes |-> WithRoot(NodeRead(s[i]), children.nodes)]
      ELSE IF s[i].chr = "0" THEN r[<<i + 1, c - 1>>]
      ELSE [next |-> others.next, nodes |-> Beside(c - 1, child.nodes, others.nodes)]

Positions(s)   == (1..(Len(s) + 1)) \X (0..(NumChildren + 1))
IsReader(s, r) == r = [x \in (1..(Len(s) + 1)) \X (0..(NumChildren + 1)) |-> ReadStep(s, r, x)]

\* A step of reading looks only at later positions, and ends at one.
LEMMA ReadStepIsLocal ==
  ASSUME NEW s, Len(s) \in Nat, NEW x \in Positions(s), NEW v, NEW r,
         \A y \in Positions(s) : y[1] > x[1] => v[y] = r[y] /\ r[y].next \in y[1]..(Len(s) + 1)
  PROVE  /\ ReadStep(s, v, x) = ReadStep(s, r, x)
         /\ ReadStep(s, r, x).next \in x[1]..(Len(s) + 1)
PROOF
  <1> DEFINE i == x[1]
             c == x[2]
             n == NumChildren
  <1>1. n \in Nat \ {0} /\ i \in 1..(Len(s) + 1) /\ c \in 0..(n + 1) /\ x = <<i, c>>
    BY Numbers DEF Positions
  <1>2. CASE c = 0 \/ i > Len(s)
    <2>1. ReadStep(s, v, x) = [next |-> i, nodes |-> <<>>] /\ ReadStep(s, r, x) = [next |-> i, nodes |-> <<>>]
      BY <1>2 DEF ReadStep
    <2> QED BY <1>1, <2>1
  <1>3. CASE ~(c = 0 \/ i > Len(s)) /\ c > n
    <2>1. <<i + 1, n>> \in Positions(s) /\ i + 1 > i /\ i + 1 \in i..(Len(s) + 1)
      BY <1>1, <1>3 DEF Positions
    <2>2. /\ v[<<i + 1, n>>] = r[<<i + 1, n>>]
          /\ r[<<i + 1, n>>].next \in (i + 1)..(Len(s) + 1)
      BY <2>1
    <2> DEFINE children == IF s[i].chr = "N" THEN [[next |-> i, nodes |-> <<>>] EXCEPT !.next = i + 1]
                           ELSE r[<<i + 1, n>>]
    <2>3. /\ ReadStep(s, r, x) = [next |-> children.next, nodes |-> WithRoot(NodeRead(s[i]), children.nodes)]
          /\ ReadStep(s, v, x) = ReadStep(s, r, x)
      BY <1>3, <2>2 DEF ReadStep
    <2>4. children.next \in i..(Len(s) + 1)
      BY <1>1, <2>1, <2>2
    <2> QED BY <2>3, <2>4
  <1>4. CASE ~(c = 0 \/ i > Len(s)) /\ ~(c > n) /\ s[i].chr = "0"
    <2>1. <<i + 1, c - 1>> \in Positions(s) /\ i + 1 > i
      BY <1>1, <1>4 DEF Positions
    <2>2. /\ v[<<i + 1, c - 1>>] = r[<<i + 1, c - 1>>]
          /\ r[<<i + 1, c - 1>>].next \in (i + 1)..(Len(s) + 1)
      BY <2>1
    <2>3. ReadStep(s, v, x) = v[<<i + 1, c - 1>>] /\ ReadStep(s, r, x) = r[<<i + 1, c - 1>>]
      BY <1>4 DEF ReadStep
    <2> QED BY <1>1, <2>2, <2>3
  <1>5. CASE ~(c = 0 \/ i > Len(s)) /\ ~(c > n) /\ s[i].chr # "0"
    <2> DEFINE m == r[<<i + 1, n + 1>>].next
    <2>1. <<i + 1, n + 1>> \in Positions(s) /\ i + 1 > i
      BY <1>1, <1>5 DEF Positions
    <2>2. v[<<i + 1, n + 1>>] = r[<<i + 1, n + 1>>] /\ m \in (i + 1)..(Len(s) + 1)
      BY <2>1
    <2>3. <<m, c - 1>> \in Positions(s) /\ m > i
      BY <1>1, <1>5, <2>2 DEF Positions
    <2>4. v[<<m, c - 1>>] = r[<<m, c - 1>>] /\ r[<<m, c - 1>>].next \in m..(Len(s) + 1)
      BY <2>3
    <2>5. /\ ReadStep(s, r, x) = [next  |-> r[<<m, c - 1>>].next,
                                  nodes |-> Beside(c - 1, r[<<i + 1, n + 1>>].nodes, r[<<m, c - 1>>].nodes)]
          /\ ReadStep(s, v, x) = ReadStep(s, r, x)
      BY <1>5, <2>2, <2>4 DEF ReadStep
    <2>6. r[<<m, c - 1>>].next \in i..(Len(s) + 1)
      <3> HIDE DEF m
      <3> QED BY <1>1, <2>2, <2>4
    <2> QED BY <2>5, <2>6
  <1> QED BY <1>2, <1>3, <1>4, <1>5

LEMMA ReaderExists ==
  ASSUME NEW s, Len(s) \in Nat
  PROVE  \E r : IsReader(s, r)
PROOF
  <1> DEFINE l == Len(s)
             Late(x, n) == l + 1 - x[1] < n
             Upto(r, n) == \A x \in Positions(s) : Late(x, n) =>
                             r[x] = ReadStep(s, r, x) /\ r[x].next \in x[1]..(l + 1)
             S == {n \in Nat : \E r : Upto(r, n)}
  <1>0. \A x \in Positions(s) : x[1] \in 1..(l + 1)
    BY DEF Positions
  <1>1. 0 \in S
    <2>1. \A x \in Positions(s) : ~Late(x, 0)
      BY <1>0
    <2> QED BY <2>1
  <1>2. ASSUME NEW n \in Nat, n \in S
        PROVE  n + 1 \in S
    <2>1. PICK r : Upto(r, n)
      BY <1>2
    <2> DEFINE v == [x \in Positions(s) |-> ReadStep(s, r, x)]
    <2>2. ASSUME NEW x \in Positions(s), Late(x, n + 1)
          PROVE  v[x] = ReadStep(s, v, x) /\ v[x].next \in x[1]..(l + 1)
      <3>1. ASSUME NEW y \in Positions(s), y[1] > x[1]
            PROVE  v[y] = r[y] /\ r[y].next \in y[1]..(l + 1)
        <4>1. Late(y, n)
          BY <1>0, <2>2, <3>1
        <4>2. r[y] = ReadStep(s, r, y) /\ r[y].next \in y[1]..(l + 1)
          BY <2>1, <4>1
        <4> QED BY <4>2
      <3>2. ReadStep(s, v, x) = ReadStep(s, r, x) /\ ReadStep(s, r, x).next \in x[1]..(l + 1)
        <4> HIDE DEF v
        <4> QED BY <3>1, ReadStepIsLocal
      <3> QED BY <3>2
    <2>3. Upto(v, n + 1)
      BY <2>2
    <2>4. \E u : Upto(u, n + 1)
      <3> HIDE DEF Upto
      <3> QED BY <2>3
    <2>5. n + 1 \in Nat
      OBVIOUS
    <2> HIDE DEF Upto
    <2> QED BY <2>4, <2>5
  <1>3. Nat \subseteq S
    <2> HIDE DEF S
    <2> QED BY <1>1, <1>2, NatInductionInSet
  <1>4. PICK r : Upto(r, l + 1)
    BY <1>3
  <1> DEFINE u == [x \in Positions(s) |-> r[x]]
  <1>5. ASSUME NEW x \in Positions(s)
        PROVE  r[x] = ReadStep(s, r, x) /\ r[x].next \in x[1]..(l + 1)
    <2>1. Late(x, l + 1)
      BY <1>0
    <2> QED BY <1>4, <2>1
  <1>6. ASSUME NEW x \in Positions(s)
        PROVE  u[x] = ReadStep(s, u, x)
    <2>1. \A y \in Positions(s) : u[y] = r[y]
      OBVIOUS
    <2>2. ReadStep(s, u, x) = ReadStep(s, r, x)
      <3> HIDE DEF u
      <3> QED BY <1>5, <2>1, ReadStepIsLocal
    <2>3. u[x] = r[x]
      BY <2>1
    <2> HIDE DEF u
    <2> QED BY <1>5, <2>2, <2>3
  <1>7. u = [x \in Positions(s) |-> ReadStep(s, u, x)]
    BY <1>6
  <1> QED BY <1>7 DEF IsReader, Positions

LEMMA ReaderOfStream ==
  ASSUME NEW s, Len(s) \in Nat
  PROVE  \E r : IsReader(s, r) /\ ReadBack(s) = r[<<1, NumChildren + 1>>].nodes
PROOF
  <1>1. \E r : IsReader(s, r)
    BY ReaderExists
  <1>2. IsReader(s, CHOOSE r : IsReader(s, r))
    BY <1>1, Zenon
  <1>3. ReadBack(s) = (CHOOSE r : IsReader(s, r))[<<1, NumChildren + 1>>].nodes
    BY Zenon DEF ReadBack, IsReader, ReadStep
  <1> QED BY <1>2, <1>3, Zenon

-----------------------------------------------------------------------------
(* What is written is read: the same tree, if nothing is lost of its nodes. *)

\* From position i on, u is in s.
At(s, i, u) == /\ i \in 1..(Len(s) + 1) /\ i + Len(u) <= Len(s) + 1
               /\ \A j \in 1..Len(u) : s[i + j - 1] = u[j]

LEMMA AtBoth ==
  ASSUME NEW s \in Seq(Tokens), NEW i, NEW u \in Seq(Tokens), NEW v \in Seq(Tokens),
         At(s, i, u \o v)
  PROVE  /\ At(s, i, u) /\ At(s, i + Len(u), v)
         /\ i \in Nat /\ Len(u \o v) = Len(u) + Len(v) /\ Len(u) \in Nat /\ Len(v) \in Nat
PROOF
  <1>1. /\ Len(s) \in Nat /\ Len(u) \in Nat /\ Len(v) \in Nat /\ Len(u \o v) = Len(u) + Len(v)
        /\ i \in 1..(Len(s) + 1) /\ i + Len(u) + Len(v) <= Len(s) + 1
    BY DEF At
  <1>2. ASSUME NEW j \in 1..Len(u)
        PROVE  s[i + j - 1] = u[j]
    <2>1. j \in 1..Len(u \o v) /\ (u \o v)[j] = u[j]
      BY <1>1
    <2> QED BY <2>1 DEF At
  <1>3. ASSUME NEW j \in 1..Len(v)
        PROVE  s[(i + Len(u)) + j - 1] = v[j]
    <2>1. Len(u) + j \in 1..Len(u \o v) /\ (u \o v)[Len(u) + j] = v[j]
      BY <1>1
    <2>2. i + (Len(u) + j) - 1 = (i + Len(u)) + j - 1
      BY <1>1
    <2>3. s[i + (Len(u) + j) - 1] = (u \o v)[Len(u) + j]
      BY <2>1 DEF At
    <2> QED BY <2>1, <2>2, <2>3
  <1>4. At(s, i, u)
    BY <1>1, <1>2 DEF At
  <1>5. At(s, i + Len(u), v)
    <2>1. i + Len(u) \in 1..(Len(s) + 1) /\ (i + Len(u)) + Len(v) <= Len(s) + 1
      BY <1>1
    <2> QED BY <1>3, <2>1 DEF At
  <1> QED BY <1>1, <1>4, <1>5

LEMMA AtToken ==
  ASSUME NEW s \in Seq(Tokens), NEW i, NEW a \in Tokens, At(s, i, <<a>>)
  PROVE  s[i] = a /\ i \in 1..Len(s) /\ Len(<<a>>) = 1
PROOF
  <1>1. Len(<<a>>) = 1 /\ <<a>>[1] = a /\ Len(s) \in Nat
    OBVIOUS
  <1>2. i \in 1..(Len(s) + 1) /\ i + 1 <= Len(s) + 1 /\ s[i + 1 - 1] = a
    BY <1>1 DEF At
  <1>3. i + 1 - 1 = i
    BY <1>1, <1>2
  <1> QED BY <1>1, <1>2, <1>3

\* The tree below a node, by the paths from there: its children with a number
\* less than c, or the node and all of them.
Under(t, p, c)   == {q \in Paths : p \o q \in DOMAIN t /\ (c > NumChildren \/ (q # <<>> /\ q[1] < c))}
SubTree(t, p, c) == [q \in Under(t, p, c) |-> t[p \o q]]

LEMMA StepRange == \A c \in Steps : c \in Int /\ ~(c < 0) /\ c < NumChildren
PROOF BY Numbers DEF Steps

LEMMA NoChildren ==
  ASSUME NEW t, NEW p
  PROVE  SubTree(t, p, 0) = <<>>
PROOF
  <1>1. ASSUME NEW q \in Paths, q # <<>>
        PROVE  ~(q[1] < 0)
    <2>1. q[1] \in Steps
      BY <1>1, FirstStep
    <2> QED BY <2>1, StepRange
  <1>2. Under(t, p, 0) = {}
    BY <1>1, Numbers DEF Under
  <1> QED BY <1>2 DEF SubTree

\* The node itself above its children.
LEMMA NodeAndChildren ==
  ASSUME NEW t, IsTree(t), NEW p \in DOMAIN t
  PROVE  SubTree(t, p, NumChildren + 1) = WithRoot(t[p], SubTree(t, p, NumChildren))
PROOF
  <1> DEFINE n == NumChildren
  <1>1. n \in Nat /\ p \in Paths
    BY Numbers DEF IsTree
  <1>2. p \o <<>> = p /\ <<>> \in Paths
    BY <1>1 DEF Paths
  <1>3. ASSUME NEW q \in Paths, q # <<>>
        PROVE  q[1] < n
    <2>1. q[1] \in Steps
      BY <1>3, FirstStep
    <2> QED BY <2>1, StepRange
  <1>4. \A q : q \in Under(t, p, n + 1) <=> q \in {<<>>} \cup Under(t, p, n)
    <2>1. n + 1 > NumChildren /\ ~(n > NumChildren)
      BY <1>1
    <2>2. \A q : q \in Under(t, p, n + 1) <=> q \in Paths /\ p \o q \in DOMAIN t
      BY <2>1 DEF Under
    <2>3. \A q : q \in Under(t, p, n) <=> q \in Paths /\ p \o q \in DOMAIN t /\ q # <<>>
      BY <1>3, <2>1 DEF Under
    <2> QED BY <1>2, <2>2, <2>3
  <1>5. Under(t, p, n + 1) = {<<>>} \cup Under(t, p, n)
    <2> HIDE DEF n
    <2> QED BY <1>4
  <1>6. ASSUME NEW q \in Under(t, p, n + 1)
        PROVE  t[p \o q] = IF q = <<>> THEN t[p] ELSE SubTree(t, p, n)[q]
    <2>1. CASE q = <<>>
      BY <1>2, <2>1
    <2>2. CASE q # <<>>
      <3>1. q \in Under(t, p, n)
        BY <1>5, <2>2
      <3> QED BY <2>2, <3>1 DEF SubTree
    <2> QED BY <2>1, <2>2
  <1>7. DOMAIN SubTree(t, p, n) = Under(t, p, n)
    BY DEF SubTree
  <1> QED BY <1>5, <1>6, <1>7 DEF WithRoot, SubTree

\* A child beside those before it.
LEMMA ChildBesideOthers ==
  ASSUME NEW t, IsTree(t), NEW p \in DOMAIN t, NEW c \in 1..NumChildren, Child(p, c - 1) \in DOMAIN t
  PROVE  SubTree(t, p, c) = Beside(c - 1, SubTree(t, Child(p, c - 1), NumChildren + 1), SubTree(t, p, c - 1))
PROOF
  <1> DEFINE n == NumChildren
             d == c - 1
             F == Under(t, Child(p, d), n + 1)
             f == SubTree(t, Child(p, d), n + 1)
             G == Under(t, p, d)
             g == SubTree(t, p, d)
  <1>1. n \in Nat /\ p \in Paths /\ d \in Steps /\ d \in Int /\ c = d + 1 /\ ~(c > n) /\ ~(d > n)
    BY Numbers DEF IsTree, Steps
  <1>2. DOMAIN f = F /\ DOMAIN g = G
    BY DEF SubTree
  <1>3. ASSUME NEW q \in F
        PROVE  /\ <<d>> \o q \in Under(t, p, c) /\ <<d>> \o q \notin G
               /\ Tail(<<d>> \o q) = q /\ f[q] = t[p \o (<<d>> \o q)]
    <2>1. q \in Paths /\ Child(p, d) \o q \in DOMAIN t
      BY DEF Under
    <2>2. /\ <<d>> \o q \in Paths /\ <<d>> \o q # <<>> /\ (<<d>> \o q)[1] = d
          /\ Tail(<<d>> \o q) = q /\ p \o (<<d>> \o q) = Child(p, d) \o q
      <3> HIDE DEF d
      <3> QED BY <1>1, <2>1, StepBefore DEF Child
    <2>3. <<d>> \o q \in Under(t, p, c)
      <3>1. (<<d>> \o q)[1] < c
        BY <1>1, <2>2
      <3> HIDE DEF d
      <3> QED BY <2>1, <2>2, <3>1 DEF Under
    <2>4. <<d>> \o q \notin G
      <3>1. ~((<<d>> \o q)[1] < d)
        BY <1>1, <2>2
      <3>2. ~(d > n)
        BY <1>1
      <3> HIDE DEF d, n
      <3> QED BY <3>1, <3>2 DEF Under, n
    <2>5. f[q] = t[Child(p, d) \o q]
      BY DEF SubTree
    <2> HIDE DEF d, f, F, G
    <2> QED BY <2>2, <2>3, <2>4, <2>5
  <1>4. ASSUME NEW q \in G
        PROVE  q \in Under(t, p, c) /\ g[q] = t[p \o q]
    <2>1. q \in Paths /\ p \o q \in DOMAIN t /\ q # <<>> /\ q[1] < d
      BY <1>1 DEF Under
    <2>2. q[1] \in Int
      <3>1. q[1] \in Steps
        BY <2>1, FirstStep
      <3> QED BY <3>1, StepRange
    <2>3. q[1] < c
      BY <1>1, <2>1, <2>2
    <2> QED BY <2>1, <2>3 DEF Under, SubTree
  <1>5. ASSUME NEW q \in Under(t, p, c), q \notin G
        PROVE  \E u \in F : q = <<d>> \o u
    <2>1. q \in Paths /\ p \o q \in DOMAIN t /\ q # <<>> /\ q[1] < c
      BY <1>1 DEF Under
    <2>2. ~(q[1] < d)
      BY <1>5, <2>1 DEF Under
    <2>3. q[1] \in Steps /\ Tail(q) \in Paths /\ q = <<q[1]>> \o Tail(q)
      BY <2>1, FirstStep
    <2>4. q[1] = d
      BY <1>1, <2>1, <2>2, <2>3 DEF Steps
    <2>5. p \o q = Child(p, d) \o Tail(q)
      <3>1. p \o (<<q[1]>> \o Tail(q)) = Append(p, q[1]) \o Tail(q)
        BY <1>1, <2>3, StepBefore
      <3> HIDE DEF d
      <3> QED BY <2>3, <2>4, <3>1 DEF Child
    <2>6. Tail(q) \in F
      BY <1>1, <2>1, <2>3, <2>5 DEF Under
    <2> QED BY <2>3, <2>4, <2>6
  <1>6. Under(t, p, c) = {<<d>> \o q : q \in F} \cup G
    <2> HIDE DEF d, F, G
    <2> QED BY <1>3, <1>4, <1>5
  <1>7. ASSUME NEW q \in Under(t, p, c)
        PROVE  t[p \o q] = IF q \in G THEN g[q] ELSE f[Tail(q)]
    <2>1. CASE q \in G
      BY <1>4, <2>1
    <2>2. CASE q \notin G
      <3>1. PICK u \in F : q = <<d>> \o u
        BY <1>5, <2>2
      <3>2. Tail(q) = u /\ f[u] = t[p \o q]
        BY <1>3, <3>1
      <3> HIDE DEF f, F, G, g, d
      <3> QED BY <2>2, <3>2
    <2> QED BY <2>1, <2>2
  <1> HIDE DEF d, F, G, f, g
  <1>8. SubTree(t, p, c) = [q \in {<<d>> \o u : u \in F} \cup G |-> IF q \in G THEN g[q] ELSE f[Tail(q)]]
    BY <1>6, <1>7 DEF SubTree
  <1>9. SubTree(t, p, c) = Beside(d, f, g)
    BY <1>2, <1>8 DEF Beside
  <1> QED BY <1>9 DEF d, f, g

LEMMA NoChildToAdd ==
  ASSUME NEW t, IsTree(t), NEW p \in DOMAIN t, NEW c \in 1..NumChildren, Child(p, c - 1) \notin DOMAIN t
  PROVE  SubTree(t, p, c) = SubTree(t, p, c - 1)
PROOF
  <1>1. NumChildren \in Nat /\ ~(c > NumChildren) /\ ~(c - 1 > NumChildren)
    BY Numbers
  <1>2. ASSUME NEW q \in Paths, p \o q \in DOMAIN t, q # <<>>
        PROVE  q[1] \in Int /\ q[1] # c - 1
    <2>1. Child(p, q[1]) \in DOMAIN t
      BY <1>2, ChildOnTheWay
    <2>2. q[1] \in Steps
      BY <1>2, FirstStep
    <2> QED BY <2>1, <2>2 DEF Steps
  <1>3. \A q : q \in Under(t, p, c) <=> q \in Under(t, p, c - 1)
    BY <1>1, <1>2 DEF Under
  <1>4. Under(t, p, c) = Under(t, p, c - 1)
    BY <1>3
  <1> QED BY <1>4 DEF SubTree

\* Of a node with children, only the id is written.
NothingIsLost(t) == \A p \in DOMAIN t : Children(t, p) # {} => t[p] = [InnerNode EXCEPT !.id = t[p].id]

LEMMA LeafIsAlone ==
  ASSUME NEW t, IsTree(t), NEW p \in DOMAIN t, Children(t, p) = {}
  PROVE  SubTree(t, p, NumChildren) = <<>>
PROOF
  <1>1. ~(NumChildren > NumChildren)
    BY Numbers
  <1>2. ASSUME NEW q \in Paths, p \o q \in DOMAIN t, q # <<>>
        PROVE  FALSE
    BY <1>2, ChildOnTheWay
  <1>3. Under(t, p, NumChildren) = {}
    BY <1>1, <1>2 DEF Under
  <1> QED BY <1>3 DEF SubTree

\* Where the file has what was written of a place of the tree, that is read.
LEMMA PlacesAreReadAsWritten ==
  ASSUME NEW t, IsTree(t), NothingIsLost(t), NEW w, IsWriter(t, w),
         NEW s \in Seq(Tokens), NEW r, IsReader(s, r)
  PROVE  \A x \in Places(t) : \A i : At(s, i, w[x]) =>
           r[<<i, x[2]>>] = [next |-> i + Len(w[x]), nodes |-> SubTree(t, x[1], x[2])]
PROOF
  <1> DEFINE n == NumChildren
             Fine(x) == \A i : At(s, i, w[x]) =>
                          r[<<i, x[2]>>] = [next |-> i + Len(w[x]), nodes |-> SubTree(t, x[1], x[2])]
             Good == {x \in Places(t) : Fine(x)}
  <1>1. \A x \in Places(t) : w[x] \in Seq(Tokens) /\ w[x] = WriteStep(t, w, x)
    BY WriterWritesTokens
  <1>2. n \in Nat \ {0} /\ Len(s) \in Nat
    BY Numbers
  <1>3. \A i \in 1..(Len(s) + 1), c \in 0..(n + 1) : r[<<i, c>>] = ReadStep(s, r, <<i, c>>)
    BY DEF IsReader
  <1>4. ASSUME NEW x \in Places(t), \A y \in Places(t) : Rest(y) < Rest(x) => y \in Good,
               NEW i, At(s, i, w[x])
        PROVE  r[<<i, x[2]>>] = [next |-> i + Len(w[x]), nodes |-> SubTree(t, x[1], x[2])]
    <2> DEFINE p == x[1]
               c == x[2]
    <2>1. x = <<p, c>> /\ p \in DOMAIN t /\ c \in 0..(n + 1) /\ t[p] \in Nodes
      BY RestIsNat DEF IsTree
    <2>2. w[x] \in Seq(Tokens) /\ w[x] = WriteStep(t, w, x)
      BY <1>1
    <2>3. i \in 1..(Len(s) + 1) /\ i \in Nat
      BY <1>2, <1>4 DEF At
    <2>4. r[<<i, c>>] = ReadStep(s, r, <<i, c>>)
      BY <1>3, <2>1, <2>3
    <2>5. \A y \in Places(t) : Rest(y) < Rest(x) => Fine(y)
      BY <1>4
    <2> HIDE DEF Fine, Good
    <2>6. /\ LeafToken(t[p]) \in Tokens /\ InnerToken(t[p]) \in Tokens
          /\ Sign("0") \in Tokens /\ Sign("1") \in Tokens
          /\ LeafToken(t[p]).chr = "N" /\ InnerToken(t[p]).chr = "C"
          /\ Sign("0").chr = "0" /\ Sign("1").chr = "1"
          /\ NodeRead(LeafToken(t[p])) = t[p]
          /\ NodeRead(InnerToken(t[p])) = [InnerNode EXCEPT !.id = t[p].id]
      BY <2>1, NodesAreTokens
    <2>7. CASE c = 0
      <3>1. w[x] = <<>> /\ Len(w[x]) = 0
        BY <2>2, <2>7 DEF WriteStep
      <3>2. r[<<i, c>>] = [next |-> i, nodes |-> <<>>]
        BY <2>4, <2>7 DEF ReadStep
      <3>3. i + 0 = i
        BY <2>3
      <3> QED BY <2>7, <3>1, <3>2, <3>3, NoChildren
    <2>8. CASE c = n + 1 /\ c > n
      <3>1. <<p, n>> \in Places(t) /\ Rest(<<p, n>>) < Rest(x) /\ c # 0
        BY <1>2, <2>1, <2>8, RestFalls DEF Places
      <3>2. CASE Children(t, p) = {}
        <4>1. w[x] = <<LeafToken(t[p])>>
          BY <2>2, <2>8, <3>1, <3>2 DEF WriteStep
        <4>2. s[i] = LeafToken(t[p]) /\ i \in 1..Len(s) /\ Len(w[x]) = 1
          BY <1>4, <2>6, <4>1, AtToken
        <4>3. ~(i > Len(s))
          BY <1>2, <4>2
        <4>4. r[<<i, c>>] = [next |-> i + 1, nodes |-> WithRoot(t[p], <<>>)]
          BY <2>4, <2>6, <2>8, <3>1, <4>2, <4>3 DEF ReadStep
        <4>5. SubTree(t, p, c) = WithRoot(t[p], <<>>)
          BY <2>1, <2>8, <3>2, LeafIsAlone, NodeAndChildren
        <4> QED BY <4>2, <4>4, <4>5
      <3>3. CASE Children(t, p) # {}
        <4> DEFINE a == <<InnerToken(t[p])>>
                   u == w[<<p, n>>]
        <4>1. w[x] = a \o u
          BY <2>2, <2>8, <3>1, <3>3 DEF WriteStep
        <4>2. a \in Seq(Tokens) /\ u \in Seq(Tokens)
          BY <1>1, <2>6, <3>1
        <4>3. At(s, i, a) /\ At(s, i + Len(a), u) /\ Len(w[x]) = Len(a) + Len(u) /\ Len(u) \in Nat
          <5> HIDE DEF a, u
          <5> QED BY <1>4, <4>1, <4>2, AtBoth
        <4>4. s[i] = InnerToken(t[p]) /\ i \in 1..Len(s) /\ Len(a) = 1
          BY <2>6, <4>3, AtToken
        <4>5. ~(i > Len(s)) /\ s[i].chr # "N"
          BY <1>2, <2>6, <4>4
        <4>6. r[<<i + 1, n>>] = [next |-> i + 1 + Len(u), nodes |-> SubTree(t, p, n)]
          <5>1. Fine(<<p, n>>)
            BY <2>5, <3>1
          <5> HIDE DEF n
          <5> QED BY <4>3, <4>4, <5>1 DEF Fine
        <4>7. NodeRead(s[i]) = t[p]
          BY <2>1, <2>6, <3>3, <4>4 DEF NothingIsLost
        <4>8. r[<<i, c>>] = [next |-> i + 1 + Len(u), nodes |-> WithRoot(t[p], SubTree(t, p, n))]
          <5> HIDE DEF u
          <5> QED BY <2>4, <2>8, <3>1, <4>5, <4>6, <4>7 DEF ReadStep
        <4>9. i + Len(w[x]) = i + 1 + Len(u)
          <5>1. Len(w[x]) = 1 + Len(u) /\ Len(u) \in Nat
            <6> HIDE DEF a, u
            <6> QED BY <4>3, <4>4
          <5> HIDE DEF u
          <5> QED BY <2>3, <5>1
        <4>10. SubTree(t, p, c) = WithRoot(t[p], SubTree(t, p, n))
          BY <2>1, <2>8, NodeAndChildren
        <4> QED BY <4>8, <4>9, <4>10
      <3> QED BY <3>2, <3>3
    <2>9. CASE c \in 1..n
      <3> DEFINE v == w[<<p, c - 1>>]
      <3>1. c # 0 /\ ~(c > n) /\ <<p, c - 1>> \in Places(t) /\ Rest(<<p, c - 1>>) < Rest(x)
        <4>1. c # 0 /\ ~(c > n) /\ <<p, c - 1>> \in Places(t)
          BY <1>2, <2>1, <2>9 DEF Places
        <4>2. Rest(<<p, c - 1>>) < Rest(<<p, c>>)
          BY <2>1, <2>9, RestFalls
        <4> QED BY <2>1, <4>1, <4>2
      <3>2. v \in Seq(Tokens) /\ Fine(<<p, c - 1>>)
        BY <1>1, <2>5, <3>1
      <3>3. CASE Child(p, c - 1) \in DOMAIN t
        <4> DEFINE k == Child(p, c - 1)
                   a == <<Sign("1")>>
                   u == w[<<k, n + 1>>]
        <4>1. <<k, n + 1>> \in Places(t)
          BY <1>2, <3>3 DEF Places
        <4>2. Rest(<<k, n + 1>>) < Rest(x)
          <5>1. Rest(<<k, n + 1>>) < Rest(<<p, c>>)
            BY <2>1, <2>9, <3>3, RestFalls
          <5> QED BY <2>1, <5>1
        <4>3. u \in Seq(Tokens) /\ Fine(<<k, n + 1>>) /\ a \in Seq(Tokens)
          BY <1>1, <2>5, <2>6, <4>1, <4>2
        <4>4. w[x] = (a \o u) \o v
          BY <2>2, <3>1, <3>3 DEF WriteStep
        <4>5. /\ At(s, i, a) /\ At(s, i + Len(a), u) /\ At(s, i + Len(a) + Len(u), v)
              /\ Len(w[x]) = Len(a) + Len(u) + Len(v) /\ Len(u) \in Nat /\ Len(v) \in Nat
              /\ Len(a) \in Nat
          <5> HIDE DEF a, u, v
          <5>1. a \o u \in Seq(Tokens)
            BY <4>3
          <5>2. /\ At(s, i, a \o u) /\ At(s, i + Len(a \o u), v) /\ Len(v) \in Nat
                /\ Len(w[x]) = Len(a \o u) + Len(v)
            <6> DEFINE b == a \o u
            <6>1. b \in Seq(Tokens) /\ v \in Seq(Tokens) /\ At(s, i, b \o v) /\ w[x] = b \o v
              BY <1>4, <3>2, <4>4, <5>1
            <6> HIDE DEF b
            <6>2. At(s, i, b) /\ At(s, i + Len(b), v) /\ Len(v) \in Nat /\ Len(b \o v) = Len(b) + Len(v)
              BY <6>1, AtBoth
            <6>3. Len(w[x]) = Len(b) + Len(v)
              BY <6>1, <6>2
            <6> QED BY <6>2, <6>3 DEF b
          <5>3. /\ At(s, i, a) /\ At(s, i + Len(a), u) /\ Len(a \o u) = Len(a) + Len(u)
                /\ Len(a) \in Nat /\ Len(u) \in Nat
            BY <4>3, <5>2, AtBoth
          <5>4. i + Len(a \o u) = i + Len(a) + Len(u)
            BY <2>3, <5>3
          <5> QED BY <5>2, <5>3, <5>4
        <4>6. s[i] = Sign("1") /\ i \in 1..Len(s) /\ Len(a) = 1
          BY <2>6, <4>5, AtToken
        <4>7. ~(i > Len(s)) /\ s[i].chr # "0"
          BY <1>2, <2>6, <4>6
        <4>8. r[<<i + 1, n + 1>>] = [next |-> i + 1 + Len(u), nodes |-> SubTree(t, k, n + 1)]
          <5> HIDE DEF n, k
          <5> QED BY <4>3, <4>5, <4>6 DEF Fine
        <4>9. r[<<i + 1 + Len(u), c - 1>>] = [next |-> i + 1 + Len(u) + Len(v), nodes |-> SubTree(t, p, c - 1)]
          <5> HIDE DEF u
          <5> QED BY <3>2, <4>5, <4>6 DEF Fine
        <4>10. r[<<i, c>>] = [next  |-> i + 1 + Len(u) + Len(v),
                              nodes |-> Beside(c - 1, SubTree(t, k, n + 1), SubTree(t, p, c - 1))]
          <5> DEFINE m  == r[<<i + 1, n + 1>>].next
                     r1 == r[<<i + 1, n + 1>>]
                     r2 == r[<<m, c - 1>>]
          <5>1. r[<<i, c>>] = [next |-> r2.next, nodes |-> Beside(c - 1, r1.nodes, r2.nodes)]
            BY <2>4, <3>1, <4>7 DEF ReadStep
          <5>2. m = i + 1 + Len(u) /\ r1.nodes = SubTree(t, k, n + 1)
            <6> HIDE DEF u, k, n
            <6> QED BY <4>8
          <5>3. /\ r2.next = i + 1 + Len(u) + Len(v)
                /\ r2.nodes = SubTree(t, p, c - 1)
            <6> HIDE DEF u, v, k, n, m
            <6> QED BY <4>9, <5>2
          <5> HIDE DEF u, v, k, n, r1, r2
          <5> QED BY <5>1, <5>2, <5>3
        <4>11. i + Len(w[x]) = i + 1 + Len(u) + Len(v)
          <5>1. Len(w[x]) = 1 + Len(u) + Len(v) /\ Len(u) \in Nat /\ Len(v) \in Nat
            <6> HIDE DEF a, u, v
            <6> QED BY <4>5, <4>6
          <5> HIDE DEF u, v
          <5> QED BY <2>3, <5>1
        <4>12. SubTree(t, p, c) = Beside(c - 1, SubTree(t, k, n + 1), SubTree(t, p, c - 1))
          BY <2>1, <2>9, <3>3, ChildBesideOthers
        <4> QED BY <4>10, <4>11, <4>12
      <3>4. CASE Child(p, c - 1) \notin DOMAIN t
        <4> DEFINE a == <<Sign("0")>>
        <4>1. w[x] = a \o v
          BY <2>2, <3>1, <3>4 DEF WriteStep
        <4>2. a \in Seq(Tokens)
          BY <2>6
        <4>3. At(s, i, a) /\ At(s, i + Len(a), v) /\ Len(w[x]) = Len(a) + Len(v) /\ Len(v) \in Nat
          <5> HIDE DEF a, v
          <5> QED BY <1>4, <3>2, <4>1, <4>2, AtBoth
        <4>4. s[i] = Sign("0") /\ i \in 1..Len(s) /\ Len(a) = 1
          BY <2>6, <4>3, AtToken
        <4>5. ~(i > Len(s)) /\ s[i].chr = "0"
          BY <1>2, <2>6, <4>4
        <4>6. r[<<i + 1, c - 1>>] = [next |-> i + 1 + Len(v), nodes |-> SubTree(t, p, c - 1)]
          BY <3>2, <4>3, <4>4 DEF Fine
        <4>7. r[<<i, c>>] = r[<<i + 1, c - 1>>]
          BY <2>4, <3>1, <4>5 DEF ReadStep
        <4>8. i + Len(w[x]) = i + 1 + Len(v)
          <5>1. Len(w[x]) = 1 + Len(v) /\ Len(v) \in Nat
            <6> HIDE DEF a, v
            <6> QED BY <4>3, <4>4
          <5> HIDE DEF v
          <5> QED BY <2>3, <5>1
        <4>9. SubTree(t, p, c) = SubTree(t, p, c - 1)
          BY <2>1, <2>9, <3>4, NoChildToAdd
        <4> QED BY <4>6, <4>7, <4>8, <4>9
      <3> QED BY <3>3, <3>4
    <2> QED BY <2>1, <2>7, <2>8, <2>9, KindsOfPlaces
  <1>5. \A x \in Places(t) : (\A y \in Places(t) : Rest(y) < Rest(x) => y \in Good) => x \in Good
    BY <1>4
  <1>6. \A x \in Places(t) : x \in Good
    <2> HIDE DEF Good
    <2> QED BY <1>5, AlongTheRest
  <1> QED BY <1>6

\* A tree is read as it was written.
LEMMA ReadAsWritten ==
  ASSUME NEW t, IsTree(t), NothingIsLost(t)
  PROVE  ReadBack(Stream(t)) = t
PROOF
  <1> DEFINE s == Stream(t)
             root == << <<>>, NumChildren + 1 >>
  <1>1. PICK w : IsWriter(t, w) /\ s = w[root]
    BY WriterOfStream
  <1>2. root \in Places(t) /\ root[1] = <<>> /\ root[2] = NumChildren + 1
    BY Numbers DEF IsTree, Places
  <1>3. s \in Seq(Tokens) /\ Len(s) \in Nat
    <2>1. w[root] \in Seq(Tokens)
      <3> HIDE DEF root
      <3> QED BY <1>1, <1>2, WriterWritesTokens
    <2> QED BY <1>1, <2>1
  <1>4. PICK r : IsReader(s, r) /\ ReadBack(s) = r[<<1, NumChildren + 1>>].nodes
    <2> HIDE DEF s
    <2> QED BY <1>3, ReaderOfStream
  <1>5. At(s, 1, w[root])
    <2>1. Len(s) \in Nat /\ w[root] = s /\ \A j \in 1..Len(s) : 1 + j - 1 = j
      BY <1>1, <1>3
    <2> HIDE DEF s, root
    <2> QED BY <2>1 DEF At
  <1>6. r[<<1, NumChildren + 1>>] = [next |-> 1 + Len(w[root]), nodes |-> SubTree(t, <<>>, NumChildren + 1)]
    <2>1. r[<<1, root[2]>>] = [next |-> 1 + Len(w[root]), nodes |-> SubTree(t, root[1], root[2])]
      <3> HIDE DEF s, root
      <3> QED BY <1>1, <1>2, <1>3, <1>4, <1>5, PlacesAreReadAsWritten
    <2> QED BY <1>2, <2>1
  <1>7. SubTree(t, <<>>, NumChildren + 1) = t
    <2>1. \A q \in Paths : <<>> \o q = q
      BY DEF Paths
    <2>2. NumChildren + 1 > NumChildren /\ DOMAIN t \subseteq Paths /\ t = [p \in DOMAIN t |-> t[p]]
      BY Numbers DEF IsTree
    <2>3. Under(t, <<>>, NumChildren + 1) = DOMAIN t
      <3>1. \A q : q \in Under(t, <<>>, NumChildren + 1) <=> q \in DOMAIN t
        BY <2>1, <2>2 DEF Under
      <3> QED BY <3>1
    <2>4. \A q \in DOMAIN t : t[<<>> \o q] = t[q]
      BY <2>1, <2>2
    <2>5. SubTree(t, <<>>, NumChildren + 1) = [q \in DOMAIN t |-> t[q]]
      BY <2>3, <2>4 DEF SubTree
    <2> QED BY <2>2, <2>5
  <1> QED BY <1>4, <1>6, <1>7

-----------------------------------------------------------------------------
(***************************************************************************)
(* Finding a node: whatever the zero path skips, the search goes along the *)
(* digits of the id.                                                       *)
(***************************************************************************)
LEMMA DigitsArePaths ==
  ASSUME NEW id \in Ids
  PROVE  Digits[id] \in Paths /\ Len(Digits[id]) = Levels /\ SubSeq(Digits[id], 1, Levels) = Digits[id]
PROOF
  <1>1. Digits[id] \in Paths /\ Len(Digits[id]) = Levels
    BY DigitsAreAPath DEF Paths, Steps
  <1> QED BY <1>1 DEF Paths

\* The part up to a step, and the part after it.
LEMMA CutInTwo ==
  ASSUME NEW p \in Paths, NEW k \in 0..Len(p)
  PROVE  /\ SubSeq(p, 1, k) \in Paths /\ Len(SubSeq(p, 1, k)) = k
         /\ SubSeq(p, 1, k) \o SubSeq(p, k + 1, Len(p)) = p
         /\ \A l \in 0..k : SubSeq(SubSeq(p, 1, k), 1, l) = SubSeq(p, 1, l)
         /\ k < Len(p) => Append(SubSeq(p, 1, k), p[k + 1]) = SubSeq(p, 1, k + 1)
PROOF
  <1>1. Len(p) \in Nat /\ k \in Nat /\ k <= Len(p)
    BY DEF Paths
  <1> DEFINE a == SubSeq(p, 1, k)
             b == SubSeq(p, k + 1, Len(p))
  <1>2. a \in Paths /\ Len(a) = k /\ \A j \in 1..k : a[j] = p[j]
    BY <1>1 DEF Paths
  <1>3. b \in Paths /\ Len(b) = Len(p) - k /\ \A j \in 1..(Len(p) - k) : b[j] = p[k + j]
    BY <1>1 DEF Paths
  <1>4. a \o b = p
    <2>1. a \o b \in Paths /\ Len(a \o b) = Len(p)
      <3> HIDE DEF a, b
      <3>1. a \o b \in Paths /\ Len(a \o b) = Len(a) + Len(b)
        <4>1. \A S : \A s, t \in Seq(S) : s \o t \in Seq(S) /\ Len(s \o t) = Len(s) + Len(t)
          OBVIOUS
        <4>2. a \in Paths /\ b \in Paths
          BY <1>2, <1>3
        <4> QED BY <4>1, <4>2, Zenon DEF Paths
      <3>2. Len(a) + Len(b) = Len(p)
        BY <1>1, <1>2, <1>3
      <3> QED BY <3>1, <3>2
    <2>2. ASSUME NEW j \in 1..Len(p)
          PROVE  (a \o b)[j] = p[j]
      <3> HIDE DEF a, b
      <3>1. CASE j <= k
        <4>1. (a \o b)[j] = a[j] /\ j \in 1..k
          BY <1>1, <1>2, <1>3, <3>1 DEF Paths
        <4> QED BY <1>2, <4>1
      <3>2. CASE j > k
        <4>1. (a \o b)[j] = b[j - k] /\ j - k \in 1..(Len(p) - k) /\ k + (j - k) = j
          BY <1>1, <1>2, <1>3, <3>2 DEF Paths
        <4> QED BY <1>3, <4>1
      <3>3. j <= k \/ j > k
        <4>1. j \in Nat /\ k \in Nat
          BY <1>1
        <4> QED BY <4>1
      <3> QED BY <3>1, <3>2, <3>3
    <2> DEFINE u == a \o b
    <2> HIDE DEF u
    <2>3. u \in Paths /\ Len(u) = Len(p) /\ \A j \in 1..Len(p) : u[j] = p[j]
      BY <2>1, <2>2 DEF u
    <2>4. u = p
      BY <2>3 DEF Paths
    <2> QED BY <2>4 DEF u
  <1>5. ASSUME NEW l \in 0..k
        PROVE  SubSeq(a, 1, l) = SubSeq(p, 1, l)
    <2>1. SubSeq(p, 1, l) \in Paths /\ Len(SubSeq(p, 1, l)) = l /\ \A j \in 1..l : SubSeq(p, 1, l)[j] = p[j]
      BY <1>1 DEF Paths
    <2>2. SubSeq(a, 1, l) \in Paths /\ Len(SubSeq(a, 1, l)) = l /\ \A j \in 1..l : SubSeq(a, 1, l)[j] = a[j]
      <3> HIDE DEF a
      <3> QED BY <1>1, <1>2 DEF Paths
    <2>3. \A j \in 1..l : a[j] = p[j]
      BY <1>1, <1>2
    <2> HIDE DEF a
    <2> QED BY <2>1, <2>2, <2>3 DEF Paths
  <1>6. ASSUME k < Len(p)
        PROVE  Append(a, p[k + 1]) = SubSeq(p, 1, k + 1)
    <2> DEFINE u == Append(a, p[k + 1])
               v == SubSeq(p, 1, k + 1)
    <2>1. v \in Paths /\ Len(v) = k + 1 /\ \A j \in 1..(k + 1) : v[j] = p[j]
      BY <1>1, <1>6 DEF Paths
    <2>2. u \in Paths /\ Len(u) = k + 1 /\ u[k + 1] = p[k + 1] /\ \A j \in 1..k : u[j] = a[j]
      <3>1. p[k + 1] \in Steps
        BY <1>1, <1>6 DEF Paths
      <3> HIDE DEF a
      <3> QED BY <1>1, <1>2, <3>1 DEF Paths
    <2>3. \A j \in 1..(k + 1) : u[j] = v[j]
      <3> HIDE DEF a, u, v
      <3> QED BY <1>1, <1>2, <2>1, <2>2
    <2> HIDE DEF u, v
    <2> QED BY <2>1, <2>2, <2>3 DEF Paths
  <1> QED BY <1>2, <1>4, <1>5, <1>6

\* Only the part of the way along the leading zeros is skipped.
LEMMA SkipsOnlyZeros ==
  ASSUME NEW id \in Ids, zeroPath = ZeroPath
  PROVE  /\ Skipped(id) \in 0..(ZeroPathDepth - 1) /\ Skipped(id) \in 0..Levels
         /\ SubSeq(Digits[id], 1, Skipped(id)) = Zeros(Skipped(id))
PROOF
  <1> DEFINE S == Skippable(id) \cup {0}
  <1>1. /\ ZeroPathDepth \in Nat \ {0} /\ ZeroPathDepth <= Levels /\ Levels \in Nat
        /\ Len(zeroPath) = ZeroPathDepth
    BY Numbers DEF ZeroPath
  <1>2. \A s \in S : s \in 0..(ZeroPathDepth - 1) /\ (s # 0 => SubSeq(Digits[id], 1, s) = Zeros(s))
    BY <1>1 DEF Skippable
  <1>3. \E m \in S : \A n \in S : n <= m
    <2>1. S \in SUBSET Nat /\ S # {} /\ ZeroPathDepth \in Nat /\ \A n \in S : n <= ZeroPathDepth
      BY <1>1, <1>2
    <2> HIDE DEF S
    <2> QED BY <2>1, GreatestExists
  <1>4. \E m \in S : \A n \in S : m >= n
    <2>1. \A m, n \in S : n <= m => m >= n
      BY <1>1, <1>2
    <2> HIDE DEF S
    <2> QED BY <1>3, <2>1
  <1>5. Skipped(id) \in S
    BY <1>4, Zenon DEF Skipped, Max
  <1>6. SubSeq(Digits[id], 1, 0) = Zeros(0)
    <2>1. SubSeq(Digits[id], 1, 0) = <<>>
      BY DigitsArePaths DEF Paths
    <2>2. Zeros(0) = <<>>
      BY DEF Zeros
    <2> QED BY <2>1, <2>2
  <1> HIDE DEF S
  <1> QED BY <1>1, <1>2, <1>5, <1>6

LEMMA SearchFollowsDigits ==
  ASSUME NEW id \in Ids, zeroPath = ZeroPath
  PROVE  /\ Target(id) = Digits[id]
         /\ \A k \in 1..Levels : Recorded(id)[k] = SubSeq(Digits[id], 1, k - 1)
PROOF
  <1> DEFINE s == Skipped(id)
             d == Digits[id]
  <1>1. /\ s \in 0..(ZeroPathDepth - 1) /\ s \in 0..Levels /\ SubSeq(d, 1, s) = Zeros(s)
        /\ ZeroPathDepth \in Nat \ {0} /\ ZeroPathDepth <= Levels /\ Levels \in Nat
    BY SkipsOnlyZeros, Numbers
  <1>2. d \in Paths /\ Len(d) = Levels /\ SubSeq(d, 1, Levels) = d
    BY DigitsArePaths
  <1>3. ASSUME NEW k \in 1..ZeroPathDepth
        PROVE  zeroPath[k] = Zeros(k - 1)
    BY DEF ZeroPath
  <1>4. Target(id) = d
    <2>1. CASE s = 0
      <3>1. Target(id) = <<>> \o SubSeq(d, 1, Levels)
        BY <2>1 DEF Target
      <3> HIDE DEF d
      <3> QED BY <1>2, <3>1 DEF Paths
    <2>2. CASE s # 0
      <3>1. Target(id) = zeroPath[s + 1] \o SubSeq(d, s + 1, Levels)
        BY <2>2 DEF Target
      <3>2. s + 1 \in 1..ZeroPathDepth /\ (s + 1) - 1 = s
        BY <1>1
      <3>3. zeroPath[s + 1] = SubSeq(d, 1, s)
        BY <1>1, <1>3, <3>2
      <3>4. SubSeq(d, 1, s) \o SubSeq(d, s + 1, Len(d)) = d
        <4> HIDE DEF s, d
        <4> QED BY <1>1, <1>2, CutInTwo
      <3> QED BY <1>2, <3>1, <3>3, <3>4
    <2> QED BY <2>1, <2>2
  <1>5. ASSUME NEW k \in 1..Levels
        PROVE  Recorded(id)[k] = SubSeq(d, 1, k - 1)
    <2>1. CASE k <= s
      <3>1. Recorded(id)[k] = zeroPath[k]
        BY <2>1 DEF Recorded
      <3>2. k \in 1..ZeroPathDepth /\ k - 1 \in 0..s
        BY <1>1, <2>1
      <3>3. SubSeq(SubSeq(d, 1, s), 1, k - 1) = SubSeq(d, 1, k - 1)
        <4> HIDE DEF s, d
        <4> QED BY <1>1, <1>2, <3>2, CutInTwo
      <3>4. SubSeq(Zeros(s), 1, k - 1) = Zeros(k - 1)
        <4>1. s \in Nat /\ k - 1 \in 0..s
          BY <1>1, <3>2
        <4> HIDE DEF s
        <4> QED BY <4>1 DEF Zeros
      <3> QED BY <1>1, <1>3, <3>1, <3>2, <3>3, <3>4
    <2>2. CASE ~(k <= s)
      <3>1. Recorded(id)[k] = SubSeq(Target(id), 1, k - 1)
        BY <2>2 DEF Recorded
      <3> QED BY <1>4, <3>1
    <2> QED BY <2>1, <2>2
  <1> QED BY <1>4, <1>5

-----------------------------------------------------------------------------
(***************************************************************************)
(* remove() takes no node out of the tree: the first parent it asks is the *)
(* parent of the leaf's parent, which has a child.                         *)
(***************************************************************************)
LEMMA NothingIsTakenOut ==
  ASSUME NEW id \in Ids, zeroPath = ZeroPath, IsTree(tree), Digits[id] \in DOMAIN tree
  PROVE  /\ Unlinked(id).tree = tree
         /\ ~(Unlinked(id).children = 0 /\ Unlinked(id).cur = <<>>)
PROOF
  <1> DEFINE d == Digits[id]
             n == Levels
             g == SubSeq(d, 1, n - 2)
             first == TakenOut(tree, Recorded(id)[n - 1], Target(id))
             IsLeft(left) ==
               left = [k \in 1..n |->
                         IF k = n THEN AtLeaf(id)
                         ELSE IF left[k + 1].children # 0 THEN left[k + 1]
                         ELSE TakenOut(left[k + 1].tree, Recorded(id)[k], left[k + 1].cur)]
             leaf == [tree |-> tree, cur |-> d, children |-> 0]
             left0 == [k \in 1..n |-> IF k = n THEN leaf ELSE first]
  <1>1. n \in Nat \ {0} /\ d \in Paths /\ Len(d) = n
    BY Numbers, DigitsArePaths
  <1>2. AtLeaf(id) = leaf /\ Target(id) = d
    BY SearchFollowsDigits DEF AtLeaf
  <1>3. ASSUME n > 1
        PROVE  first.tree = tree /\ first.children # 0
    <2>1. n - 1 \in 1..n /\ n - 2 \in 0..n /\ (n - 1) - 1 = n - 2
      BY <1>1, <1>3
    <2>2. Recorded(id)[n - 1] = g
      BY <2>1, SearchFollowsDigits
    <2>3. g \in Paths /\ Len(g) = n - 2 /\ Append(g, d[n - 1]) = SubSeq(d, 1, n - 1)
      <3>1. n - 2 \in 0..Len(d) /\ n - 2 < Len(d) /\ (n - 2) + 1 = n - 1
        BY <1>1, <2>1
      <3>2. SubSeq(d, 1, n - 2) \in Paths /\ Len(SubSeq(d, 1, n - 2)) = n - 2
        <4> HIDE DEF d
        <4> QED BY <1>1, <3>1, CutInTwo
      <3>3. Append(SubSeq(d, 1, n - 2), d[(n - 2) + 1]) = SubSeq(d, 1, (n - 2) + 1)
        <4> DEFINE k == n - 2
        <4>1. k \in 0..Len(d) /\ k < Len(d)
          BY <3>1
        <4>2. Append(SubSeq(d, 1, k), d[k + 1]) = SubSeq(d, 1, k + 1)
          <5> HIDE DEF d, k
          <5> QED BY <1>1, <4>1, CutInTwo
        <4> QED BY <4>2
      <3> QED BY <3>1, <3>2, <3>3
    <2>4. ~IsChild(tree, g, d)
      <3>1. \A c : Len(Append(g, c)) = n - 1
        <4> HIDE DEF g
        <4>1. Len(g) \in Nat /\ Len(g) + 1 = n - 1
          BY <1>1, <1>3, <2>3
        <4>2. \A c : Len(Append(g, c)) = Len(g) + 1
          BY <2>3 DEF Paths
        <4> QED BY <4>1, <4>2
      <3>2. n - 1 # n
        BY <1>1
      <3> HIDE DEF d, g
      <3> QED BY <1>1, <3>1, <3>2 DEF IsChild, Child
    <2>5. d[n - 1] \in Children(tree, g)
      <3>1. SubSeq(d, 1, n - 1) \in DOMAIN tree
        <4>1. n - 1 \in 0..Len(d)
          BY <1>1
        <4> QED BY <4>1 DEF IsTree
      <3>2. d[n - 1] \in Steps
        <4>1. n - 1 \in 1..Len(d)
          BY <1>1, <1>3
        <4> HIDE DEF d
        <4> QED BY <1>1, <4>1 DEF Paths
      <3> QED BY <2>3, <3>1, <3>2 DEF Children, Child, Steps
    <2>6. Cardinality(Children(tree, g)) # 0
      <3>1. Children(tree, g) \in SUBSET Steps /\ IsFiniteSet(Steps)
        <4>1. IsFiniteSet(Steps)
          BY Numbers, FS_Interval DEF Steps
        <4>2. Children(tree, g) \in SUBSET Steps
          BY DEF Children, Steps
        <4> QED BY <4>1, <4>2
      <3>2. IsFiniteSet(Children(tree, g))
        BY <3>1, FS_Subset
      <3> QED BY <2>5, <3>2, FS_EmptySet
    <2>7. first = [tree |-> tree, cur |-> g, children |-> Cardinality(Children(tree, g))]
      BY <1>2, <2>2, <2>4 DEF TakenOut
    <2> QED BY <2>6, <2>7
  <1>4. IsLeft(left0)
    <2>1. ASSUME NEW k \in 1..n
          PROVE  left0[k] = IF k = n THEN AtLeaf(id)
                            ELSE IF left0[k + 1].children # 0 THEN left0[k + 1]
                            ELSE TakenOut(left0[k + 1].tree, Recorded(id)[k], left0[k + 1].cur)
      <3>1. CASE k = n
        BY <1>1, <1>2, <3>1
      <3>2. CASE k = n - 1
        <4>1. k # n /\ k + 1 = n /\ k + 1 \in 1..n /\ left0[k] = first
          BY <1>1, <3>2
        <4>2. left0[k + 1] = leaf
          BY <4>1
        <4> HIDE DEF left0
        <4> QED BY <1>2, <3>2, <4>1, <4>2
      <3>3. CASE k < n - 1
        <4>1. k # n /\ k + 1 # n /\ k + 1 \in 1..n /\ n > 1
          BY <1>1, <3>3
        <4>2. left0[k] = first /\ left0[k + 1] = first
          BY <4>1
        <4> HIDE DEF left0, first
        <4> QED BY <1>3, <4>1, <4>2
      <3> QED BY <1>1, <3>1, <3>2, <3>3
    <2> HIDE DEF left0
    <2>2. left0 = [k \in 1..n |-> left0[k]]
      BY DEF left0
    <2> QED BY <2>1, <2>2
  <1> DEFINE left == CHOOSE left : IsLeft(left)
  <1>5. IsLeft(left) /\ Unlinked(id) = left[1]
    <2>1. \E f : IsLeft(f)
      <3> HIDE DEF IsLeft
      <3> QED BY <1>4
    <2>2. IsLeft(left)
      BY <2>1, Zenon
    <2>3. Unlinked(id) = left[1]
      BY Zenon DEF Unlinked
    <2> QED BY <2>2, <2>3
  <1> HIDE DEF left
  <1>6. /\ left[n] = leaf /\ (n > 1 => left[n - 1] = first)
        /\ \A k \in 1..(n - 1) : left[k + 1].children # 0 => left[k] = left[k + 1]
    <2>1. \A k \in 1..n : left[k] = IF k = n THEN AtLeaf(id)
                                    ELSE IF left[k + 1].children # 0 THEN left[k + 1]
                                    ELSE TakenOut(left[k + 1].tree, Recorded(id)[k], left[k + 1].cur)
      BY <1>5
    <2>2. left[n] = leaf
      BY <1>1, <1>2, <2>1
    <2>3. ASSUME n > 1
          PROVE  left[n - 1] = first
      <3>1. n - 1 \in 1..n /\ (n - 1) + 1 = n /\ n - 1 # n
        BY <1>1, <2>3
      <3>2. left[n].children = 0 /\ left[n].tree = tree /\ left[n].cur = d
        BY <2>2
      <3> HIDE DEF leaf
      <3> QED BY <1>2, <2>1, <3>1, <3>2
    <2>4. ASSUME NEW k \in 1..(n - 1), left[k + 1].children # 0
          PROVE  left[k] = left[k + 1]
      <3>1. k \in 1..n /\ k # n
        BY <1>1
      <3> QED BY <2>1, <2>4, <3>1
    <2> QED BY <2>2, <2>3, <2>4
  <1>7. CASE n = 1
    <2>1. left[1] = leaf
      BY <1>6, <1>7
    <2>2. d # <<>>
      <3>1. Len(d) = 1
        BY <1>1, <1>7
      <3> HIDE DEF d
      <3> QED BY <3>1
    <2> QED BY <1>5, <2>1, <2>2
  <1>8. CASE n > 1
    <2> DEFINE S == {j \in 0..(n - 2) : left[n - 1 - j] = first}
    <2>0. n - 2 \in Nat /\ n - 1 - 0 = n - 1
      BY <1>1, <1>8
    <2>1. 0 \in S
      BY <1>6, <1>8, <2>0
    <2>2. ASSUME NEW j \in 0..((n - 2) - 1), j \in S
          PROVE  j + 1 \in S
      <3>1. /\ j + 1 \in 0..(n - 2) /\ n - 1 - (j + 1) \in 1..(n - 1)
            /\ (n - 1 - (j + 1)) + 1 = n - 1 - j
        BY <1>1, <1>8
      <3>2. left[n - 1 - j] = first
        BY <2>2
      <3>3. left[n - 1 - (j + 1)] = first
        <4> HIDE DEF first
        <4> QED BY <1>3, <1>6, <1>8, <3>1, <3>2
      <3> QED BY <3>1, <3>3
    <2>3. n - 2 \in S
      <3>1. 0..(n - 2) \subseteq S
        <4> HIDE DEF S
        <4> QED BY <2>0, <2>1, <2>2, IntervalInduction
      <3> QED BY <2>0, <3>1
    <2>4. n - 1 - (n - 2) = 1
      BY <1>1
    <2>5. left[1] = first
      BY <2>3, <2>4
    <2> HIDE DEF first
    <2> QED BY <1>3, <1>5, <1>8, <2>5
  <1> QED BY <1>1, <1>7, <1>8

-----------------------------------------------------------------------------
(***************************************************************************)
(* The trees there are.  A node above the lowest level holds nothing; one  *)
(* at the lowest level holds an id, the one whose digits lead to it.  Only *)
(* the end of the zero path may be above the lowest level and have no      *)
(* children.                                                               *)
(***************************************************************************)
InnerAreBare(t)       == \A p \in DOMAIN t : Len(p) < Levels => t[p] = InnerNode
LeavesKnowTheirIds(t) == \A p \in DOMAIN t : Len(p) = Levels =>
                            t[p].id \in Ids \ {0} /\ Digits[t[p].id] = p /\ t[p].data \in Values
DeadEnds(t)           == \A p \in DOMAIN t : Len(p) < Levels /\ Children(t, p) = {} => p = Zeros(ZeroPathDepth - 1)
ZerosAreThere(t)      == \A k \in 0..(ZeroPathDepth - 1) : Zeros(k) \in DOMAIN t

GoodTree(t) == IsTree(t) /\ InnerAreBare(t) /\ LeavesKnowTheirIds(t) /\ DeadEnds(t) /\ ZerosAreThere(t)

LEMMA ZerosArePaths ==
  ASSUME NEW k \in Nat
  PROVE  /\ Zeros(k) \in Paths /\ Len(Zeros(k)) = k /\ Append(Zeros(k), 0) = Zeros(k + 1)
         /\ 0 \in Steps /\ \A l \in 0..k : SubSeq(Zeros(k), 1, l) = Zeros(l)
PROOF
  <1>1. 0 \in Steps
    BY Numbers DEF Steps
  <1>2. \A n \in Nat : Zeros(n) \in Paths /\ Len(Zeros(n)) = n /\ \A j \in 1..n : Zeros(n)[j] = 0
    BY <1>1 DEF Zeros, Paths
  <1>3. Append(Zeros(k), 0) = Zeros(k + 1)
    <2> DEFINE a == Zeros(k)
               b == Zeros(k + 1)
               u == Append(a, 0)
    <2>1. b \in Paths /\ Len(b) = k + 1 /\ \A j \in 1..(k + 1) : b[j] = 0
      BY <1>2
    <2>2. a \in Paths /\ Len(a) = k /\ \A j \in 1..k : a[j] = 0
      BY <1>2
    <2>3. u \in Paths /\ Len(u) = k + 1 /\ u[k + 1] = 0 /\ \A j \in 1..k : u[j] = a[j]
      <3> HIDE DEF a
      <3> QED BY <1>1, <2>2 DEF Paths
    <2>4. \A j \in 1..(k + 1) : u[j] = b[j]
      <3> HIDE DEF a, b, u
      <3> QED BY <2>1, <2>2, <2>3
    <2>5. u = b
      <3>1. u \in Seq(Steps) /\ b \in Seq(Steps) /\ Len(u) = Len(b)
        BY <2>1, <2>3 DEF Paths
      <3>2. \A j \in 1..Len(u) : u[j] = b[j]
        BY <2>3, <2>4
      <3> HIDE DEF u, b
      <3> QED BY <3>1, <3>2
    <2> QED BY <2>5
  <1>4. ASSUME NEW l \in 0..k
        PROVE  SubSeq(Zeros(k), 1, l) = Zeros(l)
    BY DEF Zeros
  <1> QED BY <1>1, <1>2, <1>3, <1>4

\* The tree at the start.
LEMMA FirstTree == GoodTree(WithZeroPath(<<>>)) /\ \A p \in DOMAIN WithZeroPath(<<>>) : Len(p) # Levels
PROOF
  <1> DEFINE Z == {Zeros(k) : k \in 0..(ZeroPathDepth - 1)}
             t == [p \in Z |-> InnerNode]
  <1>1. ZeroPathDepth \in Nat \ {0} /\ ZeroPathDepth <= Levels /\ Levels \in Nat
    BY Numbers
  <1>2. WithZeroPath(<<>>) = t
    <2>1. DOMAIN <<>> = {}
      OBVIOUS
    <2> HIDE DEF Z
    <2>2. DOMAIN <<>> \cup Z = Z
      BY <2>1
    <2>3. WithNodes(<<>>, Z) = [p \in Z |-> IF p \in DOMAIN <<>> THEN <<>>[p] ELSE InnerNode]
      BY <2>2 DEF WithNodes
    <2>4. WithNodes(<<>>, Z) = t
      BY <2>1, <2>3
    <2> QED BY <2>4 DEF WithZeroPath, Z
  <1>3. \A p \in Z : \E k \in 0..(ZeroPathDepth - 1) : p = Zeros(k) /\ Len(p) = k /\ k < Levels
    BY <1>1, ZerosArePaths
  <1>4. InnerNode \in Nodes
    <2>1. 0 \in 0..(CounterWrap - 1)
      BY Numbers
    <2> QED BY <2>1 DEF InnerNode, Nodes
  <1>5. IsTree(t)
    <2>1. ASSUME NEW p \in Z
          PROVE  p \in Paths /\ Len(p) <= Levels
      <3>1. PICK k \in 0..(ZeroPathDepth - 1) : p = Zeros(k) /\ Len(p) = k /\ k < Levels
        BY <1>3
      <3>2. k \in Nat
        BY <1>1
      <3>3. p \in Paths
        BY <3>1, <3>2, ZerosArePaths
      <3> QED BY <1>1, <3>1, <3>2, <3>3
    <2>2. <<>> \in Z
      <3>1. Zeros(0) = <<>>
        BY DEF Zeros
      <3> QED BY <1>1, <3>1
    <2>3. ASSUME NEW p \in Z, NEW j \in 0..Len(p)
          PROVE  SubSeq(p, 1, j) \in Z
      <3>1. PICK k \in 0..(ZeroPathDepth - 1) : p = Zeros(k) /\ Len(p) = k
        BY <1>3
      <3>2. k \in Nat /\ j \in 0..k /\ j \in 0..(ZeroPathDepth - 1)
        BY <1>1, <3>1
      <3>3. SubSeq(p, 1, j) = Zeros(j)
        BY <3>1, <3>2, ZerosArePaths
      <3> QED BY <3>2, <3>3
    <2> HIDE DEF Z
    <2> QED BY <1>4, <2>1, <2>2, <2>3 DEF IsTree
  <1>6. DeadEnds(t)
    <2> SUFFICES ASSUME NEW p \in Z, Children(t, p) = {}
                 PROVE  p = Zeros(ZeroPathDepth - 1)
      BY DEF DeadEnds
    <2>1. PICK k \in 0..(ZeroPathDepth - 1) : p = Zeros(k)
      OBVIOUS
    <2>2. ASSUME k # ZeroPathDepth - 1
          PROVE  FALSE
      <3>1. k + 1 \in 0..(ZeroPathDepth - 1) /\ k \in Nat
        BY <1>1, <2>2
      <3>2. Child(p, 0) \in Z
        BY <2>1, <3>1, ZerosArePaths DEF Child
      <3>3. 0 \in 0..(NumChildren - 1)
        BY Numbers
      <3>4. 0 \in Children(t, p)
        <4> HIDE DEF Z
        <4> QED BY <3>2, <3>3 DEF Children
      <3> QED BY <3>4
    <2> QED BY <2>1, <2>2
  <1>7. ZerosAreThere(t)
    BY DEF ZerosAreThere
  <1>8. InnerAreBare(t)
    <2> HIDE DEF Z
    <2> QED BY DEF InnerAreBare
  <1>9. \A p \in DOMAIN t : Len(p) # Levels
    BY <1>1, <1>3
  <1> HIDE DEF t
  <1>10. LeavesKnowTheirIds(t)
    BY <1>9 DEF LeavesKnowTheirIds
  <1> QED BY <1>2, <1>5, <1>6, <1>7, <1>8, <1>9, <1>10 DEF GoodTree

LEMMA GoodTreeFacts ==
  ASSUME NEW t, GoodTree(t)
  PROVE  /\ ReadBack(Stream(t)) = t /\ WithZeroPath(t) = t
         /\ \A id \in Ids : Digits[id] \in DOMAIN t =>
              /\ id # 0 /\ t[Digits[id]].id = id /\ t[Digits[id]].data \in Values
              /\ t[Digits[id]] \in Nodes
PROOF
  <1>1. WithZeroPath(t) = t
    <2> DEFINE Z == {Zeros(k) : k \in 0..(ZeroPathDepth - 1)}
    <2>1. Z \subseteq DOMAIN t
      BY DEF GoodTree, ZerosAreThere
    <2> HIDE DEF Z
    <2>2. (DOMAIN t) \cup Z = DOMAIN t
      BY <2>1
    <2>3. WithNodes(t, Z) = [p \in DOMAIN t |-> t[p]]
      BY <2>2 DEF WithNodes
    <2>4. t = [p \in DOMAIN t |-> t[p]]
      BY DEF GoodTree, IsTree
    <2> QED BY <2>3, <2>4 DEF WithZeroPath, Z
  <1>2. NothingIsLost(t)
    <2> SUFFICES ASSUME NEW p \in DOMAIN t, Children(t, p) # {}
                 PROVE  t[p] = [InnerNode EXCEPT !.id = t[p].id]
      BY DEF NothingIsLost
    <2>1. PICK c \in Steps : Child(p, c) \in DOMAIN t
      BY DEF Children, Steps
    <2>2. Len(p) < Levels
      <3>1. Len(p) \in Nat /\ Len(p) + 1 <= Levels
        BY <2>1, ChildIsBelow DEF GoodTree
      <3> QED BY <3>1, Numbers
    <2>3. t[p] = InnerNode
      BY <2>2 DEF GoodTree, InnerAreBare
    <2>4. [InnerNode EXCEPT !.id = InnerNode.id] = InnerNode
      BY DEF InnerNode
    <2> QED BY <2>3, <2>4
  <1>3. ReadBack(Stream(t)) = t
    BY <1>2, ReadAsWritten DEF GoodTree
  <1>4. ASSUME NEW id \in Ids, Digits[id] \in DOMAIN t
        PROVE  /\ id # 0 /\ t[Digits[id]].id = id /\ t[Digits[id]].data \in Values
               /\ t[Digits[id]] \in Nodes
    <2>1. Len(Digits[id]) = Levels
      BY DigitsArePaths
    <2>2. /\ t[Digits[id]].id \in Ids \ {0} /\ Digits[t[Digits[id]].id] = Digits[id]
          /\ t[Digits[id]].data \in Values
      BY <1>4, <2>1 DEF GoodTree, LeavesKnowTheirIds
    <2>3. t[Digits[id]].id = id
      BY <2>2, DigitsTellIds
    <2>4. t[Digits[id]] \in Nodes
      BY <1>4 DEF GoodTree, IsTree
    <2> QED BY <2>2, <2>3, <2>4
  <1> QED BY <1>1, <1>3, <1>4

\* There are fewer leaves than a size can count.
Leaves(t) == {p \in DOMAIN t : Len(p) = Levels}

LEMMA LeavesAreCounted ==
  ASSUME NEW t, GoodTree(t)
  PROVE  /\ IsFiniteSet(Leaves(t)) /\ ComputeSize(t) = Cardinality(Leaves(t))
         /\ ComputeSize(t) \in 0..(SizeWrap - 1)
PROOF
  <1> DEFINE I == Ids \ {0}
             f == [p \in Leaves(t) |-> t[p].id]
  <1>1. IsFiniteSet(I)
    <2>1. Weight[Levels] - 1 \in Int
      <3>1. Weight[Levels] \in Nat
        BY Weights, Numbers
      <3> QED BY <3>1
    <2>2. IsFiniteSet(0..(Weight[Levels] - 1))
      BY <2>1, FS_Interval
    <2>3. I \in SUBSET (0..(Weight[Levels] - 1))
      BY TreeAssumption
    <2> HIDE DEF I
    <2> QED BY <2>2, <2>3, FS_Subset
  <1>2. f \in Injection(Leaves(t), I)
    <2>1. \A p \in Leaves(t) : t[p].id \in I /\ Digits[t[p].id] = p
      BY DEF GoodTree, LeavesKnowTheirIds, Leaves
    <2>2. f \in [Leaves(t) -> I]
      BY <2>1
    <2>3. \A p, q \in Leaves(t) : f[p] = f[q] => p = q
      BY <2>1
    <2> QED BY <2>2, <2>3 DEF Injection, IsInjective
  <1>3. IsFiniteSet(Leaves(t)) /\ Cardinality(Leaves(t)) <= Cardinality(I)
    <2> HIDE DEF f, I
    <2> QED BY <1>1, <1>2, FS_Injection
  <1>4. Cardinality(Leaves(t)) \in Nat /\ Cardinality(I) \in Nat
    BY <1>1, <1>3, FS_CardinalityType
  <1>5. Cardinality(I) < SizeWrap /\ SizeWrap \in Nat
    BY TreeAssumption, Numbers
  <1>6. ComputeSize(t) = Cardinality(Leaves(t))
    BY DEF ComputeSize, Leaves
  <1> HIDE DEF I
  <1> QED BY <1>3, <1>4, <1>5, <1>6

-----------------------------------------------------------------------------
(* What the operations make of a tree.                                     *)

WithLeaf(t, id, v) == [WithNodes(t, Seqs!Prefixes(Digits[id])) EXCEPT
                         ![Digits[id]].id = id, ![Digits[id]].data = v]

\* Inserting adds one leaf, and the nodes on the way to it that are missing.
LEMMA OneLeafIsAdded ==
  ASSUME NEW t, GoodTree(t), NEW id \in Ids, id # 0, NEW v \in Values, Digits[id] \notin DOMAIN t
  PROVE  /\ GoodTree(WithLeaf(t, id, v))
         /\ ComputeSize(WithLeaf(t, id, v)) = ComputeSize(t) + 1
         /\ WithLeaf(t, id, v)[Digits[id]] = [id |-> id, data |-> v, counter |-> 0]
         /\ \A p \in DOMAIN t : p \in DOMAIN WithLeaf(t, id, v) /\ WithLeaf(t, id, v)[p] = t[p]
PROOF
  <1> DEFINE d == Digits[id]
             u == WithLeaf(t, id, v)
             P == {SubSeq(d, 1, k) : k \in 0..Levels}
             leaf == [id |-> id, data |-> v, counter |-> 0]
  <1>1. d \in Paths /\ Len(d) = Levels /\ SubSeq(d, 1, Levels) = d /\ Levels \in Nat \ {0}
    BY DigitsArePaths, Numbers
  <1>2. d \in P
    <2>1. Levels \in 0..Levels
      BY <1>1
    <2> QED BY <1>1, <2>1
  <1>3. /\ u = [p \in DOMAIN t \cup P |-> IF p = d THEN leaf ELSE IF p \in DOMAIN t THEN t[p] ELSE InnerNode]
        /\ DOMAIN u = DOMAIN t \cup P
    <2>1. Seqs!Prefixes(d) = P
      BY <1>1 DEF Seqs!Prefixes
    <2> DEFINE w == [p \in DOMAIN t \cup P |-> IF p \in DOMAIN t THEN t[p] ELSE InnerNode]
    <2>2. u = [w EXCEPT ![d].id = id, ![d].data = v]
      <3> HIDE DEF P
      <3> QED BY <2>1 DEF WithLeaf, WithNodes
    <2>3. w[d] = InnerNode /\ d \in DOMAIN w
      BY <1>2
    <2>4. [[InnerNode EXCEPT !.id = id] EXCEPT !.data = v] = leaf
      <3> DEFINE half == [id |-> id, data |-> Empty, counter |-> 0]
      <3>1. [InnerNode EXCEPT !.id = id] = half
        BY DEF InnerNode
      <3>2. [half EXCEPT !.data = v] = leaf
        OBVIOUS
      <3> HIDE DEF half, leaf
      <3> QED BY <3>1, <3>2
    <2> HIDE DEF leaf, d, P
    <2>5. u = [w EXCEPT ![d] = leaf]
      <3> HIDE DEF w
      <3> QED BY <2>2, <2>3, <2>4
    <2>6. u = [p \in DOMAIN t \cup P |-> IF p = d THEN leaf ELSE IF p \in DOMAIN t THEN t[p] ELSE InnerNode]
      BY <2>5
    <2> HIDE DEF u
    <2> QED BY <2>6
  <1>4. \A k \in 0..Levels : /\ SubSeq(d, 1, k) \in Paths /\ Len(SubSeq(d, 1, k)) = k
                             /\ \A l \in 0..k : SubSeq(SubSeq(d, 1, k), 1, l) = SubSeq(d, 1, l)
                             /\ k < Levels => Append(SubSeq(d, 1, k), d[k + 1]) = SubSeq(d, 1, k + 1)
    <2> HIDE DEF d
    <2> QED BY <1>1, CutInTwo
  <1>5. \A p \in P : \E k \in 0..Levels : p = SubSeq(d, 1, k) /\ Len(p) = k
    BY <1>4
  <1>6. /\ u[d] = leaf
        /\ \A p \in DOMAIN t : p \in DOMAIN u /\ u[p] = t[p]
        /\ \A p \in P : p # d /\ p \notin DOMAIN t => u[p] = InnerNode
    <2> HIDE DEF u, d, leaf, P
    <2> QED BY <1>2, <1>3 DEF d
  <1>7. leaf \in Nodes /\ InnerNode \in Nodes
    <2>1. 0 \in 0..(CounterWrap - 1)
      BY Numbers
    <2> QED BY <2>1 DEF InnerNode, Nodes
  <1>8. IsTree(t) /\ InnerAreBare(t) /\ LeavesKnowTheirIds(t) /\ DeadEnds(t) /\ ZerosAreThere(t)
    BY DEF GoodTree
  <1>9. IsTree(u)
    <2>1. u = [p \in DOMAIN u |-> u[p]]
      <3> HIDE DEF leaf, d, P
      <3> QED BY <1>3
    <2> HIDE DEF u, leaf, P
    <2>2. \A p \in DOMAIN u : u[p] \in Nodes
      BY <1>3, <1>6, <1>7, <1>8 DEF IsTree
    <2>3. DOMAIN u \subseteq Paths /\ <<>> \in DOMAIN u
      BY <1>3, <1>4, <1>8 DEF IsTree, P
    <2>4. ASSUME NEW p \in DOMAIN u
          PROVE  Len(p) <= Levels /\ \A k \in 0..Len(p) : SubSeq(p, 1, k) \in DOMAIN u
      <3>1. CASE p \in DOMAIN t
        BY <1>3, <1>8, <3>1 DEF IsTree
      <3>2. CASE p \in P
        <4>1. PICK k \in 0..Levels : p = SubSeq(d, 1, k) /\ Len(p) = k
          BY <1>5, <3>2
        <4>2. ASSUME NEW l \in 0..k
              PROVE  SubSeq(p, 1, l) \in P
          <5>1. l \in 0..Levels
            BY <1>1
          <5> QED BY <1>4, <4>1, <5>1 DEF P
        <4> QED BY <1>1, <1>3, <4>1, <4>2
      <3> QED BY <1>3, <3>1, <3>2
    <2> QED BY <2>1, <2>2, <2>3, <2>4 DEF IsTree
  <1>10. InnerAreBare(u)
    <2> HIDE DEF u, leaf, P
    <2> QED BY <1>1, <1>3, <1>6, <1>8 DEF InnerAreBare
  <1>11. LeavesKnowTheirIds(u)
    <2> SUFFICES ASSUME NEW p \in DOMAIN u, Len(p) = Levels
                 PROVE  u[p].id \in Ids \ {0} /\ Digits[u[p].id] = p /\ u[p].data \in Values
      BY DEF LeavesKnowTheirIds
    <2>1. CASE p \in DOMAIN t
      <3> HIDE DEF u
      <3> QED BY <1>6, <1>8, <2>1 DEF LeavesKnowTheirIds
    <2>2. CASE p = d
      <3> HIDE DEF u
      <3> QED BY <1>6, <2>2
    <2>3. CASE p \in P
      <3>1. PICK k \in 0..Levels : p = SubSeq(d, 1, k) /\ Len(p) = k
        BY <1>5, <2>3
      <3>2. p = d
        BY <1>1, <3>1
      <3> QED BY <2>2, <3>2
    <2> HIDE DEF u, P
    <2> QED BY <1>3, <2>1, <2>3
  <1>12. DeadEnds(u)
    <2> SUFFICES ASSUME NEW p \in DOMAIN u, Len(p) < Levels, Children(u, p) = {}
                 PROVE  p = Zeros(ZeroPathDepth - 1)
      BY DEF DeadEnds
    <2>1. CASE p \in DOMAIN t
      <3>1. Children(t, p) \subseteq Children(u, p)
        <4> HIDE DEF u
        <4> QED BY <1>6 DEF Children
      <3> QED BY <1>8, <2>1, <3>1 DEF DeadEnds
    <2>2. CASE p \in P
      <3>1. PICK k \in 0..Levels : p = SubSeq(d, 1, k) /\ Len(p) = k
        BY <1>5, <2>2
      <3>2. k < Levels /\ k + 1 \in 1..Levels /\ k + 1 \in 0..Levels
        BY <1>1, <3>1
      <3>3. Child(p, d[k + 1]) \in P
        BY <1>4, <3>1, <3>2 DEF Child
      <3>4. d[k + 1] \in Steps
        <4> HIDE DEF d
        <4> QED BY <1>1, <3>2 DEF Paths
      <3>5. d[k + 1] \in Children(u, p)
        <4> HIDE DEF u, P, d
        <4> QED BY <1>3, <3>3, <3>4 DEF Children, Steps
      <3> QED BY <3>5
    <2> HIDE DEF u, P
    <2> QED BY <1>3, <2>1, <2>2
  <1>13. ZerosAreThere(u)
    <2> HIDE DEF u
    <2> QED BY <1>6, <1>8 DEF ZerosAreThere
  <1>14. Leaves(u) = Leaves(t) \cup {d}
    <2>1. ASSUME NEW p \in P, Len(p) = Levels
          PROVE  p = d
      <3>1. PICK k \in 0..Levels : p = SubSeq(d, 1, k) /\ Len(p) = k
        BY <1>5
      <3> QED BY <1>1, <2>1, <3>1
    <2> HIDE DEF u, P, d
    <2> QED BY <1>1, <1>2, <1>3, <2>1 DEF Leaves
  <1> HIDE DEF u
  <1>15. GoodTree(u)
    BY <1>9, <1>10, <1>11, <1>12, <1>13 DEF GoodTree
  <1>16. ComputeSize(u) = ComputeSize(t) + 1
    <2>1. /\ IsFiniteSet(Leaves(t)) /\ ComputeSize(t) = Cardinality(Leaves(t))
          /\ ComputeSize(u) = Cardinality(Leaves(u))
      BY <1>15, LeavesAreCounted
    <2>2. d \notin Leaves(t)
      BY DEF Leaves
    <2> HIDE DEF d
    <2>3. Cardinality(Leaves(t) \cup {d}) = Cardinality(Leaves(t)) + 1
      BY <2>1, <2>2, FS_AddElement
    <2> QED BY <1>14, <2>1, <2>3
  <1> QED BY <1>6, <1>15, <1>16 DEF u

LEMMA OnlyOneLeafIsAdded ==
  ASSUME NEW t, NEW id \in Ids, NEW v \in Values
  PROVE  /\ Digits[id] \in DOMAIN WithLeaf(t, id, v)
         /\ \A i \in Ids : Digits[i] \in DOMAIN WithLeaf(t, id, v) /\ i # id => Digits[i] \in DOMAIN t
PROOF
  <1> DEFINE d == Digits[id]
             P == {SubSeq(d, 1, k) : k \in 0..Levels}
  <1>1. d \in Paths /\ Len(d) = Levels /\ SubSeq(d, 1, Levels) = d /\ Levels \in Nat \ {0}
    BY DigitsArePaths, Numbers
  <1>2. DOMAIN WithLeaf(t, id, v) = DOMAIN t \cup P
    <2>1. Seqs!Prefixes(d) = P
      BY <1>1 DEF Seqs!Prefixes
    <2> HIDE DEF P
    <2> QED BY <2>1 DEF WithLeaf, WithNodes
  <1>3. d \in P
    <2>1. Levels \in 0..Levels
      BY <1>1
    <2> QED BY <1>1, <2>1
  <1>4. ASSUME NEW i \in Ids, i # id
        PROVE  Digits[i] \notin P
    <2> SUFFICES ASSUME NEW k \in 0..Levels, Digits[i] = SubSeq(d, 1, k)
                 PROVE  FALSE
      OBVIOUS
    <2>1. Len(Digits[i]) = Levels
      BY DigitsArePaths
    <2>2. Len(SubSeq(d, 1, k)) = k
      <3> HIDE DEF d
      <3> QED BY <1>1, CutInTwo
    <2>3. Digits[i] = d
      BY <1>1, <2>1, <2>2
    <2> QED BY <1>4, <2>3, DigitsTellIds
  <1> HIDE DEF P
  <1> QED BY <1>2, <1>3, <1>4

\* Counting changes the counter of a leaf, and nothing else.
Counted(t, id) == [t EXCEPT ![Digits[id]].counter = (@ + 1) % CounterWrap]

LEMMA CounterIsRaised ==
  ASSUME NEW t, GoodTree(t), NEW id \in Ids, Digits[id] \in DOMAIN t
  PROVE  /\ GoodTree(Counted(t, id)) /\ ComputeSize(Counted(t, id)) = ComputeSize(t)
         /\ \A p : p \in DOMAIN Counted(t, id) <=> p \in DOMAIN t
         /\ \A p \in DOMAIN t : p # Digits[id] => Counted(t, id)[p] = t[p]
         /\ Counted(t, id)[Digits[id]].counter = (t[Digits[id]].counter + 1) % CounterWrap
         /\ \A p \in DOMAIN t : Counted(t, id)[p].data = t[p].data
PROOF
  <1> DEFINE u == Counted(t, id)
             d == Digits[id]
             n == t[d]
             m == [n EXCEPT !.counter = (n.counter + 1) % CounterWrap]
  <1>1. Len(d) = Levels
    BY DigitsArePaths
  <1>2. IsTree(t) /\ InnerAreBare(t) /\ LeavesKnowTheirIds(t) /\ DeadEnds(t) /\ ZerosAreThere(t)
    BY DEF GoodTree
  <1>3. n \in Nodes
    BY <1>2 DEF IsTree
  <1>4. m \in Nodes /\ m.id = n.id /\ m.data = n.data
    <2>1. n.counter \in 0..(CounterWrap - 1) /\ n.id \in Ids \cup {0} /\ n.data \in Values \cup {Empty}
      BY <1>3 DEF Nodes
    <2>2. (n.counter + 1) % CounterWrap \in 0..(CounterWrap - 1)
      BY <2>1, Numbers
    <2>3. m = [id |-> n.id, data |-> n.data, counter |-> (n.counter + 1) % CounterWrap]
      BY <1>3 DEF Nodes
    <2> HIDE DEF m, n
    <2> QED BY <2>1, <2>2, <2>3 DEF Nodes
  <1>5. u = [t EXCEPT ![d] = m]
    BY DEF Counted
  <1> HIDE DEF u
  <1>6. DOMAIN u = DOMAIN t /\ u[d] = m /\ \A p \in DOMAIN t : p # d => u[p] = t[p]
    <2>1. d \in DOMAIN t /\ t = [p \in DOMAIN t |-> t[p]]
      BY <1>2 DEF IsTree
    <2> HIDE DEF d, m
    <2> QED BY <1>5, <2>1
  <1>7. IsTree(u)
    <2>1. u = [p \in DOMAIN u |-> u[p]]
      <3> HIDE DEF d, m
      <3> QED BY <1>2, <1>5 DEF IsTree
    <2>2. \A p \in DOMAIN u : u[p] \in Nodes
      <3> HIDE DEF m, d
      <3> QED BY <1>2, <1>4, <1>6 DEF IsTree
    <2> QED BY <1>2, <1>6, <2>1, <2>2 DEF IsTree
  <1>8. InnerAreBare(u)
    <2>1. ASSUME NEW p \in DOMAIN u, Len(p) < Levels
          PROVE  u[p] = InnerNode
      <3>1. p # d
        BY <1>1, <2>1, Numbers
      <3> QED BY <1>2, <1>6, <2>1, <3>1 DEF InnerAreBare
    <2> QED BY <2>1 DEF InnerAreBare
  <1>9. LeavesKnowTheirIds(u)
    <2> HIDE DEF m, n, d
    <2> QED BY <1>2, <1>4, <1>6 DEF LeavesKnowTheirIds, n
  <1>10. DeadEnds(u) /\ ZerosAreThere(u)
    BY <1>2, <1>6 DEF DeadEnds, ZerosAreThere, Children
  <1>11. ComputeSize(u) = ComputeSize(t)
    <2>1. Leaves(u) = Leaves(t)
      BY <1>6 DEF Leaves
    <2> QED BY <2>1 DEF ComputeSize, Leaves
  <1>12. \A p \in DOMAIN t : u[p].data = t[p].data
    <2> HIDE DEF m, d
    <2> QED BY <1>4, <1>6 DEF n
  <1>13. u[d].counter = (n.counter + 1) % CounterWrap
    BY <1>3, <1>6 DEF Nodes
  <1>14. GoodTree(u)
    BY <1>7, <1>8, <1>9, <1>10 DEF GoodTree
  <1> QED BY <1>6, <1>11, <1>12, <1>13, <1>14 DEF u

-----------------------------------------------------------------------------
(***************************************************************************)
(* The inductive invariant.  A line of the cache must agree with the tree, *)
(* and a lookup finds a leaf if and only if the digits of its id lead to   *)
(* one; that is so because the trees are good and the zero path is that of *)
(* the first tree.  The size is true until remove() lowers it.             *)
(***************************************************************************)
TreeIsGood   == GoodTree(tree) /\ zeroPath = ZeroPath
CacheIsTyped == cache \in [0..(CacheSize - 1) -> [id : Ids \cup {0}, data : Values \cup {Empty}]]
SizeIsTrue   == size \in 0..(SizeWrap - 1) /\ (removals = 0 => size = ComputeSize(tree))
RestIsTyped  == /\ got \in (Ids \cup {0}) \X (Values \cup {NotFound})
                /\ error \in {"none", "zero id", "leaf in use", "no node", "size", "empty data"}
                /\ present \subseteq Ids /\ removals \in 0..MaxRemovals

IInv == TreeIsGood /\ CacheIsTyped /\ CacheIsFresh /\ SizeIsTrue /\ RestIsTyped /\ WrittenIsReadable

LEMMA FoundIfStored ==
  ASSUME TreeIsGood, NEW id \in Ids
  PROVE  /\ Found(id) <=> Digits[id] \in DOMAIN tree
         /\ Target(id) = Digits[id] /\ Leaf(id) = tree[Digits[id]]
PROOF
  <1>1. Target(id) = Digits[id] /\ Skipped(id) \in 0..Levels /\ Levels \in Nat
    BY SearchFollowsDigits, SkipsOnlyZeros, Numbers DEF TreeIsGood
  <1>2. Len(Digits[id]) = Levels /\ SubSeq(Digits[id], 1, Levels) = Digits[id]
    BY DigitsArePaths
  <1>3. Way(id) = {SubSeq(Digits[id], 1, k) : k \in Skipped(id)..Levels}
    BY <1>1 DEF Way
  <1>4. ASSUME Found(id)
        PROVE  Digits[id] \in DOMAIN tree
    <2>1. Levels \in Skipped(id)..Levels
      BY <1>1
    <2>2. Digits[id] \in Way(id)
      BY <1>2, <1>3, <2>1
    <2> QED BY <1>4, <2>2 DEF Found
  <1>5. ASSUME Digits[id] \in DOMAIN tree
        PROVE  Found(id)
    <2>1. IsTree(tree)
      BY DEF TreeIsGood, GoodTree
    <2>2. \A k \in Skipped(id)..Levels : k \in 0..Len(Digits[id])
      BY <1>1, <1>2
    <2>3. Way(id) \subseteq DOMAIN tree
      BY <1>3, <1>5, <2>1, <2>2 DEF IsTree
    <2>4. <<>> \in DOMAIN tree
      BY <2>1 DEF IsTree
    <2>5. tree[Target(id)].id = id
      BY <1>1, <1>5, GoodTreeFacts DEF TreeIsGood
    <2> QED BY <2>3, <2>4, <2>5 DEF Found
  <1> QED BY <1>1, <1>4, <1>5 DEF Leaf

LEMMA InitHolds == Init => IInv
PROOF
  <1> SUFFICES ASSUME Init
               PROVE  IInv
    OBVIOUS
  <1>1. TreeIsGood
    BY FirstTree DEF Init, TreeIsGood
  <1>2. CacheIsTyped /\ CacheIsFresh
    <2>1. cache = [k \in 0..(CacheSize - 1) |-> [id |-> 0, data |-> Empty]]
      BY DEF Init, EmptyCache
    <2> QED BY <2>1 DEF CacheIsTyped, CacheIsFresh
  <1>3. SizeIsTrue
    <2>1. Leaves(tree) = {}
      BY FirstTree DEF Init, Leaves
    <2>2. ComputeSize(tree) = 0
      BY <2>1, FS_EmptySet DEF ComputeSize, Leaves
    <2>3. size = 0 /\ 0 \in 0..(SizeWrap - 1)
      BY Numbers DEF Init
    <2> QED BY <2>2, <2>3 DEF SizeIsTrue
  <1>4. RestIsTyped
    <2>1. 0 \in 0..MaxRemovals
      BY Numbers
    <2> QED BY <2>1 DEF Init, RestIsTyped
  <1>5. WrittenIsReadable
    BY DEF Init, WrittenIsReadable
  <1> QED BY <1>1, <1>2, <1>3, <1>4, <1>5 DEF IInv

\* An error changes nothing else.
LEMMA FailsHolds ==
  ASSUME IInv, error = "none", NEW what \in {"zero id", "leaf in use", "no node"}, Fails(what)
  PROVE  IInv'
PROOF
  <1>1. UNCHANGED <<tree, zeroPath, cache, size, got, present, removals>> /\ error' = what
    BY DEF Fails
  <1>2. TreeIsGood'
    BY <1>1 DEF IInv, TreeIsGood
  <1>3. CacheIsTyped' /\ CacheIsFresh' /\ SizeIsTrue' /\ RestIsTyped'
    BY <1>1 DEF IInv, CacheIsTyped, CacheIsFresh, SizeIsTrue, RestIsTyped, Stored, Line, ComputeSize
  <1>4. WrittenIsReadable'
    BY <1>1 DEF WrittenIsReadable
  <1> QED BY <1>2, <1>3, <1>4 DEF IInv

LEMMA InsertHolds ==
  ASSUME IInv, NEW id \in Ids, NEW v \in Values, Insert(id, v)
  PROVE  IInv'
PROOF
  <1>1. CASE id = 0 \/ InUse(id)
    <2>1. error = "none" /\ (Fails("zero id") \/ Fails("leaf in use"))
      BY <1>1 DEF Insert
    <2> QED BY <2>1, FailsHolds
  <1>2. CASE id # 0 /\ ~InUse(id)
    <2> DEFINE new == WithLeaf(tree, id, v)
    <2>1. /\ tree' = new /\ size' = (size + 1) % SizeWrap /\ present' = present \cup {id}
          /\ error = "none" /\ UNCHANGED <<zeroPath, cache, got, error, removals>>
      BY <1>2 DEF Insert, WithLeaf
    <2>2. /\ GoodTree(new) /\ ComputeSize(new) = ComputeSize(tree) + 1
          /\ \A p \in DOMAIN tree : p \in DOMAIN new /\ new[p] = tree[p]
      <3>1. GoodTree(tree) /\ id # 0 /\ Digits[id] \notin DOMAIN tree
        BY <1>2 DEF IInv, TreeIsGood, InUse
      <3> QED BY <3>1, OneLeafIsAdded
    <2> HIDE DEF new
    <2>3. TreeIsGood'
      BY <2>1, <2>2 DEF IInv, TreeIsGood
    <2>4. CacheIsTyped' /\ CacheIsFresh'
      BY <2>1, <2>2 DEF IInv, CacheIsTyped, CacheIsFresh, Stored, Line
    <2>5. SizeIsTrue'
      <3> DEFINE n == ComputeSize(tree)
      <3>1. size \in 0..(SizeWrap - 1) /\ SizeWrap \in Nat \ {0}
        BY Numbers DEF IInv, SizeIsTrue
      <3>2. size' \in 0..(SizeWrap - 1)
        BY <2>1, <3>1
      <3>3. n \in 0..(SizeWrap - 1) /\ n + 1 \in 0..(SizeWrap - 1)
        BY <2>2, LeavesAreCounted DEF IInv, TreeIsGood
      <3>4. ASSUME removals' = 0
            PROVE  size' = n + 1
        <4>1. size = n
          BY <2>1, <3>4 DEF IInv, SizeIsTrue
        <4> HIDE DEF n
        <4>2. (n + 1) % SizeWrap = n + 1
          BY <3>1, <3>3
        <4> QED BY <2>1, <4>1, <4>2
      <3> QED BY <2>1, <2>2, <3>2, <3>4 DEF SizeIsTrue
    <2>6. RestIsTyped'
      BY <2>1 DEF IInv, RestIsTyped
    <2>7. WrittenIsReadable'
      BY <2>1 DEF WrittenIsReadable
    <2> QED BY <2>3, <2>4, <2>5, <2>6, <2>7 DEF IInv
  <1> QED BY <1>1, <1>2

LEMMA LineIsInCache == \A id \in Ids : Line(id) \in 0..(CacheSize - 1)
PROOF
  <1>1. \A id \in Ids : id \in Nat
    <2>1. Weight[Levels] \in Nat
      BY Weights, Numbers
    <2> QED BY <2>1, TreeAssumption
  <1> QED BY <1>1, Numbers DEF Line

LEMMA RetrieveHolds ==
  ASSUME IInv, NEW id \in Ids, Retrieve(id)
  PROVE  IInv'
PROOF
  <1>1. CASE id = 0
    <2>1. error = "none" /\ Fails("zero id")
      BY <1>1 DEF Retrieve
    <2> QED BY <2>1, FailsHolds
  <1>2. CASE id # 0
    <2> DEFINE k == Line(id)
    <2>1. error = "none" /\ UNCHANGED <<tree, zeroPath, size, error, present, removals>>
      BY <1>2 DEF Retrieve
    <2>2. TreeIsGood'
      BY <2>1 DEF IInv, TreeIsGood
    <2>3. SizeIsTrue'
      BY <2>1 DEF IInv, SizeIsTrue, ComputeSize
    <2>4. WrittenIsReadable'
      BY <2>1 DEF WrittenIsReadable
    <2>5. k \in 0..(CacheSize - 1)
      BY LineIsInCache
    <2>6. CASE cache[k].id = id
      <3>1. got' = <<id, cache[k].data>> /\ UNCHANGED cache
        BY <1>2, <2>6 DEF Retrieve
      <3>2. cache[k].data \in Values
        <4>1. id \in Stored /\ tree[Digits[id]].data = cache[k].data
          BY <1>2, <2>5, <2>6 DEF IInv, CacheIsTyped, CacheIsFresh
        <4>2. tree[Digits[id]].data \in Values
          BY <4>1, GoodTreeFacts DEF IInv, TreeIsGood, Stored
        <4> QED BY <4>1, <4>2
      <3>3. RestIsTyped'
        BY <2>1, <3>1, <3>2 DEF IInv, RestIsTyped
      <3>4. CacheIsTyped' /\ CacheIsFresh'
        BY <2>1, <3>1 DEF IInv, CacheIsTyped, CacheIsFresh, Stored, Line
      <3> QED BY <2>2, <2>3, <2>4, <3>3, <3>4 DEF IInv
    <2>7. CASE cache[k].id # id /\ Found(id)
      <3>1. /\ got' = <<id, Leaf(id).data>>
            /\ cache' = [cache EXCEPT ![k] = [id |-> id, data |-> Leaf(id).data]]
        BY <1>2, <2>7 DEF Retrieve
      <3>2. Digits[id] \in DOMAIN tree /\ Leaf(id) = tree[Digits[id]]
        BY <2>7, FoundIfStored DEF IInv
      <3>3. Leaf(id).data \in Values
        BY <3>2, GoodTreeFacts DEF IInv, TreeIsGood
      <3>4. RestIsTyped'
        BY <2>1, <3>1, <3>3 DEF IInv, RestIsTyped
      <3>5. CacheIsTyped'
        BY <3>1, <3>3 DEF IInv, CacheIsTyped
      <3>6. CacheIsFresh'
        <4> SUFFICES ASSUME NEW j \in DOMAIN cache', cache'[j].id # 0
                     PROVE  /\ Line(cache'[j].id) = j
                            /\ cache'[j].id \in Stored /\ tree[Digits[cache'[j].id]].data = cache'[j].data
          BY <2>1 DEF CacheIsFresh, Stored, Line
        <4>1. j \in DOMAIN cache /\ DOMAIN cache = 0..(CacheSize - 1)
          BY <3>1 DEF IInv, CacheIsTyped
        <4>2. CASE j = k
          <5>1. cache'[j] = [id |-> id, data |-> Leaf(id).data]
            BY <3>1, <4>1, <4>2
          <5> QED BY <3>2, <4>2, <5>1 DEF Stored
        <4>3. CASE j # k
          <5>1. cache'[j] = cache[j]
            BY <3>1, <4>1, <4>3
          <5> QED BY <4>1, <5>1 DEF IInv, CacheIsFresh
        <4> QED BY <4>2, <4>3
      <3> QED BY <2>2, <2>3, <2>4, <3>4, <3>5, <3>6 DEF IInv
    <2>8. CASE cache[k].id # id /\ ~Found(id)
      <3>1. got' = <<id, NotFound>> /\ UNCHANGED cache
        BY <1>2, <2>8 DEF Retrieve
      <3>2. RestIsTyped'
        BY <2>1, <3>1 DEF IInv, RestIsTyped
      <3>3. CacheIsTyped' /\ CacheIsFresh'
        BY <2>1, <3>1 DEF IInv, CacheIsTyped, CacheIsFresh, Stored, Line
      <3> QED BY <2>2, <2>3, <2>4, <3>2, <3>3 DEF IInv
    <2> QED BY <2>6, <2>7, <2>8
  <1> QED BY <1>1, <1>2

LEMMA IncreaseCounterHolds ==
  ASSUME IInv, NEW id \in Ids, IncreaseCounter(id)
  PROVE  IInv'
PROOF
  <1>1. CASE ~Found(id)
    <2>1. error = "none" /\ Fails("no node")
      BY <1>1 DEF IncreaseCounter
    <2> QED BY <2>1, FailsHolds
  <1>2. CASE Found(id)
    <2>1. Digits[id] \in DOMAIN tree /\ Target(id) = Digits[id]
      BY <1>2, FoundIfStored DEF IInv
    <2>2. /\ tree' = [tree EXCEPT ![Digits[id]].counter = (@ + 1) % CounterWrap]
          /\ error = "none" /\ UNCHANGED <<zeroPath, cache, size, got, error, present, removals>>
      BY <1>2, <2>1 DEF IncreaseCounter
    <2>3. /\ GoodTree(tree') /\ ComputeSize(tree') = ComputeSize(tree) /\ DOMAIN tree' = DOMAIN tree
          /\ \A p \in DOMAIN tree : tree'[p].data = tree[p].data
      <3>1. GoodTree(tree) /\ tree' = Counted(tree, id)
        BY <2>2 DEF IInv, TreeIsGood, Counted
      <3>2. GoodTree(tree') /\ ComputeSize(tree') = ComputeSize(tree)
        BY <2>1, <3>1, CounterIsRaised
      <3>3. DOMAIN tree' = DOMAIN tree
        <4>1. \A p : p \in DOMAIN tree' <=> p \in DOMAIN tree
          BY <2>1, <3>1, CounterIsRaised
        <4> QED BY <4>1
      <3>4. \A p \in DOMAIN tree : tree'[p].data = tree[p].data
        BY <2>1, <3>1, CounterIsRaised
      <3> QED BY <3>2, <3>3, <3>4
    <2>4. TreeIsGood'
      BY <2>2, <2>3 DEF IInv, TreeIsGood
    <2>5. CacheIsTyped' /\ CacheIsFresh'
      BY <2>2, <2>3 DEF IInv, CacheIsTyped, CacheIsFresh, Stored, Line
    <2>6. SizeIsTrue'
      BY <2>2, <2>3 DEF IInv, SizeIsTrue
    <2>7. RestIsTyped'
      BY <2>2 DEF IInv, RestIsTyped
    <2>8. WrittenIsReadable'
      BY <2>2 DEF WrittenIsReadable
    <2> QED BY <2>4, <2>5, <2>6, <2>7, <2>8 DEF IInv
  <1> QED BY <1>1, <1>2

LEMMA AskSizeHolds ==
  ASSUME IInv, AskSize
  PROVE  IInv'
PROOF
  <1>1. size' = SizeNow /\ UNCHANGED <<tree, zeroPath, cache, got, error, present, removals>>
    BY DEF AskSize
  <1>2. ComputeSize(tree) \in 0..(SizeWrap - 1)
    BY LeavesAreCounted DEF IInv, TreeIsGood
  <1>3. SizeIsTrue'
    BY <1>1, <1>2 DEF IInv, SizeIsTrue, SizeNow, ComputeSize
  <1>4. TreeIsGood'
    BY <1>1 DEF IInv, TreeIsGood
  <1>5. CacheIsTyped' /\ CacheIsFresh'
    BY <1>1 DEF IInv, CacheIsTyped, CacheIsFresh, Stored, Line
  <1>6. RestIsTyped' /\ WrittenIsReadable'
    BY <1>1 DEF IInv, RestIsTyped, WrittenIsReadable, Stored
  <1> QED BY <1>3, <1>4, <1>5, <1>6 DEF IInv

\* remove() lowers the size, and nothing but the size.
LEMMA RemoveKeepsTheTree ==
  ASSUME TreeIsGood, NEW id \in Ids, Remove(id)
  PROVE  UNCHANGED <<tree, zeroPath, cache, got, error>>
PROOF
  <1>1. UNCHANGED <<zeroPath, cache, got, error>>
    BY DEF Remove
  <1>2. CASE ~Found(id)
    BY <1>1, <1>2 DEF Remove
  <1>3. CASE Found(id)
    <2> DEFINE end == Unlinked(id)
    <2>1. tree' = IF end.children = 0 /\ end.cur = <<>> THEN <<>> ELSE end.tree
      BY <1>3 DEF Remove
    <2>2. end.tree = tree /\ ~(end.children = 0 /\ end.cur = <<>>)
      BY <1>3, FoundIfStored, NothingIsTakenOut DEF TreeIsGood, GoodTree
    <2> HIDE DEF end
    <2> QED BY <1>1, <2>1, <2>2
  <1> QED BY <1>2, <1>3

LEMMA RemoveHolds ==
  ASSUME IInv, NEW id \in Ids, Remove(id)
  PROVE  IInv'
PROOF
  <1>1. UNCHANGED <<tree, zeroPath, cache, got, error>>
    BY RemoveKeepsTheTree DEF IInv
  <1>2. /\ removals' = removals + 1 /\ removals < MaxRemovals /\ error = "none"
        /\ size' = size \/ size' = LessOne(size)
        /\ present' = present \/ present' = present \ {id}
    BY DEF Remove
  <1>3. removals \in 0..MaxRemovals /\ MaxRemovals \in Nat
    BY Numbers DEF IInv, RestIsTyped
  <1>4. removals' \in 0..MaxRemovals /\ removals' # 0
    BY <1>2, <1>3
  <1>5. SizeIsTrue'
    <2>1. size \in 0..(SizeWrap - 1) /\ SizeWrap \in Nat \ {0}
      BY Numbers DEF IInv, SizeIsTrue
    <2>2. LessOne(size) \in 0..(SizeWrap - 1)
      BY <2>1 DEF LessOne
    <2> QED BY <1>2, <1>4, <2>1, <2>2 DEF SizeIsTrue
  <1>6. RestIsTyped'
    BY <1>1, <1>2, <1>4 DEF IInv, RestIsTyped
  <1>7. TreeIsGood'
    BY <1>1 DEF IInv, TreeIsGood
  <1>8. CacheIsTyped' /\ CacheIsFresh'
    BY <1>1 DEF IInv, CacheIsTyped, CacheIsFresh, Stored, Line
  <1>9. WrittenIsReadable'
    BY <1>1, <1>2 DEF WrittenIsReadable
  <1> QED BY <1>5, <1>6, <1>7, <1>8, <1>9 DEF IInv

\* A tree is refused only if no id that is stored leads along the zeros.
LEMMA RefusedAtZeros ==
  ASSUME GoodTree(tree), Refused(tree), NEW id \in Stored
  PROVE  SubSeq(Digits[id], 1, ZeroPathDepth - 1) # Zeros(ZeroPathDepth - 1)
PROOF
  <1> DEFINE z == Zeros(ZeroPathDepth - 1)
             d == Digits[id]
  <1>1. PICK p \in DOMAIN tree : Children(tree, p) = {} /\ tree[p].data = Empty
    BY DEF Refused
  <1>2. IsTree(tree) /\ Len(p) \in Nat /\ Len(p) <= Levels /\ Levels \in Nat
    <2>1. IsTree(tree)
      BY DEF GoodTree
    <2>2. p \in Paths /\ Len(p) <= Levels
      BY <2>1 DEF IsTree
    <2> QED BY <2>1, <2>2, Numbers DEF Paths
  <1>3. Len(p) # Levels
    BY <1>1, DataAssumption DEF GoodTree, LeavesKnowTheirIds
  <1>4. p = z
    <2>1. Len(p) < Levels
      <3> DEFINE n == Len(p)
      <3>1. n \in Nat /\ Levels \in Nat /\ n <= Levels /\ n # Levels
        BY <1>2, <1>3
      <3> HIDE DEF n
      <3>2. n < Levels
        BY <3>1
      <3> QED BY <3>2 DEF n
    <2> QED BY <1>1, <2>1 DEF GoodTree, DeadEnds
  <1>5. /\ d \in Paths /\ Len(d) = Levels /\ d \in DOMAIN tree
        /\ ZeroPathDepth - 1 \in 0..Len(d) /\ ZeroPathDepth - 1 < Len(d)
        /\ (ZeroPathDepth - 1) + 1 = ZeroPathDepth /\ ZeroPathDepth \in 1..Len(d)
    <2>1. d \in Paths /\ Len(d) = Levels /\ d \in DOMAIN tree
      BY DigitsArePaths DEF Stored
    <2>2. ZeroPathDepth \in Nat \ {0} /\ ZeroPathDepth <= Levels /\ Levels \in Nat
      BY Numbers
    <2>3. /\ ZeroPathDepth - 1 \in 0..Levels /\ ZeroPathDepth - 1 < Levels
          /\ (ZeroPathDepth - 1) + 1 = ZeroPathDepth /\ ZeroPathDepth \in 1..Levels
      BY <2>2
    <2> QED BY <2>1, <2>3
  <1> SUFFICES ASSUME SubSeq(d, 1, ZeroPathDepth - 1) = z
               PROVE  FALSE
    OBVIOUS
  <1>6. Append(z, d[ZeroPathDepth]) = SubSeq(d, 1, ZeroPathDepth)
    <2> DEFINE k == ZeroPathDepth - 1
    <2>1. k \in 0..Len(d) /\ k < Len(d) /\ k + 1 = ZeroPathDepth
      BY <1>5
    <2>2. Append(SubSeq(d, 1, k), d[k + 1]) = SubSeq(d, 1, k + 1)
      <3> HIDE DEF d, k
      <3> QED BY <1>5, <2>1, CutInTwo
    <2> HIDE DEF d, z
    <2> QED BY <2>1, <2>2
  <1>7. SubSeq(d, 1, ZeroPathDepth) \in DOMAIN tree
    <2>1. ZeroPathDepth \in 0..Len(d)
      BY <1>5
    <2> HIDE DEF d
    <2> QED BY <1>2, <1>5, <2>1 DEF IsTree
  <1>8. d[ZeroPathDepth] \in Steps
    <2> HIDE DEF d
    <2> QED BY <1>5 DEF Paths
  <1>9. d[ZeroPathDepth] \in Children(tree, p)
    <2> HIDE DEF d, z
    <2> QED BY <1>4, <1>6, <1>7, <1>8 DEF Children, Child, Steps
  <1> QED BY <1>1, <1>9

LEMMA ReloadHolds ==
  ASSUME IInv, Reload
  PROVE  IInv'
PROOF
  <1>1. error = "none" /\ GoodTree(tree) /\ ReadBack(Stream(tree)) = tree /\ WithZeroPath(tree) = tree
    BY GoodTreeFacts DEF Reload, IInv, TreeIsGood
  <1>2. ASSUME NEW what \in {"empty data", "size"}, Fails(what),
               what = "empty data" => Refused(tree), what = "size" => removals > 0
        PROVE  IInv'
    <2>1. UNCHANGED <<tree, zeroPath, cache, size, got, present, removals>> /\ error' = what
      BY <1>2 DEF Fails
    <2>2. TreeIsGood'
      BY <2>1 DEF IInv, TreeIsGood
    <2>3. CacheIsTyped' /\ CacheIsFresh' /\ SizeIsTrue' /\ RestIsTyped'
      BY <2>1 DEF IInv, CacheIsTyped, CacheIsFresh, SizeIsTrue, RestIsTyped, Stored, Line, ComputeSize
    <2>4. WrittenIsReadable'
      <3>1. what = "empty data" =>
              \A id \in Stored : SubSeq(Digits[id], 1, ZeroPathDepth - 1) # Zeros(ZeroPathDepth - 1)
        BY <1>1, <1>2, RefusedAtZeros
      <3> QED BY <1>2, <2>1, <3>1 DEF WrittenIsReadable, Stored
    <2> QED BY <2>2, <2>3, <2>4 DEF IInv
  <1>3. CASE Refused(tree)
    <2>1. Fails("empty data")
      BY <1>3 DEF Reload
    <2> QED BY <1>2, <1>3, <2>1
  <1>4. CASE ~Refused(tree) /\ SizeNow # ComputeSize(tree)
    <2>1. Fails("size")
      BY <1>1, <1>4 DEF Reload
    <2>2. removals > 0
      <3>1. removals # 0
        BY <1>4 DEF IInv, SizeIsTrue, SizeNow
      <3>2. removals \in Nat
        <4>1. removals \in 0..MaxRemovals
          BY DEF IInv, RestIsTyped
        <4> QED BY <4>1, Numbers
      <3> QED BY <3>1, <3>2
    <2> QED BY <1>2, <2>1, <2>2
  <1>5. CASE ~Refused(tree) /\ SizeNow = ComputeSize(tree)
    <2>1. /\ tree' = tree /\ zeroPath' = ZeroPath /\ cache' = EmptyCache /\ size' = ComputeSize(tree)
          /\ UNCHANGED <<got, error, present, removals>>
      BY <1>1, <1>5 DEF Reload
    <2>2. TreeIsGood'
      BY <1>1, <2>1 DEF TreeIsGood
    <2>3. CacheIsTyped' /\ CacheIsFresh'
      <3>1. cache' = [k \in 0..(CacheSize - 1) |-> [id |-> 0, data |-> Empty]]
        BY <2>1 DEF EmptyCache
      <3> QED BY <3>1 DEF CacheIsTyped, CacheIsFresh
    <2>4. SizeIsTrue'
      <3>1. ComputeSize(tree) \in 0..(SizeWrap - 1)
        BY <1>1, LeavesAreCounted
      <3> QED BY <2>1, <3>1 DEF SizeIsTrue
    <2>5. RestIsTyped' /\ WrittenIsReadable'
      BY <1>1, <2>1 DEF IInv, RestIsTyped, WrittenIsReadable
    <2> QED BY <2>2, <2>3, <2>4, <2>5 DEF IInv
  <1> QED BY <1>3, <1>4, <1>5

LEMMA StandingStillHolds ==
  ASSUME IInv, UNCHANGED vars
  PROVE  IInv'
PROOF
  <1>1. TreeIsGood'
    BY DEF IInv, TreeIsGood, vars
  <1>2. CacheIsTyped' /\ CacheIsFresh' /\ SizeIsTrue' /\ RestIsTyped'
    BY DEF vars, IInv, CacheIsTyped, CacheIsFresh, SizeIsTrue, RestIsTyped, Stored, Line, ComputeSize
  <1>3. WrittenIsReadable'
    BY DEF vars, IInv, WrittenIsReadable, Stored
  <1> QED BY <1>1, <1>2, <1>3 DEF IInv

LEMMA Inductive == Spec => []IInv
PROOF
  <1>1. IInv /\ [Next]_vars => IInv'
    <2> SUFFICES ASSUME IInv, [Next]_vars
                 PROVE  IInv'
      OBVIOUS
    <2>1. CASE \E id \in Ids, v \in Values : Insert(id, v)
      BY <2>1, InsertHolds
    <2>2. CASE \E id \in Ids : Retrieve(id) \/ IncreaseCounter(id) \/ Remove(id)
      BY <2>2, RetrieveHolds, IncreaseCounterHolds, RemoveHolds
    <2>3. CASE AskSize \/ Reload
      BY <2>3, AskSizeHolds, ReloadHolds
    <2>4. CASE Ended \/ UNCHANGED vars
      BY <2>4, StandingStillHolds DEF Ended
    <2> QED BY <2>1, <2>2, <2>3, <2>4 DEF Next
  <1> QED BY InitHolds, <1>1, PTL DEF Spec

-----------------------------------------------------------------------------
(* The theorems.                                                           *)

LEMMA InvariantImpliesTypes == IInv => TypeOK
PROOF
  <1> SUFFICES ASSUME IInv
               PROVE  TypeOK
    OBVIOUS
  <1>1. ASSUME NEW p \in DOMAIN tree
        PROVE  /\ tree[p] \in Nodes
               /\ Len(p) <= Levels /\ \A k \in 1..Len(p) : p[k] \in 0..(NumChildren - 1)
               /\ Seqs!Prefixes(p) \subseteq DOMAIN tree
    <2>1. /\ tree[p] \in Nodes /\ p \in Paths /\ Len(p) <= Levels
          /\ \A k \in 0..Len(p) : SubSeq(p, 1, k) \in DOMAIN tree
      BY DEF IInv, TreeIsGood, GoodTree, IsTree
    <2>2. \A k \in 1..Len(p) : p[k] \in Steps
      BY <2>1 DEF Paths
    <2>3. Seqs!Prefixes(p) \subseteq DOMAIN tree
      BY <2>1 DEF Seqs!Prefixes
    <2> QED BY <2>1, <2>2, <2>3 DEF Steps
  <1>2. cache \in [0..(CacheSize - 1) -> [id : Ids \cup {0}, data : Values \cup {Empty}]]
    BY DEF IInv, CacheIsTyped
  <1>3. size \in 0..(SizeWrap - 1)
    BY DEF IInv, SizeIsTrue
  <1> QED BY <1>1, <1>2, <1>3 DEF IInv, RestIsTyped, TypeOK

\* Every variable has its type, and every node but the root has a parent,
\* whatever is inserted, removed and read back (idtree_impl.h).
THEOREM TypeCorrect == Spec => []TypeOK
PROOF BY Inductive, InvariantImpliesTypes, PTL

\* A line of the cache in use has what the tree has (idtree_impl.h:406-428).
THEOREM CacheIsNeverStale == Spec => []CacheIsFresh
PROOF
  <1>1. IInv => CacheIsFresh
    BY DEF IInv
  <1> QED BY Inductive, <1>1, PTL

\* The pointers along the zeros always point to nodes of the tree
\* (idtree_impl.h:132, 203-211, 456).
THEOREM ZeroPathExists == Spec => []ZeroPathIsInTree
PROOF
  <1>1. IInv => ZeroPathIsInTree
    <2>1. ASSUME IInv, NEW k \in DOMAIN zeroPath
          PROVE  zeroPath[k] \in DOMAIN tree
      <3>1. zeroPath = [j \in 1..ZeroPathDepth |-> Zeros(j - 1)]
        BY <2>1 DEF IInv, TreeIsGood, ZeroPath
      <3>2. k \in 1..ZeroPathDepth /\ zeroPath[k] = Zeros(k - 1)
        BY <2>1, <3>1
      <3>3. k - 1 \in 0..(ZeroPathDepth - 1)
        BY <3>2, Numbers
      <3> QED BY <2>1, <3>2, <3>3 DEF IInv, TreeIsGood, GoodTree, ZerosAreThere
    <2> QED BY <2>1 DEF ZeroPathIsInTree
  <1> QED BY Inductive, <1>1, PTL

\* The next run of the program can read what this one writes, unless remove()
\* was called (idtree_impl.h:218-235, 300-313, 340).
THEOREM FilesCanBeRead == Spec => []WrittenIsReadable
PROOF
  <1>1. IInv => WrittenIsReadable
    BY DEF IInv
  <1> QED BY Inductive, <1>1, PTL

\* Writing a tree and reading it gives the same tree: nodes, data, counters
\* and the way to each of them (idtree_impl.h:35-110).
TreeSurvives == ReadBack(Stream(tree)) = tree

THEOREM NothingIsLostInTheFile == Spec => []TreeSurvives
PROOF
  <1>1. IInv => TreeSurvives
    BY GoodTreeFacts DEF IInv, TreeIsGood, TreeSurvives
  <1> QED BY Inductive, <1>1, PTL

\* remove() takes nothing out of the tree, it only lowers the size and allows
\* the id to be counted as removed (idtree_impl.h:430-459).
RemovesNothing == removals' > removals => UNCHANGED <<tree, zeroPath, cache, got, error>>

THEOREM RemoveRemovesNothing == Spec => [][RemovesNothing]_vars
PROOF
  <1>1. IInv /\ [Next]_vars => [RemovesNothing]_vars
    <2> SUFFICES ASSUME IInv, Next, removals' > removals
                 PROVE  UNCHANGED <<tree, zeroPath, cache, got, error>>
      BY DEF RemovesNothing
    <2>1. CASE \E id \in Ids : Remove(id)
      BY <2>1, RemoveKeepsTheTree DEF IInv
    <2>2. CASE removals' = removals
      <3>1. removals \in 0..MaxRemovals
        BY DEF IInv, RestIsTyped
      <3> QED BY <2>2, <3>1, Numbers
    <2>3. \/ \E id \in Ids : Remove(id)
          \/ removals' = removals
      BY DEF Next, Insert, Retrieve, IncreaseCounter, AskSize, Reload, Ended, Fails, vars
    <2> QED BY <2>1, <2>2, <2>3
  <1> QED BY Inductive, <1>1, PTL DEF Spec

-----------------------------------------------------------------------------
(***************************************************************************)
(* The tree implements the map.  A step is the map's step of the same name *)
(* or one the map does not see.                                            *)
(***************************************************************************)
AsMap(t) == [id \in {id \in Ids : Digits[id] \in DOMAIN t} |->
               [data |-> t[Digits[id]].data, counter |-> t[Digits[id]].counter]]
MapStep  == Map!Next \/ UNCHANGED <<AsMap(tree), got>>

LEMMA InitRefines == Init => Map!Init
PROOF
  <1> SUFFICES ASSUME Init
               PROVE  Map!Init
    OBVIOUS
  <1>1. \A id \in Ids : Digits[id] \notin DOMAIN tree
    BY FirstTree, DigitsArePaths DEF Init
  <1>2. Stored = {}
    BY <1>1 DEF Stored
  <1>3. [id \in Stored |-> [data |-> tree[Digits[id]].data, counter |-> tree[Digits[id]].counter]] = <<>>
    BY <1>2
  <1>4. got = <<0, NotFound>>
    BY DEF Init
  <1> QED BY <1>3, <1>4 DEF Map!Init

LEMMA SameTreeSameMap ==
  ASSUME UNCHANGED <<tree, got>>
  PROVE  MapStep
PROOF
  <1>1. AsMap(tree') = AsMap(tree) /\ got' = got
    OBVIOUS
  <1> QED BY <1>1 DEF MapStep

LEMMA InsertRefines ==
  ASSUME IInv, NEW id \in Ids, NEW v \in Values, Insert(id, v)
  PROVE  MapStep
PROOF
  <1>1. CASE id = 0 \/ InUse(id)
    <2>1. UNCHANGED <<tree, got>>
      BY <1>1 DEF Insert, Fails
    <2> QED BY <2>1, SameTreeSameMap
  <1>2. CASE id # 0 /\ ~InUse(id)
    <2> DEFINE new == WithLeaf(tree, id, v)
               m   == AsMap(tree)
               n   == AsMap(tree')
    <2>1. tree' = new /\ got' = got
      BY <1>2 DEF Insert, WithLeaf
    <2>2. GoodTree(tree) /\ Digits[id] \notin DOMAIN tree
      BY <1>2 DEF IInv, TreeIsGood, InUse
    <2>3. /\ new[Digits[id]] = [id |-> id, data |-> v, counter |-> 0]
          /\ \A p \in DOMAIN tree : p \in DOMAIN new /\ new[p] = tree[p]
      BY <1>2, <2>2, OneLeafIsAdded
    <2>4. DOMAIN n = DOMAIN m \cup {id}
      <3>1. ASSUME NEW i \in Ids, Digits[i] \in DOMAIN new, i # id
            PROVE  Digits[i] \in DOMAIN tree
        BY <1>2, <2>2, <3>1, OnlyOneLeafIsAdded
      <3>2. Digits[id] \in DOMAIN new
        BY <1>2, <2>2, OnlyOneLeafIsAdded
      <3> HIDE DEF new
      <3>3. \A i \in Ids : Digits[i] \in DOMAIN new <=> (Digits[i] \in DOMAIN tree \/ i = id)
        BY <2>3, <3>1, <3>2
      <3>4. \A i : i \in DOMAIN n <=> i \in DOMAIN m \/ i = id
        BY <2>1, <3>3 DEF AsMap
      <3> HIDE DEF m, n
      <3> QED BY <3>4
    <2>5. id \notin DOMAIN m
      BY <2>2 DEF AsMap
    <2>6. \A i \in DOMAIN n : n[i] = IF i = id THEN [data |-> v, counter |-> 0] ELSE m[i]
      <3> SUFFICES ASSUME NEW i \in DOMAIN n
                   PROVE  n[i] = IF i = id THEN [data |-> v, counter |-> 0] ELSE m[i]
        OBVIOUS
      <3>1. n[i] = [data |-> new[Digits[i]].data, counter |-> new[Digits[i]].counter]
        BY <2>1 DEF AsMap
      <3>2. CASE i = id
        <4> HIDE DEF new, n
        <4> QED BY <2>3, <3>1, <3>2
      <3>3. CASE i # id
        <4>1. i \in DOMAIN m
          BY <2>4, <3>3
        <4>2. Digits[i] \in DOMAIN tree /\ m[i] = [data |-> tree[Digits[i]].data, counter |-> tree[Digits[i]].counter]
          BY <4>1 DEF AsMap
        <4> HIDE DEF new, n, m
        <4> QED BY <2>3, <3>1, <3>3, <4>2
      <3> QED BY <3>2, <3>3
    <2>7. n = [i \in DOMAIN m \cup {id} |-> IF i = id THEN [data |-> v, counter |-> 0] ELSE m[i]]
      <3>1. n = [i \in DOMAIN n |-> n[i]]
        BY DEF AsMap
      <3> HIDE DEF m, n
      <3> QED BY <2>4, <2>6, <3>1
    <2>8. Map!Put(id, v)
      <3>1. /\ m = [i \in Stored |-> [data |-> tree[Digits[i]].data, counter |-> tree[Digits[i]].counter]]
            /\ n = [i \in Stored |-> [data |-> tree[Digits[i]].data, counter |-> tree[Digits[i]].counter]]'
        BY DEF AsMap, Stored
      <3> HIDE DEF m, n, new
      <3> QED BY <2>1, <2>5, <2>7, <3>1 DEF Map!Put
    <2> QED BY <2>8 DEF MapStep, Map!Next
  <1> QED BY <1>1, <1>2

LEMMA RetrieveRefines ==
  ASSUME IInv, NEW id \in Ids, Retrieve(id)
  PROVE  MapStep
PROOF
  <1> DEFINE m == AsMap(tree)
  <1>1. CASE id = 0
    <2>1. UNCHANGED <<tree, got>>
      BY <1>1 DEF Retrieve, Fails
    <2> QED BY <2>1, SameTreeSameMap
  <1>2. CASE id # 0
    <2>1. UNCHANGED tree /\ (id \in DOMAIN m <=> Digits[id] \in DOMAIN tree)
          /\ (id \in DOMAIN m => m[id].data = tree[Digits[id]].data)
      BY <1>2 DEF Retrieve, AsMap
    <2>2. got' = <<id, IF id \in DOMAIN m THEN m[id].data ELSE NotFound>>
      <3>1. CASE cache[Line(id)].id = id
        <4>1. got' = <<id, cache[Line(id)].data>>
          BY <1>2, <3>1 DEF Retrieve
        <4>2. Line(id) \in DOMAIN cache
          BY LineIsInCache DEF IInv, CacheIsTyped
        <4>3. id \in Stored /\ tree[Digits[id]].data = cache[Line(id)].data
          BY <1>2, <3>1, <4>2 DEF IInv, CacheIsFresh
        <4> HIDE DEF m
        <4> QED BY <2>1, <4>1, <4>3 DEF Stored
      <3>2. CASE cache[Line(id)].id # id /\ Found(id)
        <4>1. got' = <<id, Leaf(id).data>>
          BY <1>2, <3>2 DEF Retrieve
        <4>2. Digits[id] \in DOMAIN tree /\ Leaf(id) = tree[Digits[id]]
          BY <3>2, FoundIfStored DEF IInv
        <4> HIDE DEF m
        <4> QED BY <2>1, <4>1, <4>2
      <3>3. CASE cache[Line(id)].id # id /\ ~Found(id)
        <4>1. got' = <<id, NotFound>>
          BY <1>2, <3>3 DEF Retrieve
        <4>2. Digits[id] \notin DOMAIN tree
          BY <3>3, FoundIfStored DEF IInv
        <4> HIDE DEF m
        <4> QED BY <2>1, <4>1, <4>2
      <3> QED BY <3>1, <3>2, <3>3
    <2>3. Map!Get(id)
      <3>1. /\ m = [i \in Stored |-> [data |-> tree[Digits[i]].data, counter |-> tree[Digits[i]].counter]]
            /\ m = [i \in Stored |-> [data |-> tree[Digits[i]].data, counter |-> tree[Digits[i]].counter]]'
        BY <2>1 DEF AsMap, Stored
      <3> HIDE DEF m
      <3> QED BY <2>2, <3>1 DEF Map!Get
    <2> QED BY <2>3 DEF MapStep, Map!Next
  <1> QED BY <1>1, <1>2

LEMMA IncreaseCounterRefines ==
  ASSUME IInv, NEW id \in Ids, IncreaseCounter(id)
  PROVE  MapStep
PROOF
  <1> DEFINE m == AsMap(tree)
             n == AsMap(tree')
  <1>1. CASE ~Found(id)
    <2>1. UNCHANGED <<tree, got>>
      BY <1>1 DEF IncreaseCounter, Fails
    <2> QED BY <2>1, SameTreeSameMap
  <1>2. CASE Found(id)
    <2>1. Digits[id] \in DOMAIN tree /\ Target(id) = Digits[id] /\ GoodTree(tree)
      BY <1>2, FoundIfStored DEF IInv, TreeIsGood
    <2>2. tree' = Counted(tree, id) /\ got' = got
      BY <1>2, <2>1 DEF IncreaseCounter, Counted
    <2>3. /\ \A p : p \in DOMAIN tree' <=> p \in DOMAIN tree
          /\ tree'[Digits[id]].counter = (tree[Digits[id]].counter + 1) % CounterWrap
      BY <2>1, <2>2, CounterIsRaised
    <2>4. /\ \A p \in DOMAIN tree : p # Digits[id] => tree'[p] = tree[p]
          /\ \A p \in DOMAIN tree : tree'[p].data = tree[p].data
      BY <2>1, <2>2, CounterIsRaised
    <2>5. DOMAIN n = DOMAIN m /\ n = [i \in DOMAIN n |-> n[i]] /\ m = [i \in DOMAIN m |-> m[i]]
      BY <2>3 DEF AsMap
    <2>6. id \in DOMAIN m
      BY <2>1 DEF AsMap
    <2>7. \A i \in DOMAIN m : n[i] = IF i = id THEN [m[i] EXCEPT !.counter = (@ + 1) % CounterWrap] ELSE m[i]
      <3> SUFFICES ASSUME NEW i \in DOMAIN m
                   PROVE  n[i] = IF i = id THEN [m[i] EXCEPT !.counter = (@ + 1) % CounterWrap] ELSE m[i]
        OBVIOUS
      <3>1. /\ i \in Ids /\ Digits[i] \in DOMAIN tree /\ i \in DOMAIN n
            /\ m[i] = [data |-> tree[Digits[i]].data, counter |-> tree[Digits[i]].counter]
            /\ n[i] = [data |-> tree'[Digits[i]].data, counter |-> tree'[Digits[i]].counter]
        BY <2>3 DEF AsMap
      <3> HIDE DEF m, n
      <3>2. CASE i = id
        <4>1. n[i] = [data |-> m[i].data, counter |-> (m[i].counter + 1) % CounterWrap]
          BY <2>3, <2>4, <3>1, <3>2
        <4> QED BY <3>1, <3>2, <4>1
      <3>3. CASE i # id
        <4>1. Digits[i] # Digits[id]
          BY <3>1, <3>3, DigitsTellIds
        <4>2. tree'[Digits[i]] = tree[Digits[i]]
          BY <2>4, <3>1, <4>1
        <4> QED BY <3>1, <3>3, <4>2
      <3> QED BY <3>2, <3>3
    <2>8. n = [m EXCEPT ![id].counter = (@ + 1) % CounterWrap]
      <3> HIDE DEF m, n
      <3> QED BY <2>5, <2>6, <2>7
    <2>9. Map!Raise(id)
      <3>1. /\ m = [i \in Stored |-> [data |-> tree[Digits[i]].data, counter |-> tree[Digits[i]].counter]]
            /\ n = [i \in Stored |-> [data |-> tree[Digits[i]].data, counter |-> tree[Digits[i]].counter]]'
        BY DEF AsMap, Stored
      <3> HIDE DEF m, n
      <3> QED BY <2>2, <2>6, <2>8, <3>1 DEF Map!Raise
    <2> QED BY <2>9 DEF MapStep, Map!Next
  <1> QED BY <1>1, <1>2

LEMMA OthersRefine ==
  ASSUME IInv, \/ AskSize \/ Reload \/ Ended \/ UNCHANGED vars
               \/ \E id \in Ids : Remove(id)
  PROVE  MapStep
PROOF
  <1>1. CASE AskSize \/ Ended \/ UNCHANGED vars
    <2>1. UNCHANGED <<tree, got>>
      BY <1>1 DEF AskSize, Ended, vars
    <2> QED BY <2>1, SameTreeSameMap
  <1>2. CASE \E id \in Ids : Remove(id)
    <2>1. UNCHANGED <<tree, got>>
      BY <1>2, RemoveKeepsTheTree DEF IInv
    <2> QED BY <2>1, SameTreeSameMap
  <1>3. CASE Reload
    <2>1. ReadBack(Stream(tree)) = tree /\ WithZeroPath(tree) = tree
      BY GoodTreeFacts DEF IInv, TreeIsGood
    <2>2. UNCHANGED <<tree, got>>
      BY <1>3, <2>1 DEF Reload, Fails
    <2> QED BY <2>2, SameTreeSameMap
  <1> QED BY <1>1, <1>2, <1>3

\* The tree implements the map: what is inserted is found by every later
\* lookup, with the data it was given and as often as it was counted, along
\* the zeros or from the root, from the cache or not, in this run of the
\* program and the next (idtree_impl.h:190-298, 333-345, 406-428).
THEOREM Implements == Spec => ImplementsIdMap
PROOF
  <1>1. IInv /\ [Next]_vars => [Map!Next]_<<AsMap(tree), got>>
    <2> SUFFICES ASSUME IInv, [Next]_vars
                 PROVE  MapStep
      BY DEF MapStep
    <2>1. CASE \E id \in Ids, v \in Values : Insert(id, v)
      BY <2>1, InsertRefines
    <2>2. CASE \E id \in Ids : Retrieve(id) \/ IncreaseCounter(id)
      BY <2>2, RetrieveRefines, IncreaseCounterRefines
    <2>3. CASE \/ AskSize \/ Reload \/ Ended \/ UNCHANGED vars
               \/ \E id \in Ids : Remove(id)
      BY <2>3, OthersRefine
    <2> QED BY <2>1, <2>2, <2>3 DEF Next
  <1>2. IInv /\ [Next]_vars =>
          [Map!Next]_<<[id \in Stored |-> [data    |-> tree[Digits[id]].data,
                                          counter |-> tree[Digits[id]].counter]], got>>
    BY <1>1 DEF AsMap, Stored
  <1> QED BY InitRefines, Inductive, <1>2, PTL DEF Spec, ImplementsIdMap, Map!Spec
=============================================================================
