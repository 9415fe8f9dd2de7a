----------------------- MODULE ResultGeneratorProofs -----------------------
(***************************************************************************)
(* The two ends of a query.  The end: the results that the searches have   *)
(* found are cleaned, in whatever order the hashed set is gone through,    *)
(* and sorted, in whatever order results of one quality come.  The         *)
(* beginning: the text tree, filled by a map and read from its file, is    *)
(* the index that the searches take it for.  What lies in between, the     *)
(* searches, is in SearchProofs.                                           *)
(***************************************************************************)
EXTENDS ResultGenerator, NatSetTheorems

-----------------------------------------------------------------------------
(* The invariant.                                                          *)

\* What the searches find is somewhere and has a quality.  That it is so depends
\* on what the searches compute and is proved in SearchProofs; here it is the
\* hypothesis under which what was found is cleaned and sorted.
ResultsAreNumbers == \A r \in results : r.at \in Nat /\ r.quality \in Int

Finishing == stage \in {"cleaning", "sorting", "done"}

\* Nothing is kept but results, and nothing is looked at but what is kept.
OnlyResults == unseen \subseteq kept /\ kept \subseteq results

\* For everything that was found something as good is kept.
NothingGoodIsLost == Finishing => \A r \in results : \E s \in kept : r.quality <= s.quality

\* What was looked at and is kept has no neighbour but worse ones, that have
\* not been looked at.  That there are only worse ones would not do: the worse
\* one must still have its turn, to be removed then.
SeenAreApart ==
  Finishing /\ proximity > 0 =>
    \A r \in kept \ unseen, s \in kept : r # s /\ Near(r, s) => s \in unseen /\ s.quality < r.quality

\* The answer is made of what is kept, of each once, the best ones first.
AnswerIsSorted ==
  /\ answer # <<>> => stage \in {"sorting", "done"}
  /\ stage \in {"sorting", "done"} => unseen = {}
  /\ answer \in Seq(kept)
  /\ \A i, j \in DOMAIN answer : i # j => answer[i] # answer[j]
  /\ answer # <<>> => \A s \in kept : s.quality <= answer[1].quality
  /\ stage = "done" => kept \subseteq Ids(answer)

Stages == {"loading", "idle", "roads", "crossings", "regions", "places", "unique", "known",
           "cleaning", "sorting", "done"}

IInv == /\ stage \in Stages
        /\ OnlyResults /\ NothingGoodIsLost /\ SeenAreApart /\ AnswerIsSorted

-----------------------------------------------------------------------------
\* It does not matter from which of two results one looks.
LEMMA NearBothWays ==
  ASSUME NEW r, NEW s, r.at \in Nat, s.at \in Nat
  PROVE  Near(r, s) <=> Near(s, r)
BY DEF Near, Distance

\* Before the last search only results are added, and nothing is kept yet.
Gathers == /\ stage \notin {"known", "cleaning", "sorting", "done"}
           /\ stage' \in Stages \ {"cleaning", "sorting", "done"}
           /\ results \subseteq results'
           /\ UNCHANGED <<kept, unseen, answer>>

LEMMA GatheringKeepsInv == IInv /\ Gathers => IInv'
PROOF
  <1> SUFFICES ASSUME IInv, Gathers
               PROVE  IInv'
    OBVIOUS
  <1>1. answer = <<>>
    BY DEF IInv, AnswerIsSorted, Gathers
  <1>2. OnlyResults' /\ NothingGoodIsLost' /\ SeenAreApart' /\ stage' \in Stages
    BY DEF IInv, Gathers, OnlyResults, NothingGoodIsLost, SeenAreApart, Finishing
  <1>3. AnswerIsSorted'
    BY <1>1 DEF Gathers, AnswerIsSorted, Ids
  <1> QED BY <1>2, <1>3 DEF IInv

\* All the actions up to the last search but the question itself gather.
LEMMA EarlyActionsGather ==
  ASSUME \/ \E m \in unread : InsertNames(m)
         \/ Serve \/ Restart
         \/ FindRoads \/ FindCrossings \/ FindRegions \/ FindPlaces \/ FindUnique
  PROVE  Gathers
PROOF
  <1>1. CASE \E m \in unread : InsertNames(m)
    BY <1>1 DEF InsertNames, Gathers, Stages
  <1>2. CASE Serve \/ Restart
    BY <1>2 DEF Serve, Restart, Gathers, Stages
  <1>3. ASSUME NEW this \in {"roads", "crossings", "regions", "places", "unique"},
               NEW next \in {"crossings", "regions", "places", "unique", "known"},
               NEW found, Search(this, next, found)
        PROVE  Gathers
    BY <1>3 DEF Search, Gathers, Stages
  <1>4. CASE FindRoads
    BY <1>3, <1>4 DEF FindRoads
  <1>5. CASE FindCrossings
    BY <1>3, <1>5 DEF FindCrossings
  <1>6. CASE FindRegions
    BY <1>3, <1>6 DEF FindRegions
  <1>7. CASE FindPlaces
    BY <1>3, <1>7 DEF FindPlaces
  <1>8. CASE FindUnique
    BY <1>3, <1>8 DEF FindUnique
  <1> QED BY <1>1, <1>2, <1>4, <1>5, <1>6, <1>7, <1>8

LEMMA AskingKeepsInv ==
  ASSUME NEW t, NEW p, Ask(t, p)
  PROVE  IInv'
BY DEF Ask, IInv, OnlyResults, NothingGoodIsLost, SeenAreApart, AnswerIsSorted, Finishing, Ids, Stages

LEMMA LastSearchKeepsInv == IInv /\ ResultsAreNumbers' /\ FindKnown => IInv'
PROOF
  <1> SUFFICES ASSUME IInv, ResultsAreNumbers', FindKnown
               PROVE  IInv'
    OBVIOUS
  <1>1. /\ kept' = results' /\ answer' = answer /\ answer = <<>> /\ proximity' = proximity
        /\ \/ stage' = "done" /\ unseen' = {} /\ results' = {}
           \/ stage' = "sorting" /\ unseen' = {} /\ proximity = 0
           \/ stage' = "cleaning" /\ unseen' = results'
    BY DEF FindKnown, IInv, AnswerIsSorted, askVars
  <1>2. NothingGoodIsLost'
    <2>1. \A r \in results' : r.quality <= r.quality
      BY DEF ResultsAreNumbers
    <2> QED BY <1>1, <2>1 DEF NothingGoodIsLost
  <1>3. SeenAreApart'
    BY <1>1 DEF SeenAreApart
  <1>4. AnswerIsSorted'
    BY <1>1 DEF AnswerIsSorted, Ids
  <1> QED BY <1>1, <1>2, <1>3, <1>4 DEF IInv, OnlyResults, Stages

-----------------------------------------------------------------------------
(* Cleaning.                                                               *)

\* A result is removed next to one that is not worse, so nothing is lost.
LEMMA ExaminingLosesNothing ==
  ASSUME IInv, ResultsAreNumbers, NEW r \in unseen, Examine(r)
  PROVE  NothingGoodIsLost'
PROOF
  <1>1. /\ stage = "cleaning" /\ results' = results /\ kept \subseteq results /\ r \in kept
        /\ kept' = IF IsDuplicate(r, kept \ {r}) THEN kept \ {r} ELSE kept
    BY DEF Examine, IInv, OnlyResults
  <1>2. SUFFICES ASSUME NEW q \in results
                 PROVE  \E s \in kept' : q.quality <= s.quality
    BY <1>1 DEF NothingGoodIsLost
  <1>3. PICK s \in kept : q.quality <= s.quality
    BY <1>1 DEF IInv, NothingGoodIsLost, Finishing
  <1>4. CASE s \in kept'
    BY <1>3, <1>4
  <1>5. CASE s \notin kept'
    <2>1. s = r /\ kept' = kept \ {r} /\ IsDuplicate(r, kept \ {r})
      BY <1>1, <1>5
    <2>2. PICK o \in kept \ {r} : r.quality <= o.quality
      BY <2>1 DEF IsDuplicate
    <2>3. q.quality \in Int /\ r.quality \in Int /\ o.quality \in Int
      BY <1>1, <2>2 DEF ResultsAreNumbers
    <2>4. q.quality <= o.quality
      BY <1>3, <2>1, <2>2, <2>3
    <2> QED BY <2>1, <2>2, <2>4
  <1> QED BY <1>4, <1>5

\* Whoever was kept has only worse neighbours, whose turn is still to come.
LEMMA ExaminingKeepsApart ==
  ASSUME IInv, ResultsAreNumbers, NEW x \in unseen, Examine(x)
  PROVE  SeenAreApart'
PROOF
  <1>1. /\ stage = "cleaning" /\ stage' = stage /\ proximity' = proximity
        /\ kept' = IF IsDuplicate(x, kept \ {x}) THEN kept \ {x} ELSE kept
        /\ unseen' = unseen \ {x} /\ unseen \subseteq kept /\ kept \subseteq results
    BY DEF Examine, IInv, OnlyResults, askVars
  <1>2. SUFFICES ASSUME proximity > 0, NEW r \in kept' \ unseen', NEW s \in kept', r # s,
                        Near(r, s)'
                 PROVE  s \in unseen' /\ s.quality < r.quality
    BY <1>1 DEF SeenAreApart
  <1>3. /\ r \in kept /\ s \in kept /\ Near(r, s)
        /\ r.quality \in Int /\ s.quality \in Int /\ r.at \in Nat /\ s.at \in Nat
    BY <1>1, <1>2 DEF ResultsAreNumbers, Near
  <1>4. Near(s, r)
    BY <1>3, NearBothWays
  <1>5. \A q \in kept \ unseen, o \in kept : q # o /\ Near(q, o) => o \in unseen /\ o.quality < q.quality
    BY <1>1, <1>2 DEF IInv, SeenAreApart, Finishing
  <1>6. CASE r = x
    <2>1. ~IsDuplicate(x, kept \ {x})
      BY <1>1, <1>6
    <2>2. ~(x.quality <= s.quality)
      BY <1>2, <1>3, <1>6, <2>1 DEF IsDuplicate
    <2>3. s \in unseen
      BY <1>2, <1>3, <1>4, <1>5, <1>6, <2>2
    <2> QED BY <1>1, <1>2, <1>3, <1>6, <2>2, <2>3
  <1>7. CASE r # x
    <2>1. r \notin unseen
      BY <1>1, <1>2, <1>7
    <2>2. s \in unseen /\ s.quality < r.quality
      BY <1>2, <1>3, <1>5, <2>1
    <2>3. s # x
      <3>1. SUFFICES ASSUME s = x
                     PROVE  IsDuplicate(x, kept \ {x})
        BY <1>1, <1>2
      <3>2. r \in kept \ {x} /\ x.quality <= r.quality /\ Near(x, r)
        BY <1>3, <1>4, <1>7, <2>2, <3>1
      <3> QED BY <3>2 DEF IsDuplicate
    <2> QED BY <1>1, <2>2, <2>3
  <1> QED BY <1>6, <1>7

LEMMA ExaminingKeepsInv ==
  ASSUME IInv, ResultsAreNumbers, NEW r \in unseen, Examine(r)
  PROVE  IInv'
PROOF
  <1>1. NothingGoodIsLost' /\ SeenAreApart'
    BY ExaminingLosesNothing, ExaminingKeepsApart
  <1>2. /\ stage = "cleaning" /\ stage' = "cleaning" /\ answer' = answer
        /\ unseen' = unseen \ {r} /\ kept \ {r} \subseteq kept' /\ kept' \subseteq kept
        /\ results' = results
    BY DEF Examine
  <1>3. answer = <<>>
    BY <1>2 DEF IInv, AnswerIsSorted
  <1>4. AnswerIsSorted'
    BY <1>2, <1>3 DEF AnswerIsSorted, Ids
  <1>5. OnlyResults'
    BY <1>2 DEF IInv, OnlyResults
  <1> QED BY <1>1, <1>2, <1>4, <1>5 DEF IInv, Stages

LEMMA CleaningEnds == IInv /\ Clean => IInv'
PROOF
  <1> SUFFICES ASSUME IInv, Clean
               PROVE  IInv'
    OBVIOUS
  <1>1. /\ stage = "cleaning" /\ stage' = "sorting" /\ unseen = {} /\ proximity' = proximity
        /\ results' = results /\ kept' = kept /\ unseen' = unseen /\ answer' = answer
    BY DEF Clean, askVars
  <1>2. SeenAreApart'
    BY <1>1 DEF IInv, SeenAreApart, Finishing, Near
  <1>3. NothingGoodIsLost' /\ OnlyResults'
    BY <1>1 DEF IInv, NothingGoodIsLost, OnlyResults, Finishing
  <1>4. AnswerIsSorted'
    BY <1>1 DEF IInv, AnswerIsSorted, Ids
  <1> QED BY <1>1, <1>2, <1>3, <1>4 DEF IInv, Stages

-----------------------------------------------------------------------------
(* Sorting.                                                                *)

LEMMA SortingKeepsInv ==
  ASSUME IInv, ResultsAreNumbers, NEW r \in Left, Sort(r)
  PROVE  IInv'
PROOF
  <1>1. /\ stage = "sorting" /\ proximity' = proximity /\ results' = results /\ kept' = kept
        /\ unseen' = unseen /\ answer' = Append(answer, r)
        /\ stage' = IF Left = {r} THEN "done" ELSE "sorting"
        /\ \A s \in Left : s.quality <= r.quality
    BY DEF Sort, askVars
  <1>2. answer \in Seq(kept) /\ r \in kept /\ r \notin Ids(answer) /\ unseen = {}
    BY <1>1 DEF IInv, AnswerIsSorted, Left
  <1>3. SeenAreApart'
    BY <1>1 DEF IInv, SeenAreApart, Finishing, Near
  <1>4. NothingGoodIsLost' /\ OnlyResults'
    BY <1>1 DEF IInv, NothingGoodIsLost, OnlyResults, Finishing
  <1>5. AnswerIsSorted'
    <2>1. /\ answer' \in Seq(kept') /\ answer' # <<>> /\ DOMAIN answer' = 1..(Len(answer) + 1)
          /\ answer'[Len(answer) + 1] = r
          /\ \A i \in 1..Len(answer) : answer'[i] = answer[i]
          /\ DOMAIN answer = 1..Len(answer) /\ Len(answer) \in Nat
      BY <1>1, <1>2
    <2>2. \A i, j \in DOMAIN answer' : i # j => answer'[i] # answer'[j]
      <3>1. \A i, j \in 1..Len(answer) : i # j => answer[i] # answer[j]
        BY <2>1 DEF IInv, AnswerIsSorted
      <3>2. \A i \in 1..Len(answer) : answer[i] # r
        BY <1>2, <2>1 DEF Ids
      <3> QED BY <2>1, <3>1, <3>2
    <2>3. \A s \in kept' : s.quality <= answer'[1].quality
      <3>1. CASE answer = <<>>
        <4>1. Left = kept /\ answer'[1] = r
          BY <2>1, <3>1 DEF Left, Ids
        <4> QED BY <1>1, <4>1
      <3>2. CASE answer # <<>>
        <4>1. answer'[1] = answer[1]
          BY <1>2, <2>1, <3>2
        <4> QED BY <1>1, <3>2, <4>1 DEF IInv, AnswerIsSorted
      <3> QED BY <3>1, <3>2
    <2>4. Ids(answer') = Ids(answer) \cup {r}
      BY <2>1 DEF Ids
    <2>5. stage' = "done" => kept' \subseteq Ids(answer')
      BY <1>1, <2>4 DEF Left
    <2>6. stage' \in {"sorting", "done"} /\ unseen' = {}
      BY <1>1, <1>2
    <2>7. Ids(answer)' = Ids(answer')
      BY DEF Ids
    <2> QED BY <2>1, <2>2, <2>3, <2>5, <2>6, <2>7 DEF AnswerIsSorted
  <1> QED BY <1>1, <1>3, <1>4, <1>5 DEF IInv, Stages

-----------------------------------------------------------------------------
(* The theorems.                                                           *)

LEMMA InitiallyInv == Init => IInv
BY DEF Init, IInv, OnlyResults, NothingGoodIsLost, SeenAreApart, AnswerIsSorted, Finishing, Ids, Stages

LEMMA StepsKeepInv == IInv /\ ResultsAreNumbers /\ ResultsAreNumbers' /\ [Next]_vars => IInv'
PROOF
  <1> SUFFICES ASSUME IInv, ResultsAreNumbers, ResultsAreNumbers', [Next]_vars
               PROVE  IInv'
    OBVIOUS
  <1>1. CASE \/ \E m \in unread : InsertNames(m)
             \/ Serve \/ Restart
             \/ FindRoads \/ FindCrossings \/ FindRegions \/ FindPlaces \/ FindUnique
    BY <1>1, EarlyActionsGather, GatheringKeepsInv
  <1>2. CASE \E t \in Texts, p \in Proximities : Ask(t, p)
    BY <1>2, AskingKeepsInv
  <1>3. CASE FindKnown
    BY <1>3, LastSearchKeepsInv
  <1>4. CASE \E r \in unseen : Examine(r)
    BY <1>4, ExaminingKeepsInv
  <1>5. CASE Clean
    BY <1>5, CleaningEnds
  <1>6. CASE \E r \in Left : Sort(r)
    BY <1>6, SortingKeepsInv
  <1>7. CASE UNCHANGED vars
    BY <1>7 DEF vars, askVars, IInv, OnlyResults, NothingGoodIsLost, SeenAreApart, AnswerIsSorted,
                Finishing, Near, Ids
  <1> QED BY <1>1, <1>2, <1>3, <1>4, <1>5, <1>6, <1>7 DEF Next

LEMMA Inductive == Spec /\ []ResultsAreNumbers => []IInv
BY InitiallyInv, StepsKeepInv, PTL DEF Spec

\* Where everything was looked at, no two results of an answer are close.
LEMMA NoneIsCloseInTheEnd == IInv => NoTwoClose
PROOF
  <1> SUFFICES ASSUME IInv, stage = "done", proximity > 0,
                      NEW i \in DOMAIN answer, NEW j \in DOMAIN answer, i # j, Near(answer[i], answer[j])
               PROVE  FALSE
    BY DEF NoTwoClose
  <1>1. answer[i] \in kept /\ answer[j] \in kept /\ answer[i] # answer[j] /\ unseen = {}
    BY DEF IInv, AnswerIsSorted
  <1> QED BY <1>1 DEF IInv, SeenAreApart, Finishing

\* What is kept holds something as good as the best, and the best of it comes
\* first.
LEMMA FirstIsBestInTheEnd == IInv /\ ResultsAreNumbers => BestIsFirst
PROOF
  <1> SUFFICES ASSUME IInv, ResultsAreNumbers, stage = "done", NEW x \in results
               PROVE  answer # <<>> /\ \A r \in results : r.quality <= answer[1].quality
    BY DEF BestIsFirst
  <1>1. \A r \in results : \E s \in kept : r.quality <= s.quality
    BY DEF IInv, NothingGoodIsLost, Finishing
  <1>2. answer # <<>> /\ answer \in Seq(kept) /\ kept \subseteq results
    BY <1>1 DEF IInv, AnswerIsSorted, Ids, OnlyResults
  <1>3. answer[1] \in kept /\ \A s \in kept : s.quality <= answer[1].quality
    BY <1>2 DEF IInv, AnswerIsSorted
  <1>4. ASSUME NEW r \in results
        PROVE  r.quality <= answer[1].quality
    <2>1. PICK s \in kept : r.quality <= s.quality
      BY <1>1
    <2>2. r.quality \in Int /\ s.quality \in Int /\ answer[1].quality \in Int
      BY <1>2, <1>3 DEF ResultsAreNumbers
    <2> QED BY <1>3, <2>1, <2>2
  <1> QED BY <1>2, <1>4

-----------------------------------------------------------------------------
(***************************************************************************)
(* The text tree: nodes by their paths, each with its parent.              *)
(***************************************************************************)
Paths == Seq(UsedCodes)

IsTree(t) ==
  /\ t = [p \in DOMAIN t |-> t[p]] /\ \A p \in DOMAIN t : t[p] \in Seq(Elements)
  /\ DOMAIN t \subseteq Paths /\ <<>> \in DOMAIN t
  /\ \A p \in DOMAIN t : \A k \in 0..Len(p) : SubSeq(p, 1, k) \in DOMAIN t
  /\ \E d \in Nat : \A p \in DOMAIN t : Len(p) <= d

\* The longest path is not longer than this.
Height(t) == CHOOSE d \in Nat : \A p \in DOMAIN t : Len(p) <= d

LEMMA HeightBounds ==
  ASSUME NEW t, IsTree(t)
  PROVE  Height(t) \in Nat /\ \A p \in DOMAIN t : Len(p) \in Nat /\ Len(p) <= Height(t)
PROOF
  <1>1. Height(t) \in Nat /\ \A p \in DOMAIN t : Len(p) <= Height(t)
    BY Zenon DEF IsTree, Height
  <1>2. \A p \in DOMAIN t : p \in Seq(UsedCodes)
    BY DEF IsTree, Paths
  <1>3. \A p \in Seq(UsedCodes) : Len(p) \in Nat
    OBVIOUS
  <1> QED BY <1>1, <1>2, <1>3, Zenon

\* Each code that is used is to come once.
LEMMA CodesToCome ==
  /\ NumUsed \in Nat
  /\ \A k \in 1..NumUsed : ToCome(k) \in UsedCodes
  /\ \A j, k \in 1..NumUsed : ToCome(j) = ToCome(k) => j = k
  /\ \A c \in UsedCodes : \E k \in 1..NumUsed : ToCome(k) = c
PROOF
  <1> DEFINE S == UsedCodes
             n == NumUsed
  <1>1. S \in SUBSET Nat /\ IsFiniteSet(S)
    BY CodesAssumption DEF NumCodes
  <1>2. n = Cardinality(S) /\ n \in Nat
    BY <1>1, FS_CardinalityType DEF NumUsed
  <1>3. /\ \A c \in S : Rank(S, c) \in 1..n
        /\ \A b, c \in S : b < c => Rank(S, b) < Rank(S, c)
    BY <1>1, <1>2, RankGrows
  <1>4. \A k \in 1..n : \E c \in S : Rank(S, c) = k
    <2> HIDE DEF n
    <2> QED BY <1>1, <1>2, RankIsOnto
  <1>5. \A k \in 1..n : CodeOrder[k] \in S /\ Rank(S, CodeOrder[k]) = k
    <2> SUFFICES ASSUME NEW k \in 1..n
                 PROVE  CodeOrder[k] \in S /\ Rank(S, CodeOrder[k]) = k
      OBVIOUS
    <2>1. CodeOrder[k] = CHOOSE c \in S : Rank(S, c) = k
      BY DEF CodeOrder, Rank
    <2>2. \E c \in S : Rank(S, c) = k
      BY <1>4
    <2> QED BY <2>1, <2>2, Zenon
  <1>6. \A b, c \in S : Rank(S, b) = Rank(S, c) => b = c
    <2> SUFFICES ASSUME NEW b \in S, NEW c \in S, b # c
                 PROVE  Rank(S, b) # Rank(S, c)
      OBVIOUS
    <2>1. b \in Nat /\ c \in Nat
      BY <1>1
    <2>2. b < c \/ c < b
      BY <2>1
    <2>3. Rank(S, b) < Rank(S, c) \/ Rank(S, c) < Rank(S, b)
      BY <1>3, <2>2
    <2>4. Rank(S, b) \in Nat /\ Rank(S, c) \in Nat
      <3>1. Rank(S, b) \in 1..n /\ Rank(S, c) \in 1..n
        BY <1>3
      <3> HIDE DEF n
      <3> QED BY <1>2, <3>1
    <2> QED BY <2>3, <2>4
  <1> HIDE DEF S, n
  <1>7. \A k \in 1..n : n + 1 - k \in 1..n /\ n + 1 - (n + 1 - k) = k
    BY <1>2
  <1>8. \A k \in 1..n : ToCome(k) \in S /\ Rank(S, ToCome(k)) = n + 1 - k
    BY <1>5, <1>7 DEF ToCome, n
  <1>9. ASSUME NEW j \in 1..n, NEW k \in 1..n, ToCome(j) = ToCome(k)
        PROVE  j = k
    <2>1. n + 1 - j = n + 1 - k
      BY <1>8, <1>9
    <2> QED BY <1>2, <2>1
  <1>10. ASSUME NEW c \in S
         PROVE  \E k \in 1..n : ToCome(k) = c
    <2>1. Rank(S, c) \in 1..n
      BY <1>3
    <2> DEFINE k == n + 1 - Rank(S, c)
    <2>2. k \in 1..n /\ n + 1 - k = Rank(S, c)
      BY <1>7, <2>1
    <2>3. ToCome(k) \in S /\ Rank(S, ToCome(k)) = Rank(S, c)
      BY <1>8, <2>2
    <2>4. ToCome(k) = c
      BY <1>6, <2>3
    <2> QED BY <2>2, <2>4
  <1> QED BY <1>2, <1>8, <1>9, <1>10 DEF S, n


\* A path that is not empty has a first step, and what follows.
LEMMA FirstStep ==
  ASSUME NEW q \in Paths, q # <<>>
  PROVE  /\ q[1] \in UsedCodes /\ Tail(q) \in Paths
         /\ q = <<q[1]>> \o Tail(q)
PROOF
  <1>1. Len(q) \in Nat \ {0} /\ q[1] \in UsedCodes /\ Tail(q) \in Paths
    <2>1. Len(q) \in Nat \ {0}
      BY DEF Paths
    <2>2. q[1] \in UsedCodes
      BY <2>1 DEF Paths
    <2>3. Tail(q) \in Paths
      BY DEF Paths
    <2> QED BY <2>1, <2>2, <2>3
  <1>2. /\ <<q[1]>> \in Paths /\ Len(<<q[1]>>) = 1 /\ <<q[1]>>[1] = q[1]
        /\ Len(Tail(q)) = Len(q) - 1 /\ \A k \in 1..(Len(q) - 1) : Tail(q)[k] = q[k + 1]
    BY <1>1 DEF Paths
  <1>3. <<q[1]>> \o Tail(q) \in Paths /\ Len(<<q[1]>> \o Tail(q)) = Len(q)
    BY <1>1, <1>2 DEF Paths
  <1>4. ASSUME NEW k \in 1..Len(q)
        PROVE  (<<q[1]>> \o Tail(q))[k] = q[k]
    <2>1. CASE k = 1
      BY <1>1, <1>2, <2>1 DEF Paths
    <2>2. CASE k # 1
      <3>1. k - 1 \in 1..(Len(q) - 1) /\ k > 1
        BY <1>1, <2>2
      <3>2. (<<q[1]>> \o Tail(q))[k] = Tail(q)[k - 1]
        BY <1>1, <1>2, <3>1 DEF Paths
      <3> QED BY <1>2, <3>1, <3>2
    <2> QED BY <2>1, <2>2
  <1> QED BY <1>1, <1>3, <1>4 DEF Paths

\* A path with a step before it.
LEMMA StepBefore ==
  ASSUME NEW p \in Paths, NEW q \in Paths, NEW c \in UsedCodes
  PROVE  /\ <<c>> \o q \in Paths /\ <<c>> \o q # <<>> /\ (<<c>> \o q)[1] = c
         /\ Tail(<<c>> \o q) = q
         /\ Append(p, c) \in Paths /\ p \o (<<c>> \o q) = Append(p, c) \o q
         /\ Len(Append(p, c)) = Len(p) + 1
PROOF
  <1>1. <<c>> \in Paths /\ Len(<<c>>) = 1 /\ <<c>>[1] = c
    BY DEF Paths
  <1>2. /\ <<c>> \o q \in Paths /\ Len(<<c>> \o q) = Len(q) + 1 /\ (<<c>> \o q)[1] = c
        /\ \A k \in 1..Len(q) : (<<c>> \o q)[k + 1] = q[k]
    BY <1>1 DEF Paths
  <1>3. <<c>> \o q # <<>>
    BY <1>2 DEF Paths
  <1>4. Tail(<<c>> \o q) = q
    <2>1. /\ Tail(<<c>> \o q) \in Paths /\ Len(Tail(<<c>> \o q)) = Len(q)
          /\ \A k \in 1..Len(q) : Tail(<<c>> \o q)[k] = q[k]
      BY <1>2, <1>3 DEF Paths
    <2> QED BY <2>1 DEF Paths
  <1>5. Append(p, c) \in Paths /\ Len(Append(p, c)) = Len(p) + 1
    BY DEF Paths
  <1>6. p \o (<<c>> \o q) = Append(p, c) \o q
    <2> DEFINE u == p \o (<<c>> \o q)
               v == Append(p, c) \o q
    <2>1. u \in Paths /\ v \in Paths /\ Len(u) = Len(p) + 1 + Len(q) /\ Len(v) = Len(p) + 1 + Len(q)
      BY <1>2, <1>5 DEF Paths
    <2>2. ASSUME NEW k \in 1..(Len(p) + 1 + Len(q))
          PROVE  u[k] = v[k]
      <3>1. CASE k <= Len(p)
        <4>1. u[k] = p[k]
          BY <1>2, <3>1 DEF Paths
        <4>2. v[k] = p[k]
          BY <1>5, <3>1 DEF Paths
        <4> QED BY <4>1, <4>2
      <3>2. CASE k = Len(p) + 1
        <4>1. u[k] = c
          BY <1>2, <3>2 DEF Paths
        <4>2. v[k] = c
          BY <1>5, <3>2 DEF Paths
        <4> QED BY <4>1, <4>2
      <3>3. CASE k > Len(p) + 1
        <4>1. k - Len(p) - 1 \in 1..Len(q)
          BY <3>3 DEF Paths
        <4>2. u[k] = (<<c>> \o q)[k - Len(p)]
          BY <1>2, <3>3 DEF Paths
        <4>3. (<<c>> \o q)[k - Len(p)] = q[k - Len(p) - 1]
          <5>1. (<<c>> \o q)[(k - Len(p) - 1) + 1] = q[k - Len(p) - 1]
            BY <1>2, <4>1
          <5>2. (k - Len(p) - 1) + 1 = k - Len(p)
            BY DEF Paths
          <5> QED BY <5>1, <5>2
        <4>4. v[k] = q[k - Len(p) - 1]
          BY <1>5, <3>3 DEF Paths
        <4> QED BY <4>2, <4>3, <4>4
      <3> QED BY <3>1, <3>2, <3>3 DEF Paths
    <2> QED BY <2>1, <2>2 DEF Paths
  <1> QED BY <1>2, <1>3, <1>4, <1>5, <1>6

\* Where a longer path exists, its first step from p on leads to a child.
LEMMA ChildOnTheWay ==
  ASSUME NEW t, IsTree(t), NEW p \in DOMAIN t, NEW q \in Paths, q # <<>>, p \o q \in DOMAIN t
  PROVE  Append(p, q[1]) \in DOMAIN t /\ q[1] \in UsedCodes /\ HasChildren(t, p)
PROOF
  <1>1. p \in Paths /\ q[1] \in UsedCodes /\ Len(q) \in Nat \ {0} /\ Len(p) \in Nat
    <2>1. q[1] \in UsedCodes
      BY FirstStep
    <2>2. p \in Paths
      BY DEF IsTree
    <2>3. Len(q) \in Nat \ {0}
      BY DEF Paths
    <2>4. Len(p) \in Nat
      BY <2>2 DEF Paths
    <2> QED BY <2>1, <2>2, <2>3, <2>4
  <1>2. /\ p \o q \in Paths /\ Len(p \o q) = Len(p) + Len(q)
        /\ Len(p) + 1 \in 0..Len(p \o q)
    BY <1>1 DEF Paths
  <1>3. SubSeq(p \o q, 1, Len(p) + 1) = Append(p, q[1])
    <2> DEFINE u == SubSeq(p \o q, 1, Len(p) + 1)
               v == Append(p, q[1])
    <2>1. u \in Paths /\ v \in Paths /\ Len(u) = Len(p) + 1 /\ Len(v) = Len(p) + 1
      <3>1. u \in Paths /\ Len(u) = Len(p) + 1
        BY <1>1, <1>2 DEF Paths
      <3>2. v \in Paths /\ Len(v) = Len(p) + 1
        BY <1>1 DEF Paths
      <3> QED BY <3>1, <3>2
    <2>2. ASSUME NEW k \in 1..(Len(p) + 1)
          PROVE  u[k] = v[k]
      <3>1. u[k] = (p \o q)[k]
        BY <1>1, <1>2 DEF Paths
      <3>2. CASE k <= Len(p)
        BY <1>1, <3>1, <3>2 DEF Paths
      <3>3. CASE k = Len(p) + 1
        BY <1>1, <3>1, <3>3 DEF Paths
      <3> QED BY <1>1, <3>2, <3>3
    <2> QED BY <2>1, <2>2 DEF Paths
  <1>4. Append(p, q[1]) \in DOMAIN t
    BY <1>2, <1>3 DEF IsTree
  <1> QED BY <1>1, <1>4 DEF HasChildren

\* A child is one level below, and not below the lowest one.
LEMMA ChildIsBelow ==
  ASSUME NEW t, IsTree(t), NEW p \in DOMAIN t, NEW c \in UsedCodes, Append(p, c) \in DOMAIN t
  PROVE  /\ p \in Paths /\ Len(p) \in Nat /\ Len(p) + 1 <= Height(t)
         /\ Append(p, c) \in Paths /\ Len(Append(p, c)) = Len(p) + 1
PROOF
  <1>1. p \in Paths /\ Len(p) \in Nat
    BY DEF IsTree, Paths
  <1>2. Len(Append(p, c)) = Len(p) + 1 /\ Append(p, c) \in Paths
    BY <1>1 DEF Paths
  <1> QED BY <1>1, <1>2, HeightBounds

-----------------------------------------------------------------------------
(***************************************************************************)
(* What is still to be written: the recursions along a tree end because    *)
(* each of their calls leaves less of it.                                  *)
(***************************************************************************)
Places(t) == (DOMAIN t) \X (0..(NumUsed + 1))
Rest(t, x)   == (Height(t) - Len(x[1])) * (NumUsed + 2) + x[2]

LEMMA PlaceOfANode ==
  ASSUME NEW t, NEW p \in DOMAIN t
  PROVE  <<p, NumUsed + 1>> \in Places(t)
PROOF
  <1>1. NumUsed + 1 \in 0..(NumUsed + 1)
    BY CodesToCome
  <1> QED BY <1>1, Zenon DEF Places

LEMMA RestIsNat ==
  ASSUME NEW t, IsTree(t), NEW x \in Places(t)
  PROVE  /\ x = <<x[1], x[2]>> /\ x[1] \in DOMAIN t /\ x[2] \in 0..(NumUsed + 1)
         /\ Rest(t, x) \in Nat /\ Rest(t, x) < (Height(t) + 1) * (NumUsed + 2)
PROOF
  <1>1. x = <<x[1], x[2]>> /\ x[1] \in DOMAIN t /\ x[2] \in 0..(NumUsed + 1)
    BY DEF Places
  <1>2. Len(x[1]) \in 0..Height(t)
    BY <1>1, HeightBounds
  <1> DEFINE a == Height(t) - Len(x[1])
             n == NumUsed + 2
  <1>3. a \in Nat /\ n \in Nat /\ a <= Height(t) /\ Height(t) \in Nat /\ x[2] \in Nat /\ x[2] < n
    BY <1>1, <1>2, HeightBounds, CodesToCome
  <1> HIDE DEF a, n
  <1>4. a * n \in Nat /\ a * n <= Height(t) * n /\ (Height(t) + 1) * n = Height(t) * n + n
    BY <1>3
  <1>5. a * n + x[2] \in Nat /\ a * n + x[2] < (Height(t) + 1) * n
    BY <1>3, <1>4
  <1> QED BY <1>1, <1>5 DEF Rest, a, n

\* A node's children, then each of them and those before it.
LEMMA RestFalls ==
  ASSUME NEW t, IsTree(t), NEW p \in DOMAIN t
  PROVE  /\ Rest(t, <<p, NumUsed>>) < Rest(t, <<p, NumUsed + 1>>)
         /\ \A c \in 1..NumUsed :
              /\ Rest(t, <<p, c - 1>>) < Rest(t, <<p, c>>)
              /\ Append(p, ToCome(c)) \in DOMAIN t =>
                   Rest(t, <<Append(p, ToCome(c)), NumUsed + 1>>) < Rest(t, <<p, c>>)
PROOF
  <1> DEFINE a == Height(t) - Len(p)
             n == NumUsed + 2
  <1>1. a \in Nat /\ n \in Nat /\ NumUsed \in Nat /\ a * n \in Int
    <2>1. Len(p) \in Nat /\ Len(p) <= Height(t) /\ Height(t) \in Nat /\ NumUsed \in Nat
      BY HeightBounds, CodesToCome
    <2>2. a \in Nat /\ n \in Nat
      BY <2>1
    <2> HIDE DEF a, n
    <2> QED BY <2>1, <2>2
  <1>2. \A c : Rest(t, <<p, c>>) = a * n + c
    BY DEF Rest
  <1>3. ASSUME NEW c \in 1..NumUsed, Append(p, ToCome(c)) \in DOMAIN t
        PROVE  Rest(t, <<Append(p, ToCome(c)), NumUsed + 1>>) < Rest(t, <<p, c>>)
    <2>1. Len(Append(p, ToCome(c))) = Len(p) + 1 /\ Len(p) \in Nat /\ Len(p) + 1 <= Height(t)
      <3>1. ToCome(c) \in UsedCodes
        BY CodesToCome
      <3> QED BY <1>3, <3>1, ChildIsBelow
    <2>2. Rest(t, <<Append(p, ToCome(c)), NumUsed + 1>>) = (a - 1) * n + (NumUsed + 1)
      BY <2>1, HeightBounds, CodesToCome DEF Rest
    <2>3. (a - 1) * n = a * n - n
      <3> HIDE DEF a, n
      <3> QED BY <1>1
    <2>4. (a - 1) * n + (NumUsed + 1) = a * n - 1
      <3> DEFINE b == (a - 1) * n
                 d == a * n
      <3>1. b = d - n /\ n = NumUsed + 2 /\ d \in Int /\ NumUsed \in Nat
        BY <1>1, <2>3
      <3>2. b + (NumUsed + 1) = d - 1
        <4> HIDE DEF b, d, n
        <4> QED BY <3>1
      <3> QED BY <3>2
    <2>5. Rest(t, <<p, c>>) = a * n + c
      BY <1>2
    <2> HIDE DEF a, n
    <2> QED BY <1>1, <2>2, <2>4, <2>5
  <1>4. ASSUME NEW c \in 1..NumUsed
        PROVE  Rest(t, <<p, c - 1>>) < Rest(t, <<p, c>>)
    <2>1. Rest(t, <<p, c - 1>>) = a * n + (c - 1) /\ Rest(t, <<p, c>>) = a * n + c
      BY <1>2
    <2> HIDE DEF a, n
    <2> QED BY <1>1, <2>1
  <1>5. Rest(t, <<p, NumUsed>>) < Rest(t, <<p, NumUsed + 1>>)
    <2>1. /\ Rest(t, <<p, NumUsed>>) = a * n + NumUsed
          /\ Rest(t, <<p, NumUsed + 1>>) = a * n + (NumUsed + 1)
      BY <1>2
    <2> HIDE DEF a, n
    <2> QED BY <1>1, <2>1
  <1> QED BY <1>3, <1>4, <1>5

\* What holds of a place if it holds wherever less is left holds everywhere.
LEMMA AlongTheRest ==
  ASSUME NEW t, IsTree(t), NEW Good,
         \A x \in Places(t) : (\A y \in Places(t) : Rest(t, y) < Rest(t, x) => y \in Good) => x \in Good
  PROVE  \A x \in Places(t) : x \in Good
PROOF
  <1> SUFFICES ASSUME NEW x \in Places(t), x \notin Good
               PROVE  FALSE
    OBVIOUS
  <1> DEFINE R == {Rest(t, y) : y \in {y \in Places(t) : y \notin Good}}
  <1>1. R \in SUBSET Nat /\ R # {}
    BY RestIsNat
  <1>2. PICK m \in R : \A n \in R : m <= n
    <2> HIDE DEF R
    <2> QED BY <1>1, LeastExists
  <1>3. PICK y \in Places(t) : y \notin Good /\ m = Rest(t, y)
    BY <1>2
  <1>4. ASSUME NEW z \in Places(t), Rest(t, z) < Rest(t, y)
        PROVE  z \in Good
    <2>1. z \notin Good => Rest(t, y) <= Rest(t, z)
      BY <1>2, <1>3
    <2>2. Rest(t, z) \in Nat /\ Rest(t, y) \in Nat
      BY RestIsNat
    <2> QED BY <1>4, <2>1, <2>2
  <1> QED BY <1>3, <1>4

-----------------------------------------------------------------------------
(* Writing: what is defined by the recursion of Stream satisfies it.       *)

WriteStep(t, w, x) ==
  LET p     == x[1]
      k     == x[2]
      child == Append(p, ToCome(k))
  IN  IF k = 0 THEN <<>>
      ELSE IF k > NumUsed
      THEN (IF HasChildren(t, p) THEN << Sign("C") >> \o w[<<p, NumUsed>>] ELSE << Sign("N") >>)
           \o << Entry(t[p]) >>
      ELSE IF child \in DOMAIN t
      THEN << Sign("1") >> \o w[<<child, NumUsed + 1>>] \o w[<<p, k - 1>>]
      ELSE << Sign("0") >> \o w[<<p, k - 1>>]

IsWriter(t, w) == w = [x \in (DOMAIN t) \X (0..(NumUsed + 1)) |-> WriteStep(t, w, x)]

\* The three kinds of places: no more children, a child, a node.
LEMMA KindsOfPlaces ==
  ASSUME NEW t, IsTree(t), NEW x \in Places(t)
  PROVE  \/ x[2] = 0
         \/ x[2] \in 1..NumUsed /\ ToCome(x[2]) \in UsedCodes /\ <<x[1], x[2] - 1>> \in Places(t)
         \/ x[2] = NumUsed + 1 /\ x[2] > NumUsed /\ <<x[1], NumUsed>> \in Places(t)
PROOF
  <1>1. NumUsed \in Nat /\ x[1] \in DOMAIN t /\ x[2] \in 0..(NumUsed + 1)
    BY CodesToCome, RestIsNat
  <1>2. CASE x[2] = 0
    BY <1>2
  <1>3. CASE x[2] \in 1..NumUsed
    <2>1. ToCome(x[2]) \in UsedCodes /\ x[2] - 1 \in 0..(NumUsed + 1)
      BY <1>1, <1>3, CodesToCome
    <2> QED BY <1>1, <1>3, <2>1 DEF Places
  <1>4. CASE x[2] = NumUsed + 1
    <2>1. NumUsed \in 0..(NumUsed + 1) /\ x[2] > NumUsed
      BY <1>1, <1>4
    <2> QED BY <1>1, <1>4, <2>1 DEF Places
  <1> QED BY <1>1, <1>2, <1>3, <1>4

\* A step of writing looks only at places with less of the tree left.
LEMMA WriteStepIsLocal ==
  ASSUME NEW t, IsTree(t), NEW x \in Places(t), NEW v, NEW w,
         \A y \in Places(t) : Rest(t, y) < Rest(t, x) => v[y] = w[y]
  PROVE  WriteStep(t, v, x) = WriteStep(t, w, x)
PROOF
  <1> DEFINE p == x[1]
             c == x[2]
  <1>1. NumUsed \in Nat /\ x = <<p, c>> /\ p \in DOMAIN t /\ c \in 0..(NumUsed + 1)
    BY CodesToCome, RestIsNat
  <1>2. CASE c = 0
    BY <1>2 DEF WriteStep
  <1>3. CASE c = NumUsed + 1 /\ c > NumUsed
    <2>1. <<p, NumUsed>> \in Places(t) /\ Rest(t, <<p, NumUsed>>) < Rest(t, x)
      BY <1>1, <1>3, RestFalls DEF Places
    <2>2. v[<<p, NumUsed>>] = w[<<p, NumUsed>>]
      BY <2>1
    <2>3. c # 0
      BY <1>1, <1>3
    <2> QED BY <1>3, <2>2, <2>3 DEF WriteStep
  <1>4. CASE c \in 1..NumUsed
    <2>1. <<p, c - 1>> \in Places(t) /\ Rest(t, <<p, c - 1>>) < Rest(t, x)
      <3>1. <<p, c - 1>> \in Places(t)
        BY <1>1, <1>4 DEF Places
      <3>2. Rest(t, <<p, c - 1>>) < Rest(t, <<p, c>>)
        BY <1>1, <1>4, RestFalls
      <3> QED BY <1>1, <3>1, <3>2
    <2>2. v[<<p, c - 1>>] = w[<<p, c - 1>>]
      BY <2>1
    <2>3. c # 0 /\ ~(c > NumUsed)
      BY <1>1, <1>4
    <2>4. ASSUME Append(p, ToCome(c)) \in DOMAIN t
          PROVE  v[<<Append(p, ToCome(c)), NumUsed + 1>>] = w[<<Append(p, ToCome(c)), NumUsed + 1>>]
      <3>1. <<Append(p, ToCome(c)), NumUsed + 1>> \in Places(t)
        BY <2>4, PlaceOfANode
      <3>2. Rest(t, <<Append(p, ToCome(c)), NumUsed + 1>>) < Rest(t, x)
        BY <1>1, <1>4, <2>4, RestFalls
      <3> QED BY <3>1, <3>2
    <2> QED BY <2>2, <2>3, <2>4 DEF WriteStep
  <1> QED BY <1>1, <1>2, <1>3, <1>4, KindsOfPlaces

\* So there is one, for any tree, and what Stream writes is written by one.
LEMMA WriterExists ==
  ASSUME NEW t, IsTree(t)
  PROVE  \E w : IsWriter(t, w)
PROOF
  <1> DEFINE Upto(w, n) == \A x \in Places(t) : Rest(t, x) < n => w[x] = WriteStep(t, w, x)
             S == {n \in Nat : \E w : Upto(w, n)}
  <1>1. 0 \in S
    <2>1. \A x \in Places(t) : ~(Rest(t, x) < 0)
      BY RestIsNat
    <2> QED BY <2>1
  <1>2. ASSUME NEW n \in Nat, n \in S
        PROVE  n + 1 \in S
    <2>1. PICK w : Upto(w, n)
      BY <1>2
    <2> DEFINE v == [x \in Places(t) |-> WriteStep(t, w, x)]
    <2>2. ASSUME NEW x \in Places(t), Rest(t, x) < n + 1
          PROVE  v[x] = WriteStep(t, v, x)
      <3>1. ASSUME NEW y \in Places(t), Rest(t, y) < Rest(t, x)
            PROVE  v[y] = w[y]
        <4>1. Rest(t, y) \in Nat /\ Rest(t, x) \in Nat
          BY RestIsNat
        <4>2. Rest(t, y) < n
          BY <2>2, <3>1, <4>1
        <4> QED BY <2>1, <4>2
      <3>2. WriteStep(t, v, x) = WriteStep(t, w, x)
        <4> HIDE DEF v
        <4> QED BY <3>1, WriteStepIsLocal
      <3> QED BY <3>2
    <2>3. Upto(v, n + 1)
      BY <2>2
    <2>4. \E u : Upto(u, n + 1)
      <3> HIDE DEF Upto
      <3> QED BY <2>3
    <2> QED BY <2>4
  <1>3. Nat \subseteq S
    <2> HIDE DEF S
    <2> QED BY <1>1, <1>2, NatInductionInSet
  <1> DEFINE m == (Height(t) + 1) * (NumUsed + 2)
  <1>4. m \in Nat
    BY CodesToCome, HeightBounds
  <1>5. PICK w : Upto(w, m)
    BY <1>3, <1>4
  <1> DEFINE u == [x \in Places(t) |-> w[x]]
  <1>6. ASSUME NEW x \in Places(t)
        PROVE  u[x] = WriteStep(t, u, x)
    <2>1. Rest(t, x) < m
      BY RestIsNat
    <2>2. w[x] = WriteStep(t, w, x)
      BY <1>5, <2>1
    <2>3. \A y \in Places(t) : u[y] = w[y]
      OBVIOUS
    <2>4. WriteStep(t, u, x) = WriteStep(t, w, x)
      <3> HIDE DEF u
      <3> QED BY <2>3, WriteStepIsLocal
    <2>5. u[x] = w[x]
      BY <2>3
    <2> HIDE DEF u
    <2> QED BY <2>2, <2>4, <2>5
  <1>7. u = [x \in Places(t) |-> WriteStep(t, u, x)]
    BY <1>6
  <1> QED BY <1>7 DEF IsWriter, Places

LEMMA WriterOfStream ==
  ASSUME NEW t, IsTree(t)
  PROVE  \E w : IsWriter(t, w) /\ Stream(t) = w[<< <<>>, NumUsed + 1 >>]
PROOF
  <1>1. \E w : IsWriter(t, w)
    BY WriterExists
  <1>2. IsWriter(t, CHOOSE w : IsWriter(t, w))
    BY <1>1, Zenon
  <1>3. Stream(t) = (CHOOSE w : IsWriter(t, w))[<< <<>>, NumUsed + 1 >>]
    BY Zenon DEF Stream, IsWriter, WriteStep
  <1> QED BY <1>2, <1>3, Zenon

-----------------------------------------------------------------------------
(* What is written is a sequence of tokens.                                *)

Marks == [chr : {"0", "1", "C", "N"}] \cup [chr : {"i"}, elements : Seq(Elements)]

LEMMA PartsAreTokens ==
  ASSUME NEW els \in Seq(Elements)
  PROVE  /\ Sign("0") \in Marks /\ Sign("1") \in Marks /\ Sign("C") \in Marks /\ Sign("N") \in Marks
         /\ Entry(els) \in Marks /\ Entry(els).elements = els
         /\ Sign("0").chr = "0" /\ Sign("1").chr = "1" /\ Sign("C").chr = "C" /\ Sign("N").chr = "N"
PROOF BY DEF Marks, Sign, Entry

LEMMA WriterWritesTokens ==
  ASSUME NEW t, IsTree(t), NEW w, IsWriter(t, w)
  PROVE  \A x \in Places(t) : w[x] \in Seq(Marks) /\ w[x] = WriteStep(t, w, x)
PROOF
  <1>1. \A x \in Places(t) : w[x] = WriteStep(t, w, x)
    BY DEF IsWriter, Places
  <1> DEFINE Good == {x \in Places(t) : w[x] \in Seq(Marks)}
  <1>2. ASSUME NEW x \in Places(t), \A y \in Places(t) : Rest(t, y) < Rest(t, x) => y \in Good
        PROVE  w[x] \in Seq(Marks)
    <2> DEFINE p == x[1]
               c == x[2]
    <2>1. NumUsed \in Nat /\ x = <<p, c>> /\ p \in DOMAIN t /\ c \in 0..(NumUsed + 1)
      BY CodesToCome, RestIsNat
    <2>2. w[x] = WriteStep(t, w, x) /\ t[p] \in Seq(Elements)
      BY <1>1, <2>1 DEF IsTree
    <2>3. /\ <<Sign("C")>> \in Seq(Marks) /\ <<Sign("N")>> \in Seq(Marks)
          /\ <<Sign("0")>> \in Seq(Marks) /\ <<Sign("1")>> \in Seq(Marks)
          /\ <<Entry(t[p])>> \in Seq(Marks)
      <3>1. /\ Sign("0") \in Marks /\ Sign("1") \in Marks /\ Sign("C") \in Marks /\ Sign("N") \in Marks
            /\ Entry(t[p]) \in Marks
        BY <2>2, PartsAreTokens
      <3> QED BY <3>1
    <2>4. CASE c = 0
      <3>1. w[x] = <<>>
        BY <2>2, <2>4 DEF WriteStep
      <3> QED BY <3>1
    <2>5. CASE c = NumUsed + 1 /\ c > NumUsed
      <3>1. c # 0 /\ <<p, NumUsed>> \in Places(t) /\ Rest(t, <<p, NumUsed>>) < Rest(t, x)
        BY <2>1, <2>5, RestFalls DEF Places
      <3>2. w[<<p, NumUsed>>] \in Seq(Marks)
        BY <1>2, <3>1
      <3>3. CASE ~HasChildren(t, p)
        <4>1. w[x] = <<Sign("N")>> \o <<Entry(t[p])>>
          BY <2>2, <2>5, <3>1, <3>3 DEF WriteStep
        <4> QED BY <2>3, <4>1
      <3>4. CASE HasChildren(t, p)
        <4>1. w[x] = (<<Sign("C")>> \o w[<<p, NumUsed>>]) \o <<Entry(t[p])>>
          BY <2>2, <2>5, <3>1, <3>4 DEF WriteStep
        <4> QED BY <2>3, <3>2, <4>1
      <3> QED BY <3>3, <3>4
    <2>6. CASE c \in 1..NumUsed
      <3>1. c # 0 /\ ~(c > NumUsed) /\ <<p, c - 1>> \in Places(t) /\ Rest(t, <<p, c - 1>>) < Rest(t, x)
        <4>1. c # 0 /\ ~(c > NumUsed) /\ <<p, c - 1>> \in Places(t)
          BY <2>1, <2>6 DEF Places
        <4>2. Rest(t, <<p, c - 1>>) < Rest(t, <<p, c>>)
          BY <2>1, <2>6, RestFalls
        <4> QED BY <2>1, <4>1, <4>2
      <3>2. w[<<p, c - 1>>] \in Seq(Marks)
        BY <1>2, <3>1
      <3>3. CASE Append(p, ToCome(c)) \in DOMAIN t
        <4>1. <<Append(p, ToCome(c)), NumUsed + 1>> \in Places(t)
          BY <3>3, PlaceOfANode
        <4>2. Rest(t, <<Append(p, ToCome(c)), NumUsed + 1>>) < Rest(t, x)
          BY <2>1, <2>6, <3>3, RestFalls
        <4>3. w[<<Append(p, ToCome(c)), NumUsed + 1>>] \in Seq(Marks)
          BY <1>2, <4>1, <4>2
        <4>4. w[x] = <<Sign("1")>> \o w[<<Append(p, ToCome(c)), NumUsed + 1>>] \o w[<<p, c - 1>>]
          BY <2>2, <3>1, <3>3 DEF WriteStep
        <4> QED BY <2>3, <3>2, <4>3, <4>4
      <3>4. CASE Append(p, ToCome(c)) \notin DOMAIN t
        <4>1. w[x] = <<Sign("0")>> \o w[<<p, c - 1>>]
          BY <2>2, <3>1, <3>4 DEF WriteStep
        <4> QED BY <2>3, <3>2, <4>1
      <3> QED BY <3>3, <3>4
    <2> QED BY <2>1, <2>4, <2>5, <2>6, KindsOfPlaces
  <1>3. \A x \in Places(t) : x \in Good
    <2>1. \A x \in Places(t) : (\A y \in Places(t) : Rest(t, y) < Rest(t, x) => y \in Good) => x \in Good
      BY <1>2
    <2> HIDE DEF Good
    <2> QED BY <2>1, AlongTheRest
  <1> QED BY <1>1, <1>3

-----------------------------------------------------------------------------
(* Reading: what is defined by the recursion of ReadBack satisfies it.     *)

ReadStep(s, r, x) ==
  LET i        == x[1]
      k        == x[2]
      nothing  == [next |-> i, nodes |-> <<>>]
      children == IF s[i].chr = "C" THEN r[<<i + 1, NumUsed>>] ELSE [nothing EXCEPT !.next = i + 1]
      child    == r[<<i + 1, NumUsed + 1>>]
      others   == r[<<child.next, k - 1>>]
  IN  IF k = 0 \/ i > Len(s) THEN nothing
      ELSE IF k > NumUsed
      THEN IF children.next > Len(s) THEN nothing
           ELSE [next  |-> children.next + 1,
                 nodes |-> WithRoot(s[children.next].elements, children.nodes)]
      ELSE IF s[i].chr = "0" THEN r[<<i + 1, k - 1>>]
      ELSE [next |-> others.next, nodes |-> Beside(ToCome(k), child.nodes, others.nodes)]

Positions(s)   == (1..(Len(s) + 1)) \X (0..(NumUsed + 1))
IsReader(s, r) == r = [x \in (1..(Len(s) + 1)) \X (0..(NumUsed + 1)) |-> ReadStep(s, r, x)]

\* A step of reading looks only at later positions, and ends at one.
LEMMA ReadStepIsLocal ==
  ASSUME NEW s, Len(s) \in Nat, NEW x \in Positions(s), NEW v, NEW r,
         \A y \in Positions(s) : y[1] > x[1] => v[y] = r[y] /\ r[y].next \in y[1]..(Len(s) + 1)
  PROVE  /\ ReadStep(s, v, x) = ReadStep(s, r, x)
         /\ ReadStep(s, r, x).next \in x[1]..(Len(s) + 1)
PROOF
  <1> DEFINE i == x[1]
             c == x[2]
             n == NumUsed
  <1>1. n \in Nat /\ i \in 1..(Len(s) + 1) /\ c \in 0..(n + 1) /\ x = <<i, c>>
    BY CodesToCome DEF Positions
  <1>2. CASE c = 0 \/ i > Len(s)
    <2>1. ReadStep(s, v, x) = [next |-> i, nodes |-> <<>>] /\ ReadStep(s, r, x) = [next |-> i, nodes |-> <<>>]
      BY <1>2 DEF ReadStep
    <2> QED BY <1>1, <2>1
  <1>3. CASE ~(c = 0 \/ i > Len(s)) /\ c > n
    <2>1. <<i + 1, n>> \in Positions(s) /\ i + 1 > i /\ i + 1 \in i..(Len(s) + 1)
      BY <1>1, <1>3 DEF Positions
    <2>2. /\ v[<<i + 1, n>>] = r[<<i + 1, n>>]
          /\ r[<<i + 1, n>>].next \in (i + 1)..(Len(s) + 1)
      BY <2>1
    <2> DEFINE nothing  == [next |-> i, nodes |-> <<>>]
               children == IF s[i].chr = "C" THEN r[<<i + 1, n>>] ELSE [nothing EXCEPT !.next = i + 1]
               node1    == [next  |-> children.next + 1,
                            nodes |-> WithRoot(s[children.next].elements, children.nodes)]
    <2>3. /\ ReadStep(s, r, x) = IF children.next > Len(s) THEN nothing ELSE node1
          /\ ReadStep(s, v, x) = ReadStep(s, r, x)
      BY <1>3, <2>2 DEF ReadStep
    <2>4. children.next \in i..(Len(s) + 1)
      BY <1>1, <2>1, <2>2
    <2>5. nothing.next \in i..(Len(s) + 1)
      BY <1>1
    <2>6. ~(children.next > Len(s)) => node1.next \in i..(Len(s) + 1)
      <3> HIDE DEF children
      <3> QED BY <1>1, <2>4
    <2> HIDE DEF children, nothing, node1
    <2> QED BY <2>3, <2>5, <2>6
  <1>4. CASE ~(c = 0 \/ i > Len(s)) /\ ~(c > n) /\ s[i].chr = "0"
    <2>1. <<i + 1, c - 1>> \in Positions(s) /\ i + 1 > i
      BY <1>1, <1>4 DEF Positions
    <2>2. /\ v[<<i + 1, c - 1>>] = r[<<i + 1, c - 1>>]
          /\ r[<<i + 1, c - 1>>].next \in (i + 1)..(Len(s) + 1)
      BY <2>1
    <2>3. ReadStep(s, v, x) = v[<<i + 1, c - 1>>] /\ ReadStep(s, r, x) = r[<<i + 1, c - 1>>]
      BY <1>4 DEF ReadStep
    <2> QED BY <1>1, <2>2, <2>3
  <1>5. CASE ~(c = 0 \/ i > Len(s)) /\ ~(c > n) /\ s[i].chr # "0"
    <2> DEFINE m == r[<<i + 1, n + 1>>].next
    <2>1. <<i + 1, n + 1>> \in Positions(s) /\ i + 1 > i
      BY <1>1, <1>5 DEF Positions
    <2>2. v[<<i + 1, n + 1>>] = r[<<i + 1, n + 1>>] /\ m \in (i + 1)..(Len(s) + 1)
      BY <2>1
    <2>3. <<m, c - 1>> \in Positions(s) /\ m > i
      BY <1>1, <1>5, <2>2 DEF Positions
    <2>4. v[<<m, c - 1>>] = r[<<m, c - 1>>] /\ r[<<m, c - 1>>].next \in m..(Len(s) + 1)
      BY <2>3
    <2>5. /\ ReadStep(s, r, x) = [next  |-> r[<<m, c - 1>>].next,
                                  nodes |-> Beside(ToCome(c), r[<<i + 1, n + 1>>].nodes, r[<<m, c - 1>>].nodes)]
          /\ ReadStep(s, v, x) = ReadStep(s, r, x)
      BY <1>5, <2>2, <2>4 DEF ReadStep
    <2>6. r[<<m, c - 1>>].next \in i..(Len(s) + 1)
      <3> HIDE DEF m
      <3> QED BY <1>1, <2>2, <2>4
    <2> QED BY <2>5, <2>6
  <1> QED BY <1>2, <1>3, <1>4, <1>5

\* So there is one, for any sequence, and ReadBack reads as it does.
LEMMA ReaderExists ==
  ASSUME NEW s, Len(s) \in Nat
  PROVE  \E r : IsReader(s, r)
PROOF
  <1> DEFINE l == Len(s)
             Late(x, n) == l + 1 - x[1] < n
             Upto(r, n) == \A x \in Positions(s) : Late(x, n) =>
                             r[x] = ReadStep(s, r, x) /\ r[x].next \in x[1]..(l + 1)
             S == {n \in Nat : \E r : Upto(r, n)}
  <1>0. \A x \in Positions(s) : x[1] \in 1..(l + 1)
    BY DEF Positions
  <1>1. 0 \in S
    <2>1. \A x \in Positions(s) : ~Late(x, 0)
      BY <1>0
    <2> QED BY <2>1
  <1>2. ASSUME NEW n \in Nat, n \in S
        PROVE  n + 1 \in S
    <2>1. PICK r : Upto(r, n)
      BY <1>2
    <2> DEFINE v == [x \in Positions(s) |-> ReadStep(s, r, x)]
    <2>2. ASSUME NEW x \in Positions(s), Late(x, n + 1)
          PROVE  v[x] = ReadStep(s, v, x) /\ v[x].next \in x[1]..(l + 1)
      <3>1. ASSUME NEW y \in Positions(s), y[1] > x[1]
            PROVE  v[y] = r[y] /\ r[y].next \in y[1]..(l + 1)
        <4>1. Late(y, n)
          BY <1>0, <2>2, <3>1
        <4>2. r[y] = ReadStep(s, r, y) /\ r[y].next \in y[1]..(l + 1)
          BY <2>1, <4>1
        <4> QED BY <4>2
      <3>2. ReadStep(s, v, x) = ReadStep(s, r, x) /\ ReadStep(s, r, x).next \in x[1]..(l + 1)
        <4> HIDE DEF v
        <4> QED BY <3>1, ReadStepIsLocal
      <3> QED BY <3>2
    <2>3. Upto(v, n + 1)
      BY <2>2
    <2>4. \E u : Upto(u, n + 1)
      <3> HIDE DEF Upto
      <3> QED BY <2>3
    <2>5. n + 1 \in Nat
      OBVIOUS
    <2> HIDE DEF Upto
    <2> QED BY <2>4, <2>5
  <1>3. Nat \subseteq S
    <2> HIDE DEF S
    <2> QED BY <1>1, <1>2, NatInductionInSet
  <1>4. PICK r : Upto(r, l + 1)
    BY <1>3
  <1> DEFINE u == [x \in Positions(s) |-> r[x]]
  <1>5. ASSUME NEW x \in Positions(s)
        PROVE  r[x] = ReadStep(s, r, x) /\ r[x].next \in x[1]..(l + 1)
    <2>1. Late(x, l + 1)
      BY <1>0
    <2> QED BY <1>4, <2>1
  <1>6. ASSUME NEW x \in Positions(s)
        PROVE  u[x] = ReadStep(s, u, x)
    <2>1. \A y \in Positions(s) : u[y] = r[y]
      OBVIOUS
    <2>2. ReadStep(s, u, x) = ReadStep(s, r, x)
      <3> HIDE DEF u
      <3> QED BY <1>5, <2>1, ReadStepIsLocal
    <2>3. u[x] = r[x]
      BY <2>1
    <2> HIDE DEF u
    <2> QED BY <1>5, <2>2, <2>3
  <1>7. u = [x \in Positions(s) |-> ReadStep(s, u, x)]
    BY <1>6
  <1> QED BY <1>7 DEF IsReader, Positions

LEMMA ReaderOfStream ==
  ASSUME NEW s, Len(s) \in Nat
  PROVE  \E r : IsReader(s, r) /\ ReadBack(s) = r[<<1, NumUsed + 1>>].nodes
PROOF
  <1>1. \E r : IsReader(s, r)
    BY ReaderExists
  <1>2. IsReader(s, CHOOSE r : IsReader(s, r))
    BY <1>1, Zenon
  <1>3. ReadBack(s) = (CHOOSE r : IsReader(s, r))[<<1, NumUsed + 1>>].nodes
    BY Zenon DEF ReadBack, IsReader, ReadStep
  <1> QED BY <1>2, <1>3, Zenon

-----------------------------------------------------------------------------
(* What is written is read.                                                *)

\* From position i on, u is in s.
At(s, i, u) == /\ i \in 1..(Len(s) + 1) /\ i + Len(u) <= Len(s) + 1
               /\ \A j \in 1..Len(u) : s[i + j - 1] = u[j]

\* Two parts, one after the other, and three of them.
LEMMA AtBoth ==
  ASSUME NEW s \in Seq(Marks), NEW i, NEW u \in Seq(Marks), NEW v \in Seq(Marks),
         At(s, i, u \o v)
  PROVE  /\ At(s, i, u) /\ At(s, i + Len(u), v)
         /\ i \in Nat /\ Len(u \o v) = Len(u) + Len(v) /\ Len(u) \in Nat /\ Len(v) \in Nat
PROOF
  <1>1. /\ Len(s) \in Nat /\ Len(u) \in Nat /\ Len(v) \in Nat /\ Len(u \o v) = Len(u) + Len(v)
        /\ i \in 1..(Len(s) + 1) /\ i + Len(u) + Len(v) <= Len(s) + 1
    BY DEF At
  <1>2. ASSUME NEW j \in 1..Len(u)
        PROVE  s[i + j - 1] = u[j]
    <2>1. j \in 1..Len(u \o v) /\ (u \o v)[j] = u[j]
      BY <1>1
    <2> QED BY <2>1 DEF At
  <1>3. ASSUME NEW j \in 1..Len(v)
        PROVE  s[(i + Len(u)) + j - 1] = v[j]
    <2>1. Len(u) + j \in 1..Len(u \o v) /\ (u \o v)[Len(u) + j] = v[j]
      BY <1>1
    <2>2. i + (Len(u) + j) - 1 = (i + Len(u)) + j - 1
      BY <1>1
    <2>3. s[i + (Len(u) + j) - 1] = (u \o v)[Len(u) + j]
      BY <2>1 DEF At
    <2> QED BY <2>1, <2>2, <2>3
  <1>4. At(s, i, u)
    BY <1>1, <1>2 DEF At
  <1>5. At(s, i + Len(u), v)
    <2>1. i + Len(u) \in 1..(Len(s) + 1) /\ (i + Len(u)) + Len(v) <= Len(s) + 1
      BY <1>1
    <2> QED BY <1>3, <2>1 DEF At
  <1> QED BY <1>1, <1>4, <1>5

LEMMA AtToken ==
  ASSUME NEW s \in Seq(Marks), NEW i, NEW a \in Marks, At(s, i, <<a>>)
  PROVE  s[i] = a /\ i \in 1..Len(s) /\ Len(<<a>>) = 1
PROOF
  <1>1. Len(<<a>>) = 1 /\ <<a>>[1] = a /\ Len(s) \in Nat
    OBVIOUS
  <1>2. i \in 1..(Len(s) + 1) /\ i + 1 <= Len(s) + 1 /\ s[i + 1 - 1] = a
    BY <1>1 DEF At
  <1>3. i + 1 - 1 = i
    BY <1>1, <1>2
  <1> QED BY <1>1, <1>2, <1>3

\* The tree below a node, by the paths from there: its last c children, or the
\* node and all of them.
LastCodes(c)     == {ToCome(j) : j \in 1..c}
Below(t, p, c)   == {q \in Paths : p \o q \in DOMAIN t /\ (c > NumUsed \/ (q # <<>> /\ q[1] \in LastCodes(c)))}
SubTree(t, p, c) == [q \in Below(t, p, c) |-> t[p \o q]]

\* The codes to come: none, one more, all.
LEMMA LastCodesAre ==
  /\ LastCodes(0) = {}
  /\ \A c \in 1..NumUsed : /\ ToCome(c) \in UsedCodes /\ ToCome(c) \notin LastCodes(c - 1)
                           /\ LastCodes(c) = LastCodes(c - 1) \cup {ToCome(c)}
  /\ UsedCodes \subseteq LastCodes(NumUsed)
PROOF
  <1>1. LastCodes(0) = {}
    BY DEF LastCodes
  <1>2. ASSUME NEW c \in 1..NumUsed
        PROVE  /\ ToCome(c) \in UsedCodes /\ ToCome(c) \notin LastCodes(c - 1)
               /\ LastCodes(c) = LastCodes(c - 1) \cup {ToCome(c)}
    <2>1. NumUsed \in Nat /\ ToCome(c) \in UsedCodes
      BY CodesToCome
    <2>2. \A j \in 1..(c - 1) : j \in 1..NumUsed /\ j # c
      BY <2>1
    <2>3. \A j \in 1..(c - 1) : ToCome(j) # ToCome(c)
      BY <2>2, CodesToCome
    <2>4. \A j : j \in 1..c <=> j \in 1..(c - 1) \/ j = c
      BY <2>1
    <2>5. 1..c = (1..(c - 1)) \cup {c}
      BY <2>4
    <2> QED BY <2>1, <2>3, <2>5, Zenon DEF LastCodes
  <1>3. UsedCodes \subseteq LastCodes(NumUsed)
    BY CodesToCome, Zenon DEF LastCodes
  <1> QED BY <1>1, <1>2, <1>3

\* What there is of a tree below a place, from that of the next places.
LEMMA NoChildren ==
  ASSUME NEW t, NEW p
  PROVE  SubTree(t, p, 0) = <<>>
PROOF
  <1>1. ~(0 > NumUsed)
    BY CodesToCome
  <1>2. Below(t, p, 0) = {}
    BY <1>1, LastCodesAre DEF Below
  <1> QED BY <1>2 DEF SubTree

\* The node itself above its children.
LEMMA NodeAndChildren ==
  ASSUME NEW t, IsTree(t), NEW p \in DOMAIN t
  PROVE  SubTree(t, p, NumUsed + 1) = WithRoot(t[p], SubTree(t, p, NumUsed))
PROOF
  <1> DEFINE n == NumUsed
  <1>1. n \in Nat /\ p \in Paths
    BY CodesToCome DEF IsTree
  <1>2. p \o <<>> = p /\ <<>> \in Paths
    BY <1>1 DEF Paths
  <1>3. ASSUME NEW q \in Paths, q # <<>>
        PROVE  q[1] \in LastCodes(n)
    <2>1. q[1] \in UsedCodes
      BY <1>3, FirstStep
    <2> QED BY <2>1, LastCodesAre
  <1>4. \A q : q \in Below(t, p, n + 1) <=> q \in {<<>>} \cup Below(t, p, n)
    <2>1. n + 1 > NumUsed /\ ~(n > NumUsed)
      BY <1>1
    <2>2. \A q : q \in Below(t, p, n + 1) <=> q \in Paths /\ p \o q \in DOMAIN t
      BY <2>1 DEF Below
    <2>3. \A q : q \in Below(t, p, n) <=> q \in Paths /\ p \o q \in DOMAIN t /\ q # <<>>
      BY <1>3, <2>1 DEF Below
    <2> QED BY <1>2, <2>2, <2>3
  <1>5. Below(t, p, n + 1) = {<<>>} \cup Below(t, p, n)
    <2> HIDE DEF n
    <2> QED BY <1>4
  <1>6. ASSUME NEW q \in Below(t, p, n + 1)
        PROVE  t[p \o q] = IF q = <<>> THEN t[p] ELSE SubTree(t, p, n)[q]
    <2>1. CASE q = <<>>
      BY <1>2, <2>1
    <2>2. CASE q # <<>>
      <3>1. q \in Below(t, p, n)
        BY <1>5, <2>2
      <3> QED BY <2>2, <3>1 DEF SubTree
    <2> QED BY <2>1, <2>2
  <1>7. DOMAIN SubTree(t, p, n) = Below(t, p, n)
    BY DEF SubTree
  <1> QED BY <1>5, <1>6, <1>7 DEF WithRoot, SubTree

\* A child beside those after it.
LEMMA ChildBesideOthers ==
  ASSUME NEW t, IsTree(t), NEW p \in DOMAIN t, NEW c \in 1..NumUsed, Append(p, ToCome(c)) \in DOMAIN t
  PROVE  SubTree(t, p, c)
           = Beside(ToCome(c), SubTree(t, Append(p, ToCome(c)), NumUsed + 1), SubTree(t, p, c - 1))
PROOF
  <1> DEFINE n == NumUsed
             d == ToCome(c)
             b == c - 1
             F == Below(t, Append(p, d), n + 1)
             f == SubTree(t, Append(p, d), n + 1)
             G == Below(t, p, b)
             g == SubTree(t, p, b)
  <1>1. n \in Nat /\ p \in Paths /\ d \in UsedCodes /\ ~(c > n) /\ ~(b > n) /\ n + 1 > n
    BY CodesToCome DEF IsTree
  <1>2. DOMAIN f = F /\ DOMAIN g = G
    BY DEF SubTree
  <1>0. d \notin LastCodes(b) /\ LastCodes(c) = LastCodes(b) \cup {d}
    BY LastCodesAre
  <1>3. ASSUME NEW q \in F
        PROVE  /\ <<d>> \o q \in Below(t, p, c) /\ <<d>> \o q \notin G
               /\ Tail(<<d>> \o q) = q /\ f[q] = t[p \o (<<d>> \o q)]
    <2>1. q \in Paths /\ Append(p, d) \o q \in DOMAIN t
      BY DEF Below
    <2>2. /\ <<d>> \o q \in Paths /\ <<d>> \o q # <<>> /\ (<<d>> \o q)[1] = d
          /\ Tail(<<d>> \o q) = q /\ p \o (<<d>> \o q) = Append(p, d) \o q
      <3> HIDE DEF d
      <3> QED BY <1>1, <2>1, StepBefore
    <2>3. <<d>> \o q \in Below(t, p, c)
      <3>1. (<<d>> \o q)[1] \in LastCodes(c)
        BY <1>0, <2>2
      <3> HIDE DEF d
      <3> QED BY <2>1, <2>2, <3>1 DEF Below
    <2>4. <<d>> \o q \notin G
      <3>1. (<<d>> \o q)[1] \notin LastCodes(b)
        BY <1>0, <2>2
      <3>2. ~(b > n)
        BY <1>1
      <3> HIDE DEF d, n, b
      <3> QED BY <3>1, <3>2 DEF Below, n
    <2>5. f[q] = t[Append(p, d) \o q]
      BY DEF SubTree
    <2> HIDE DEF d, f, F, G
    <2> QED BY <2>2, <2>3, <2>4, <2>5
  <1>4. ASSUME NEW q \in G
        PROVE  q \in Below(t, p, c) /\ g[q] = t[p \o q]
    <2>1. q \in Paths /\ p \o q \in DOMAIN t /\ q # <<>> /\ q[1] \in LastCodes(b)
      BY <1>1 DEF Below
    <2>2. q[1] \in LastCodes(c)
      BY <1>0, <2>1
    <2> QED BY <2>1, <2>2 DEF Below, SubTree
  <1>5. ASSUME NEW q \in Below(t, p, c), q \notin G
        PROVE  \E u \in F : q = <<d>> \o u
    <2>1. q \in Paths /\ p \o q \in DOMAIN t /\ q # <<>> /\ q[1] \in LastCodes(c)
      BY <1>1 DEF Below
    <2>2. q[1] \notin LastCodes(b)
      BY <1>5, <2>1 DEF Below
    <2>3. q[1] \in UsedCodes /\ Tail(q) \in Paths /\ q = <<q[1]>> \o Tail(q)
      BY <2>1, FirstStep
    <2>4. q[1] = d
      BY <1>0, <2>1, <2>2
    <2>5. p \o q = Append(p, d) \o Tail(q)
      <3>1. p \o (<<q[1]>> \o Tail(q)) = Append(p, q[1]) \o Tail(q)
        BY <1>1, <2>3, StepBefore
      <3> HIDE DEF d
      <3> QED BY <2>3, <2>4, <3>1
    <2>6. Tail(q) \in F
      BY <1>1, <2>1, <2>3, <2>5 DEF Below
    <2> QED BY <2>3, <2>4, <2>6
  <1>6. Below(t, p, c) = {<<d>> \o q : q \in F} \cup G
    <2> HIDE DEF d, F, G
    <2> QED BY <1>3, <1>4, <1>5
  <1>7. ASSUME NEW q \in Below(t, p, c)
        PROVE  t[p \o q] = IF q \in G THEN g[q] ELSE f[Tail(q)]
    <2>1. CASE q \in G
      BY <1>4, <2>1
    <2>2. CASE q \notin G
      <3>1. PICK u \in F : q = <<d>> \o u
        BY <1>5, <2>2
      <3>2. Tail(q) = u /\ f[u] = t[p \o q]
        BY <1>3, <3>1
      <3> HIDE DEF f, F, G, g, d
      <3> QED BY <2>2, <3>2
    <2> QED BY <2>1, <2>2
  <1> HIDE DEF d, F, G, f, g
  <1>8. SubTree(t, p, c) = [q \in {<<d>> \o u : u \in F} \cup G |-> IF q \in G THEN g[q] ELSE f[Tail(q)]]
    BY <1>6, <1>7 DEF SubTree
  <1>9. SubTree(t, p, c) = Beside(d, f, g)
    BY <1>2, <1>8 DEF Beside
  <1> QED BY <1>9 DEF d, f, g

LEMMA NoChildToAdd ==
  ASSUME NEW t, IsTree(t), NEW p \in DOMAIN t, NEW c \in 1..NumUsed, Append(p, ToCome(c)) \notin DOMAIN t
  PROVE  SubTree(t, p, c) = SubTree(t, p, c - 1)
PROOF
  <1>1. NumUsed \in Nat /\ ~(c > NumUsed) /\ ~(c - 1 > NumUsed)
    BY CodesToCome
  <1>2. ASSUME NEW q \in Paths, p \o q \in DOMAIN t, q # <<>>
        PROVE  q[1] # ToCome(c)
    <2>1. Append(p, q[1]) \in DOMAIN t
      BY <1>2, ChildOnTheWay
    <2> QED BY <2>1
  <1>3. LastCodes(c) = LastCodes(c - 1) \cup {ToCome(c)}
    BY LastCodesAre
  <1>4. \A q : q \in Below(t, p, c) <=> q \in Below(t, p, c - 1)
    BY <1>1, <1>2, <1>3 DEF Below
  <1>5. Below(t, p, c) = Below(t, p, c - 1)
    BY <1>4
  <1> QED BY <1>5 DEF SubTree

LEMMA LeafIsAlone ==
  ASSUME NEW t, IsTree(t), NEW p \in DOMAIN t, ~HasChildren(t, p)
  PROVE  SubTree(t, p, NumUsed) = <<>>
PROOF
  <1>1. ~(NumUsed > NumUsed)
    BY CodesToCome
  <1>2. ASSUME NEW q \in Paths, p \o q \in DOMAIN t, q # <<>>
        PROVE  FALSE
    BY <1>2, ChildOnTheWay
  <1>3. Below(t, p, NumUsed) = {}
    BY <1>1, <1>2 DEF Below
  <1> QED BY <1>3 DEF SubTree

LEMMA AtAllThree ==
  ASSUME NEW s \in Seq(Marks), NEW i, NEW u, NEW v, NEW z
  PROVE  u \in Seq(Marks) /\ v \in Seq(Marks) /\ z \in Seq(Marks) /\ At(s, i, (u \o v) \o z) =>
           /\ At(s, i, u) /\ At(s, i + Len(u), v) /\ At(s, i + Len(u) + Len(v), z)
           /\ Len((u \o v) \o z) = Len(u) + Len(v) + Len(z)
           /\ Len(u) \in Nat /\ Len(v) \in Nat /\ Len(z) \in Nat
PROOF
  <1> DEFINE b == u \o v
  <1>1. ASSUME u \in Seq(Marks), v \in Seq(Marks), z \in Seq(Marks), At(s, i, b \o z)
        PROVE  /\ At(s, i, u) /\ At(s, i + Len(u), v) /\ At(s, i + Len(u) + Len(v), z)
               /\ Len(b \o z) = Len(u) + Len(v) + Len(z)
               /\ Len(u) \in Nat /\ Len(v) \in Nat /\ Len(z) \in Nat
    <2>1. b \in Seq(Marks) /\ z \in Seq(Marks) /\ At(s, i, b \o z)
      BY <1>1
    <2> HIDE DEF b
    <2>2. At(s, i, b) /\ At(s, i + Len(b), z) /\ Len(b \o z) = Len(b) + Len(z) /\ Len(z) \in Nat /\ i \in Nat
      BY <2>1, AtBoth
    <2>3. /\ At(s, i, u) /\ At(s, i + Len(u), v) /\ Len(u \o v) = Len(u) + Len(v)
          /\ Len(u) \in Nat /\ Len(v) \in Nat
      <3>1. u \in Seq(Marks) /\ v \in Seq(Marks) /\ At(s, i, u \o v)
        BY <1>1, <2>2 DEF b
      <3> QED BY <3>1, AtBoth
    <2>4. Len(b) = Len(u) + Len(v)
      BY <2>3 DEF b
    <2>5. i + Len(b) = i + Len(u) + Len(v) /\ Len(b \o z) = Len(u) + Len(v) + Len(z)
      BY <2>2, <2>3, <2>4
    <2>6. At(s, i + Len(u) + Len(v), z)
      BY <2>2, <2>5
    <2> QED BY <2>2, <2>3, <2>5, <2>6
  <1> QED BY <1>1

\* Where the file has what was written of a place of the tree, that is read.
LEMMA PlacesAreReadAsWritten ==
  ASSUME NEW t, IsTree(t), NEW w, IsWriter(t, w),
         NEW s \in Seq(Marks), NEW r, IsReader(s, r)
  PROVE  \A x \in Places(t) : \A i : At(s, i, w[x]) =>
           r[<<i, x[2]>>] = [next |-> i + Len(w[x]), nodes |-> SubTree(t, x[1], x[2])]
PROOF
  <1> DEFINE n == NumUsed
             Fine(x) == \A i : At(s, i, w[x]) =>
                          r[<<i, x[2]>>] = [next |-> i + Len(w[x]), nodes |-> SubTree(t, x[1], x[2])]
             Good == {x \in Places(t) : Fine(x)}
  <1>1. \A x \in Places(t) : w[x] \in Seq(Marks) /\ w[x] = WriteStep(t, w, x)
    BY WriterWritesTokens
  <1>2. n \in Nat /\ Len(s) \in Nat
    BY CodesToCome
  <1>3. \A i \in 1..(Len(s) + 1), c \in 0..(n + 1) : r[<<i, c>>] = ReadStep(s, r, <<i, c>>)
    BY DEF IsReader
  <1>4. ASSUME NEW x \in Places(t), \A y \in Places(t) : Rest(t, y) < Rest(t, x) => y \in Good,
               NEW i, At(s, i, w[x])
        PROVE  r[<<i, x[2]>>] = [next |-> i + Len(w[x]), nodes |-> SubTree(t, x[1], x[2])]
    <2> DEFINE p == x[1]
               c == x[2]
    <2>1. x = <<p, c>> /\ p \in DOMAIN t /\ c \in 0..(n + 1) /\ t[p] \in Seq(Elements)
      BY RestIsNat DEF IsTree
    <2>2. w[x] \in Seq(Marks) /\ w[x] = WriteStep(t, w, x)
      BY <1>1
    <2>3. i \in 1..(Len(s) + 1) /\ i \in Nat
      BY <1>2, <1>4 DEF At
    <2>4. r[<<i, c>>] = ReadStep(s, r, <<i, c>>)
      BY <1>3, <2>1, <2>3
    <2>5. \A y \in Places(t) : Rest(t, y) < Rest(t, x) => Fine(y)
      BY <1>4
    <2> HIDE DEF Fine, Good
    <2>6. /\ Sign("C") \in Marks /\ Sign("N") \in Marks /\ Entry(t[p]) \in Marks
          /\ Sign("0") \in Marks /\ Sign("1") \in Marks
          /\ Sign("C").chr = "C" /\ Sign("N").chr = "N" /\ Entry(t[p]).elements = t[p]
          /\ Sign("0").chr = "0" /\ Sign("1").chr = "1"
      BY <2>1, PartsAreTokens
    <2>7. CASE c = 0
      <3>1. w[x] = <<>> /\ Len(w[x]) = 0
        BY <2>2, <2>7 DEF WriteStep
      <3>2. r[<<i, c>>] = [next |-> i, nodes |-> <<>>]
        BY <2>4, <2>7 DEF ReadStep
      <3>3. i + 0 = i
        BY <2>3
      <3> QED BY <2>7, <3>1, <3>2, <3>3, NoChildren
    <2>8. CASE c = n + 1 /\ c > n
      <3>1. <<p, n>> \in Places(t) /\ Rest(t, <<p, n>>) < Rest(t, x) /\ c # 0
        BY <1>2, <2>1, <2>8, RestFalls DEF Places
      <3> DEFINE z == <<Entry(t[p])>>
      <3>2. z \in Seq(Marks)
        BY <2>6
      <3>3. CASE ~HasChildren(t, p)
        <4> DEFINE a == <<Sign("N")>>
        <4>1. w[x] = a \o z
          BY <2>2, <2>8, <3>1, <3>3 DEF WriteStep
        <4>2. a \in Seq(Marks)
          BY <2>6
        <4>3. At(s, i, a) /\ At(s, i + Len(a), z) /\ Len(w[x]) = Len(a) + Len(z)
          <5> HIDE DEF a, z
          <5> QED BY <1>4, <3>2, <4>1, <4>2, AtBoth
        <4>4. s[i] = Sign("N") /\ i \in 1..Len(s) /\ Len(a) = 1
          BY <2>6, <4>3, AtToken
        <4>5. s[i + 1] = Entry(t[p]) /\ i + 1 \in 1..Len(s) /\ Len(z) = 1
          BY <2>6, <4>3, <4>4, AtToken
        <4>6. ~(i > Len(s)) /\ ~(i + 1 > Len(s)) /\ s[i].chr # "C" /\ s[i + 1].elements = t[p]
          BY <1>2, <2>6, <4>4, <4>5
        <4>7. r[<<i, c>>] = [next |-> i + 1 + 1, nodes |-> WithRoot(t[p], <<>>)]
          BY <2>4, <2>8, <3>1, <4>6 DEF ReadStep
        <4>8. SubTree(t, p, c) = WithRoot(t[p], <<>>)
          BY <2>1, <2>8, <3>3, LeafIsAlone, NodeAndChildren
        <4>9. i + Len(w[x]) = i + 1 + 1
          BY <2>3, <4>3, <4>4, <4>5
        <4> QED BY <4>7, <4>8, <4>9
      <3>4. CASE HasChildren(t, p)
        <4> DEFINE a == <<Sign("C")>>
                   u == w[<<p, n>>]
        <4>1. w[x] = (a \o u) \o z
          BY <2>2, <2>8, <3>1, <3>4 DEF WriteStep
        <4>2. a \in Seq(Marks) /\ u \in Seq(Marks)
          BY <1>1, <2>6, <3>1
        <4>3. /\ At(s, i, a) /\ At(s, i + Len(a), u) /\ At(s, i + Len(a) + Len(u), z)
              /\ Len(w[x]) = Len(a) + Len(u) + Len(z) /\ Len(u) \in Nat /\ Len(a) \in Nat
          <5> HIDE DEF a, u, z
          <5> QED BY <1>4, <3>2, <4>1, <4>2, AtAllThree
        <4>4. s[i] = Sign("C") /\ i \in 1..Len(s) /\ Len(a) = 1
          BY <2>6, <4>3, AtToken
        <4>5. s[i + 1 + Len(u)] = Entry(t[p]) /\ i + 1 + Len(u) \in 1..Len(s) /\ Len(z) = 1
          <5> HIDE DEF u
          <5> QED BY <2>6, <4>3, <4>4, AtToken
        <4>6. /\ ~(i > Len(s)) /\ ~(i + 1 + Len(u) > Len(s)) /\ s[i].chr = "C"
              /\ s[i + 1 + Len(u)].elements = t[p]
          <5> HIDE DEF u
          <5> QED BY <1>2, <2>6, <4>4, <4>5
        <4>7. r[<<i + 1, n>>] = [next |-> i + 1 + Len(u), nodes |-> SubTree(t, p, n)]
          <5>1. Fine(<<p, n>>)
            BY <2>5, <3>1
          <5> HIDE DEF n
          <5> QED BY <4>3, <4>4, <5>1 DEF Fine
        <4>8. r[<<i, c>>] = [next |-> i + 1 + Len(u) + 1, nodes |-> WithRoot(t[p], SubTree(t, p, n))]
          <5> HIDE DEF u
          <5> QED BY <2>4, <2>8, <3>1, <4>6, <4>7 DEF ReadStep
        <4>9. i + Len(w[x]) = i + 1 + Len(u) + 1
          <5>1. Len(w[x]) = 1 + Len(u) + 1 /\ Len(u) \in Nat
            <6> HIDE DEF a, u, z
            <6> QED BY <4>3, <4>4, <4>5
          <5> HIDE DEF u
          <5> QED BY <2>3, <5>1
        <4>10. SubTree(t, p, c) = WithRoot(t[p], SubTree(t, p, n))
          BY <2>1, <2>8, NodeAndChildren
        <4> QED BY <4>8, <4>9, <4>10
      <3> QED BY <3>3, <3>4
    <2>9. CASE c \in 1..n
      <3> DEFINE v == w[<<p, c - 1>>]
      <3>1. c # 0 /\ ~(c > n) /\ <<p, c - 1>> \in Places(t) /\ Rest(t, <<p, c - 1>>) < Rest(t, x)
        <4>1. c # 0 /\ ~(c > n) /\ <<p, c - 1>> \in Places(t)
          BY <1>2, <2>1, <2>9 DEF Places
        <4>2. Rest(t, <<p, c - 1>>) < Rest(t, <<p, c>>)
          BY <2>1, <2>9, RestFalls
        <4> QED BY <2>1, <4>1, <4>2
      <3>2. v \in Seq(Marks) /\ Fine(<<p, c - 1>>)
        BY <1>1, <2>5, <3>1
      <3>3. CASE Append(p, ToCome(c)) \in DOMAIN t
        <4> DEFINE k == Append(p, ToCome(c))
                   a == <<Sign("1")>>
                   u == w[<<k, n + 1>>]
        <4>1. <<k, n + 1>> \in Places(t)
          BY <3>3, PlaceOfANode
        <4>2. Rest(t, <<k, n + 1>>) < Rest(t, x)
          <5>1. Rest(t, <<k, n + 1>>) < Rest(t, <<p, c>>)
            BY <2>1, <2>9, <3>3, RestFalls
          <5> QED BY <2>1, <5>1
        <4>3. u \in Seq(Marks) /\ Fine(<<k, n + 1>>) /\ a \in Seq(Marks)
          BY <1>1, <2>5, <2>6, <4>1, <4>2
        <4>4. w[x] = (a \o u) \o v
          BY <2>2, <3>1, <3>3 DEF WriteStep
        <4>5. /\ At(s, i, a) /\ At(s, i + Len(a), u) /\ At(s, i + Len(a) + Len(u), v)
              /\ Len(w[x]) = Len(a) + Len(u) + Len(v) /\ Len(u) \in Nat /\ Len(v) \in Nat
              /\ Len(a) \in Nat
          <5> HIDE DEF a, u, v
          <5> QED BY <1>4, <3>2, <4>3, <4>4, AtAllThree
        <4>6. s[i] = Sign("1") /\ i \in 1..Len(s) /\ Len(a) = 1
          BY <2>6, <4>5, AtToken
        <4>7. ~(i > Len(s)) /\ s[i].chr # "0"
          BY <1>2, <2>6, <4>6
        <4>8. r[<<i + 1, n + 1>>] = [next |-> i + 1 + Len(u), nodes |-> SubTree(t, k, n + 1)]
          <5> HIDE DEF n, k
          <5> QED BY <4>3, <4>5, <4>6 DEF Fine
        <4>9. r[<<i + 1 + Len(u), c - 1>>] = [next |-> i + 1 + Len(u) + Len(v), nodes |-> SubTree(t, p, c - 1)]
          <5> HIDE DEF u
          <5> QED BY <3>2, <4>5, <4>6 DEF Fine
        <4>10. r[<<i, c>>] = [next  |-> i + 1 + Len(u) + Len(v),
                              nodes |-> Beside(ToCome(c), SubTree(t, k, n + 1), SubTree(t, p, c - 1))]
          <5> DEFINE m  == r[<<i + 1, n + 1>>].next
                     r1 == r[<<i + 1, n + 1>>]
                     r2 == r[<<m, c - 1>>]
          <5>1. r[<<i, c>>] = [next |-> r2.next, nodes |-> Beside(ToCome(c), r1.nodes, r2.nodes)]
            BY <2>4, <3>1, <4>7 DEF ReadStep
          <5>2. m = i + 1 + Len(u) /\ r1.nodes = SubTree(t, k, n + 1)
            <6> HIDE DEF u, k, n
            <6> QED BY <4>8
          <5>3. /\ r2.next = i + 1 + Len(u) + Len(v)
                /\ r2.nodes = SubTree(t, p, c - 1)
            <6> HIDE DEF u, v, k, n, m
            <6> QED BY <4>9, <5>2
          <5> HIDE DEF u, v, k, n, r1, r2
          <5> QED BY <5>1, <5>2, <5>3
        <4>11. i + Len(w[x]) = i + 1 + Len(u) + Len(v)
          <5>1. Len(w[x]) = 1 + Len(u) + Len(v) /\ Len(u) \in Nat /\ Len(v) \in Nat
            <6> HIDE DEF a, u, v
            <6> QED BY <4>5, <4>6
          <5> HIDE DEF u, v
          <5> QED BY <2>3, <5>1
        <4>12. SubTree(t, p, c) = Beside(ToCome(c), SubTree(t, k, n + 1), SubTree(t, p, c - 1))
          BY <2>1, <2>9, <3>3, ChildBesideOthers
        <4> QED BY <4>10, <4>11, <4>12
      <3>4. CASE Append(p, ToCome(c)) \notin DOMAIN t
        <4> DEFINE a == <<Sign("0")>>
        <4>1. w[x] = a \o v
          BY <2>2, <3>1, <3>4 DEF WriteStep
        <4>2. a \in Seq(Marks)
          BY <2>6
        <4>3. At(s, i, a) /\ At(s, i + Len(a), v) /\ Len(w[x]) = Len(a) + Len(v) /\ Len(v) \in Nat
          <5> HIDE DEF a, v
          <5> QED BY <1>4, <3>2, <4>1, <4>2, AtBoth
        <4>4. s[i] = Sign("0") /\ i \in 1..Len(s) /\ Len(a) = 1
          BY <2>6, <4>3, AtToken
        <4>5. ~(i > Len(s)) /\ s[i].chr = "0"
          BY <1>2, <2>6, <4>4
        <4>6. r[<<i + 1, c - 1>>] = [next |-> i + 1 + Len(v), nodes |-> SubTree(t, p, c - 1)]
          BY <3>2, <4>3, <4>4 DEF Fine
        <4>7. r[<<i, c>>] = r[<<i + 1, c - 1>>]
          BY <2>4, <3>1, <4>5 DEF ReadStep
        <4>8. i + Len(w[x]) = i + 1 + Len(v)
          <5>1. Len(w[x]) = 1 + Len(v) /\ Len(v) \in Nat
            <6> HIDE DEF a, v
            <6> QED BY <4>3, <4>4
          <5> HIDE DEF v
          <5> QED BY <2>3, <5>1
        <4>9. SubTree(t, p, c) = SubTree(t, p, c - 1)
          BY <2>1, <2>9, <3>4, NoChildToAdd
        <4> QED BY <4>6, <4>7, <4>8, <4>9
      <3> QED BY <3>3, <3>4
    <2> QED BY <2>1, <2>7, <2>8, <2>9, KindsOfPlaces
  <1>5. \A x \in Places(t) : (\A y \in Places(t) : Rest(t, y) < Rest(t, x) => y \in Good) => x \in Good
    BY <1>4
  <1>6. \A x \in Places(t) : x \in Good
    <2> HIDE DEF Good
    <2> QED BY <1>5, AlongTheRest
  <1> QED BY <1>6

\* A tree is read as it was written.
LEMMA ReadAsWritten ==
  ASSUME NEW t, IsTree(t)
  PROVE  ReadBack(Stream(t)) = t
PROOF
  <1> DEFINE s == Stream(t)
             root == << <<>>, NumUsed + 1 >>
  <1>1. PICK w : IsWriter(t, w) /\ s = w[root]
    BY WriterOfStream
  <1>2. root \in Places(t) /\ root[1] = <<>> /\ root[2] = NumUsed + 1
    BY PlaceOfANode DEF IsTree
  <1>3. s \in Seq(Marks) /\ Len(s) \in Nat
    <2>1. w[root] \in Seq(Marks)
      <3> HIDE DEF root
      <3> QED BY <1>1, <1>2, WriterWritesTokens
    <2> QED BY <1>1, <2>1
  <1>4. PICK r : IsReader(s, r) /\ ReadBack(s) = r[<<1, NumUsed + 1>>].nodes
    <2> HIDE DEF s
    <2> QED BY <1>3, ReaderOfStream
  <1>5. At(s, 1, w[root])
    <2>1. Len(s) \in Nat /\ w[root] = s /\ \A j \in 1..Len(s) : 1 + j - 1 = j
      BY <1>1, <1>3
    <2> HIDE DEF s, root
    <2> QED BY <2>1 DEF At
  <1>6. r[<<1, NumUsed + 1>>] = [next |-> 1 + Len(w[root]), nodes |-> SubTree(t, <<>>, NumUsed + 1)]
    <2>1. r[<<1, root[2]>>] = [next |-> 1 + Len(w[root]), nodes |-> SubTree(t, root[1], root[2])]
      <3> HIDE DEF s, root
      <3> QED BY <1>1, <1>2, <1>3, <1>4, <1>5, PlacesAreReadAsWritten
    <2> QED BY <1>2, <2>1
  <1>7. SubTree(t, <<>>, NumUsed + 1) = t
    <2>1. \A q \in Paths : <<>> \o q = q
      BY DEF Paths
    <2>2. NumUsed + 1 > NumUsed /\ DOMAIN t \subseteq Paths /\ t = [p \in DOMAIN t |-> t[p]]
      BY CodesToCome DEF IsTree
    <2>3. Below(t, <<>>, NumUsed + 1) = DOMAIN t
      <3>1. \A q : q \in Below(t, <<>>, NumUsed + 1) <=> q \in DOMAIN t
        BY <2>1, <2>2 DEF Below
      <3> QED BY <3>1
    <2>4. \A q \in DOMAIN t : t[<<>> \o q] = t[q]
      BY <2>1, <2>2
    <2>5. SubTree(t, <<>>, NumUsed + 1) = [q \in DOMAIN t |-> t[q]]
      BY <2>3, <2>4 DEF SubTree
    <2> QED BY <2>2, <2>5
  <1> QED BY <1>4, <1>6, <1>7

-----------------------------------------------------------------------------
(***************************************************************************)
(* Inserting: the fold over the code words of an element goes through them *)
(* one by one, and each of them adds one element.                          *)
(***************************************************************************)
FoldStep(f, t, codes, e, s) == IF s = {} THEN t ELSE WithElement(f[s \ {Max(s)}], codes[Max(s)], e)
IsFold(f, k, t, codes, e)   == f = [s \in SUBSET (1..k) |-> FoldStep(f, t, codes, e, s)]

\* The recursion of the fold satisfies its equation: each set of numbers needs
\* the result for the set without its greatest one.
LEMMA MaxOfInterval ==
  ASSUME NEW k \in Nat, NEW s \in SUBSET (1..k)
  PROVE  /\ s # {} => Max(s) \in s
         /\ k \in s => Max(s) = k
PROOF
  <1>1. ASSUME s # {}
        PROVE  \E m \in s : \A n \in s : m >= n
    <2>1. s \in SUBSET Nat /\ \A n \in s : n <= k
      OBVIOUS
    <2>2. \E m \in s : \A n \in s : n <= m
      BY <1>1, <2>1, GreatestExists
    <2> QED BY <2>1, <2>2
  <1>2. ASSUME s # {}
        PROVE  Max(s) \in s /\ \A n \in s : Max(s) >= n
    BY <1>1, <1>2, Zenon DEF Max
  <1>3. ASSUME k \in s
        PROVE  Max(s) = k
    <2>1. Max(s) \in s /\ Max(s) >= k
      BY <1>2, <1>3
    <2>2. Max(s) \in 1..k
      BY <2>1
    <2> QED BY <2>1, <2>2
  <1> QED BY <1>2, <1>3

LEMMA FoldExists ==
  ASSUME NEW t, NEW codes, NEW e, NEW n \in Nat
  PROVE  \E f : IsFold(f, n, t, codes, e)
PROOF
  <1> DEFINE Round(f, s) == FoldStep(f, t, codes, e, s)
             Found(f, k) == f = [s \in SUBSET (1..k) |-> Round(f, s)]
             S == {k \in Nat : \E f : Found(f, k)}
  <1>1. 0 \in S
    <2> DEFINE f == [s \in SUBSET (1..0) |-> t]
    <2>1. \A s \in SUBSET (1..0) : s = {}
      OBVIOUS
    <2>2. \A s \in SUBSET (1..0) : Round(f, s) = t
      BY <2>1 DEF FoldStep
    <2>3. Found(f, 0)
      BY <2>2
    <2> HIDE DEF Found
    <2> QED BY <2>3
  <1>2. ASSUME NEW k \in Nat, k \in S
        PROVE  k + 1 \in S
    <2>1. PICK f : Found(f, k)
      BY <1>2
    <2>2. \A s \in SUBSET (1..k) : f[s] = Round(f, s)
      BY <2>1
    <2> DEFINE g == [s \in SUBSET (1..(k + 1)) |->
                       IF k + 1 \in s THEN WithElement(f[s \ {k + 1}], codes[k + 1], e) ELSE f[s]]
    <2>3. \A s \in SUBSET (1..k) : s \in SUBSET (1..(k + 1)) /\ k + 1 \notin s
      OBVIOUS
    <2>4. \A s \in SUBSET (1..k) : g[s] = f[s]
      BY <2>3
    <2>5. ASSUME NEW s \in SUBSET (1..(k + 1))
          PROVE  g[s] = Round(g, s)
      <3>1. CASE k + 1 \in s
        <4>1. Max(s) = k + 1 /\ s # {}
          <5>1. k + 1 \in Nat
            OBVIOUS
          <5> QED BY <3>1, <5>1, MaxOfInterval
        <4>2. s \ {k + 1} \in SUBSET (1..k)
          OBVIOUS
        <4>3. g[s] = WithElement(f[s \ {k + 1}], codes[k + 1], e)
          BY <3>1
        <4>4. g[s \ {k + 1}] = f[s \ {k + 1}]
          BY <2>4, <4>2
        <4> HIDE DEF g
        <4> QED BY <4>1, <4>3, <4>4 DEF FoldStep
      <3>2. CASE k + 1 \notin s
        <4>1. s \in SUBSET (1..k)
          BY <3>2
        <4>2. g[s] = Round(f, s)
          BY <2>2, <2>4, <4>1
        <4>3. CASE s = {}
          BY <4>2, <4>3 DEF FoldStep
        <4>4. CASE s # {}
          <5>1. Max(s) \in s /\ s \ {Max(s)} \in SUBSET (1..k)
            BY <4>1, <4>4, MaxOfInterval
          <5>2. g[s \ {Max(s)}] = f[s \ {Max(s)}]
            <6> HIDE DEF g
            <6> QED BY <2>4, <5>1
          <5> HIDE DEF g
          <5> QED BY <4>2, <4>4, <5>2 DEF FoldStep
        <4> QED BY <4>3, <4>4
      <3> QED BY <3>1, <3>2
    <2>6. Found(g, k + 1)
      <3>1. g = [s \in SUBSET (1..(k + 1)) |-> g[s]]
        OBVIOUS
      <3> HIDE DEF g, Round
      <3> QED BY <2>5, <3>1
    <2>7. \E h : Found(h, k + 1)
      <3> HIDE DEF Found
      <3> QED BY <2>6
    <2>8. k + 1 \in Nat
      OBVIOUS
    <2> HIDE DEF Found
    <2> QED BY <2>7, <2>8
  <1>3. Nat \subseteq S
    <2> HIDE DEF S
    <2> QED BY <1>1, <1>2, NatInductionInSet
  <1>4. \E f : Found(f, n)
    <2> HIDE DEF Found
    <2> QED BY <1>3
  <1> QED BY <1>4 DEF IsFold

\* The trees there are after each of the code words.
IsRounds(r, t, codes, e) ==
  r[0] = t /\ \A k \in DOMAIN codes : r[k] = WithElement(r[k - 1], codes[k], e)

LEMMA FoldGoesByRounds ==
  ASSUME NEW t, NEW codes, NEW n \in Nat, DOMAIN codes = 1..n, NEW e
  PROVE  \E r : /\ IsRounds(r, t, codes, e)
                /\ Inserted(t, codes, e) = r[n]
PROOF
  <1> DEFINE f == CHOOSE g : IsFold(g, n, t, codes, e)
  <1>1. IsFold(f, n, t, codes, e)
    BY FoldExists, Zenon
  <1>2. Inserted(t, codes, e) = f[1..n]
    BY Zenon DEF Inserted, FoldLeft, MapThenFoldSet, IsFold, FoldStep
  <1> HIDE DEF f
  <1>3. \A s \in SUBSET (1..n) : f[s] = FoldStep(f, t, codes, e, s)
    BY <1>1 DEF IsFold
  <1> DEFINE r == [k \in 0..n |-> f[1..k]]
  <1>4. r[0] = t
    <2>1. 1..0 = {} /\ 1..0 \in SUBSET (1..n) /\ 0 \in 0..n
      OBVIOUS
    <2>2. f[1..0] = t
      BY <1>3, <2>1 DEF FoldStep
    <2> QED BY <2>1, <2>2
  <1>5. ASSUME NEW k \in 1..n
        PROVE  r[k] = WithElement(r[k - 1], codes[k], e)
    <2>1. k \in 1..k /\ 1..k \in SUBSET (1..n) /\ (1..k) \ {k} = 1..(k - 1) /\ k \in 0..n /\ k - 1 \in 0..n /\ k \in Nat
      OBVIOUS
    <2>2. Max(1..k) = k
      BY <2>1, MaxOfInterval
    <2>3. f[1..k] = WithElement(f[1..(k - 1)], codes[k], e)
      <3>1. f[1..k] = FoldStep(f, t, codes, e, 1..k)
        BY <1>3, <2>1
      <3>2. 1..k # {}
        BY <2>1
      <3> QED BY <2>1, <2>2, <3>1, <3>2 DEF FoldStep
    <2> QED BY <2>1, <2>3
  <1>6. r[n] = f[1..n]
    OBVIOUS
  <1> HIDE DEF r
  <1> QED BY <1>2, <1>4, <1>5, <1>6 DEF IsRounds

\* What is held under a path, and where: a pair of a path and a place in its list.
Held(t, p)   == IF p \in DOMAIN t THEN t[p] ELSE <<>>
AllHeld(t)   == UNION {{p} \X DOMAIN t[p] : p \in DOMAIN t}
GoodTree(t)  == IsTree(t) /\ IsFiniteSet(AllHeld(t))

\* The set that ComputeSize counts.
LEMMA PlacesHeld ==
  ASSUME NEW t, NEW q
  PROVE  q \in AllHeld(t) <=> \E p \in DOMAIN t : \E i \in DOMAIN t[p] : q = <<p, i>>
PROOF
  <1>1. ASSUME q \in AllHeld(t)
        PROVE  \E p \in DOMAIN t : \E i \in DOMAIN t[p] : q = <<p, i>>
    <2>1. PICK p \in DOMAIN t : q \in {p} \X DOMAIN t[p]
      BY <1>1 DEF AllHeld
    <2>2. PICK i \in DOMAIN t[p] : q = <<p, i>>
      BY <2>1
    <2> QED BY <2>2
  <1>2. ASSUME NEW p \in DOMAIN t, NEW i \in DOMAIN t[p], q = <<p, i>>
        PROVE  q \in AllHeld(t)
    <2>1. q \in {p} \X DOMAIN t[p]
      BY <1>2
    <2> QED BY <2>1 DEF AllHeld
  <1> QED BY <1>1, <1>2

\* The nodes on the way to a path.
LEMMA PrefixesOf ==
  ASSUME NEW p \in Paths, NEW k \in 0..Len(p)
  PROVE  /\ SubSeq(p, 1, k) \in Paths /\ Len(SubSeq(p, 1, k)) = k
         /\ \A l \in 0..k : SubSeq(SubSeq(p, 1, k), 1, l) = SubSeq(p, 1, l)
         /\ Len(p) \in Nat /\ SubSeq(p, 1, Len(p)) = p
PROOF
  <1>1. Len(p) \in Nat /\ k \in Nat /\ k <= Len(p)
    BY DEF Paths
  <1> DEFINE a == SubSeq(p, 1, k)
  <1>2. a \in Paths /\ Len(a) = k /\ \A j \in 1..k : a[j] = p[j]
    BY <1>1 DEF Paths
  <1>3. SubSeq(p, 1, Len(p)) = p
    <2> DEFINE u == SubSeq(p, 1, Len(p))
    <2>1. u \in Paths /\ Len(u) = Len(p) /\ \A j \in 1..Len(p) : u[j] = p[j]
      BY <1>1 DEF Paths
    <2> HIDE DEF u
    <2>2. u = p
      BY <2>1 DEF Paths
    <2> QED BY <2>2 DEF u
  <1>4. ASSUME NEW l \in 0..k
        PROVE  SubSeq(a, 1, l) = SubSeq(p, 1, l)
    <2>0. l \in Nat /\ l <= k /\ l <= Len(p)
      BY <1>1
    <2> DEFINE u == SubSeq(a, 1, l)
               v == SubSeq(p, 1, l)
    <2>1. u \in Paths /\ Len(u) = l /\ \A j \in 1..l : u[j] = a[j]
      <3> HIDE DEF a
      <3> QED BY <1>1, <1>2, <2>0 DEF Paths
    <2>2. v \in Paths /\ Len(v) = l /\ \A j \in 1..l : v[j] = p[j]
      BY <1>1, <2>0 DEF Paths
    <2>3. \A j \in 1..l : j \in 1..k
      BY <1>1, <2>0
    <2> HIDE DEF a, u, v
    <2>4. \A j \in 1..l : u[j] = v[j]
      BY <1>2, <2>1, <2>2, <2>3
    <2>5. u = v
      BY <2>1, <2>2, <2>4 DEF Paths
    <2> QED BY <2>5 DEF u, v
  <1> QED BY <1>1, <1>2, <1>3, <1>4

\* One element more, at the end of one list.
LEMMA OneIsAdded ==
  ASSUME NEW t, GoodTree(t), NEW code \in Paths, NEW e \in Elements
  PROVE  /\ GoodTree(WithElement(t, code, e))
         /\ ComputeSize(t) \in Nat
         /\ ComputeSize(WithElement(t, code, e)) = ComputeSize(t) + 1
         /\ Held(t, code) \in Seq(Elements)
         /\ Held(WithElement(t, code, e), code) = Append(Held(t, code), e)
         /\ \A p : p # code => Held(WithElement(t, code, e), p) = Held(t, p)
PROOF
  <1> DEFINE u == WithElement(t, code, e)
             P == {SubSeq(code, 1, l) : l \in 0..Len(code)}
  <1>1. IsTree(t) /\ IsFiniteSet(AllHeld(t))
    BY DEF GoodTree
  <1>2. Len(code) \in Nat /\ code \in P
    <2>1. Len(code) \in Nat
      BY DEF Paths
    <2>2. Len(code) \in 0..Len(code)
      BY <2>1
    <2>3. SubSeq(code, 1, Len(code)) = code
      BY <2>2, PrefixesOf
    <2> QED BY <2>1, <2>2, <2>3
  <1>3. u = [p \in DOMAIN t \cup P |-> IF p = code THEN Append(Held(t, p), e) ELSE Held(t, p)]
    BY Zenon DEF WithElement, Held, Prefixes
  <1>4. DOMAIN u = DOMAIN t \cup P
    <2> HIDE DEF u, P
    <2> QED BY <1>3
  <1>5. \A p \in DOMAIN u : u[p] = IF p = code THEN Append(Held(t, p), e) ELSE Held(t, p)
    <2> HIDE DEF u, P
    <2> QED BY <1>3, <1>4
  <1>6. \A p : Held(t, p) \in Seq(Elements)
    BY <1>1 DEF IsTree, Held
  <1>7. \A p : Held(u, p) = IF p = code THEN Append(Held(t, p), e) ELSE Held(t, p)
    <2> SUFFICES ASSUME NEW p
                 PROVE  Held(u, p) = IF p = code THEN Append(Held(t, p), e) ELSE Held(t, p)
      OBVIOUS
    <2> HIDE DEF u, P
    <2>1. CASE p \in DOMAIN u
      BY <1>5, <2>1 DEF Held
    <2>2. CASE p \notin DOMAIN u
      <3>1. p # code /\ p \notin DOMAIN t
        BY <1>2, <1>4, <2>2
      <3> QED BY <2>2, <3>1 DEF Held
    <2> QED BY <2>1, <2>2
  <1>8. \A p \in P : \E k \in 0..Len(code) : p = SubSeq(code, 1, k)
    OBVIOUS
  <1>9. IsTree(u)
    <2>1. u = [p \in DOMAIN u |-> u[p]]
      <3> HIDE DEF P
      <3> QED BY <1>3
    <2>2. \A p \in DOMAIN u : u[p] \in Seq(Elements)
      <3>1. \A p : Append(Held(t, p), e) \in Seq(Elements)
        BY <1>6
      <3> HIDE DEF u
      <3> QED BY <1>5, <1>6, <3>1
    <2>3. DOMAIN u \subseteq Paths /\ <<>> \in DOMAIN u
      <3>1. DOMAIN t \subseteq Paths /\ <<>> \in DOMAIN t
        BY <1>1 DEF IsTree
      <3>2. P \subseteq Paths
        BY PrefixesOf
      <3> HIDE DEF u, P
      <3> QED BY <1>4, <3>1, <3>2
    <2>4. ASSUME NEW p \in DOMAIN u, NEW k \in 0..Len(p)
          PROVE  SubSeq(p, 1, k) \in DOMAIN u
      <3>1. CASE p \in DOMAIN t
        <4>1. SubSeq(p, 1, k) \in DOMAIN t
          BY <1>1, <3>1 DEF IsTree
        <4> HIDE DEF u, P
        <4> QED BY <1>4, <4>1
      <3>2. CASE p \in P
        <4>1. PICK m \in 0..Len(code) : p = SubSeq(code, 1, m)
          BY <3>2
        <4>2. Len(p) = m /\ SubSeq(p, 1, k) = SubSeq(code, 1, k)
          <5>1. Len(p) = m
            BY <4>1, PrefixesOf
          <5> QED BY <4>1, <5>1, PrefixesOf
        <4>3. k \in 0..Len(code)
          BY <1>2, <4>2
        <4>4. SubSeq(p, 1, k) \in P
          BY <4>2, <4>3
        <4> HIDE DEF u, P
        <4> QED BY <1>4, <4>4
      <3>3. p \in DOMAIN t \/ p \in P
        <4> HIDE DEF u, P
        <4> QED BY <1>4
      <3> QED BY <3>1, <3>2, <3>3
    <2>5. \E d \in Nat : \A p \in DOMAIN u : Len(p) <= d
      <3>1. PICK d \in Nat : \A p \in DOMAIN t : Len(p) <= d
        BY <1>1 DEF IsTree
      <3>2. \A p \in P : Len(p) \in Nat /\ Len(p) <= Len(code)
        BY <1>2, PrefixesOf
      <3>3. \A p \in DOMAIN t : Len(p) \in Nat
        <4>1. DOMAIN t \subseteq Paths
          BY <1>1 DEF IsTree
        <4>2. \A p \in Paths : Len(p) \in Nat
          BY DEF Paths
        <4> QED BY <4>1, <4>2
      <3> HIDE DEF u, P
      <3>4. \A p \in DOMAIN u : Len(p) <= d + Len(code)
        <4> SUFFICES ASSUME NEW p \in DOMAIN u
                     PROVE  Len(p) <= d + Len(code)
          OBVIOUS
        <4>1. p \in DOMAIN t \/ p \in P
          BY <1>4
        <4>2. Len(p) \in Nat /\ (Len(p) <= d \/ Len(p) <= Len(code))
          BY <3>1, <3>2, <3>3, <4>1
        <4> QED BY <1>2, <4>2
      <3>5. d + Len(code) \in Nat
        BY <1>2
      <3> QED BY <3>4, <3>5
    <2> HIDE DEF u
    <2> QED BY <2>1, <2>2, <2>3, <2>4, <2>5 DEF IsTree
  <1> DEFINE n == Len(Held(t, code))
             new == <<code, n + 1>>
  <1>10. n \in Nat /\ DOMAIN Held(t, code) = 1..n /\ DOMAIN Append(Held(t, code), e) = 1..(n + 1)
    <2>1. Held(t, code) \in Seq(Elements)
      BY <1>6
    <2> QED BY <2>1
  <1> HIDE DEF u, n, P
  <1>11. \A p \in DOMAIN u : p # code => DOMAIN u[p] = DOMAIN Held(t, p)
    BY <1>5
  <1>12. DOMAIN u[code] = (DOMAIN Held(t, code)) \cup {n + 1} /\ code \in DOMAIN u
    <2>1. code \in DOMAIN u /\ u[code] = Append(Held(t, code), e)
      BY <1>2, <1>4, <1>5
    <2>2. 1..(n + 1) = (1..n) \cup {n + 1}
      BY <1>10
    <2> QED BY <1>10, <2>1, <2>2
  <1>13. \A q : q \in AllHeld(t) <=> \E p : \E i \in DOMAIN Held(t, p) : q = <<p, i>>
    <2>1. \A p : p \notin DOMAIN t => DOMAIN Held(t, p) = {}
      BY DEF Held
    <2>2. \A p \in DOMAIN t : Held(t, p) = t[p]
      BY DEF Held
    <2> QED BY <2>1, <2>2, PlacesHeld
  <1>14. AllHeld(u) = AllHeld(t) \cup {new}
    <2>1. ASSUME NEW q \in AllHeld(u)
          PROVE  q \in AllHeld(t) \cup {new}
      <3>1. PICK p \in DOMAIN u : \E i \in DOMAIN u[p] : q = <<p, i>>
        BY PlacesHeld
      <3>2. PICK i \in DOMAIN u[p] : q = <<p, i>>
        BY <3>1
      <3>3. i \in DOMAIN Held(t, p) \/ (p = code /\ i = n + 1)
        BY <1>11, <1>12
      <3> QED BY <1>13, <3>2, <3>3
    <2>2. ASSUME NEW q \in AllHeld(t)
          PROVE  q \in AllHeld(u)
      <3>1. PICK p : \E i \in DOMAIN Held(t, p) : q = <<p, i>>
        BY <1>13
      <3>2. PICK i \in DOMAIN Held(t, p) : q = <<p, i>>
        BY <3>1
      <3>3. p \in DOMAIN u
        BY <1>4, <3>2 DEF Held
      <3>4. i \in DOMAIN u[p]
        BY <1>11, <1>12, <3>2, <3>3
      <3> QED BY <3>2, <3>3, <3>4, PlacesHeld
    <2>3. new \in AllHeld(u)
      <3>1. n + 1 \in DOMAIN u[code]
        BY <1>12
      <3> QED BY <1>12, <3>1, PlacesHeld
    <2> HIDE DEF new
    <2> QED BY <2>1, <2>2, <2>3
  <1>15. new \notin AllHeld(t)
    <2> SUFFICES ASSUME new \in AllHeld(t)
                 PROVE  FALSE
      OBVIOUS
    <2>1. PICK p : \E i \in DOMAIN Held(t, p) : new = <<p, i>>
      BY <1>13
    <2>2. n + 1 \in DOMAIN Held(t, code)
      BY <2>1
    <2> QED BY <1>10, <2>2
  <1> HIDE DEF new
  <1>16. IsFiniteSet(AllHeld(u)) /\ Cardinality(AllHeld(u)) = Cardinality(AllHeld(t)) + 1
    BY <1>1, <1>14, <1>15, FS_AddElement
  <1>17. Cardinality(AllHeld(t)) \in Nat
    BY <1>1, FS_CardinalityType
  <1>18. ComputeSize(u) = Cardinality(AllHeld(u)) /\ ComputeSize(t) = Cardinality(AllHeld(t))
    BY DEF ComputeSize, AllHeld
  <1>19. GoodTree(u)
    BY <1>9, <1>16 DEF GoodTree
  <1>20. ComputeSize(t) \in Nat /\ ComputeSize(u) = ComputeSize(t) + 1
    BY <1>16, <1>17, <1>18
  <1> QED BY <1>6, <1>7, <1>19, <1>20 DEF u

\* How often a path is among the first k code words, and as many copies of an
\* element.
Among(p, codes, k) == Cardinality({i \in 1..k : codes[i] = p})
Copies(c, e)       == [i \in 1..c |-> e]

LEMMA OneMoreAmong ==
  ASSUME NEW p, NEW codes, NEW k \in Nat
  PROVE  /\ Among(p, codes, 0) = 0
         /\ Among(p, codes, k) \in Nat
         /\ p = codes[k + 1] => Among(p, codes, k + 1) = Among(p, codes, k) + 1
         /\ p # codes[k + 1] => Among(p, codes, k + 1) = Among(p, codes, k)
PROOF
  <1> DEFINE C(j) == {i \in 1..j : codes[i] = p}
  <1>1. IsFiniteSet(C(k))
    <2>1. IsFiniteSet(1..k)
      BY FS_Interval
    <2>2. C(k) \subseteq 1..k
      OBVIOUS
    <2> HIDE DEF C
    <2> QED BY <2>1, <2>2, FS_Subset
  <1>2. Cardinality(C(k)) \in Nat
    BY <1>1, FS_CardinalityType
  <1>3. C(0) = {}
    OBVIOUS
  <1>4. CASE codes[k + 1] = p
    <2>1. C(k + 1) = C(k) \cup {k + 1} /\ k + 1 \notin C(k)
      BY <1>4
    <2>2. Cardinality(C(k + 1)) = Cardinality(C(k)) + 1
      <3> HIDE DEF C
      <3> QED BY <1>1, <2>1, FS_AddElement
    <2> QED BY <1>2, <1>3, <1>4, <2>2, FS_EmptySet DEF Among
  <1>5. CASE codes[k + 1] # p
    <2>1. C(k + 1) = C(k)
      BY <1>5
    <2> QED BY <1>2, <1>3, <1>5, <2>1, FS_EmptySet DEF Among
  <1> QED BY <1>4, <1>5

LEMMA OneMoreCopy ==
  ASSUME NEW a \in Seq(Elements), NEW e \in Elements, NEW c \in Nat
  PROVE  /\ Append(a \o Copies(c, e), e) = a \o Copies(c + 1, e)
         /\ a \o Copies(0, e) = a
         /\ a \o Copies(c, e) = <<>> <=> a = <<>> /\ c = 0
         /\ c # 0 => a \o Copies(c, e) # a
PROOF
  <1> DEFINE b == Copies(c, e)
             d == Copies(c + 1, e)
  <1>1. b \in Seq(Elements) /\ Len(b) = c /\ \A i \in 1..c : b[i] = e
    BY DEF Copies
  <1>2. d \in Seq(Elements) /\ Len(d) = c + 1 /\ \A i \in 1..(c + 1) : d[i] = e
    <2>1. c + 1 \in Nat
      OBVIOUS
    <2> QED BY <2>1 DEF Copies
  <1>3. Len(a) \in Nat
    OBVIOUS
  <1> HIDE DEF b, d
  <1>4. Append(a \o b, e) = a \o d
    <2> DEFINE u == Append(a \o b, e)
               v == a \o d
    <2>1. u \in Seq(Elements) /\ v \in Seq(Elements) /\ Len(u) = Len(a) + c + 1 /\ Len(v) = Len(a) + c + 1
      BY <1>1, <1>2
    <2>2. ASSUME NEW i \in 1..(Len(a) + c + 1)
          PROVE  u[i] = v[i]
      <3>1. CASE i <= Len(a)
        BY <1>1, <1>2, <1>3, <3>1
      <3>2. CASE i > Len(a) /\ i <= Len(a) + c
        <4>1. i - Len(a) \in 1..c /\ i - Len(a) \in 1..(c + 1)
          BY <1>3, <3>2
        <4>2. u[i] = b[i - Len(a)]
          BY <1>1, <1>3, <3>2
        <4>3. v[i] = d[i - Len(a)]
          BY <1>2, <1>3, <3>2
        <4> QED BY <1>1, <1>2, <4>1, <4>2, <4>3
      <3>3. CASE i = Len(a) + c + 1
        <4>1. u[i] = e
          BY <1>1, <1>3, <3>3
        <4>2. v[i] = d[c + 1]
          BY <1>2, <1>3, <3>3
        <4> QED BY <1>2, <4>1, <4>2
      <3>4. i <= Len(a) \/ (i > Len(a) /\ i <= Len(a) + c) \/ i = Len(a) + c + 1
        BY <1>3
      <3> HIDE DEF u, v
      <3> QED BY <3>1, <3>2, <3>3, <3>4
    <2> HIDE DEF u, v
    <2>3. u = v
      BY <2>1, <2>2
    <2> QED BY <2>3 DEF u, v
  <1>5. a \o Copies(0, e) = a
    <2>1. Copies(0, e) = <<>>
      BY DEF Copies
    <2> QED BY <2>1
  <1>6. a \o b = <<>> <=> a = <<>> /\ c = 0
    <2>1. Len(a \o b) = Len(a) + c /\ a \o b \in Seq(Elements)
      BY <1>1
    <2>2. a \o b = <<>> <=> Len(a) + c = 0
      <3> DEFINE u == a \o b
      <3> HIDE DEF u
      <3>1. u \in Seq(Elements) /\ Len(u) = Len(a) + c
        BY <2>1 DEF u
      <3>2. u = <<>> <=> Len(u) = 0
        BY <3>1
      <3> QED BY <3>1, <3>2 DEF u
    <2>3. a = <<>> <=> Len(a) = 0
      OBVIOUS
    <2> QED BY <1>3, <2>2, <2>3
  <1>7. Len(a \o b) = Len(a) + c
    BY <1>1
  <1>8. ASSUME c # 0, a \o b = a
        PROVE  FALSE
    BY <1>3, <1>7, <1>8
  <1> QED BY <1>4, <1>5, <1>6, <1>8 DEF b, d

\* What the tree has of a code word is then longer by a copy of the element
\* for each time that the code word is among those inserted.
LEMMA AllAreAdded ==
  ASSUME NEW t, GoodTree(t), NEW codes \in Seq(Paths), NEW e \in Elements
  PROVE  /\ GoodTree(Inserted(t, codes, e))
         /\ ComputeSize(t) \in Nat
         /\ ComputeSize(Inserted(t, codes, e)) = ComputeSize(t) + Len(codes)
         /\ \A p : /\ Held(t, p) \in Seq(Elements)
                   /\ Held(Inserted(t, codes, e), p) = Held(t, p) \o Copies(Among(p, codes, Len(codes)), e)
PROOF
  <1> DEFINE n == Len(codes)
  <1>1. n \in Nat /\ DOMAIN codes = 1..n /\ \A k \in 1..n : codes[k] \in Paths
    OBVIOUS
  <1>2. PICK r : IsRounds(r, t, codes, e) /\ Inserted(t, codes, e) = r[n]
    <2> HIDE DEF n
    <2> QED BY <1>1, FoldGoesByRounds
  <1> HIDE DEF n
  <1>3. r[0] = t /\ \A k \in 1..n : r[k] = WithElement(r[k - 1], codes[k], e)
    BY <1>1, <1>2 DEF IsRounds
  <1>4. \A p : Held(t, p) \in Seq(Elements)
    BY DEF Held, GoodTree, IsTree
  <1> DEFINE Lists(k) == \A p : Held(r[k], p) = Held(t, p) \o Copies(Among(p, codes, k), e)
             Sizes(k) == ComputeSize(r[k]) \in Nat /\ ComputeSize(r[k]) = ComputeSize(t) + k
             S == {k \in 0..n : GoodTree(r[k]) /\ Sizes(k) /\ Lists(k)}
  <1>5. ComputeSize(t) \in Nat
    BY FS_CardinalityType DEF GoodTree, ComputeSize, AllHeld
  <1>6. 0 \in S
    <2>1. Lists(0)
      <3>1. \A p : Held(t, p) \o Copies(0, e) = Held(t, p)
        BY <1>4, OneMoreCopy
      <3>2. \A p : Among(p, codes, 0) = 0
        BY OneMoreAmong
      <3> QED BY <1>3, <3>1, <3>2
    <2>2. Sizes(0)
      BY <1>3, <1>5
    <2>3. GoodTree(r[0]) /\ 0 \in 0..n
      BY <1>1, <1>3
    <2> HIDE DEF Lists, Sizes
    <2> QED BY <2>1, <2>2, <2>3
  <1>7. ASSUME NEW k \in 0..(n - 1), k \in S
        PROVE  k + 1 \in S
    <2>1. k + 1 \in 1..n /\ k + 1 \in 0..n /\ (k + 1) - 1 = k /\ k \in Nat
      BY <1>1
    <2>2. r[k + 1] = WithElement(r[k], codes[k + 1], e) /\ codes[k + 1] \in Paths
      BY <1>1, <1>3, <2>1
    <2>3. GoodTree(r[k]) /\ Sizes(k) /\ Lists(k)
      BY <1>7
    <2>4. /\ GoodTree(r[k + 1]) /\ ComputeSize(r[k]) \in Nat
          /\ ComputeSize(r[k + 1]) = ComputeSize(r[k]) + 1
          /\ Held(r[k + 1], codes[k + 1]) = Append(Held(r[k], codes[k + 1]), e)
          /\ \A p : p # codes[k + 1] => Held(r[k + 1], p) = Held(r[k], p)
      <3> DEFINE u == r[k]
                 c == codes[k + 1]
      <3>1. GoodTree(u) /\ c \in Paths /\ r[k + 1] = WithElement(u, c, e)
        BY <2>2, <2>3
      <3> HIDE DEF Sizes, Lists, u, c
      <3>2. /\ GoodTree(WithElement(u, c, e)) /\ ComputeSize(u) \in Nat
            /\ ComputeSize(WithElement(u, c, e)) = ComputeSize(u) + 1
            /\ Held(WithElement(u, c, e), c) = Append(Held(u, c), e)
            /\ \A p : p # c => Held(WithElement(u, c, e), p) = Held(u, p)
        BY <3>1, OneIsAdded
      <3> QED BY <3>1, <3>2 DEF u, c
    <2>5. Sizes(k + 1)
      BY <1>5, <2>1, <2>3, <2>4
    <2>6. Lists(k + 1)
      <3> SUFFICES ASSUME NEW p
                   PROVE  Held(r[k + 1], p) = Held(t, p) \o Copies(Among(p, codes, k + 1), e)
        OBVIOUS
      <3>1. Held(r[k], p) = Held(t, p) \o Copies(Among(p, codes, k), e)
        BY <2>3
      <3>2. Among(p, codes, k) \in Nat
        BY <2>1, OneMoreAmong
      <3>3. CASE p = codes[k + 1]
        <4>1. Among(p, codes, k + 1) = Among(p, codes, k) + 1
          BY <2>1, <3>3, OneMoreAmong
        <4>2. Append(Held(t, p) \o Copies(Among(p, codes, k), e), e)
                = Held(t, p) \o Copies(Among(p, codes, k) + 1, e)
          BY <1>4, <3>2, OneMoreCopy
        <4> QED BY <2>4, <3>1, <3>3, <4>1, <4>2
      <3>4. CASE p # codes[k + 1]
        <4>1. Among(p, codes, k + 1) = Among(p, codes, k)
          BY <2>1, <3>4, OneMoreAmong
        <4> QED BY <2>4, <3>1, <3>4, <4>1
      <3> QED BY <3>3, <3>4
    <2> HIDE DEF Lists, Sizes
    <2> QED BY <2>1, <2>4, <2>5, <2>6
  <1>8. n \in S
    <2>1. 0..n \subseteq S
      <3> HIDE DEF S
      <3> QED BY <1>1, <1>6, <1>7, IntervalInduction
    <2>2. n \in 0..n
      BY <1>1
    <2> QED BY <2>1, <2>2
  <1> QED BY <1>2, <1>4, <1>5, <1>8 DEF n

-----------------------------------------------------------------------------
(***************************************************************************)
(* The invariant: a tree whose size is known while it is filled.           *)
(***************************************************************************)
TreeInv ==
  /\ map \in Maps /\ unread \subseteq map
  /\ GoodTree(node)
  /\ size \in Nat
  /\ stage = "loading" => size = ComputeSize(node)
  /\ size # 0 => size = ComputeSize(node)

\* The tree of the beginning, with an empty root.
LEMMA FirstTree ==
  ASSUME NEW t, t = [p \in {<<>>} |-> <<>>]
  PROVE  GoodTree(t) /\ ComputeSize(t) = 0 /\ \A p : Held(t, p) = <<>>
PROOF
  <1>1. DOMAIN t = {<<>>} /\ t[<<>>] = <<>> /\ <<>> \in Paths /\ Len(<<>>) = 0
    BY DEF Paths
  <1>2. IsTree(t)
    <2>1. t = [p \in DOMAIN t |-> t[p]] /\ \A p \in DOMAIN t : t[p] \in Seq(Elements)
      BY <1>1
    <2>2. \A p \in DOMAIN t : \A k \in 0..Len(p) : SubSeq(p, 1, k) \in DOMAIN t
      <3>1. \A k \in 0..0 : SubSeq(<<>>, 1, k) = <<>>
        OBVIOUS
      <3> QED BY <1>1, <3>1
    <2>3. \E d \in Nat : \A p \in DOMAIN t : Len(p) <= d
      BY <1>1
    <2> QED BY <1>1, <2>1, <2>2, <2>3 DEF IsTree
  <1>3. AllHeld(t) = {}
    <2>1. \A q : q \notin AllHeld(t)
      BY <1>1, PlacesHeld
    <2> QED BY <2>1
  <1>4. \A p : Held(t, p) = <<>>
    BY <1>1 DEF Held
  <1> QED BY <1>2, <1>3, <1>4, FS_EmptySet DEF GoodTree, ComputeSize, AllHeld

\* What the assumption about the maps says of one record.
LEMMA CodesArePaths ==
  ASSUME NEW m \in UNION Maps
  PROVE  /\ m.element \in Elements /\ CodesOfTags(m.tags) \in Seq(Paths)
         /\ CodesOfTags(m.tags) \in NameCodes
BY MapsAssumption DEF Paths, NameCodes

\* What one record of a map does to the tree.
LEMMA InsertNamesAdds ==
  ASSUME TreeInv, NEW m \in unread, InsertNames(m)
  PROVE  /\ stage = "loading" /\ stage' = stage /\ map' = map /\ unread' \subseteq unread
         /\ m \in UNION Maps
         /\ node' = Inserted(node, CodesOfTags(m.tags), m.element)
         /\ size' = size + Len(CodesOfTags(m.tags))
         /\ size = ComputeSize(node)
PROOF
  <1>1. m \in UNION Maps /\ (stage = "loading" => size = ComputeSize(node))
    BY DEF TreeInv
  <1>2. /\ stage = "loading" /\ stage' = stage /\ map' = map /\ unread' = unread \ {m}
        /\ Insert(CodesOfTags(m.tags), m.element)
    BY DEF InsertNames
  <1>3. /\ node' = Inserted(node, CodesOfTags(m.tags), m.element)
        /\ size' = size + Len(CodesOfTags(m.tags))
    BY <1>2 DEF Insert
  <1> QED BY <1>1, <1>2, <1>3

\* Everything but reading a map leaves the tree as it is, and the program
\* never goes back to reading.
TreeStays == /\ UNCHANGED <<map, node>> /\ unread' \subseteq unread
             /\ size' \in {0, size}
             /\ stage' = "loading" => stage = "loading" /\ size' = size

LEMMA OthersKeepTheTree ==
  ASSUME TreeInv, [Next]_vars, ~\E m \in unread : InsertNames(m)
  PROVE  TreeStays
PROOF
  <1>1. CASE Restart
    <2>1. IsTree(node)
      BY DEF TreeInv, GoodTree
    <2>2. ReadBack(Stream(node)) = node
      BY <2>1, ReadAsWritten
    <2>3. node' = ReadBack(Stream(node)) /\ size' = 0
      BY <1>1 DEF Restart, ReloadTree
    <2>4. stage' = "idle" /\ UNCHANGED <<map, unread>>
      BY <1>1 DEF Restart
    <2> QED BY <2>2, <2>3, <2>4 DEF TreeStays
  <1>2. CASE Serve
    BY <1>2 DEF Serve, TreeStays, mapVars
  <1>3. CASE \E t \in Texts, p \in Proximities : Ask(t, p)
    BY <1>3 DEF Ask, TreeStays, mapVars
  <1>4. CASE FindRoads \/ FindCrossings \/ FindRegions \/ FindPlaces \/ FindUnique
    <2>1. stage' # "loading" /\ UNCHANGED mapVars
      BY <1>4 DEF FindRoads, FindCrossings, FindRegions, FindPlaces, FindUnique, Search
    <2> QED BY <2>1 DEF TreeStays, mapVars
  <1>5. CASE FindKnown
    <2>1. stage' # "loading" /\ UNCHANGED mapVars
      BY <1>5 DEF FindKnown
    <2> QED BY <2>1 DEF TreeStays, mapVars
  <1>6. CASE \/ \E r \in unseen : Examine(r)
             \/ Clean
             \/ \E r \in Left : Sort(r)
    <2>1. UNCHANGED mapVars /\ (stage' = "loading" => stage = "loading")
      BY <1>6 DEF Examine, Clean, Sort
    <2> QED BY <2>1 DEF TreeStays, mapVars
  <1>7. CASE UNCHANGED vars
    BY <1>7 DEF vars, mapVars, TreeStays
  <1> QED BY <1>1, <1>2, <1>3, <1>4, <1>5, <1>6, <1>7 DEF Next

LEMMA InitiallyTreeInv == Init => TreeInv
PROOF
  <1> SUFFICES ASSUME Init
               PROVE  TreeInv
    OBVIOUS
  <1>1. node = [p \in {<<>>} |-> <<>>] /\ size = 0 /\ map \in Maps /\ unread = map
    BY DEF Init, TreeInit
  <1> QED BY <1>1, FirstTree DEF TreeInv

LEMMA StepsKeepTreeInv == TreeInv /\ [Next]_vars => TreeInv'
PROOF
  <1> SUFFICES ASSUME TreeInv, [Next]_vars
               PROVE  TreeInv'
    OBVIOUS
  <1>1. ASSUME NEW m \in unread, InsertNames(m)
        PROVE  TreeInv'
    <2> DEFINE c == CodesOfTags(m.tags)
               e == m.element
    <2>1. /\ stage = "loading" /\ stage' = stage /\ map' = map /\ unread' \subseteq unread
          /\ m \in UNION Maps /\ node' = Inserted(node, c, e) /\ size' = size + Len(c)
          /\ size = ComputeSize(node)
      BY <1>1, InsertNamesAdds
    <2>2. e \in Elements /\ c \in Seq(Paths)
      BY <2>1, CodesArePaths
    <2> HIDE DEF c, e
    <2>3. /\ GoodTree(Inserted(node, c, e)) /\ ComputeSize(node) \in Nat
          /\ ComputeSize(Inserted(node, c, e)) = ComputeSize(node) + Len(c)
      BY <2>2, AllAreAdded DEF TreeInv
    <2>4. GoodTree(node)' /\ ComputeSize(node)' = size' /\ size' \in Nat
      <3>1. Len(c) \in Nat
        BY <2>2
      <3> QED BY <2>1, <2>3, <3>1
    <2>5. map' \in Maps /\ unread' \subseteq map'
      BY <2>1 DEF TreeInv
    <2> QED BY <2>4, <2>5 DEF TreeInv
  <1>2. ASSUME ~\E m \in unread : InsertNames(m)
        PROVE  TreeInv'
    <2>1. TreeStays
      BY <1>2, OthersKeepTheTree
    <2>2. /\ map' = map /\ node' = node /\ unread' \subseteq unread /\ size' \in {0, size}
          /\ stage' = "loading" => stage = "loading" /\ size' = size
      BY <2>1 DEF TreeStays
    <2> QED BY <2>2 DEF TreeInv
  <1> QED BY <1>1, <1>2

LEMMA TreeIsInductive == Spec => []TreeInv
BY InitiallyTreeInv, StepsKeepTreeInv, PTL DEF Spec

-----------------------------------------------------------------------------
(***************************************************************************)
(* The tree implements the index: the refinement mapping leaves out the    *)
(* nodes that have no elements.                                            *)
(***************************************************************************)
AsIndex(t) == [p \in {p \in DOMAIN t : t[p] # <<>>} |-> t[p]]
IndexStep  == Index!Next \/ UNCHANGED <<AsIndex(node), SizeNow>>

\* Whether it is known or not, size() returns what is in the tree.
LEMMA SizeIsComputed ==
  ASSUME TreeInv
  PROVE  SizeNow = ComputeSize(node)
BY DEF TreeInv, SizeNow

\* The index has what the tree holds.
LEMMA AsHeld ==
  ASSUME NEW t
  PROVE  /\ \A p : p \in DOMAIN AsIndex(t) <=> Held(t, p) # <<>>
         /\ \A p : (IF p \in DOMAIN AsIndex(t) THEN AsIndex(t)[p] ELSE <<>>) = Held(t, p)
         /\ AsIndex(t) = [p \in DOMAIN AsIndex(t) |-> Held(t, p)]
BY DEF AsIndex, Held

LEMMA InitRefines == Init => Index!Init
PROOF
  <1> SUFFICES ASSUME Init
               PROVE  Index!Init
    OBVIOUS
  <1>1. node = [p \in {<<>>} |-> <<>>] /\ size = 0
    BY DEF Init, TreeInit
  <1>2. {p \in DOMAIN node : node[p] # <<>>} = {}
    BY <1>1
  <1>3. [p \in {p \in DOMAIN node : node[p] # <<>>} |-> node[p]] = <<>>
    BY <1>2
  <1>4. SizeNow = 0
    BY <1>1, FirstTree DEF SizeNow
  <1> QED BY <1>3, <1>4 DEF Index!Init

\* How often a code word is among those of a record.
LEMMA AmongTheWords ==
  ASSUME NEW codes \in Seq(Paths), NEW p
  PROVE  /\ Among(p, codes, Len(codes)) \in Nat
         /\ Among(p, codes, Len(codes)) = Cardinality({i \in DOMAIN codes : codes[i] = p})
         /\ Among(p, codes, Len(codes)) # 0 <=> p \in {codes[i] : i \in DOMAIN codes}
PROOF
  <1> DEFINE C == {i \in 1..Len(codes) : codes[i] = p}
  <1>1. Len(codes) \in Nat /\ DOMAIN codes = 1..Len(codes)
    OBVIOUS
  <1>2. Among(p, codes, Len(codes)) = Cardinality(C) /\ Among(p, codes, Len(codes)) \in Nat
    <2>1. Among(p, codes, Len(codes)) \in Nat
      BY <1>1, OneMoreAmong
    <2> QED BY <2>1 DEF Among
  <1>3. IsFiniteSet(C)
    <2>1. IsFiniteSet(1..Len(codes)) /\ C \subseteq 1..Len(codes)
      BY <1>1, FS_Interval
    <2> HIDE DEF C
    <2> QED BY <2>1, FS_Subset
  <1>4. C = {} <=> p \notin {codes[i] : i \in DOMAIN codes}
    BY <1>1
  <1>5. Cardinality(C) = 0 <=> C = {}
    <2> HIDE DEF C
    <2> QED BY <1>3, FS_EmptySet
  <1> QED BY <1>1, <1>2, <1>4, <1>5

LEMMA InsertNamesRefines ==
  ASSUME TreeInv, TreeInv', NEW m \in unread, InsertNames(m)
  PROVE  IndexStep
PROOF
  <1> DEFINE c == CodesOfTags(m.tags)
             e == m.element
             n == Len(c)
             x == AsIndex(node)
             y == AsIndex(node')
             W == {c[i] : i \in DOMAIN c}
  <1>1. /\ m \in UNION Maps /\ node' = Inserted(node, c, e) /\ size' = size + Len(c)
    BY InsertNamesAdds
  <1>2. e \in Elements /\ c \in Seq(Paths) /\ c \in NameCodes /\ GoodTree(node)
    BY <1>1, CodesArePaths DEF TreeInv
  <1>3. n \in Nat /\ DOMAIN c = 1..n
    <2> HIDE DEF c
    <2> QED BY <1>2
  <1> HIDE DEF c, e
  <1>4. /\ ComputeSize(node) \in Nat /\ ComputeSize(node') = ComputeSize(node) + n
        /\ \A p : /\ Held(node, p) \in Seq(Elements)
                  /\ Held(node', p) = Held(node, p) \o Copies(Among(p, c, n), e)
    BY <1>1, <1>2, AllAreAdded
  <1>5. SizeNow' = SizeNow + Len(c)
    <2>1. SizeNow = ComputeSize(node) /\ SizeNow' = ComputeSize(node)'
      BY SizeIsComputed DEF TreeInv, SizeNow
    <2> QED BY <1>4, <2>1
  <1>6. \A p : Held(node', p) = <<>> <=> Held(node, p) = <<>> /\ p \notin W
    <2> SUFFICES ASSUME NEW p
                 PROVE  Held(node', p) = <<>> <=> Held(node, p) = <<>> /\ p \notin W
      OBVIOUS
    <2>1. Among(p, c, n) \in Nat /\ (Among(p, c, n) # 0 <=> p \in W)
      BY <1>2, AmongTheWords
    <2>2. Held(node, p) \o Copies(Among(p, c, n), e) = <<>> <=> Held(node, p) = <<>> /\ Among(p, c, n) = 0
      <3> HIDE DEF n, W
      <3> QED BY <1>2, <1>4, <2>1, OneMoreCopy
    <2> HIDE DEF n, W
    <2> QED BY <1>4, <2>1, <2>2
  <1>7. DOMAIN y = DOMAIN x \cup W
    <2> HIDE DEF x, y, W
    <2>1. \A p : p \in DOMAIN y <=> p \in DOMAIN x \/ p \in W
      BY <1>6, AsHeld DEF x, y
    <2> QED BY <2>1
  <1>8. y = [p \in DOMAIN x \cup W |->
               (IF p \in DOMAIN x THEN x[p] ELSE <<>>)
                 \o [i \in 1..Cardinality({i \in DOMAIN c : c[i] = p}) |-> e]]
    <2>1. y = [p \in DOMAIN y |-> Held(node', p)]
      BY AsHeld
    <2>2. \A p : (IF p \in DOMAIN x THEN x[p] ELSE <<>>) = Held(node, p)
      BY AsHeld
    <2>3. \A p : Among(p, c, n) = Cardinality({i \in DOMAIN c : c[i] = p})
      BY <1>2, AmongTheWords
    <2>4. \A p : Held(node', p) = Held(node, p) \o [i \in 1..Among(p, c, n) |-> e]
      BY <1>4 DEF Copies
    <2>5. \A p : Held(node', p) = (IF p \in DOMAIN x THEN x[p] ELSE <<>>)
                                    \o [i \in 1..Cardinality({i \in DOMAIN c : c[i] = p}) |-> e]
      <3> HIDE DEF x, y, n
      <3> QED BY <2>2, <2>3, <2>4
    <2> HIDE DEF x, y, n, W
    <2> QED BY <1>7, <2>1, <2>5
  <1>9. CASE n = 0
    <2>1. W = {}
      BY <1>3, <1>9
    <2>2. \A p : Held(node', p) = Held(node, p)
      <3>1. \A p : Among(p, c, n) = 0
        BY <1>9, OneMoreAmong
      <3>2. \A p : Held(node, p) \o Copies(0, e) = Held(node, p)
        BY <1>2, <1>4, OneMoreCopy
      <3> HIDE DEF n
      <3> QED BY <1>4, <3>1, <3>2
    <2>3. y = x
      <3>1. DOMAIN y = DOMAIN x
        <4> HIDE DEF x, y, W
        <4> QED BY <1>7, <2>1
      <3>2. y = [p \in DOMAIN y |-> Held(node', p)] /\ x = [p \in DOMAIN x |-> Held(node, p)]
        BY AsHeld
      <3> HIDE DEF x, y
      <3> QED BY <2>2, <3>1, <3>2
    <2>4. SizeNow' = SizeNow
      <3>1. SizeNow \in Nat
        BY <1>4, SizeIsComputed
      <3> QED BY <1>5, <1>9, <3>1
    <2> QED BY <2>3, <2>4 DEF IndexStep
  <1>10. CASE n # 0
    <2>1. y # x
      <3> DEFINE p == c[1]
                 k == Among(p, c, n)
      <3>1. p \in W
        BY <1>3, <1>10
      <3>2. k \in Nat /\ k # 0
        BY <1>2, <3>1, AmongTheWords
      <3>3. Held(node', p) # Held(node, p)
        <4>1. Held(node', p) = Held(node, p) \o Copies(k, e) /\ Held(node, p) \in Seq(Elements)
          BY <1>4
        <4> HIDE DEF k, p
        <4>2. \A a \in Seq(Elements) : a \o Copies(k, e) # a
          BY <1>2, <3>2, OneMoreCopy
        <4> QED BY <4>1, <4>2, Zenon
      <3>4. /\ (IF p \in DOMAIN x THEN x[p] ELSE <<>>) = Held(node, p)
            /\ (IF p \in DOMAIN y THEN y[p] ELSE <<>>) = Held(node', p)
        BY AsHeld
      <3> HIDE DEF x, y, p
      <3> QED BY <3>3, <3>4
    <2>2. Index!Enter(e, c) /\ y # x
      <3>1. /\ x = [p \in {p \in DOMAIN node : node[p] # <<>>} |-> node[p]]
            /\ y = [p \in {p \in DOMAIN node : node[p] # <<>>} |-> node[p]]'
        BY DEF AsIndex
      <3>2. \A S : Index!Cardinality(S) = Cardinality(S)
        BY Zenon DEF Index!Cardinality, Cardinality
      <3>3. \A p : /\ Index!Under(p) = IF p \in DOMAIN x THEN x[p] ELSE <<>>
                   /\ Index!Times(p, c) = Cardinality({i \in DOMAIN c : c[i] = p})
        BY <3>1, <3>2, Zenon DEF Index!Under, Index!Times
      <3> HIDE DEF x, y
      <3>4. y = [p \in DOMAIN x \cup W |-> Index!Under(p) \o [i \in 1..Index!Times(p, c) |-> e]]
        BY <1>8, <3>3
      <3> QED BY <1>5, <2>1, <3>1, <3>4 DEF Index!Enter
    <2>3. Index!Next
      <3>1. /\ x = [p \in {p \in DOMAIN node : node[p] # <<>>} |-> node[p]]
            /\ y = [p \in {p \in DOMAIN node : node[p] # <<>>} |-> node[p]]'
        BY DEF AsIndex
      <3> HIDE DEF x, y
      <3> QED BY <1>2, <2>2, <3>1 DEF Index!Next
    <2> QED BY <2>3 DEF IndexStep
  <1> QED BY <1>9, <1>10

\* The text tree implements the index: what was entered under a code word is
\* found there, in the order in which it was entered and as often, whatever
\* else is in the tree, in this run of the program and the next
\* (swedishtexttree.cpp:32-114, 136-200, 243-261).
THEOREM Implements == Spec => ImplementsTextIndex
PROOF
  <1>1. TreeInv /\ TreeInv' /\ [Next]_vars => [Index!Next]_<<AsIndex(node), SizeNow>>
    <2> SUFFICES ASSUME TreeInv, TreeInv', [Next]_vars
                 PROVE  IndexStep
      BY DEF IndexStep
    <2>1. CASE \E m \in unread : InsertNames(m)
      BY <2>1, InsertNamesRefines
    <2>2. CASE ~\E m \in unread : InsertNames(m)
      <3>1. node' = node
        BY <2>2, OthersKeepTheTree DEF TreeStays
      <3>2. SizeNow' = SizeNow
        <4>1. SizeNow = ComputeSize(node)
          BY SizeIsComputed
        <4>2. SizeNow' = ComputeSize(node')
          BY DEF TreeInv, SizeNow
        <4> QED BY <3>1, <4>1, <4>2
      <3>3. AsIndex(node') = AsIndex(node)
        BY <3>1
      <3> QED BY <3>2, <3>3 DEF IndexStep
    <2> QED BY <2>1, <2>2
  <1>2. TreeInv /\ TreeInv' /\ [Next]_vars =>
          [Index!Next]_<<[p \in {p \in DOMAIN node : node[p] # <<>>} |-> node[p]], SizeNow>>
    BY <1>1 DEF AsIndex
  <1> QED BY InitRefines, TreeIsInductive, <1>2, PTL DEF Spec, ImplementsTextIndex, Index!Spec
=============================================================================
