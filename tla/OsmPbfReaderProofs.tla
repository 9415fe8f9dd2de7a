------------------------- MODULE OsmPbfReaderProofs -------------------------
(***************************************************************************)
(* Theorems about OsmPbfReader, for all files and all sizes: its types,    *)
(* that no way gets lost between the two threads, that the threads         *)
(* implement the store of module Ingest, and what they make of the files:  *)
(* the counter of the queue, the nodes that both threads touch, and the    *)
(* contents of the trees.                                                  *)
(***************************************************************************)
EXTENDS OsmPbfReader, SequenceTheorems, NatSetTheorems, TLAPS

(***************************************************************************)
(* The inductive invariant adds to the types how the control states of     *)
(* the two threads go together: a consumer exists while a file is being    *)
(* parsed, it holds a way exactly between pop and store, it drains the     *)
(* queue only once nothing more will be pushed, and it has ended only when *)
(* the queue is empty.                                                     *)
(***************************************************************************)
ParsingAFile == pc # "closed" => file <= Len(Files)
AtAnElement  == pc \in {"count", "throttle", "asleep", "name"} => pos <= Len(Files[file])
Lifetime     == (consumer = "none") <=> (pc = "closed")
Holding      == (inHand # NoWay) <=> (consumer \in {"count", "simplify"})
DoneAtTheEnd == done = TRUE => pc \in {"join", "closed"}
Draining     == draining = TRUE /\ consumer # "none" => done = TRUE
Drained      == consumer \in {"none", "ended"} => queue = <<>>
EndedIsDone  == consumer = "ended" => done = TRUE

IInv == /\ TypeOK /\ ParsingAFile /\ AtAnElement /\ Lifetime /\ Holding
        /\ DoneAtTheEnd /\ Draining /\ Drained /\ EndedIsDone

-----------------------------------------------------------------------------
\* The element the producer is at is a node, a way or a relation of the file,
\* and its id is positive.
LEMMA CurrentIsTyped ==
  ASSUME file \in 1..Len(Files), pos \in 1..Len(Files[file])
  PROVE  /\ Current \in Nodes \cup Ways \cup Relations
         /\ Current.id \in Ids
PROOF
  <1>1. Files[file] \in Seq(Nodes \cup Ways \cup Relations)
    BY FilesAssumption
  <1>2. Files[file][pos] \in Nodes \cup Ways \cup Relations
    BY <1>1
  <1> QED BY <1>2 DEF Current, Nodes, Ways, Relations

\* A way that is queued has positive ids after its offset is added.
LEMMA QueuedWayIsTyped ==
  ASSUME NEW w \in Ways, idOffset \in Nat
  PROVE  QueuedWay(w) \in QueuedWays
PROOF
  <1>1. /\ w.id \in Ids /\ w.refs \in Seq(Ids) /\ w.bends \in SUBSET Nat
    BY DEF Ways
  <1>2. w.id + idOffset \in Ids
    BY <1>1 DEF Ids
  <1>3. [i \in DOMAIN w.refs |-> w.refs[i] + idOffset] \in Seq(Ids)
    <2> DEFINE s == [i \in 1..Len(w.refs) |-> w.refs[i] + idOffset]
    <2>1. DOMAIN w.refs = 1..Len(w.refs) /\ Len(w.refs) \in Nat
      BY <1>1
    <2>2. \A i \in 1..Len(w.refs) : w.refs[i] + idOffset \in Ids
      BY <1>1 DEF Ids
    <2>3. s \in Seq(Ids)
      BY <2>1, <2>2, IsASeq
    <2> QED BY <2>1, <2>3
  <1> QED BY <1>1, <1>2, <1>3 DEF QueuedWay, QueuedWays

\* Modular counting stays below the modulus.
LEMMA WrapIsTyped ==
  ASSUME NEW n \in 0..(SizeWrap - 1)
  PROVE  /\ (n + 1) % SizeWrap \in 0..(SizeWrap - 1)
         /\ (n + SizeWrap - 1) % SizeWrap \in 0..(SizeWrap - 1)
PROOF
  <1>1. SizeWrap \in Nat \ {0}
    BY LimitAssumption
  <1>2. \A m \in Int : m % SizeWrap \in 0..(SizeWrap - 1)
    BY <1>1
  <1> QED BY <1>1, <1>2

-----------------------------------------------------------------------------
\* The initial state satisfies the inductive invariant.
LEMMA InitIInv == Init => IInv
PROOF
  <1> SUFFICES ASSUME Init
               PROVE  IInv
    OBVIOUS
  <1>1. done \in BOOLEAN /\ draining \in BOOLEAN /\ aborted \in BOOLEAN
    BY DEF Init
  <1> QED BY <1>1, LimitAssumption, NoWayAssumption
          DEF Init, IInv, TypeOK, ParsingAFile, AtAnElement, Lifetime, Holding, DoneAtTheEnd, Draining, Drained, EndedIsDone

\* A step of the producer preserves the inductive invariant.
LEMMA ProducerKeepsIInv == IInv /\ Producer => IInv'
PROOF
  <1> SUFFICES ASSUME IInv, Producer
               PROVE  IInv'
    OBVIOUS
  <1> USE DEF IInv, TypeOK, ParsingAFile, AtAnElement, Lifetime, Holding, DoneAtTheEnd, Draining, Drained, EndedIsDone
  <1>0. /\ \A f \in 1..Len(Files) : Files[f] \in Seq(Nodes \cup Ways \cup Relations)
        /\ Len(Files) \in Nat
    BY FilesAssumption
  <1>1. CASE ParseStart
    <2>1. done' \in BOOLEAN /\ draining' \in BOOLEAN /\ aborted' \in BOOLEAN
      BY <1>1 DEF ParseStart
    <2> QED BY <1>1, <2>1 DEF ParseStart, dataVars
  <1>2. CASE ReadNode
    <2>1. file \in 1..Len(Files) /\ pos \in 1..Len(Files[file])
      BY <1>2, <1>0 DEF ReadNode, Reading
    <2>2. Current.id \in Ids
      BY <2>1, CurrentIsTyped
    <2>3. done' \in BOOLEAN /\ draining' \in BOOLEAN /\ aborted' \in BOOLEAN
      BY <1>2 DEF ReadNode, queueVars, consumerVars
    <2> QED BY <1>2, <2>1, <2>2, <2>3
            DEF ReadNode, Reading, NextItem, Max2, Ids, queueVars, consumerVars
  <1>3. CASE SkipWay
    <2>1. file \in 1..Len(Files) /\ pos \in 1..Len(Files[file])
      BY <1>3, <1>0 DEF SkipWay, Reading
    <2>2. Current.id \in Ids
      BY <2>1, CurrentIsTyped
    <2> QED BY <1>3, <2>1, <2>2
            DEF SkipWay, Reading, NextItem, Max2, Ids, queueVars, consumerVars, dataVars
  <1>4. CASE PushWay
    <2>1. file \in 1..Len(Files) /\ pos \in 1..Len(Files[file])
      BY <1>4, <1>0 DEF PushWay, Reading
    <2>2. Current \in Ways
      BY <2>1, <1>4, CurrentIsTyped DEF PushWay, Nodes, Relations
    <2>3. QueuedWay(Current) \in QueuedWays
      BY <2>2, QueuedWayIsTyped
    <2>4. queue' \in Seq(QueuedWays) /\ pushed' \in Seq(QueuedWays)
      BY <1>4, <2>3, AppendProperties DEF PushWay
    <2>5. consumer \notin {"none", "ended"}
      BY <1>4 DEF PushWay, Reading
    <2> QED BY <1>4, <2>1, <2>4, <2>5 DEF PushWay, Reading, consumerVars
  <1>5. CASE CountPush
    BY <1>5, WrapIsTyped DEF CountPush, consumerVars, dataVars
  <1>6. CASE Throttle
    BY <1>6 DEF Throttle, queueVars, consumerVars, dataVars
  <1>7. CASE ProducerWake
    BY <1>7 DEF ProducerWake, queueVars, consumerVars, dataVars
  <1>8. CASE NameWay
    <2>1. file \in 1..Len(Files) /\ pos \in 1..Len(Files[file])
      BY <1>8, <1>0 DEF NameWay
    <2>2. Current.id \in Ids
      BY <2>1, CurrentIsTyped
    <2> QED BY <1>8, <2>1, <2>2
            DEF NameWay, NextItem, Max2, Ids, queueVars, consumerVars
  <1>9. CASE ReadRelation
    <2>1. file \in 1..Len(Files) /\ pos \in 1..Len(Files[file])
      BY <1>9, <1>0 DEF ReadRelation, Reading
    <2>2. Current.id \in Ids
      BY <2>1, CurrentIsTyped
    <2>3. done' \in BOOLEAN /\ draining' \in BOOLEAN /\ aborted' \in BOOLEAN
      BY <1>9 DEF ReadRelation, queueVars, consumerVars
    <2> QED BY <1>9, <2>1, <2>2, <2>3
            DEF ReadRelation, Reading, NextItem, Max2, Ids, queueVars, consumerVars
  <1>10. CASE SetDone
    BY <1>10 DEF SetDone, consumerVars, dataVars
  <1>11. CASE Join
    BY <1>11 DEF Join, NextOffset, queueVars, dataVars
  <1> QED
    BY <1>1, <1>2, <1>3, <1>4, <1>5, <1>6, <1>7, <1>8, <1>9, <1>10, <1>11 DEF Producer

\* A step of the consumer preserves the inductive invariant.
LEMMA ConsumerKeepsIInv == IInv /\ Consumer => IInv'
PROOF
  <1> SUFFICES ASSUME IInv, Consumer
               PROVE  IInv'
    OBVIOUS
  <1> USE DEF IInv, TypeOK, ParsingAFile, AtAnElement, Lifetime, Holding, DoneAtTheEnd, Draining, Drained, EndedIsDone
  <1>1. CASE TestDone
    BY <1>1 DEF TestDone, Consuming, producerVars, queueVars, dataVars
  <1>2. CASE Pop
    <2>1. inHand' \in QueuedWays /\ queue' \in Seq(QueuedWays)
      BY <1>2, HeadTailProperties DEF Pop
    <2>2. inHand' # NoWay
      BY <2>1, NoWayAssumption
    <2> QED BY <1>2, <2>1, <2>2 DEF Pop, Consuming, producerVars, dataVars
  <1>3. CASE PopNothing
    BY <1>3 DEF PopNothing, Consuming, producerVars, queueVars, dataVars
  <1>4. CASE CountPop
    BY <1>4, WrapIsTyped DEF CountPop, Consuming, producerVars, dataVars
  <1>5. CASE Simplify
    <2>1. inHand \in QueuedWays
      BY <1>5 DEF Simplify, Consuming
    <2>2. Append(simplified, inHand) \in Seq(QueuedWays)
      BY <2>1, AppendProperties
    <2>3. done' \in BOOLEAN /\ draining' \in BOOLEAN /\ aborted' \in BOOLEAN
      BY <1>5 DEF Simplify, queueVars
    <2> QED BY <1>5, <2>2, <2>3 DEF Simplify, Consuming, producerVars, queueVars
  <1>6. CASE ConsumerWake
    BY <1>6 DEF ConsumerWake, Consuming, producerVars, queueVars, dataVars
  <1> QED BY <1>1, <1>2, <1>3, <1>4, <1>5, <1>6 DEF Consumer

\* The inductive invariant holds in every reachable state.
THEOREM Inductive == Spec => []IInv
PROOF
  <1>1. IInv /\ [Next]_vars => IInv'
    <2> SUFFICES ASSUME IInv, [Next]_vars
                 PROVE  IInv'
      OBVIOUS
    <2>1. CASE Producer
      BY <2>1, ProducerKeepsIInv
    <2>2. CASE Consumer
      BY <2>2, ConsumerKeepsIInv
    <2>3. CASE UNCHANGED vars
      BY <2>3 DEF IInv, TypeOK, ParsingAFile, AtAnElement, Lifetime, Holding, DoneAtTheEnd, Draining, Drained, EndedIsDone, vars, producerVars, queueVars, consumerVars, dataVars
    <2> QED BY <2>1, <2>2, <2>3 DEF Next, Terminated
  <1> QED BY InitIInv, <1>1, PTL DEF Spec

\* The variables of the reader keep their types, whatever the files.
THEOREM TypeCorrect == Spec => []TypeOK
PROOF BY Inductive, PTL DEF IInv

-----------------------------------------------------------------------------
(* Nothing gets lost between the threads.                                  *)

\* Popping moves the first way queued into the consumer's hands.
LEMMA PopTheFirst ==
  ASSUME NEW S, NEW a \in Seq(S), NEW q \in Seq(S), q # <<>>
  PROVE  (a \o <<>>) \o q = (a \o <<Head(q)>>) \o Tail(q)
PROOF
  <1>1. Head(q) \in S /\ Tail(q) \in Seq(S) /\ <<Head(q)>> \in Seq(S)
    BY HeadTailProperties
  <1>2. <<Head(q)>> \o Tail(q) = q
    <2>1. <<Head(q)>> \o Tail(q) \in Seq(S)
      BY <1>1, ConcatProperties
    <2>2. Len(<<Head(q)>> \o Tail(q)) = Len(q)
      BY <1>1, HeadTailProperties, ConcatProperties
    <2>3. \A i \in 1..Len(q) : (<<Head(q)>> \o Tail(q))[i] = q[i]
      BY <1>1, HeadTailProperties, ConcatProperties
    <2> QED BY <2>1, <2>2, <2>3, SeqEqual
  <1>3. a \o <<>> = a
    BY ConcatEmptySeq
  <1> QED BY <1>1, <1>2, <1>3, ConcatAssociative

\* Storing makes the way in the consumer's hands the last one stored.
LEMMA StoreTheOneInHand ==
  ASSUME NEW S, NEW a \in Seq(S), NEW e \in S, NEW q \in Seq(S)
  PROVE  (a \o <<e>>) \o q = (Append(a, e) \o <<>>) \o q
PROOF BY AppendIsConcat, AppendProperties, ConcatEmptySeq

\* The steps preserve NothingLost.
LEMMA StepKeepsNothingLost ==
  IInv /\ IInv' /\ NothingLost /\ [Next]_vars => NothingLost'
PROOF
  <1> SUFFICES ASSUME IInv, IInv', NothingLost, [Next]_vars
               PROVE  NothingLost'
    OBVIOUS
  <1>1. /\ queue \in Seq(QueuedWays) /\ simplified \in Seq(QueuedWays)
        /\ inHand \in QueuedWays \cup {NoWay}
        /\ InHand \in Seq(QueuedWays)
    BY DEF IInv, TypeOK, InHand
  <1>2. CASE PushWay
    <2>1. QueuedWay(Current) \in QueuedWays
      <3>1. pushed' \in Seq(QueuedWays) /\ queue' \in Seq(QueuedWays)
        BY DEF IInv, TypeOK
      <3>2. queue' = Append(queue, QueuedWay(Current)) /\ Len(queue') = Len(queue) + 1
        BY <1>1, <1>2 DEF PushWay
      <3>3. queue'[Len(queue) + 1] = QueuedWay(Current) /\ Len(queue) \in Nat
        BY <1>1, <3>2
      <3> QED BY <3>1, <3>2, <3>3, ElementOfSeq
    <2>2. Append((simplified \o InHand) \o queue, QueuedWay(Current))
            = (simplified \o InHand) \o Append(queue, QueuedWay(Current))
      <3> DEFINE a == simplified \o InHand
                 last == <<QueuedWay(Current)>>
      <3>1. a \in Seq(QueuedWays) /\ last \in Seq(QueuedWays)
        BY <1>1, <2>1, ConcatProperties
      <3>2. a \o queue \in Seq(QueuedWays)
        BY <1>1, <3>1, ConcatProperties
      <3>3. Append(a \o queue, QueuedWay(Current)) = (a \o queue) \o last
        BY <2>1, <3>2, AppendIsConcat
      <3>4. Append(queue, QueuedWay(Current)) = queue \o last
        BY <1>1, <2>1, AppendIsConcat
      <3>5. (a \o queue) \o last = a \o (queue \o last)
        BY <1>1, <3>1, ConcatAssociative
      <3> QED BY <3>3, <3>4, <3>5
    <2>3. /\ pushed' = Append(pushed, QueuedWay(Current))
          /\ queue' = Append(queue, QueuedWay(Current))
          /\ simplified' = simplified /\ InHand' = InHand
      BY <1>2 DEF PushWay, consumerVars, InHand
    <2> QED BY <2>2, <2>3 DEF NothingLost
  <1>3. CASE Pop
    <2>1. inHand = NoWay /\ inHand' # NoWay
      BY <1>3 DEF IInv, Holding, Pop, Consuming
    <2>2. InHand = <<>> /\ InHand' = <<Head(queue)>> /\ queue' = Tail(queue) /\ queue # <<>>
      BY <2>1, <1>3 DEF InHand, Pop
    <2>3. pushed' = pushed /\ simplified' = simplified
      BY <1>3 DEF Pop
    <2>4. (simplified \o <<>>) \o queue = (simplified \o <<Head(queue)>>) \o Tail(queue)
      BY <1>1, <2>2, PopTheFirst
    <2> QED BY <2>2, <2>3, <2>4 DEF NothingLost
  <1>4. CASE Simplify /\ ~aborted'
    <2>1. inHand # NoWay /\ inHand' = NoWay /\ inHand \in QueuedWays
      BY <1>1, <1>4 DEF IInv, Holding, Simplify, Consuming
    <2>2. InHand = <<inHand>> /\ InHand' = <<>>
      BY <2>1 DEF InHand
    <2>3. simplified' = Append(simplified, inHand) /\ queue' = queue /\ pushed' = pushed
      BY <1>4 DEF Simplify, queueVars
    <2>4. (simplified \o <<inHand>>) \o queue = (Append(simplified, inHand) \o <<>>) \o queue
      BY <1>1, <2>1, StoreTheOneInHand
    <2> QED BY <2>2, <2>3, <2>4 DEF NothingLost
  <1>5. CASE UNCHANGED <<pushed, simplified, inHand, queue>>
    BY <1>5 DEF NothingLost, InHand
  <1> DEFINE Same == UNCHANGED <<pushed, simplified, inHand, queue>>
  <1>6. Producer => PushWay \/ Same
    BY DEF Producer, ParseStart, ReadNode, SkipWay, CountPush, Throttle, ProducerWake, NameWay,
           ReadRelation, SetDone, Join, queueVars, consumerVars
  <1>7. Consumer => Pop \/ (Simplify /\ ~aborted') \/ Same
    BY DEF Consumer, TestDone, PopNothing, CountPop, Simplify, ConsumerWake, queueVars,
           Consuming
  <1>8. Terminated \/ UNCHANGED vars => Same
    BY DEF Terminated, vars, queueVars, consumerVars
  <1> QED BY <1>2, <1>3, <1>4, <1>5, <1>6, <1>7, <1>8 DEF Next

\* What was pushed is at any time what was stored, what the consumer holds and
\* what is queued, in this order: between the threads no way gets lost,
\* doubled or out of order (osmpbfreader.cpp:181-202, 770).
THEOREM NoWayIsLost == Spec => []NothingLost
PROOF
  <1>1. Init => NothingLost
    BY ConcatEmptySeq DEF Init, NothingLost, InHand
  <1> QED BY <1>1, Inductive, StepKeepsNothingLost, PTL DEF Spec

-----------------------------------------------------------------------------
(* The threads implement the store.                                        *)

\* The initial state is an initial state of the store.
LEMMA InitRefines == Init => Store!Init
PROOF
  <1> SUFFICES ASSUME Init
               PROVE  Store!Init
    OBVIOUS
  <1>1. (pc # "closed") = FALSE
    BY DEF Init
  <1>2. pushed = <<>> /\ simplified = <<>>
    BY DEF Init
  <1> QED BY <1>1, <1>2 DEF Store!Init

\* A step of the threads is a step of the store or leaves it as it is: the
\* call that starts, the push, the end of simplifyWay and the join are the
\* steps of the store.
LEMMA StepRefines ==
  IInv /\ IInv' /\ NothingLost /\ [Next]_vars => [Store!Next]_(Store!vars)
PROOF
  <1> SUFFICES ASSUME IInv, IInv', NothingLost, [Next]_vars
               PROVE  [Store!Next]_(Store!vars)
    OBVIOUS
  <1>1. /\ queue \in Seq(QueuedWays) /\ simplified \in Seq(QueuedWays)
        /\ pushed \in Seq(QueuedWays) /\ pushed' \in Seq(QueuedWays)
        /\ inHand \in QueuedWays \cup {NoWay}
    BY DEF IInv, TypeOK
  <1>2. CASE ParseStart
    BY <1>2 DEF ParseStart, Store!Next, Store!Call
  <1>3. CASE PushWay
    <2>1. pushed' = Append(pushed, QueuedWay(Current))
      BY <1>3 DEF PushWay
    <2>2. Len(pushed') = Len(pushed) + 1 /\ \A i \in DOMAIN pushed : pushed'[i] = pushed[i]
      BY <1>1, <2>1
    <2> QED BY <1>1, <1>3, <2>2 DEF PushWay, Reading, Store!Next, Store!Take
  <1>4. CASE Simplify /\ ~aborted'
    <2>1. inHand \in QueuedWays /\ pc # "closed"
      BY <1>1, <1>4 DEF IInv, Holding, Lifetime, Simplify, Consuming
    <2>2. pushed = (simplified \o <<inHand>>) \o queue
      BY <2>1, NoWayAssumption DEF NothingLost, InHand
    <2>3. /\ simplified \o <<inHand>> \in Seq(QueuedWays)
          /\ Len(simplified \o <<inHand>>) = Len(simplified) + 1
          /\ (simplified \o <<inHand>>)[Len(simplified) + 1] = inHand
      BY <1>1, <2>1
    <2>4. Len(simplified) < Len(pushed) /\ pushed[Len(simplified) + 1] = inHand
      BY <1>1, <2>2, <2>3
    <2> QED BY <1>4, <2>1, <2>4
            DEF Simplify, producerVars, Store!Next, Store!StoreNext
  <1>5. CASE Join
    <2>1. queue = <<>> /\ inHand = NoWay
      BY <1>5 DEF Join, IInv, Drained, Holding
    <2>2. simplified = pushed
      BY <1>1, <2>1, ConcatEmptySeq DEF NothingLost, InHand
    <2> QED BY <1>5, <2>2 DEF Join, Store!Next, Store!Return
  <1> DEFINE Same == UNCHANGED <<pushed, simplified, pc # "closed">>
  <1>6. CASE Same
    BY <1>6 DEF Store!vars
  <1>7. Producer => ParseStart \/ PushWay \/ Join \/ Same
    BY DEF Producer, ReadNode, SkipWay, CountPush, Throttle, ProducerWake, NameWay,
           ReadRelation, SetDone, Reading
  <1>8. Consumer => (Simplify /\ ~aborted') \/ Same
    BY DEF Consumer, TestDone, Pop, PopNothing, CountPop, Simplify, ConsumerWake,
           Consuming, producerVars
  <1>9. Terminated \/ UNCHANGED vars => Same
    BY DEF Terminated, vars, producerVars
  <1> QED BY <1>2, <1>3, <1>4, <1>5, <1>6, <1>7, <1>8, <1>9 DEF Next

\* The two threads and their queue implement the store of module Ingest: each
\* way is stored once, in the order in which it was read, and parse() returns
\* only when every way it pushed is stored (osmpbfreader.cpp:334-335, 930-932).
THEOREM Implements == Spec => ImplementsIngest
PROOF
  <1> QED BY InitRefines, StepRefines, Inductive, NoWayIsLost, PTL
          DEF Spec, ImplementsIngest, Store!Spec


-----------------------------------------------------------------------------
(* The counter of the queue.                                               *)

\* The ways pushed and counted but not yet counted as popped; one less while
\* a way is pushed and not yet counted.
Counted == Len(queue) + (IF consumer = "count" THEN 1 ELSE 0)
                      - (IF pc = "count" THEN 1 ELSE 0)

\* The number of elements of the file that were taken up.
Begun == IF pc = "closed" THEN 0
         ELSE IF pc \in {"count", "throttle", "asleep", "name"} THEN pos ELSE pos - 1

\* The counter is what was counted, as a number of SizeWrap values, and
\* there are never more ways around than elements taken up.
SizeIsCounted == queueSize = IF Counted = -1 THEN SizeWrap - 1 ELSE Counted
FewWays       == Len(queue) + (IF consumer = "count" THEN 1 ELSE 0) <= Begun
WithinFile    == pc # "closed" => pos <= Len(Files[file]) + 1

CounterInv == SizeIsCounted /\ FewWays /\ WithinFile

\* Adding and taking one, modulo SizeWrap.
LEMMA WrapSteps ==
  ASSUME NEW n \in -1..(SizeWrap - 1)
  PROVE  /\ n + 1 < SizeWrap =>
              ((IF n = -1 THEN SizeWrap - 1 ELSE n) + 1) % SizeWrap = n + 1
         /\ n >= 0 =>
              (n + SizeWrap - 1) % SizeWrap = IF n = 0 THEN SizeWrap - 1 ELSE n - 1
PROOF
  <1>1. SizeWrap \in Nat \ {0}
    BY LimitAssumption
  <1>2. \A m \in 0..(SizeWrap - 1) : m % SizeWrap = m /\ (m + SizeWrap) % SizeWrap = m
    BY <1>1
  <1>3. CASE n = -1
    BY <1>1, <1>2, <1>3
  <1>4. CASE n = 0
    BY <1>1, <1>2, <1>4
  <1>5. CASE n > 0
    <2>1. n - 1 \in 0..(SizeWrap - 1) /\ n + SizeWrap - 1 = (n - 1) + SizeWrap
      BY <1>1, <1>5
    <2>2. n + 1 < SizeWrap => n + 1 \in 0..(SizeWrap - 1)
      BY <1>1, <1>5
    <2> QED BY <1>1, <1>2, <1>5, <2>1, <2>2
  <1> QED BY <1>3, <1>4, <1>5

\* A step of the producer preserves the invariant of the counter.
LEMMA ProducerKeepsCounter == IInv /\ CounterInv /\ Producer => CounterInv'
PROOF
  <1> SUFFICES ASSUME IInv, CounterInv, Producer
               PROVE  CounterInv'
    OBVIOUS
  <1> USE DEF CounterInv, SizeIsCounted, FewWays, WithinFile, Counted, Begun
  <1>1. /\ queue \in Seq(QueuedWays) /\ Len(queue) \in Nat /\ SizeWrap \in Nat \ {0}
        /\ pos \in Nat \ {0} /\ file \in Nat \ {0} /\ queueSize \in 0..(SizeWrap - 1)
    BY LimitAssumption DEF IInv, TypeOK
  <1>2. \A f \in 1..Len(Files) : Len(Files[f]) \in Nat /\ Len(Files[f]) < SizeWrap
    BY FilesAssumption, SizeAssumption
  <1>3. file \in Nat /\ Len(Files) \in Nat
    BY <1>1, FilesAssumption
  <1>4. CASE ParseStart
    <2>1. queue = <<>> /\ queue' = <<>> /\ consumer = "none" /\ consumer' = "test" /\ pc' = "reading"
      BY <1>4 DEF ParseStart, IInv, Lifetime, Drained
    <2>2. Len(Files[file]) \in Nat /\ pos' = 1 /\ file' = file /\ pc = "closed"
      BY <1>2, <1>3, <1>4, <1>1 DEF ParseStart
    <2> QED BY <1>1, <1>4, <2>1, <2>2 DEF ParseStart
  <1>5. CASE ReadNode \/ SkipWay \/ ReadRelation
    <2>1. /\ pc = "reading" /\ pc' = "reading" /\ pos <= Len(Files[file]) /\ file' = file
          /\ pos' = pos \/ pos' = pos + 1
      BY <1>5 DEF ReadNode, SkipWay, ReadRelation, Reading, NextItem
    <2>2. queue' = queue /\ queueSize' = queueSize /\ consumer' = consumer
      BY <1>5 DEF ReadNode, SkipWay, ReadRelation, queueVars, consumerVars
    <2>3. Len(Files[file]) \in Nat
      BY <1>1, <1>2, <1>3, <2>1 DEF IInv, ParsingAFile
    <2> QED BY <1>1, <2>1, <2>2, <2>3
  <1>6. CASE PushWay
    <2>1. /\ pc = "reading" /\ pc' = "count" /\ pos <= Len(Files[file]) /\ file' = file
          /\ pos' = pos
      BY <1>6 DEF PushWay, Reading
    <2>2. queueSize' = queueSize /\ consumer' = consumer /\ queue' = Append(queue, QueuedWay(Current))
      BY <1>6 DEF PushWay, consumerVars
    <2>3. Len(queue') = Len(queue) + 1
      BY <1>1, <2>2
    <2> QED BY <1>1, <2>1, <2>2, <2>3
  <1>7. CASE CountPush
    <2>1. pc = "count" /\ pc' = "throttle" /\ file' = file /\ pos' = pos
      BY <1>7 DEF CountPush
    <2>2. queue' = queue /\ consumer' = consumer
      BY <1>7 DEF CountPush, consumerVars
    <2>3. queueSize' = (queueSize + 1) % SizeWrap
      BY <1>7 DEF CountPush
    <2>4. pos <= Len(Files[file]) /\ Len(Files[file]) < SizeWrap /\ Len(Files[file]) \in Nat
      BY <1>1, <1>2, <1>3, <2>1 DEF IInv, ParsingAFile, AtAnElement
    <2>5. Counted \in -1..(SizeWrap - 1) /\ Counted + 1 < SizeWrap
      BY <1>1, <2>1, <2>4
    <2>6. Counted' = Counted + 1
      BY <1>1, <2>1, <2>2
    <2>7. queueSize' = Counted + 1
      <3> HIDE DEF Counted
      <3> QED BY <2>3, <2>5, WrapSteps
    <2>8. SizeIsCounted'
      <3>1. Counted + 1 # -1
        BY <1>1, <2>1
      <3> QED BY <2>6, <2>7, <3>1 DEF SizeIsCounted
    <2> QED BY <1>1, <2>1, <2>2, <2>8
  <1>8. CASE Throttle \/ ProducerWake
    <2>1. /\ pc \in {"throttle", "asleep"} /\ pc' \in {"asleep", "name"}
          /\ file' = file /\ pos' = pos
      BY <1>8 DEF Throttle, ProducerWake
    <2>2. queue' = queue /\ consumer' = consumer /\ queueSize' = queueSize
      BY <1>8 DEF Throttle, ProducerWake, consumerVars, queueVars
    <2> QED BY <1>1, <2>1, <2>2
  <1>9. CASE NameWay
    <2>1. pc = "name" /\ pc' = "reading" /\ file' = file /\ pos' = pos + 1
      BY <1>9 DEF NameWay, NextItem
    <2>2. queue' = queue /\ consumer' = consumer /\ queueSize' = queueSize
      BY <1>9 DEF NameWay, consumerVars, queueVars
    <2>3. pos <= Len(Files[file]) /\ Len(Files[file]) \in Nat
      BY <1>1, <1>2, <1>3, <2>1 DEF IInv, ParsingAFile, AtAnElement
    <2> QED BY <1>1, <2>1, <2>2, <2>3
  <1>10. CASE SetDone
    <2>1. pc = "reading" /\ pc' = "join" /\ file' = file /\ pos' = pos
      BY <1>10 DEF SetDone
    <2>2. queue' = queue /\ consumer' = consumer /\ queueSize' = queueSize
      BY <1>10 DEF SetDone, consumerVars
    <2> QED BY <1>1, <2>1, <2>2
  <1>11. CASE Join
    <2>1. pc = "join" /\ pc' = "closed"
      BY <1>11 DEF Join
    <2>2. /\ queue = <<>> /\ queue' = queue /\ consumer = "ended" /\ consumer' = "none"
          /\ queueSize' = queueSize
      BY <1>11 DEF Join, queueVars, IInv, Drained
    <2> QED BY <1>1, <2>1, <2>2
  <1> QED
    BY <1>4, <1>5, <1>6, <1>7, <1>8, <1>9, <1>10, <1>11 DEF Producer

\* A step of the consumer preserves the invariant of the counter.
LEMMA ConsumerKeepsCounter == IInv /\ CounterInv /\ Consumer => CounterInv'
PROOF
  <1> SUFFICES ASSUME IInv, CounterInv, Consumer
               PROVE  CounterInv'
    OBVIOUS
  <1> USE DEF CounterInv, SizeIsCounted, FewWays, WithinFile, Counted, Begun
  <1>1. /\ queue \in Seq(QueuedWays) /\ Len(queue) \in Nat /\ SizeWrap \in Nat \ {0}
        /\ pos \in Nat \ {0} /\ file \in Nat \ {0} /\ queueSize \in 0..(SizeWrap - 1)
    BY LimitAssumption DEF IInv, TypeOK
  <1>2. pc' = pc /\ pos' = pos /\ file' = file
    BY DEF Consumer, TestDone, Pop, PopNothing, CountPop, Simplify, ConsumerWake, producerVars
  <1>3. CASE TestDone \/ PopNothing \/ Simplify \/ ConsumerWake
    <2>1. queue' = queue /\ queueSize' = queueSize
      BY <1>3 DEF TestDone, PopNothing, Simplify, ConsumerWake, queueVars
    <2>2. consumer # "count" /\ consumer' # "count"
      BY <1>3 DEF TestDone, PopNothing, Simplify, ConsumerWake, Consuming
    <2> QED BY <1>1, <1>2, <2>1, <2>2
  <1>4. CASE Pop
    <2>1. queue' = Tail(queue) /\ queue # <<>> /\ queueSize' = queueSize
      BY <1>4 DEF Pop
    <2>2. Len(queue') = Len(queue) - 1
      BY <1>1, <2>1, HeadTailProperties
    <2>3. consumer = "pop" /\ consumer' = "count"
      BY <1>4 DEF Pop, Consuming
    <2>4. Counted' = Counted /\ Begun' = Begun
      <3>1. Begun' = Begun
        BY <1>2
      <3> HIDE DEF CounterInv, SizeIsCounted, FewWays, WithinFile, Begun
      <3>2. Len(queue') \in Nat
        BY <1>1, <2>2, <2>1, HeadTailProperties
      <3>3. pc' = pc
        BY <1>2
      <3>4. Counted' = Counted
        BY <1>1, <2>2, <2>3, <3>2, <3>3
      <3> QED BY <3>1, <3>4
    <2>5. SizeIsCounted' /\ WithinFile'
      <3> HIDE DEF Counted
      <3> QED BY <1>2, <2>1, <2>4
    <2>6. FewWays'
      <3> HIDE DEF Begun
      <3> QED BY <1>1, <2>2, <2>3, <2>4
    <2> QED BY <2>5, <2>6
  <1>5. CASE CountPop
    <2>1. /\ queue' = queue /\ queueSize' = (queueSize + SizeWrap - 1) % SizeWrap
          /\ consumer = "count" /\ consumer' = "simplify"
      BY <1>5 DEF CountPop, Consuming
    <2>2. Counted \in 0..(SizeWrap - 1)
      <3>1. Counted <= SizeWrap - 1
        <4>1. pc # "closed"
          BY <2>1 DEF IInv, Lifetime
        <4>2. Len(Files[file]) \in Nat /\ Len(Files[file]) < SizeWrap
          BY <1>1, <4>1, FilesAssumption, SizeAssumption DEF IInv, ParsingAFile
        <4>3. pc \in {"count", "throttle", "asleep", "name"} => pos <= Len(Files[file])
          BY DEF IInv, AtAnElement
        <4> QED BY <1>1, <2>1, <4>1, <4>2, <4>3
      <3> QED BY <1>1, <2>1, <3>1
    <2>3. Counted' = Counted - 1
      BY <1>1, <1>2, <2>1
    <2>4. queueSize' = IF Counted = 0 THEN SizeWrap - 1 ELSE Counted - 1
      <3> HIDE DEF Counted
      <3>1. Counted # -1 /\ Counted \in -1..(SizeWrap - 1) /\ Counted >= 0
        BY <1>1, <2>2
      <3>2. queueSize = Counted
        BY <3>1
      <3> QED BY <2>1, <3>1, <3>2, WrapSteps
    <2>5. SizeIsCounted'
      <3> HIDE DEF Counted
      <3> QED BY <2>2, <2>3, <2>4
    <2>6. FewWays' /\ WithinFile'
      <3>1. Begun' = Begun
        BY <1>2
      <3>2. Begun \in Int
        BY <1>1
      <3> HIDE DEF Begun
      <3> QED BY <1>1, <1>2, <2>1, <3>1, <3>2
    <2> QED BY <2>5, <2>6
  <1> QED BY <1>3, <1>4, <1>5 DEF Consumer

\* The invariant of the counter holds in every reachable state.
LEMMA CounterInductive == Spec => []CounterInv
PROOF
  <1>1. Init => CounterInv
    BY LimitAssumption
    DEF Init, CounterInv, SizeIsCounted, FewWays, WithinFile, Counted, Begun
  <1>2. IInv /\ CounterInv /\ [Next]_vars => CounterInv'
    <2>1. UNCHANGED vars /\ CounterInv => CounterInv'
      BY DEF vars, producerVars, queueVars, consumerVars, CounterInv, SizeIsCounted, FewWays,
             WithinFile, Counted, Begun
    <2> QED BY <2>1, ProducerKeepsCounter, ConsumerKeepsCounter DEF Next, Terminated
  <1> QED BY <1>1, <1>2, Inductive, PTL DEF Spec

\* When the producer decides whether to sleep, the counter is the length of
\* the queue or, while a way is being popped, one more: it is not wrapped
\* around below zero at that point, in whatever order the two threads push,
\* pop and count (osmpbfreader.cpp:185, 770-777).
THEOREM ThrottleIsRight == Spec => []ThrottleSeesTrueSize
PROOF
  <1>1. IInv /\ CounterInv => ThrottleSeesTrueSize
    <2> SUFFICES ASSUME IInv, CounterInv, pc = "throttle"
                 PROVE  Len(queue) <= queueSize /\ queueSize <= Len(queue) + 1
      BY DEF ThrottleSeesTrueSize
    <2>1. Len(queue) \in Nat
      BY DEF IInv, TypeOK
    <2> QED BY <2>1 DEF CounterInv, SizeIsCounted, Counted
  <1> QED BY <1>1, Inductive, CounterInductive, PTL

-----------------------------------------------------------------------------
(* The nodes that both threads touch.                                      *)

\* What a step does to the place in the files: it takes up one element more,
\* goes on to the next file, or neither.
LEMMA StepShape ==
  ASSUME IInv, [Next]_vars
  PROVE  \/ /\ pc = "reading" /\ pos \in 1..Len(Files[file])
            /\ Begun = pos - 1 /\ Begun' = pos
            /\ file' = file /\ idOffset' = idOffset /\ pc' # "closed"
         \/ Join
         \/ /\ Begun' = Begun /\ file' = file /\ idOffset' = idOffset
            /\ (pc' = "closed") = (pc = "closed") \/ ParseStart
PROOF
  <1>1. pos \in Nat \ {0} /\ file \in Nat \ {0}
    BY DEF IInv, TypeOK
  <1>2. ASSUME Reading
        PROVE  pos \in 1..Len(Files[file])
    <2>1. Files[file] \in Seq(Nodes \cup Ways \cup Relations)
      BY <1>1, <1>2, FilesAssumption DEF Reading, IInv, ParsingAFile
    <2> QED BY <1>1, <1>2, <2>1 DEF Reading
  <1>3. CASE ReadNode \/ SkipWay \/ ReadRelation
    <2>1. Reading /\ pc' = pc /\ file' = file /\ idOffset' = idOffset /\ (pos' = pos \/ pos' = pos + 1)
      BY <1>3 DEF ReadNode, SkipWay, ReadRelation, NextItem
    <2> QED BY <1>1, <1>2, <2>1 DEF Begun, Reading
  <1>4. CASE PushWay
    BY <1>1, <1>2, <1>4 DEF PushWay, Reading, Begun
  <1>5. CASE ParseStart
    BY <1>1, <1>5 DEF ParseStart, Begun
  <1>6. CASE CountPush \/ Throttle \/ ProducerWake \/ NameWay
    BY <1>1, <1>6 DEF CountPush, Throttle, ProducerWake, NameWay, NextItem, Begun
  <1>7. CASE SetDone
    BY <1>1, <1>7 DEF SetDone, Begun
  <1>8. CASE Consumer \/ Terminated \/ UNCHANGED vars
    BY <1>1, <1>8 DEF Consumer, TestDone, Pop, PopNothing, CountPop, Simplify, ConsumerWake,
           Terminated, vars, producerVars, Begun
  <1> QED BY <1>3, <1>4, <1>5, <1>6, <1>7, <1>8 DEF Next, Producer

\* As long as no way of the file was taken up, nothing is queued and the
\* consumer has nothing in hand.
IdleUntilWays ==
  pc # "closed" /\ (\A i \in 1..Begun : Files[file][i].kind # "way") =>
    queue = <<>> /\ inHand = NoWay

\* Only a way taken up ends the idleness of the consumer.
LEMMA StepKeepsIdle == IInv /\ IdleUntilWays /\ [Next]_vars => IdleUntilWays'
PROOF
  <1> SUFFICES ASSUME IInv, IdleUntilWays, [Next]_vars, pc' # "closed",
                      \A i \in 1..Begun' : Files[file'][i].kind # "way"
               PROVE  queue' = <<>> /\ inHand' = NoWay
    BY DEF IdleUntilWays
  <1>1. CASE ParseStart
    BY <1>1 DEF ParseStart, IInv, Lifetime, Drained, Holding
  <1>2. ~Join
    BY DEF Join
  <1>3. pos \in Nat \ {0} /\ file \in Nat \ {0}
    BY DEF IInv, TypeOK
  <1>4. ~PushWay
    <2> SUFFICES ASSUME PushWay
                 PROVE  FALSE
      OBVIOUS
    <2>1. Begun' = pos /\ file' = file /\ Current.kind = "way"
      BY DEF PushWay, Begun
    <2> QED BY <1>3, <2>1 DEF Current
  <1>5. CASE ~ParseStart
    <2>1. Begun' \in Nat /\ file' = file /\ (Begun' = Begun \/ (Begun = pos - 1 /\ Begun' = pos))
      BY <1>2, <1>3, <1>5, StepShape DEF Begun
    <2>2. pc # "closed"
      BY <1>2, <1>5, StepShape
    <2>3. 1..Begun \subseteq 1..Begun'
      BY <1>3, <2>1
    <2>4. queue = <<>> /\ inHand = NoWay
      BY <2>1, <2>2, <2>3 DEF IdleUntilWays
    <2>5. queue' = queue /\ inHand' = inHand
      BY <2>4, <1>2, <1>4, <1>5
         DEF Next, Producer, ReadNode, SkipWay, CountPush, Throttle, ProducerWake, NameWay,
             ReadRelation, SetDone, Consumer, TestDone, Pop, PopNothing, CountPop, Simplify,
             ConsumerWake, Terminated, vars, queueVars, consumerVars, IInv, Holding, Consuming
    <2> QED BY <2>4, <2>5
  <1> QED BY <1>1, <1>5

\* node2Coord has no lock, and needs none for files whose nodes come first:
\* the producer reads a node only while the consumer has nothing to simplify,
\* because nothing is left of the file before (osmpbfreader.cpp:533, 617, 932).
THEOREM NodesAreNotRacedFor ==
  ASSUME SortedFiles
  PROVE  Spec => []NoConcurrentNodeAccess
PROOF
  <1>1. Init => IdleUntilWays
    BY DEF Init, IdleUntilWays
  <1>2. IInv /\ IdleUntilWays => NoConcurrentNodeAccess
    <2> SUFFICES ASSUME IInv, IdleUntilWays, Reading, Current.kind = "node",
                        consumer = "simplify"
                 PROVE  FALSE
      BY DEF NoConcurrentNodeAccess
    <2>1. pc = "reading" /\ file \in DOMAIN Files /\ pos \in 1..Len(Files[file])
      <3>1. file \in 1..Len(Files) /\ pos \in Nat \ {0} /\ pos <= Len(Files[file])
        BY FilesAssumption DEF Reading, IInv, TypeOK, ParsingAFile
      <3>2. Files[file] \in Seq(Nodes \cup Ways \cup Relations)
        BY <3>1, FilesAssumption
      <3> QED BY <3>1, <3>2, FilesAssumption DEF Reading
    <2>2. DOMAIN Files[file] = 1..Len(Files[file]) /\ Len(Files[file]) \in Nat
      BY <2>1, FilesAssumption
    <2>3. ASSUME NEW i \in 1..Begun
          PROVE  Files[file][i].kind # "way"
      <3>1. i \in DOMAIN Files[file] /\ pos \in DOMAIN Files[file] /\ i < pos
        BY <2>1, <2>2 DEF Begun
      <3>2. NodesComeFirst(Files[file])
        BY <2>1 DEF SortedFiles
      <3>3. Files[file][i].kind # "node" => pos < i
        BY <3>1, <3>2 DEF NodesComeFirst, Current
      <3> QED BY <2>1, <3>1, <3>3
    <2>4. inHand = NoWay
      BY <2>1, <2>3 DEF IdleUntilWays
    <2> QED BY <2>4 DEF IInv, Holding
  <1> QED BY <1>1, <1>2, StepKeepsIdle, Inductive, PTL DEF Spec

-----------------------------------------------------------------------------
(* What is kept of a way.                                                  *)

\* The nodes kept of a way are those at the kept positions, no more and no
\* less, and the first and the last node are among them, at the ends.
LEMMA KeptNodesOfAWay ==
  ASSUME NEW w \in QueuedWays
  PROVE  /\ KeptNodes(w) \in Seq(Ids)
         /\ \A i \in KeptPositions(w) :
              \E k \in DOMAIN KeptNodes(w) : KeptNodes(w)[k] = w.refs[i]
         /\ \A k \in DOMAIN KeptNodes(w) :
              \E i \in KeptPositions(w) : KeptNodes(w)[k] = w.refs[i]
         /\ Len(w.refs) >= 1 =>
              /\ Len(KeptNodes(w)) >= 1
              /\ KeptNodes(w)[1] = w.refs[1]
              /\ KeptNodes(w)[Len(KeptNodes(w))] = w.refs[Len(w.refs)]
PROOF
  <1> DEFINE kept == KeptPositions(w)
             c == Cardinality(kept)
             at(k) == CHOOSE i \in kept : Cardinality({j \in kept : j <= i}) = k
  <1>1. w.refs \in Seq(Ids) /\ DOMAIN w.refs = 1..Len(w.refs) /\ Len(w.refs) \in Nat
    BY DEF QueuedWays
  <1>2. kept \in SUBSET (1..Len(w.refs)) /\ kept \in SUBSET Nat
    BY <1>1 DEF KeptPositions
  <1>3. IsFiniteSet(kept)
    <2>1. IsFiniteSet(1..Len(w.refs))
      BY <1>1, FS_Interval
    <2> QED BY <1>2, <2>1, FS_Subset
  <1>4. /\ c \in Nat
        /\ \A n \in kept : Rank(kept, n) \in 1..c
        /\ \A m, n \in kept : m < n => Rank(kept, m) < Rank(kept, n)
    BY <1>2, <1>3, RankGrows
  <1>5. KeptNodes(w) = [k \in 1..c |-> w.refs[at(k)]]
    BY Zenon DEF KeptNodes
  <1>6. ASSUME NEW k \in 1..c
        PROVE  at(k) \in kept /\ Rank(kept, at(k)) = k
    <2>1. \E i \in kept : Rank(kept, i) = k
      BY <1>2, <1>3, RankIsOnto
    <2> QED BY <2>1, Zenon DEF Rank
  <1>7. ASSUME NEW i \in kept
        PROVE  at(Rank(kept, i)) = i
    <2>1. Rank(kept, i) \in 1..c
      BY <1>4
    <2>2. PICK k \in 1..c : k = Rank(kept, i)
      BY <2>1
    <2>3. PICK n \in kept : n = at(k)
      BY <1>6
    <2>4. Rank(kept, n) = Rank(kept, i)
      BY <1>6, <2>2, <2>3
    <2>5. i \in Nat /\ n \in Nat /\ Rank(kept, i) \in Nat
      BY <1>2, <1>4
    <2>6. ~(i < n) /\ ~(n < i)
      BY <1>4, <2>4, <2>5
    <2>7. i = n
      BY <2>5, <2>6
    <2> QED BY <2>2, <2>3, <2>7
  <1> HIDE DEF kept, c, at
  <1>8. KeptNodes(w) \in Seq(Ids) /\ Len(KeptNodes(w)) = c /\ DOMAIN KeptNodes(w) = 1..c
    <2>1. \A k \in 1..c : w.refs[at(k)] \in Ids
      <3>1. \A i \in 1..Len(w.refs) : w.refs[i] \in Ids
        BY <1>1
      <3>2. \A k \in 1..c : at(k) \in 1..Len(w.refs)
        BY <1>2, <1>6
      <3> QED BY <3>1, <3>2
    <2>2. KeptNodes(w) = [k \in 1..c |-> w.refs[at(k)]] /\ c \in Nat
      BY <1>4, <1>5
    <2> QED BY <2>1, <2>2
  <1>9. ASSUME NEW i \in kept
        PROVE  Rank(kept, i) \in 1..c /\ KeptNodes(w)[Rank(kept, i)] = w.refs[i]
    BY <1>4, <1>5, <1>7
  <1>10. ASSUME NEW k \in 1..c
         PROVE  at(k) \in kept /\ KeptNodes(w)[k] = w.refs[at(k)]
    BY <1>5, <1>6
  <1>11. ASSUME Len(w.refs) >= 1
         PROVE  /\ c >= 1
                /\ KeptNodes(w)[1] = w.refs[1]
                /\ KeptNodes(w)[c] = w.refs[Len(w.refs)]
    <2>1. 1 \in kept /\ Len(w.refs) \in kept
      BY <1>1, <1>11 DEF kept, KeptPositions, Superfluous
    <2>2. Rank(kept, 1) = 1
      <3>1. \A m \in kept : m <= 1 <=> m = 1
        BY <1>1, <1>2
      <3>2. {m \in kept : m <= 1} = {1}
        BY <2>1, <3>1
      <3> QED BY <3>2, FS_Singleton DEF Rank
    <2>3. Rank(kept, Len(w.refs)) = c
      <3>1. \A m \in kept : m <= Len(w.refs)
        BY <1>1, <1>2
      <3>2. {m \in kept : m <= Len(w.refs)} = kept
        BY <3>1
      <3> QED BY <3>2 DEF Rank, c
    <2>4. c >= 1
      BY <1>4, <2>1
    <2> QED BY <1>9, <2>1, <2>2, <2>3, <2>4
  <1> QED BY <1>8, <1>9, <1>10, <1>11 DEF kept

-----------------------------------------------------------------------------
(* The counters of the nodes.                                              *)

\* Counting with a limited number of values is counting, and taking the rest
\* at the end.
LEMMA CountingWraps ==
  ASSUME NEW w \in Nat \ {0}, NEW a \in Nat, NEW b \in Nat
  PROVE  /\ a % w \in 0..(w - 1)
         /\ ((a % w) + b) % w = (a + b) % w
         /\ a < w => a % w = a
PROOF
  <1>1. \A x \in Nat : /\ x % w \in 0..(w - 1) /\ x \div w \in Int
                       /\ x = w * (x \div w) + (x % w)
    OBVIOUS
  <1>2. a < w => a % w = a
    OBVIOUS
  <1> DEFINE r == a % w
             p == a \div w
             q == (r + b) \div w
             t == (a + b) \div w
             u == (r + b) % w
             v == (a + b) % w
  <1>3. r \in 0..(w - 1) /\ p \in Int /\ a = w * p + r
    BY <1>1
  <1>4. r + b \in Nat /\ a + b \in Nat
    BY <1>3
  <1>5. u \in 0..(w - 1) /\ q \in Int /\ r + b = w * q + u
    BY <1>1, <1>4
  <1>6. v \in 0..(w - 1) /\ t \in Int /\ a + b = w * t + v
    BY <1>1, <1>4
  <1> HIDE DEF r, p, q, t, u, v
  <1>7. u = v
    <2> DEFINE d == p + q - t
    <2>1. d \in Int /\ w * d = w * p + w * q - w * t
      BY <1>3, <1>5, <1>6
    <2>2. w * d = v - u
      BY <2>1, <1>3, <1>5, <1>6
    <2> HIDE DEF d
    <2>3. d > 0 => w * d >= w
      BY <2>1
    <2>4. d < 0 => w * d <= -w
      BY <2>1
    <2>5. d = 0
      BY <2>1, <2>2, <2>3, <2>4, <1>5, <1>6
    <2> QED BY <2>2, <2>5, <1>5, <1>6
  <1> QED BY <1>1, <1>2, <1>7 DEF r, u, v

\* Nodes have natural counters; stored ways have known nodes only, each used
\* at finitely many places; and names of nodes are those of known nodes.
UsesAreNumbers == uses \in [DOMAIN uses -> Nat] /\ DOMAIN uses \subseteq Ids
WaysHaveNodes  == \A w \in DOMAIN wayNodes :
                    /\ wayNodes[w] \in Seq(Ids)
                    /\ \A i \in DOMAIN wayNodes[w] : wayNodes[w][i] \in DOMAIN uses
NamedAreKnown  == \A n \in Ids : <<"node", n>> \in names => n \in DOMAIN uses
PlacesAreFew   == \A n \in Ids : IsFiniteSet(Places(n))

UsesInv == /\ UsesAreNumbers /\ WaysHaveNodes /\ NamedAreKnown /\ PlacesAreFew
           /\ CountersAreUses

\* Storing a way adds a place for every occurrence of a node in it.
LEMMA StoringAddsPlaces ==
  ASSUME NEW id, id \notin DOMAIN wayNodes, NEW s \in Seq(Ids), NEW n \in Ids,
         wayNodes' = With(wayNodes, id, s), IsFiniteSet(Places(n))
  PROVE  /\ IsFiniteSet(Places(n)') /\ Cardinality(Places(n)) \in Nat
         /\ Occurrences(s, n) \in Nat
         /\ Cardinality(Places(n)') = Cardinality(Places(n)) + Occurrences(s, n)
PROOF
  <1> DEFINE occ == {i \in DOMAIN s : s[i] = n}
             new == {<<id, i>> : i \in occ}
             f == [i \in occ |-> <<id, i>>]
  <1>1. IsFiniteSet(occ) /\ Cardinality(occ) = Occurrences(s, n) /\ Cardinality(occ) \in Nat
    <2>1. DOMAIN s = 1..Len(s) /\ Len(s) \in Nat
      OBVIOUS
    <2>2. IsFiniteSet(1..Len(s)) /\ occ \in SUBSET (1..Len(s))
      BY <2>1, FS_Interval
    <2>3. IsFiniteSet(occ)
      BY <2>2, FS_Subset
    <2> QED BY <2>3, FS_CardinalityType DEF Occurrences
  <1>2. f \in Bijection(occ, new)
    BY DEF Bijection, Injection, Surjection, IsInjective
  <1>3. IsFiniteSet(new) /\ Cardinality(new) = Cardinality(occ)
    <2> HIDE DEF f, new, occ
    <2>1. ExistsBijection(occ, new)
      BY <1>2 DEF ExistsBijection
    <2> QED BY <1>1, <2>1, FS_Bijection
  <1>4. Places(n)' = Places(n) \cup new
    <2>1. DOMAIN wayNodes' = DOMAIN wayNodes \cup {id} /\ wayNodes'[id] = s
      BY DEF With
    <2>2. \A w \in DOMAIN wayNodes : wayNodes'[w] = wayNodes[w]
      BY DEF With
    <2>3. PlacesIn(id, n)' = new
      BY <2>1 DEF PlacesIn
    <2>4. \A w \in DOMAIN wayNodes : PlacesIn(w, n)' = PlacesIn(w, n)
      BY <2>2 DEF PlacesIn
    <2>5. Places(n)' = UNION {PlacesIn(w, n)' : w \in DOMAIN wayNodes \cup {id}}
      BY <2>1 DEF Places
    <2> HIDE DEF new
    <2> QED BY <2>3, <2>4, <2>5, Zenon DEF Places
  <1>5. Places(n) \cap new = {}
    <2> SUFFICES ASSUME NEW w \in DOMAIN wayNodes, NEW p \in PlacesIn(w, n), p \in new
                 PROVE  FALSE
      BY DEF Places
    <2> QED BY DEF PlacesIn
  <1>6. Cardinality(Places(n) \cap new) = 0
    BY <1>5, FS_EmptySet
  <1>7. Cardinality(Places(n)) \in Nat
    BY FS_CardinalityType
  <1> HIDE DEF new, occ
  <1>8. /\ IsFiniteSet(Places(n) \cup new)
        /\ Cardinality(Places(n) \cup new)
             = Cardinality(Places(n)) + Cardinality(new) - Cardinality(Places(n) \cap new)
    BY <1>3, FS_Union
  <1> QED BY <1>1, <1>3, <1>4, <1>6, <1>7, <1>8

\* Reading a node, that is new, preserves the invariant of the counters.
LEMMA ReadNodeKeepsUses == IInv /\ UsesInv /\ ReadNode => UsesInv'
PROOF
  <1> SUFFICES ASSUME IInv, UsesInv, ReadNode
               PROVE  UsesInv'
    OBVIOUS
  <1> DEFINE n0 == CurrentId
             v0 == IF Current.name = "none" THEN 0 ELSE 1
  <1>1. wayNodes' = wayNodes /\ \A n \in Ids : Places(n)' = Places(n)
    BY DEF ReadNode, Places, PlacesIn
  <1>2. CASE n0 \in DOMAIN uses
    <2>1. uses' = uses /\ names' = names
      BY <1>2 DEF ReadNode
    <2> QED BY <1>1, <2>1
            DEF UsesInv, UsesAreNumbers, WaysHaveNodes, NamedAreKnown, PlacesAreFew, CountersAreUses, CounterOf
  <1>3. CASE n0 \notin DOMAIN uses
    <2>1. uses' = With(uses, n0, v0) /\ names' = NamesWith("node", n0, Current.name)
      BY <1>3 DEF ReadNode, NewNodeUses
    <2>2. n0 \in Ids
      <3>1. file \in 1..Len(Files) /\ pos \in 1..Len(Files[file])
        <4>1. file \in 1..Len(Files) /\ pos \in Nat \ {0} /\ pos <= Len(Files[file])
          BY FilesAssumption DEF ReadNode, Reading, IInv, TypeOK, ParsingAFile
        <4>2. Len(Files[file]) \in Nat
          BY <4>1, FilesAssumption
        <4> QED BY <4>1, <4>2
      <3>2. Current.id \in Ids /\ idOffset \in Nat
        BY <3>1, CurrentIsTyped DEF IInv, TypeOK
      <3> QED BY <3>2 DEF CurrentId, Ids
    <2> HIDE DEF n0, v0
    <2>3. /\ DOMAIN uses' = DOMAIN uses \cup {n0} /\ uses'[n0] = v0
          /\ \A n \in DOMAIN uses : uses'[n] = uses[n]
      BY <1>3, <2>1 DEF With
    <2>4. v0 \in {0, 1} /\ (Current.name = "usable" => v0 = 1)
      BY DEF v0
    <2>5. /\ <<"node", n0>> \in names' => v0 = 1
          /\ \A n \in Ids : n # n0 /\ <<"node", n>> \in names' => <<"node", n>> \in names
      BY <1>3, <2>1, <2>2, <2>4 DEF NamesWith, UsesInv, NamedAreKnown
    <2>6. UsesAreNumbers'
      <3>1. uses' \in [DOMAIN uses \cup {n0} -> Nat]
        <4>1. uses' = [y \in DOMAIN uses \cup {n0} |-> IF y = n0 THEN v0 ELSE uses[y]]
          BY <2>1 DEF With
        <4>2. \A y \in DOMAIN uses \cup {n0} : (IF y = n0 THEN v0 ELSE uses[y]) \in Nat
          BY <2>4 DEF UsesInv, UsesAreNumbers
        <4> QED BY <4>1, <4>2
      <3> QED BY <2>2, <2>3, <3>1 DEF UsesInv, UsesAreNumbers
    <2>7. WaysHaveNodes'
      BY <1>1, <2>3 DEF UsesInv, WaysHaveNodes
    <2>8. NamedAreKnown'
      BY <2>3, <2>5 DEF UsesInv, NamedAreKnown
    <2>9. PlacesAreFew'
      BY <1>1 DEF UsesInv, PlacesAreFew
    <2>10. Places(n0) = {} /\ Cardinality(Places(n0)) = 0
      <3>1. Places(n0) = {}
        BY <1>3 DEF UsesInv, WaysHaveNodes, Places, PlacesIn
      <3> QED BY <3>1, FS_EmptySet
    <2>11. ASSUME NEW n \in DOMAIN uses'
           PROVE  \E named \in {0, 1} : /\ uses'[n] = CounterOf(n, named)'
                                        /\ <<"node", n>> \in names' => named = 1
      <3>1. CASE n = n0
        <4>1. Places(n)' = Places(n0)
          BY <1>1, <2>2, <3>1
        <4>2. \A named \in {0, 1} : CounterOf(n, named)' = (0 + named) % CounterWrap
          BY <2>10, <4>1 DEF CounterOf
        <4>3. 0 % CounterWrap = 0 /\ 1 % CounterWrap = 1
          BY CountingWraps, LimitAssumption
        <4>4. \A named \in {0, 1} : CounterOf(n, named)' = named
          BY <4>2, <4>3
        <4> QED BY <2>3, <2>4, <2>5, <3>1, <4>4
      <3>2. CASE n # n0
        <4>1. n \in DOMAIN uses /\ n \in Ids /\ Places(n)' = Places(n)
          BY <1>1, <2>3, <3>2 DEF UsesInv, UsesAreNumbers
        <4>2. \A named \in {0, 1} : CounterOf(n, named)' = CounterOf(n, named)
          BY <4>1 DEF CounterOf
        <4>3. PICK named \in {0, 1} : uses[n] = CounterOf(n, named) /\ (<<"node", n>> \in names => named = 1)
          BY <4>1 DEF UsesInv, CountersAreUses
        <4> QED BY <2>3, <2>5, <3>2, <4>1, <4>2, <4>3
      <3> QED BY <3>1, <3>2
    <2>12. CountersAreUses'
      BY <2>11 DEF CountersAreUses
    <2> QED BY <2>6, <2>7, <2>8, <2>9, <2>12 DEF UsesInv
  <1> QED BY <1>2, <1>3

\* Storing a way raises the counter of each of its nodes by the number of
\* places it adds.
LEMMA SimplifyKeepsUses == IInv /\ UsesInv /\ Simplify => UsesInv'
PROOF
  <1> SUFFICES ASSUME IInv, UsesInv, Simplify
               PROVE  UsesInv'
    OBVIOUS
  <1>1. names' = names
    BY DEF Simplify
  <1>2. CASE Unknown(inHand) \/ inHand.id \in DOMAIN wayNodes
    <2>1. uses' = uses /\ wayNodes' = wayNodes
      BY <1>2 DEF Simplify
    <2>2. \A n \in Ids : Places(n)' = Places(n)
      BY <2>1 DEF Places, PlacesIn
    <2> QED BY <1>1, <2>1, <2>2
            DEF UsesInv, UsesAreNumbers, WaysHaveNodes, NamedAreKnown, PlacesAreFew, CountersAreUses, CounterOf
  <1>3. CASE ~Unknown(inHand) /\ inHand.id \notin DOMAIN wayNodes
    <2> DEFINE s == KeptNodes(inHand)
    <2>1. /\ uses' = UsesWith(s) /\ wayNodes' = With(wayNodes, inHand.id, s)
          /\ inHand.id \notin DOMAIN wayNodes
      BY <1>3 DEF Simplify
    <2>2. inHand \in QueuedWays
      BY DEF Simplify, Consuming, IInv, TypeOK, Holding
    <2>3. s \in Seq(Ids) /\ \A i \in DOMAIN s : s[i] \in DOMAIN uses
      <3>1. \A i \in DOMAIN inHand.refs : inHand.refs[i] \in DOMAIN uses
        BY <1>3 DEF Unknown
      <3>2. KeptPositions(inHand) \subseteq DOMAIN inHand.refs
        BY DEF KeptPositions
      <3>3. /\ s \in Seq(Ids)
            /\ \A k \in DOMAIN s : \E i \in KeptPositions(inHand) : s[k] = inHand.refs[i]
        BY <2>2, KeptNodesOfAWay
      <3> HIDE DEF s
      <3> QED BY <3>1, <3>2, <3>3
    <2> HIDE DEF s
    <2>4. DOMAIN uses' = DOMAIN uses /\ \A n \in DOMAIN uses : uses'[n] = (uses[n] + Occurrences(s, n)) % CounterWrap
      BY <2>1 DEF UsesWith
    <2>5. ASSUME NEW n \in Ids
          PROVE  /\ IsFiniteSet(Places(n)') /\ Cardinality(Places(n)) \in Nat
                 /\ Occurrences(s, n) \in Nat
                 /\ Cardinality(Places(n)') = Cardinality(Places(n)) + Occurrences(s, n)
      <3>1. IsFiniteSet(Places(n))
        BY DEF UsesInv, PlacesAreFew
      <3> QED BY <2>1, <2>3, <3>1, StoringAddsPlaces
    <2>6. UsesAreNumbers'
      <3>1. uses' = [n \in DOMAIN uses |-> (uses[n] + Occurrences(s, n)) % CounterWrap]
        BY <2>1 DEF UsesWith
      <3>2. ASSUME NEW n \in DOMAIN uses
            PROVE  (uses[n] + Occurrences(s, n)) % CounterWrap \in Nat
        <4>1. uses[n] + Occurrences(s, n) \in Nat /\ CounterWrap \in Nat \ {0}
          BY <2>5, LimitAssumption DEF UsesInv, UsesAreNumbers
        <4> QED BY <4>1, CountingWraps
      <3>3. uses' \in [DOMAIN uses -> Nat]
        BY <3>1, <3>2
      <3> QED BY <2>4, <3>3 DEF UsesInv, UsesAreNumbers
    <2>7. WaysHaveNodes'
      <3>1. DOMAIN wayNodes' = DOMAIN wayNodes \cup {inHand.id}
        BY <2>1 DEF With
      <3>2. ASSUME NEW w \in DOMAIN wayNodes'
            PROVE  wayNodes'[w] = IF w = inHand.id THEN s ELSE wayNodes[w]
        BY <2>1, <3>1 DEF With
      <3>3. ASSUME NEW w \in DOMAIN wayNodes'
            PROVE  /\ wayNodes'[w] \in Seq(Ids)
                   /\ \A i \in DOMAIN wayNodes'[w] : wayNodes'[w][i] \in DOMAIN uses'
        <4>1. CASE w = inHand.id
          BY <2>3, <2>4, <3>2, <4>1
        <4>2. CASE w # inHand.id
          BY <2>4, <3>1, <3>2, <4>2 DEF UsesInv, WaysHaveNodes
        <4> QED BY <4>1, <4>2
      <3> QED BY <3>3 DEF WaysHaveNodes
    <2>8. NamedAreKnown' /\ PlacesAreFew'
      BY <1>1, <2>4, <2>5 DEF UsesInv, NamedAreKnown, PlacesAreFew
    <2>9. CountersAreUses'
      <3>1. ASSUME NEW n \in DOMAIN uses, NEW named \in {0, 1}, uses[n] = CounterOf(n, named)
            PROVE  uses'[n] = CounterOf(n, named)'
        <4> DEFINE a == Cardinality(Places(n)) + named
                   o == Occurrences(s, n)
        <4>1. /\ n \in Ids /\ o \in Nat /\ Cardinality(Places(n)) \in Nat /\ a \in Nat
              /\ Cardinality(Places(n)') = Cardinality(Places(n)) + o
          BY <2>5 DEF UsesInv, UsesAreNumbers
        <4>2. CounterOf(n, named)' = (Cardinality(Places(n)') + named) % CounterWrap
          BY DEF CounterOf
        <4>3. Cardinality(Places(n)') + named = a + o
          BY <4>1
        <4>4. uses'[n] = ((a % CounterWrap) + o) % CounterWrap
          BY <2>4, <3>1 DEF CounterOf
        <4> HIDE DEF a, o
        <4>5. ((a % CounterWrap) + o) % CounterWrap = (a + o) % CounterWrap
          BY <4>1, CountingWraps, LimitAssumption
        <4> QED BY <4>2, <4>3, <4>4, <4>5
      <3>2. ASSUME NEW n \in DOMAIN uses
            PROVE  \E named \in {0, 1} : /\ uses'[n] = CounterOf(n, named)'
                                         /\ <<"node", n>> \in names' => named = 1
        <4>1. PICK named \in {0, 1} : uses[n] = CounterOf(n, named) /\ (<<"node", n>> \in names => named = 1)
          BY DEF UsesInv, CountersAreUses
        <4> QED BY <1>1, <3>1, <4>1
      <3> QED BY <2>4, <3>2 DEF CountersAreUses
    <2> QED BY <2>6, <2>7, <2>8, <2>9 DEF UsesInv
  <1> QED BY <1>2, <1>3

\* The invariant of the counters holds in every reachable state.
LEMMA UsesInductive == Spec => []UsesInv
PROOF
  <1>1. Init => UsesInv
    <2> SUFFICES ASSUME Init
                 PROVE  UsesInv
      OBVIOUS
    <2>1. uses = <<>> /\ wayNodes = <<>> /\ names = {} /\ DOMAIN uses = {} /\ DOMAIN wayNodes = {}
      BY DEF Init
    <2>2. \A n \in Ids : Places(n) = {}
      BY <2>1 DEF Places
    <2>3. uses \in [DOMAIN uses -> Nat]
      BY <2>1
    <2> QED BY <2>1, <2>2, <2>3, FS_EmptySet
            DEF UsesInv, UsesAreNumbers, WaysHaveNodes, NamedAreKnown, PlacesAreFew, CountersAreUses, CounterOf
  <1>2. IInv /\ UsesInv /\ [Next]_vars => UsesInv'
    <2> SUFFICES ASSUME IInv, UsesInv, [Next]_vars
                 PROVE  UsesInv'
      OBVIOUS
    <2> DEFINE Same == /\ uses' = uses /\ wayNodes' = wayNodes
                       /\ \A n \in Ids : <<"node", n>> \in names' <=> <<"node", n>> \in names
    <2>1. CASE ReadNode \/ Simplify
      BY <2>1, ReadNodeKeepsUses, SimplifyKeepsUses
    <2>2. CASE Same
      <3>1. \A n \in Ids : Places(n)' = Places(n)
        BY <2>2 DEF Places, PlacesIn
      <3> QED BY <2>2, <3>1
              DEF UsesInv, UsesAreNumbers, WaysHaveNodes, NamedAreKnown, PlacesAreFew, CountersAreUses, CounterOf
    <2>3. NameWay \/ ReadRelation => Same
      BY DEF NameWay, ReadRelation, NamesWith
    <2>4. ReadNode \/ Simplify \/ NameWay \/ ReadRelation \/ Same
      BY DEF Next, Producer, ParseStart, SkipWay, PushWay, CountPush, Throttle, ProducerWake,
             SetDone, Join, Consumer, TestDone, Pop, PopNothing, CountPop, ConsumerWake,
             Terminated, vars, dataVars
    <2> QED BY <2>1, <2>2, <2>3, <2>4
  <1> QED BY <1>1, <1>2, Inductive, PTL DEF Spec

\* The counter of a node is the number of places at which stored ways use it,
\* plus one if it has a name, modulo the values the counter has: however the
\* two threads interleave, no use is counted twice or forgotten
\* (osmpbfreader.cpp:139, 173-174, 232-235).
THEOREM CountersAreRight == Spec => []CountersAreUses
PROOF BY UsesInductive, PTL DEF UsesInv

-----------------------------------------------------------------------------
(* The ways that are stored.                                               *)

\* The way the consumer holds is the next one of those pushed, and those it
\* stored are the ones pushed before.
LEMMA InHandIsNext ==
  ASSUME IInv, NothingLost
  PROVE  /\ DOMAIN simplified = 1..Len(simplified) /\ Len(simplified) \in Nat
         /\ DOMAIN pushed = 1..Len(pushed) /\ Len(pushed) \in Nat
         /\ \A k \in DOMAIN simplified : k \in DOMAIN pushed /\ pushed[k] = simplified[k]
         /\ inHand # NoWay => /\ Len(simplified) + 1 \in DOMAIN pushed
                              /\ pushed[Len(simplified) + 1] = inHand
         /\ inHand = NoWay /\ queue = <<>> => pushed = simplified
PROOF
  <1>1. /\ queue \in Seq(QueuedWays) /\ simplified \in Seq(QueuedWays)
        /\ pushed \in Seq(QueuedWays) /\ inHand \in QueuedWays \cup {NoWay}
        /\ InHand \in Seq(QueuedWays)
    BY DEF IInv, TypeOK, InHand
  <1>2. pushed = (simplified \o InHand) \o queue
    BY DEF NothingLost
  <1> DEFINE a == simplified \o InHand
  <1>3. /\ a \in Seq(QueuedWays) /\ Len(a) = Len(simplified) + Len(InHand)
        /\ \A k \in 1..Len(simplified) : a[k] = simplified[k]
        /\ \A k \in 1..Len(InHand) : a[Len(simplified) + k] = InHand[k]
    BY <1>1, ConcatProperties
  <1>4. /\ Len(simplified) \in Nat /\ Len(InHand) \in Nat /\ Len(queue) \in Nat
        /\ DOMAIN simplified = 1..Len(simplified) /\ DOMAIN pushed = 1..Len(pushed)
        /\ Len(pushed) \in Nat
    BY <1>1
  <1> HIDE DEF a
  <1>5. Len(pushed) = Len(a) + Len(queue) /\ \A k \in 1..Len(a) : pushed[k] = a[k]
    BY <1>1, <1>2, <1>3, ConcatProperties DEF a
  <1>6. \A k \in DOMAIN simplified : k \in DOMAIN pushed /\ pushed[k] = simplified[k]
    <2> SUFFICES ASSUME NEW k \in 1..Len(simplified)
                 PROVE  k \in 1..Len(pushed) /\ pushed[k] = simplified[k]
      BY <1>4
    <2>1. k \in 1..Len(a)
      BY <1>3, <1>4
    <2> QED BY <1>3, <1>4, <1>5, <2>1
  <1>7. inHand # NoWay => /\ Len(simplified) + 1 \in DOMAIN pushed
                          /\ pushed[Len(simplified) + 1] = inHand
    <2> SUFFICES ASSUME inHand # NoWay
                 PROVE  /\ Len(simplified) + 1 \in 1..Len(pushed)
                        /\ pushed[Len(simplified) + 1] = inHand
      BY <1>1
    <2>1. InHand = <<inHand>> /\ Len(InHand) = 1 /\ InHand[1] = inHand
      BY DEF InHand
    <2>2. 1 \in 1..Len(InHand) /\ Len(simplified) + 1 \in 1..Len(a)
      BY <1>3, <1>4, <2>1
    <2> QED BY <1>3, <1>4, <1>5, <2>1, <2>2
  <1>8. inHand = NoWay /\ queue = <<>> => pushed = simplified
    BY <1>1, <1>2, ConcatEmptySeq DEF InHand
  <1> QED BY <1>4, <1>6, <1>7, <1>8

\* Ways are pushed only if they have two nodes or more.
LongEnough == \A k \in DOMAIN pushed : Len(pushed[k].refs) >= 2

\* Way number k of those simplified is stored, with its first and last node.
EndsAreKept ==
  \A k \in DOMAIN simplified :
    LET w == simplified[k]
        s == wayNodes[w.id]
    IN  /\ w.id \in DOMAIN wayNodes
        /\ s[1] = w.refs[1] /\ s[Len(s)] = w.refs[Len(w.refs)]

\* A way keeps the nodes that any way before it kept.
KeepsNodesOf(j, i) ==
  \A n \in Elements(simplified[j].refs) \cap Elements(wayNodes[simplified[i].id]) :
    CounterHolds(n) => n \in Elements(wayNodes[simplified[j].id])
JunctionsAreKept == \A i, j \in DOMAIN simplified : i < j => KeepsNodesOf(j, i)

StoredInv == LongEnough /\ EndsAreKept /\ JunctionsAreKept

\* A node that a stored way uses has a counter above zero.
LEMMA UsedIsCounted ==
  ASSUME UsesInv, NEW w \in DOMAIN wayNodes, NEW i \in DOMAIN wayNodes[w], CounterHolds(wayNodes[w][i])
  PROVE  wayNodes[w][i] \in DOMAIN uses /\ uses[wayNodes[w][i]] # 0
PROOF
  <1> DEFINE n == wayNodes[w][i]
  <1>1. n \in DOMAIN uses /\ n \in Ids
    BY DEF UsesInv, WaysHaveNodes, UsesAreNumbers
  <1> HIDE DEF n
  <1>2. <<w, i>> \in Places(n)
    BY DEF Places, PlacesIn, n
  <1>3. IsFiniteSet(Places(n))
    BY <1>1 DEF UsesInv, PlacesAreFew
  <1>4. Cardinality(Places(n)) \in Nat /\ Cardinality(Places(n)) # 0
    <2>1. Places(n) # {}
      BY <1>2
    <2> QED BY <1>3, <2>1, FS_CardinalityType, FS_EmptySet
  <1>5. PICK named \in {0, 1} : uses[n] = CounterOf(n, named)
    BY <1>1 DEF UsesInv, CountersAreUses
  <1>6. uses[n] # 0
    <2> DEFINE a == Cardinality(Places(n)) + named
    <2>1. a \in Nat /\ a # 0 /\ a < CounterWrap
      <3>1. Cardinality(Places(n)) + 1 < CounterWrap
        BY DEF CounterHolds, n
      <3> QED BY <1>4, <3>1, LimitAssumption
    <2>2. uses[n] = a % CounterWrap
      BY <1>5 DEF CounterOf
    <2> HIDE DEF a
    <2>3. a % CounterWrap = a
      BY <2>1, CountingWraps, LimitAssumption
    <2> QED BY <2>1, <2>2, <2>3
  <1> QED BY <1>1, <1>6 DEF n

\* Junctions are kept as long as no way is stored.
LEMMA StoredAsBefore ==
  ASSUME wayNodes' = wayNodes, simplified' = simplified, JunctionsAreKept
  PROVE  JunctionsAreKept'
PROOF
  <1>1. \A n : CounterHolds(n)' <=> CounterHolds(n)
    BY DEF CounterHolds, Places, PlacesIn
  <1>2. ASSUME NEW i \in DOMAIN simplified, NEW j \in DOMAIN simplified, i < j
        PROVE  KeepsNodesOf(j, i)'
    <2>1. KeepsNodesOf(j, i)
      BY <1>2 DEF JunctionsAreKept
    <2> QED BY <1>1, <2>1 DEF KeepsNodesOf
  <1> QED BY <1>2 DEF JunctionsAreKept

\* Storing a way leaves those stored before as they are and keeps its ends
\* and its junctions with them.
LEMMA SimplifyKeepsStored ==
  IInv /\ NothingLost /\ UsesInv /\ StoredInv /\ Simplify => StoredInv'
PROOF
  <1> SUFFICES ASSUME IInv, NothingLost, UsesInv, StoredInv, Simplify
               PROVE  StoredInv'
    OBVIOUS
  <1>1. pushed' = pushed
    BY DEF Simplify
  <1>2. CASE Unknown(inHand) \/ inHand.id \in DOMAIN wayNodes
    <2>1. wayNodes' = wayNodes /\ simplified' = simplified
      BY <1>2 DEF Simplify
    <2>2. JunctionsAreKept'
      BY <2>1, StoredAsBefore DEF StoredInv
    <2> QED BY <1>1, <2>1, <2>2 DEF StoredInv, LongEnough, EndsAreKept
  <1>3. CASE ~Unknown(inHand) /\ inHand.id \notin DOMAIN wayNodes
    <2> DEFINE s == KeptNodes(inHand)
               l == Len(simplified)
    <2>1. /\ wayNodes' = With(wayNodes, inHand.id, s)
          /\ simplified' = Append(simplified, inHand)
      BY <1>3 DEF Simplify
    <2>2. inHand \in QueuedWays /\ inHand # NoWay
      BY DEF Simplify, Consuming, IInv, TypeOK, Holding
    <2>3. l \in Nat /\ DOMAIN simplified = 1..l /\ Len(inHand.refs) >= 2
      BY <2>2, InHandIsNext DEF StoredInv, LongEnough
    <2>4. inHand.refs \in Seq(Ids) /\ Len(inHand.refs) >= 1 /\ DOMAIN inHand.refs = 1..Len(inHand.refs)
      BY <2>2, <2>3 DEF QueuedWays
    <2>5. /\ s \in Seq(Ids) /\ Len(s) >= 1
          /\ s[1] = inHand.refs[1] /\ s[Len(s)] = inHand.refs[Len(inHand.refs)]
          /\ \A i \in KeptPositions(inHand) : \E k \in DOMAIN s : s[k] = inHand.refs[i]
      BY <2>2, <2>4, KeptNodesOfAWay
    <2> HIDE DEF s
    <2>6. /\ DOMAIN simplified' = 1..(l + 1) /\ simplified'[l + 1] = inHand
          /\ \A k \in 1..l : simplified'[k] = simplified[k]
      BY <2>1, <2>2, <2>3 DEF IInv, TypeOK
    <2>7. DOMAIN wayNodes' = DOMAIN wayNodes \cup {inHand.id} /\ wayNodes'[inHand.id] = s
      BY <2>1 DEF With
    <2>8. \A w \in DOMAIN wayNodes : wayNodes'[w] = wayNodes[w]
      BY <1>3, <2>1 DEF With
    <2>9. \A k \in 1..l : simplified[k].id \in DOMAIN wayNodes
      BY <2>3 DEF StoredInv, EndsAreKept
    <2>10. EndsAreKept'
      <3>1. ASSUME NEW k \in 1..(l + 1)
            PROVE  LET w == simplified'[k]
                       t == wayNodes'[w.id]
                   IN  /\ w.id \in DOMAIN wayNodes'
                       /\ t[1] = w.refs[1] /\ t[Len(t)] = w.refs[Len(w.refs)]
        <4>1. CASE k = l + 1
          BY <2>5, <2>6, <2>7, <4>1
        <4>2. CASE k # l + 1
          <5>1. k \in 1..l
            BY <2>3, <4>2
          <5>2. /\ simplified'[k] = simplified[k] /\ simplified[k].id \in DOMAIN wayNodes
                /\ wayNodes'[simplified[k].id] = wayNodes[simplified[k].id]
            BY <2>6, <2>8, <2>9, <5>1
          <5> QED BY <2>3, <2>7, <5>1, <5>2 DEF StoredInv, EndsAreKept
        <4> QED BY <4>1, <4>2
      <3> QED BY <2>6, <3>1 DEF EndsAreKept
    <2>11. ASSUME NEW k \in 1..l, NEW n \in Elements(inHand.refs),
                  n \in Elements(wayNodes[simplified[k].id]), CounterHolds(n)
           PROVE  n \in Elements(s)
      <3>1. PICK p \in DOMAIN inHand.refs : inHand.refs[p] = n
        BY DEF Elements
      <3>2. PICK i \in DOMAIN wayNodes[simplified[k].id] : wayNodes[simplified[k].id][i] = n
        BY <2>11 DEF Elements
      <3>3. uses[n] # 0
        BY <2>9, <2>11, <3>2, UsedIsCounted
      <3>4. p \in KeptPositions(inHand)
        BY <3>1, <3>3 DEF KeptPositions, Superfluous
      <3>5. PICK q \in DOMAIN s : s[q] = n
        BY <2>5, <3>1, <3>4
      <3> QED BY <3>5 DEF Elements
    <2>12. ASSUME NEW w \in DOMAIN wayNodes, NEW n \in Elements(wayNodes[w]), CounterHolds(n)'
           PROVE  CounterHolds(n)
      <3>1. n \in Ids
        BY DEF UsesInv, WaysHaveNodes, Elements
      <3>2. IsFiniteSet(Places(n))
        BY <3>1 DEF UsesInv, PlacesAreFew
      <3>3. /\ Cardinality(Places(n)) \in Nat /\ Occurrences(s, n) \in Nat
            /\ Cardinality(Places(n)') = Cardinality(Places(n)) + Occurrences(s, n)
        BY <1>3, <2>1, <2>5, <3>1, <3>2, StoringAddsPlaces
      <3> QED BY <2>12, <3>3, LimitAssumption DEF CounterHolds
    <2>13. JunctionsAreKept'
      <3>1. ASSUME NEW i \in 1..(l + 1), NEW j \in 1..(l + 1), i < j
            PROVE  KeepsNodesOf(j, i)'
        <4>1. i \in 1..l
          BY <2>3, <3>1
        <4>2. simplified'[i] = simplified[i] /\ wayNodes'[simplified[i].id] = wayNodes[simplified[i].id]
          BY <2>6, <2>8, <2>9, <4>1
        <4>3. CASE j = l + 1
          <5>1. simplified'[j] = inHand /\ wayNodes'[simplified'[j].id] = s
            BY <2>6, <2>7, <4>3
          <5> QED BY <2>9, <2>11, <2>12, <4>1, <4>2, <5>1 DEF KeepsNodesOf
        <4>4. CASE j # l + 1
          <5>1. j \in 1..l
            BY <2>3, <4>4
          <5>2. simplified'[j] = simplified[j] /\ wayNodes'[simplified[j].id] = wayNodes[simplified[j].id]
            BY <2>6, <2>8, <2>9, <5>1
          <5>3. KeepsNodesOf(j, i)
            BY <2>3, <3>1, <4>1, <5>1 DEF StoredInv, JunctionsAreKept
          <5> QED BY <2>9, <2>12, <4>1, <4>2, <5>2, <5>3 DEF KeepsNodesOf
        <4> QED BY <4>3, <4>4
      <3> QED BY <2>6, <3>1 DEF JunctionsAreKept
    <2> QED BY <1>1, <2>10, <2>13 DEF StoredInv, LongEnough
  <1> QED BY <1>2, <1>3

\* The invariant of the stored ways holds in every reachable state.
LEMMA StoredInductive == Spec => []StoredInv
PROOF
  <1>1. Init => StoredInv
    BY DEF Init, StoredInv, LongEnough, EndsAreKept, JunctionsAreKept
  <1>2. IInv /\ IInv' /\ NothingLost /\ UsesInv /\ StoredInv /\ [Next]_vars => StoredInv'
    <2> SUFFICES ASSUME IInv, IInv', NothingLost, UsesInv, StoredInv, [Next]_vars
                 PROVE  StoredInv'
      OBVIOUS
    <2>1. CASE Simplify
      BY <2>1, SimplifyKeepsStored
    <2>2. CASE PushWay
      <3>1. wayNodes' = wayNodes /\ simplified' = simplified /\ pushed' = Append(pushed, QueuedWay(Current))
        BY <2>2 DEF PushWay
      <3>2. pushed \in Seq(QueuedWays) /\ pushed' \in Seq(QueuedWays)
        BY DEF IInv, TypeOK
      <3>3. Len(QueuedWay(Current).refs) >= 2
        <4>1. Current.kind = "way" /\ Len(Current.refs) >= 2 /\ Reading
          BY <2>2 DEF PushWay
        <4>2. file \in 1..Len(Files) /\ pos \in Nat \ {0} /\ pos <= Len(Files[file])
          BY <4>1, FilesAssumption DEF Reading, IInv, TypeOK, ParsingAFile
        <4>3. pos \in 1..Len(Files[file])
          BY <4>2, FilesAssumption
        <4>4. Current \in Ways
          BY <4>1, <4>2, <4>3, CurrentIsTyped DEF Nodes, Relations
        <4>5. Current.refs \in Seq(Ids)
          BY <4>4 DEF Ways
        <4>6. Len([i \in DOMAIN Current.refs |-> Current.refs[i] + idOffset]) = Len(Current.refs)
          BY <4>5
        <4> QED BY <4>1, <4>6 DEF QueuedWay
      <3>4. LongEnough'
        <4>1. /\ DOMAIN pushed' = 1..(Len(pushed) + 1) /\ Len(pushed) \in Nat
              /\ pushed'[Len(pushed) + 1] = QueuedWay(Current)
              /\ \A k \in 1..Len(pushed) : pushed'[k] = pushed[k]
              /\ DOMAIN pushed = 1..Len(pushed)
          BY <3>1, <3>2
        <4> QED BY <3>3, <4>1 DEF StoredInv, LongEnough
      <3>5. JunctionsAreKept'
        BY <3>1, StoredAsBefore DEF StoredInv
      <3> QED BY <3>1, <3>4, <3>5 DEF StoredInv, EndsAreKept
    <2> DEFINE Same == UNCHANGED <<wayNodes, simplified, pushed>>
    <2>3. CASE Same
      BY <2>3, StoredAsBefore DEF StoredInv, LongEnough, EndsAreKept
    <2>4. PushWay \/ Simplify \/ Same
      BY DEF Next, Producer, ParseStart, ReadNode, SkipWay, CountPush, Throttle, ProducerWake,
             NameWay, ReadRelation, SetDone, Join, Consumer, TestDone, Pop, PopNothing, CountPop,
             ConsumerWake, Terminated, vars, dataVars
    <2> QED BY <2>1, <2>2, <2>3, <2>4
  <1> QED BY <1>1, <1>2, Inductive, NoWayIsLost, UsesInductive, PTL DEF Spec

\* A way that is stored after another one keeps every node that the other one
\* kept: once used, a node is a junction for good, as long as its counter does
\* not wrap (osmpbfreader.cpp:138-141).
THEOREM LaterWaysMeetEarlierOnes == Spec => []LaterWaysKeepJunctions
PROOF
  <1>1. StoredInv => LaterWaysKeepJunctions
    BY DEF StoredInv, JunctionsAreKept, KeepsNodesOf, LaterWaysKeepJunctions, Before, Elements
  <1> QED BY <1>1, StoredInductive, PTL

-----------------------------------------------------------------------------
(* The files behind us.                                                    *)

\* The offsets of the files satisfy the recursion that defines them.
LEMMA OffsetsAreSums ==
  /\ OffsetOf[1] = 0
  /\ \A f \in 1..Len(Files) : OffsetOf[f + 1] = OffsetOf[f] + (LargestId(Files[f]) + 1)
PROOF
  <1> DEFINE n == Len(Files) + 1
             inc == [f \in 1..n |-> LargestId(Files[f - 1]) + 1]
             IsSum(g) == g = [f \in 1..n |-> IF f = 1 THEN 0
                                             ELSE g[f - 1] + (LargestId(Files[f - 1]) + 1)]
  <1>1. Len(Files) \in Nat /\ n \in Nat \ {0} /\ Len(Files) = n - 1
    BY FilesAssumption
  <1>2. \E g : IsSum(g)
    <2>1. PICK g : g = [f \in 1..n |-> IF f = 1 THEN 0 ELSE g[f - 1] + inc[f]]
      <3> HIDE DEF n, inc
      <3> QED BY <1>1, RunningSumsExist
    <2>2. [f \in 1..n |-> IF f = 1 THEN 0 ELSE g[f - 1] + inc[f]]
            = [f \in 1..n |-> IF f = 1 THEN 0 ELSE g[f - 1] + (LargestId(Files[f - 1]) + 1)]
      OBVIOUS
    <2>3. IsSum(g)
      BY <2>1, <2>2, Zenon
    <2> HIDE DEF IsSum
    <2> QED BY <2>3
  <1>3. OffsetOf = CHOOSE g : IsSum(g)
    BY Zenon DEF OffsetOf
  <1>4. IsSum(OffsetOf)
    <2> HIDE DEF IsSum
    <2> QED BY <1>2, <1>3, Zenon
  <1>5. \A f \in 1..n : OffsetOf[f] = IF f = 1 THEN 0
                                      ELSE OffsetOf[f - 1] + (LargestId(Files[f - 1]) + 1)
    <2> HIDE DEF n
    <2> QED BY <1>4, Zenon
  <1>6. OffsetOf[1] = 0
    BY <1>1, <1>5
  <1>7. ASSUME NEW f \in 1..Len(Files)
        PROVE  OffsetOf[f + 1] = OffsetOf[f] + (LargestId(Files[f]) + 1)
    <2>1. f + 1 \in 1..n /\ f + 1 # 1 /\ (f + 1) - 1 = f
      BY <1>1
    <2> HIDE DEF n
    <2> QED BY <1>5, <2>1
  <1> QED BY <1>6, <1>7

\* A number that is an id of the file, or zero, and not smaller than any id of
\* the file is the largest id.
LEMMA LargestIdIs ==
  ASSUME NEW els \in Seq(Nodes \cup Ways \cup Relations), NEW m \in Nat,
         \A i \in DOMAIN els : els[i].id <= m,
         m = 0 \/ \E i \in DOMAIN els : els[i].id = m
  PROVE  LargestId(els) = m
PROOF
  <1> DEFINE ids == {els[i].id : i \in DOMAIN els} \cup {0}
  <1>1. \A x \in ids : x \in Nat /\ x <= m
    <2>1. \A i \in DOMAIN els : els[i].id \in Nat
      BY DEF Nodes, Ways, Relations, Ids
    <2> QED BY <2>1
  <1>2. m \in ids
    OBVIOUS
  <1> HIDE DEF ids
  <1>3. PICK l \in ids : l = LargestId(els) /\ \A x \in ids : x <= l
    <2>1. \E l \in ids : \A x \in ids : x <= l
      BY <1>1, <1>2
    <2> QED BY <2>1, Zenon DEF LargestId, ids
  <1>4. l \in Nat /\ l <= m /\ m <= l
    BY <1>1, <1>2, <1>3
  <1> QED BY <1>3, <1>4

\* A way as it is queued when the offset is o.
OffsetWay(w, o) == [id |-> w.id + o, refs |-> [i \in DOMAIN w.refs |-> w.refs[i] + o],
                    bends |-> w.bends]

\* The offset is the one of the file, 'largest' the largest id read so far,
\* and every way taken up that has two nodes or more was pushed.
OffsetIs  == file \in 1..(Len(Files) + 1) /\ idOffset = OffsetOf[file]
AtTheEnd  == pc = "join" => pos > Len(Files[file])
LargestIs == pc # "closed" =>
               /\ \A i \in 1..(pos - 1) : Files[file][i].id <= largest
               /\ largest = 0 \/ \E i \in 1..(pos - 1) : Files[file][i].id = largest
IsPushed(f, i) == \E k \in DOMAIN pushed : pushed[k] = OffsetWay(Files[f][i], OffsetOf[f])
TakenUp(f, i)  == f < file \/ (f = file /\ i <= Begun)
AllPushed == \A f \in 1..Len(Files) : \A i \in DOMAIN Files[f] :
               TakenUp(f, i) /\ Files[f][i].kind = "way" /\ Len(Files[f][i].refs) >= 2
                 => IsPushed(f, i)

FileInv == OffsetIs /\ AtTheEnd /\ LargestIs /\ AllPushed

\* The place in the files has its type.
LEMMA PlaceIsTyped ==
  ASSUME IInv
  PROVE  /\ pos \in Nat \ {0} /\ file \in Nat \ {0} /\ Len(Files) \in Nat
         /\ idOffset \in Nat /\ largest \in Nat
         /\ \A f \in 1..Len(Files) :
              /\ Files[f] \in Seq(Nodes \cup Ways \cup Relations)
              /\ Len(Files[f]) \in Nat /\ DOMAIN Files[f] = 1..Len(Files[f])
         /\ pc # "closed" => file \in 1..Len(Files)
         /\ Reading => pos \in 1..Len(Files[file]) /\ Current.id \in Ids
PROOF
  <1>1. /\ pos \in Nat \ {0} /\ file \in Nat \ {0} /\ Len(Files) \in Nat
        /\ idOffset \in Nat /\ largest \in Nat
    BY FilesAssumption DEF IInv, TypeOK
  <1>2. \A f \in 1..Len(Files) :
              /\ Files[f] \in Seq(Nodes \cup Ways \cup Relations)
              /\ Len(Files[f]) \in Nat /\ DOMAIN Files[f] = 1..Len(Files[f])
    BY FilesAssumption
  <1>3. pc # "closed" => file \in 1..Len(Files)
    BY <1>1 DEF IInv, ParsingAFile
  <1>4. ASSUME Reading
        PROVE  pos \in 1..Len(Files[file]) /\ Current.id \in Ids
    <2>1. file \in 1..Len(Files) /\ pos <= Len(Files[file])
      BY <1>3, <1>4 DEF Reading
    <2>2. pos \in 1..Len(Files[file])
      BY <1>1, <1>2, <2>1
    <2> QED BY <2>1, <2>2, CurrentIsTyped
  <1> QED BY <1>1, <1>2, <1>3, <1>4

\* Taking the next element keeps track of the largest id.
LEMMA NextItemKeepsLargest ==
  ASSUME IInv, LargestIs, file \in 1..Len(Files), pos \in 1..Len(Files[file]), pc # "closed",
         NextItem, file' = file
  PROVE  LargestIs'
PROOF
  <1>1. pos \in Nat \ {0} /\ largest \in Nat /\ Current.id \in Nat
    BY PlaceIsTyped, CurrentIsTyped DEF Ids
  <1>2. pos' = pos + 1 /\ largest' = IF largest >= Current.id THEN largest ELSE Current.id
    BY DEF NextItem, Max2
  <1>3. \A i \in 1..pos : i = pos \/ i \in 1..(pos - 1)
    BY <1>1
  <1>4. \A i \in 1..(pos - 1) : Files[file][i].id <= largest /\ Files[file][i].id \in Nat
    <2>1. \A i \in 1..(pos - 1) : i \in DOMAIN Files[file]
      BY <1>1, PlaceIsTyped
    <2>2. \A i \in DOMAIN Files[file] : Files[file][i] \in Nodes \cup Ways \cup Relations
      BY PlaceIsTyped
    <2> QED BY <2>1, <2>2 DEF LargestIs, Nodes, Ways, Relations, Ids
  <1>5. \A i \in 1..pos : Files[file][i].id <= largest'
    <2> SUFFICES ASSUME NEW i \in 1..pos
                 PROVE  Files[file][i].id <= largest'
      OBVIOUS
    <2>1. largest' >= Current.id /\ largest' >= largest /\ largest' \in Nat
      BY <1>1, <1>2
    <2>2. CASE i = pos
      BY <1>1, <2>1, <2>2 DEF Current
    <2>3. CASE i \in 1..(pos - 1)
      BY <1>1, <1>4, <2>1, <2>3
    <2> QED BY <1>3, <2>2, <2>3
  <1>6. largest' = 0 \/ \E i \in 1..pos : Files[file][i].id = largest'
    <2>1. CASE largest >= Current.id
      <3>1. \A i \in 1..(pos - 1) : i \in 1..pos
        BY <1>1
      <3> QED BY <1>2, <2>1, <3>1 DEF LargestIs
    <2>2. CASE ~(largest >= Current.id)
      <3>1. pos \in 1..pos /\ Files[file][pos].id = largest'
        BY <1>1, <1>2, <2>2 DEF Current
      <3> QED BY <3>1
    <2> QED BY <2>1, <2>2
  <1>7. pos' - 1 = pos
    BY <1>1, <1>2
  <1> QED BY <1>5, <1>6, <1>7 DEF LargestIs

\* A step of the producer keeps the place in the files.
LEMMA ProducerKeepsPlace ==
  IInv /\ CounterInv /\ OffsetIs /\ AtTheEnd /\ LargestIs /\ Producer
    => OffsetIs' /\ AtTheEnd' /\ LargestIs'
PROOF
  <1> SUFFICES ASSUME IInv, CounterInv, OffsetIs, AtTheEnd, LargestIs, Producer
               PROVE  OffsetIs' /\ AtTheEnd' /\ LargestIs'
    OBVIOUS
  <1>1. /\ pos \in Nat \ {0} /\ file \in Nat \ {0} /\ Len(Files) \in Nat
        /\ idOffset \in Nat /\ largest \in Nat
    BY PlaceIsTyped
  <1>2. CASE ParseStart
    <2>1. pc' = "reading" /\ pos' = 1 /\ largest' = 0 /\ file' = file /\ idOffset' = idOffset
      BY <1>2 DEF ParseStart
    <2>2. \A i \in 1..(pos' - 1) : FALSE
      BY <2>1
    <2> QED BY <2>1, <2>2 DEF OffsetIs, AtTheEnd, LargestIs
  <1>3. CASE ReadNode \/ SkipWay \/ ReadRelation
    <2>1. /\ Reading /\ pc = "reading" /\ pc' = pc /\ file' = file /\ idOffset' = idOffset
          /\ NextItem \/ UNCHANGED <<pos, largest>>
      BY <1>3 DEF ReadNode, SkipWay, ReadRelation, Reading
    <2>2. file \in 1..Len(Files) /\ pos \in 1..Len(Files[file]) /\ pc # "closed"
      BY <2>1, PlaceIsTyped
    <2>3. CASE NextItem
      BY <2>1, <2>2, <2>3, NextItemKeepsLargest DEF OffsetIs, AtTheEnd
    <2>4. CASE UNCHANGED <<pos, largest>>
      BY <2>1, <2>4 DEF OffsetIs, AtTheEnd, LargestIs
    <2> QED BY <2>1, <2>3, <2>4
  <1>4. CASE NameWay
    <2>1. pc = "name" /\ pc' = "reading" /\ file' = file /\ idOffset' = idOffset /\ NextItem
      BY <1>4 DEF NameWay
    <2>2. file \in 1..Len(Files) /\ pos \in 1..Len(Files[file])
      <3>1. file \in 1..Len(Files) /\ pos <= Len(Files[file])
        BY <2>1, PlaceIsTyped DEF IInv, AtAnElement
      <3> QED BY <1>1, <3>1, PlaceIsTyped
    <2> QED BY <2>1, <2>2, NextItemKeepsLargest DEF OffsetIs, AtTheEnd
  <1>5. CASE PushWay \/ CountPush \/ Throttle \/ ProducerWake
    BY <1>5 DEF PushWay, Reading, CountPush, Throttle, ProducerWake, OffsetIs, AtTheEnd, LargestIs
  <1>6. CASE SetDone
    BY <1>6 DEF SetDone, OffsetIs, AtTheEnd, LargestIs
  <1>7. CASE Join
    <2>1. /\ pc = "join" /\ pc' = "closed" /\ file' = file + 1
          /\ idOffset' = idOffset + largest + 1
      BY <1>7 DEF Join, NextOffset
    <2>2. /\ file \in 1..Len(Files) /\ Len(Files[file]) \in Nat
          /\ Files[file] \in Seq(Nodes \cup Ways \cup Relations)
          /\ DOMAIN Files[file] = 1..Len(Files[file])
      BY <2>1, PlaceIsTyped
    <2>3. pos - 1 = Len(Files[file])
      BY <1>1, <2>1, <2>2 DEF AtTheEnd, CounterInv, WithinFile
    <2>4. LargestId(Files[file]) = largest
      <3>1. DOMAIN Files[file] = 1..(pos - 1)
        BY <2>2, <2>3
      <3>2. /\ \A i \in DOMAIN Files[file] : Files[file][i].id <= largest
            /\ largest = 0 \/ \E i \in DOMAIN Files[file] : Files[file][i].id = largest
        BY <2>1, <3>1 DEF LargestIs
      <3> QED BY <1>1, <2>2, <3>2, LargestIdIs
    <2>5. OffsetOf[file + 1] = idOffset + (largest + 1)
      BY <2>2, <2>4, OffsetsAreSums DEF OffsetIs
    <2>6. idOffset' = OffsetOf[file'] /\ file' \in 1..(Len(Files) + 1)
      BY <1>1, <2>1, <2>2, <2>5
    <2> QED BY <2>1, <2>6 DEF OffsetIs, AtTheEnd, LargestIs
  <1> QED BY <1>2, <1>3, <1>4, <1>5, <1>6, <1>7 DEF Producer

\* A step keeps every way that was taken up among those pushed.
LEMMA StepKeepsAllPushed ==
  IInv /\ IInv' /\ FileInv /\ [Next]_vars => AllPushed'
PROOF
  <1> SUFFICES ASSUME IInv, IInv', FileInv, [Next]_vars,
                      NEW f \in 1..Len(Files), NEW i \in DOMAIN Files[f],
                      TakenUp(f, i)', Files[f][i].kind = "way", Len(Files[f][i].refs) >= 2
               PROVE  IsPushed(f, i)'
    BY DEF AllPushed
  <1>1. /\ pos \in Nat \ {0} /\ file \in Nat \ {0} /\ Len(Files) \in Nat
        /\ DOMAIN Files[f] = 1..Len(Files[f]) /\ Len(Files[f]) \in Nat
    BY PlaceIsTyped
  <1>2. TakenUp(f, i) => IsPushed(f, i)
    BY DEF FileInv, AllPushed
  <1>3. CASE PushWay
    <2>1. pushed' = Append(pushed, QueuedWay(Current)) /\ file' = file /\ Begun = pos - 1 /\ Begun' = pos
      BY <1>3 DEF PushWay, Reading, Begun
    <2>2. pushed \in Seq(QueuedWays) /\ pushed' \in Seq(QueuedWays)
      BY DEF IInv, TypeOK
    <2>3. /\ DOMAIN pushed' = 1..(Len(pushed) + 1) /\ Len(pushed) \in Nat
          /\ pushed'[Len(pushed) + 1] = QueuedWay(Current)
          /\ \A k \in 1..Len(pushed) : pushed'[k] = pushed[k]
          /\ DOMAIN pushed = 1..Len(pushed)
      BY <2>1, <2>2
    <2>4. CASE TakenUp(f, i)
      <3>1. PICK k \in DOMAIN pushed : pushed[k] = OffsetWay(Files[f][i], OffsetOf[f])
        BY <1>2, <2>4 DEF IsPushed
      <3>2. k \in DOMAIN pushed' /\ pushed'[k] = pushed[k]
        BY <2>3
      <3> QED BY <3>1, <3>2 DEF IsPushed
    <2>5. CASE ~TakenUp(f, i)
      <3>1. f = file /\ i = pos
        BY <1>1, <2>1, <2>5 DEF TakenUp
      <3>2. QueuedWay(Current) = OffsetWay(Files[f][i], OffsetOf[f])
        BY <3>1 DEF QueuedWay, OffsetWay, Current, FileInv, OffsetIs
      <3>3. Len(pushed) + 1 \in DOMAIN pushed'
        BY <2>3
      <3> QED BY <2>3, <3>2, <3>3 DEF IsPushed
    <2> QED BY <2>4, <2>5
  <1>4. CASE Join
    <2>1. pc = "join" /\ file' = file + 1 /\ pc' = "closed" /\ pushed' = pushed
      BY <1>4 DEF Join
    <2>2. Begun' = 0 /\ Begun = pos - 1
      BY <2>1 DEF Begun
    <2>3. f < file \/ f = file
      BY <1>1, <2>1, <2>2 DEF TakenUp
    <2>4. f = file => i <= Begun
      BY <1>1, <2>1, <2>2 DEF FileInv, AtTheEnd
    <2>5. TakenUp(f, i)
      BY <2>3, <2>4 DEF TakenUp
    <2> QED BY <1>2, <2>1, <2>5 DEF IsPushed
  <1>5. CASE ReadNode \/ SkipWay \/ ReadRelation
    <2>1. /\ Reading /\ pc' = pc /\ file' = file /\ (pos' = pos \/ pos' = pos + 1) /\ pushed' = pushed
          /\ Current.kind # "way" \/ ~(Len(Current.refs) >= 2)
      <3>1. CASE ReadNode \/ ReadRelation
        BY <3>1 DEF ReadNode, ReadRelation, NextItem
      <3>2. CASE SkipWay
        <4>1. file \in 1..Len(Files) /\ pos \in 1..Len(Files[file]) /\ Current.kind = "way"
          BY <3>2, PlaceIsTyped DEF SkipWay, Reading
        <4>2. Current \in Ways
          BY <4>1, CurrentIsTyped DEF Nodes, Relations
        <4>3. Len(Current.refs) \in Nat
          BY <4>2 DEF Ways
        <4> QED BY <3>2, <4>3 DEF SkipWay, NextItem
      <3> QED BY <1>5, <3>1, <3>2
    <2>2. Begun = pos - 1 /\ (Begun' = pos - 1 \/ Begun' = pos)
      BY <1>1, <2>1 DEF Begun, Reading
    <2>3. ~(f = file /\ i = pos)
      BY <2>1 DEF Current
    <2>4. TakenUp(f, i)
      BY <1>1, <2>1, <2>2, <2>3 DEF TakenUp
    <2> QED BY <1>2, <2>1, <2>4 DEF IsPushed
  <1>6. CASE ~PushWay /\ ~Join /\ ~ReadNode /\ ~SkipWay /\ ~ReadRelation
    <2>1. pushed' = pushed
      BY <1>6 DEF Next, Producer, ParseStart, CountPush, Throttle, ProducerWake, NameWay, SetDone,
                  Consumer, TestDone, Pop, PopNothing, CountPop, Simplify, ConsumerWake, Terminated, vars
    <2>2. file' = file /\ Begun' = Begun
      <3>1. CASE ParseStart \/ CountPush \/ Throttle \/ ProducerWake \/ NameWay \/ SetDone
        BY <1>1, <3>1 DEF ParseStart, CountPush, Throttle, ProducerWake, NameWay, NextItem, SetDone, Begun
      <3>2. CASE Consumer \/ Terminated \/ UNCHANGED vars
        BY <3>2 DEF Consumer, TestDone, Pop, PopNothing, CountPop, Simplify, ConsumerWake,
                    Terminated, vars, producerVars, Begun
      <3> QED BY <1>6, <3>1, <3>2 DEF Next, Producer
    <2>3. TakenUp(f, i)
      BY <2>2 DEF TakenUp
    <2> QED BY <1>2, <2>1, <2>3 DEF IsPushed
  <1> QED BY <1>3, <1>4, <1>5, <1>6

\* The invariant of the files behind us holds in every reachable state.
LEMMA FileInductive == Spec => []FileInv
PROOF
  <1>1. Init => FileInv
    <2> SUFFICES ASSUME Init
                 PROVE  FileInv
      OBVIOUS
    <2>1. file = 1 /\ pc = "closed" /\ idOffset = 0 /\ Begun = 0 /\ Len(Files) \in Nat
      BY FilesAssumption DEF Init, Begun
    <2>2. OffsetIs
      BY <2>1, OffsetsAreSums DEF OffsetIs
    <2>3. \A f \in 1..Len(Files) : \A i \in DOMAIN Files[f] : ~TakenUp(f, i)
      BY <2>1, FilesAssumption DEF TakenUp
    <2> QED BY <2>1, <2>2, <2>3 DEF FileInv, AtTheEnd, LargestIs, AllPushed
  <1>2. IInv /\ IInv' /\ CounterInv /\ FileInv /\ [Next]_vars => FileInv'
    <2> SUFFICES ASSUME IInv, IInv', CounterInv, FileInv, [Next]_vars
                 PROVE  FileInv'
      OBVIOUS
    <2>1. CASE Producer
      BY <2>1, ProducerKeepsPlace, StepKeepsAllPushed DEF FileInv
    <2>2. CASE Consumer \/ Terminated \/ UNCHANGED vars
      <3>1. pc' = pc /\ file' = file /\ pos' = pos /\ idOffset' = idOffset /\ largest' = largest
        BY <2>2 DEF Consumer, TestDone, Pop, PopNothing, CountPop, Simplify, ConsumerWake,
                    Terminated, vars, producerVars
      <3>2. OffsetIs' /\ AtTheEnd' /\ LargestIs'
        BY <3>1 DEF FileInv, OffsetIs, AtTheEnd, LargestIs
      <3> QED BY <3>2, StepKeepsAllPushed DEF FileInv
    <2> QED BY <2>1, <2>2 DEF Next
  <1> QED BY <1>1, <1>2, Inductive, CounterInductive, PTL DEF Spec

\* When parse() has returned, nothing is on its way any more, and every way of
\* the files so far that has two nodes or more is stored under its id with the
\* offset of its file, from its first to its last node
\* (osmpbfreader.cpp:930-932, globalobjects.cpp:315-345).
THEOREM WhatWasReadIsStored == Spec => []ReturnedMeansStored
PROOF
  <1>1. IInv /\ NothingLost /\ CounterInv /\ StoredInv /\ FileInv => ReturnedMeansStored
    <2> SUFFICES ASSUME IInv, NothingLost, CounterInv, StoredInv, FileInv, pc = "closed"
                 PROVE  /\ queue = <<>> /\ inHand = NoWay /\ queueSize = 0
                        /\ \A f \in 1..(file - 1) : \A i \in DOMAIN Files[f] :
                             LET e == Files[f][i]
                             IN  e.kind = "way" /\ Len(e.refs) >= 2 => StoredEnds(e, f)
      BY DEF ReturnedMeansStored
    <2>1. queue = <<>> /\ inHand = NoWay /\ consumer = "none"
      BY DEF IInv, Lifetime, Drained, Holding
    <2>2. queueSize = 0
      BY <2>1 DEF CounterInv, SizeIsCounted, Counted
    <2>3. ASSUME NEW f \in 1..(file - 1), NEW i \in DOMAIN Files[f],
                 Files[f][i].kind = "way", Len(Files[f][i].refs) >= 2
          PROVE  StoredEnds(Files[f][i], f)
      <3> DEFINE e == Files[f][i]
                 o == OffsetOf[f]
      <3>1. f \in 1..Len(Files) /\ TakenUp(f, i)
        BY PlaceIsTyped DEF FileInv, OffsetIs, TakenUp
      <3>2. PICK k \in DOMAIN pushed : pushed[k] = OffsetWay(e, o)
        BY <2>3, <3>1 DEF FileInv, AllPushed, IsPushed
      <3>3. pushed = simplified
        BY <2>1, InHandIsNext
      <3> DEFINE w == OffsetWay(e, o)
                 s == wayNodes[w.id]
      <3>4. w.id \in DOMAIN wayNodes /\ s[1] = w.refs[1] /\ s[Len(s)] = w.refs[Len(w.refs)]
        BY <3>2, <3>3 DEF StoredInv, EndsAreKept
      <3>5. e.refs \in Seq(Ids) /\ Len(e.refs) \in Nat /\ DOMAIN e.refs = 1..Len(e.refs)
        <4>1. e \in Nodes \cup Ways \cup Relations
          BY <3>1, PlaceIsTyped
        <4>2. e \in Ways
          BY <2>3, <4>1 DEF Nodes, Relations
        <4> QED BY <4>2 DEF Ways
      <3>6. /\ w.id = e.id + o /\ Len(w.refs) = Len(e.refs)
            /\ \A j \in 1..Len(e.refs) : w.refs[j] = e.refs[j] + o
        BY <3>5 DEF OffsetWay
      <3>7. 1 \in 1..Len(e.refs) /\ Len(e.refs) \in 1..Len(e.refs)
        BY <2>3, <3>5
      <3> HIDE DEF e, o, w
      <3>8. /\ e.id + o \in DOMAIN wayNodes
            /\ wayNodes[e.id + o][1] = e.refs[1] + o
            /\ wayNodes[e.id + o][Len(wayNodes[e.id + o])] = e.refs[Len(e.refs)] + o
        BY <3>4, <3>6, <3>7
      <3> QED BY <3>8 DEF StoredEnds, e, o
    <2> QED BY <2>1, <2>2, <2>3
  <1> QED BY <1>1, Inductive, NoWayIsLost, CounterInductive, StoredInductive, FileInductive, PTL

-----------------------------------------------------------------------------
(* Files that are orderly are read to their end.                           *)

\* An id in use comes from an earlier file, below the offset, or is the one of
\* an element of this file that was taken up.
Accounted(kind, n) ==
  \/ n < idOffset
  \/ \E i \in 1..Begun : Files[file][i].kind = kind /\ n = Files[file][i].id + idOffset

AllAccounted == /\ \A n \in DOMAIN uses : Accounted("node", n)
                /\ \A r \in DOMAIN relMembers : r \in Nat /\ Accounted("relation", r)
                /\ \A k \in DOMAIN pushed : Accounted("way", pushed[k].id)
PushedOnce   == \A j, k \in DOMAIN pushed : pushed[j].id = pushed[k].id => j = k
NodesAreIn   == \A i \in 1..Begun :
                  Files[file][i].kind = "node" => Files[file][i].id + idOffset \in DOMAIN uses
RefsAreIn    == \A k \in DOMAIN pushed : \A i \in DOMAIN pushed[k].refs :
                  pushed[k].refs[i] \in DOMAIN uses
OnlySimplifiedIsStored ==
  \A w \in DOMAIN wayNodes : \E k \in DOMAIN simplified : simplified[k].id = w

CleanInv == /\ FilesNeverCollide /\ AllAccounted /\ PushedOnce /\ NodesAreIn /\ RefsAreIn
            /\ OnlySimplifiedIsStored

\* The id of the element to be read is not in use.
LEMMA CurrentIsNew ==
  ASSUME IInv, OrderlyFiles, Reading, NEW n, Accounted(Current.kind, n)
  PROVE  n # CurrentId
PROOF
  <1>1. /\ file \in DOMAIN Files /\ pos \in DOMAIN Files[file] /\ pos \in Nat
        /\ DOMAIN Files[file] = 1..Len(Files[file]) /\ Len(Files[file]) \in Nat
        /\ Current.id \in Ids /\ idOffset \in Nat /\ Begun = pos - 1
    BY PlaceIsTyped, FilesAssumption DEF Reading, Begun
  <1>2. CASE n < idOffset
    BY <1>1, <1>2 DEF CurrentId, Ids
  <1>3. ASSUME NEW i \in 1..Begun, Files[file][i].kind = Current.kind,
               n = Files[file][i].id + idOffset, n = CurrentId
        PROVE  FALSE
    <2>1. i \in DOMAIN Files[file] /\ i # pos
      BY <1>1
    <2>2. Files[file][i].id \in Nat
      <3>1. Files[file][i] \in Nodes \cup Ways \cup Relations
        BY <1>1, <2>1, FilesAssumption
      <3> QED BY <3>1 DEF Nodes, Ways, Relations, Ids
    <2>3. Files[file][i].id = Current.id
      BY <1>1, <1>3, <2>2 DEF CurrentId, Ids
    <2>4. IdsAreUnique(Files[file])
      BY <1>1 DEF OrderlyFiles
    <2> QED BY <1>1, <1>3, <2>1, <2>3, <2>4 DEF IdsAreUnique, Current
  <1> QED BY <1>2, <1>3 DEF Accounted

\* An id that is accounted for stays so.
LEMMA AccountedStays ==
  ASSUME IInv, CounterInv, FileInv, [Next]_vars, NEW kind, NEW n \in Nat, Accounted(kind, n)
  PROVE  Accounted(kind, n)'
PROOF
  <1>1. /\ pos \in Nat \ {0} /\ file \in Nat \ {0} /\ idOffset \in Nat /\ largest \in Nat
        /\ Begun \in Nat
    BY PlaceIsTyped DEF Begun
  <1>2. CASE Join
    <2>1. /\ pc = "join" /\ file' = file + 1 /\ idOffset' = idOffset + largest + 1
          /\ Begun = pos - 1 /\ file \in 1..Len(Files)
      BY <1>2, PlaceIsTyped DEF Join, NextOffset, Begun
    <2>2. ASSUME NEW i \in 1..Begun, n = Files[file][i].id + idOffset
          PROVE  n < idOffset'
      <3>1. Files[file][i].id <= largest
        BY <2>1 DEF FileInv, LargestIs
      <3>2. i \in DOMAIN Files[file]
        <4>1. pos <= Len(Files[file]) + 1 /\ Len(Files[file]) \in Nat /\ DOMAIN Files[file] = 1..Len(Files[file])
          BY <2>1, PlaceIsTyped DEF CounterInv, WithinFile
        <4> QED BY <1>1, <2>1, <4>1
      <3>3. Files[file][i] \in Nodes \cup Ways \cup Relations
        BY <2>1, <3>2, PlaceIsTyped
      <3>4. Files[file][i].id \in Nat
        BY <3>3 DEF Nodes, Ways, Relations, Ids
      <3> QED BY <1>1, <2>1, <2>2, <3>1, <3>4
    <2> QED BY <1>1, <2>1, <2>2 DEF Accounted
  <1>3. CASE ~Join
    <2>1. idOffset' = idOffset /\ file' = file /\ Begun' \in Nat /\ Begun <= Begun'
      BY <1>1, <1>3, StepShape
    <2>2. \A i \in 1..Begun : i \in 1..Begun'
      BY <1>1, <2>1
    <2> QED BY <2>1, <2>2 DEF Accounted
  <1> QED BY <1>2, <1>3

\* Nothing that stops at an id in use or a missing node is met: no step aborts.
LEMMA NoStepAborts ==
  ASSUME OrderlyFiles, IInv, NothingLost, CleanInv, [Next]_vars
  PROVE  aborted' = FALSE
PROOF
  <1>1. aborted = FALSE
    BY DEF CleanInv, FilesNeverCollide, IInv, TypeOK
  <1>2. CASE ReadNode
    <2>1. Reading /\ Current.kind = "node"
      BY <1>2 DEF ReadNode
    <2>2. CurrentId \notin DOMAIN uses
      BY <2>1, CurrentIsNew DEF CleanInv, AllAccounted
    <2> QED BY <1>1, <1>2, <2>2 DEF ReadNode
  <1>3. CASE ReadRelation
    <2>1. Reading /\ Current.kind = "relation"
      BY <1>3 DEF ReadRelation
    <2>2. CurrentId \notin DOMAIN relMembers
      BY <2>1, CurrentIsNew DEF CleanInv, AllAccounted
    <2>3. Current.members # <<>>
      <3>1. file \in DOMAIN Files /\ pos \in DOMAIN Files[file]
        BY <2>1, PlaceIsTyped, FilesAssumption DEF Reading
      <3> QED BY <2>1, <3>1 DEF OrderlyFiles, RelationsHaveMembers, Current
    <2> QED BY <1>1, <1>3, <2>2, <2>3 DEF ReadRelation
  <1>4. CASE Simplify
    <2>1. inHand # NoWay
      BY <1>4 DEF Simplify, Consuming, IInv, Holding
    <2>2. /\ Len(simplified) + 1 \in DOMAIN pushed /\ pushed[Len(simplified) + 1] = inHand
          /\ \A k \in DOMAIN simplified : k \in DOMAIN pushed /\ pushed[k] = simplified[k]
          /\ DOMAIN simplified = 1..Len(simplified) /\ Len(simplified) \in Nat
      BY <2>1, InHandIsNext
    <2>3. ~Unknown(inHand)
      BY <2>2 DEF Unknown, CleanInv, RefsAreIn
    <2>4. inHand.id \notin DOMAIN wayNodes
      <3> SUFFICES ASSUME inHand.id \in DOMAIN wayNodes
                   PROVE  FALSE
        OBVIOUS
      <3>1. PICK k \in DOMAIN simplified : simplified[k].id = inHand.id
        BY DEF CleanInv, OnlySimplifiedIsStored
      <3>2. k \in DOMAIN pushed /\ pushed[k].id = pushed[Len(simplified) + 1].id
        BY <2>2, <3>1
      <3>3. k = Len(simplified) + 1
        BY <2>2, <3>2 DEF CleanInv, PushedOnce
      <3> QED BY <2>2, <3>1, <3>3
    <2> QED BY <1>1, <1>4, <2>3, <2>4 DEF Simplify
  <1>5. CASE UNCHANGED aborted
    BY <1>1, <1>5
  <1>6. ReadNode \/ ReadRelation \/ Simplify \/ UNCHANGED aborted
    BY DEF Next, Producer, ParseStart, SkipWay, PushWay, CountPush, Throttle, ProducerWake,
           NameWay, SetDone, Join, Consumer, TestDone, Pop, PopNothing, CountPop, ConsumerWake,
           Terminated, vars
  <1> QED BY <1>2, <1>3, <1>4, <1>5, <1>6

\* The ids of the ways pushed are numbers.
LEMMA PushedIdsAreNumbers ==
  ASSUME IInv
  PROVE  \A k \in DOMAIN pushed : pushed[k].id \in Nat
PROOF
  <1>1. pushed \in Seq(QueuedWays)
    BY DEF IInv, TypeOK
  <1>2. \A k \in DOMAIN pushed : pushed[k] \in QueuedWays
    BY <1>1
  <1> QED BY <1>2 DEF QueuedWays, Ids

\* A step that does not push, insert or store leaves what is in place.
LEMMA OtherStepsKeepClean ==
  ASSUME IInv, CounterInv, UsesInv, FileInv, CleanInv, [Next]_vars, aborted' = FALSE,
         UNCHANGED <<pushed, uses, relMembers, wayNodes, simplified>>,
         Begun' = Begun \/ Begun' = 0 \/ (pos \in 1..Len(Files[file]) /\ Current.kind # "node")
  PROVE  CleanInv'
PROOF
  <1>1. AllAccounted'
    <2>1. \A n \in DOMAIN uses : n \in Nat
      BY DEF UsesInv, UsesAreNumbers, Ids
    <2>2. \A k \in DOMAIN pushed : pushed[k].id \in Nat
      BY PushedIdsAreNumbers
    <2>3. ASSUME NEW kind, NEW n \in Nat, Accounted(kind, n)
          PROVE  Accounted(kind, n)'
      BY <2>3, AccountedStays
    <2>4. \A n \in DOMAIN uses' : Accounted("node", n)'
      BY <2>1, <2>3 DEF CleanInv, AllAccounted
    <2>5. \A n \in DOMAIN relMembers' : n \in Nat /\ Accounted("relation", n)'
      BY <2>3 DEF CleanInv, AllAccounted
    <2>6. \A k \in DOMAIN pushed' : Accounted("way", pushed[k].id)'
      <3>1. \A k \in DOMAIN pushed : Accounted("way", pushed[k].id)
        BY DEF CleanInv, AllAccounted
      <3>2. \A k \in DOMAIN pushed : \A n \in Nat : n = pushed[k].id => Accounted("way", n)'
        BY <2>3, <3>1
      <3> QED BY <2>2, <3>2 DEF Accounted
    <2> QED BY <2>4, <2>5, <2>6 DEF AllAccounted
  <1>2. NodesAreIn'
    <2>1. CASE Join
      <3>1. Begun' = 0
        BY <2>1 DEF Join, Begun
      <3> QED BY <3>1 DEF NodesAreIn
    <2>2. CASE ~Join
      <3>1. /\ idOffset' = idOffset /\ file' = file
            /\ Begun' = Begun \/ (Begun' = pos /\ Begun = pos - 1 /\ pos \in 1..Len(Files[file]))
        BY <2>2, StepShape
      <3>2. ASSUME NEW i \in 1..Begun', Files[file][i].kind = "node"
            PROVE  i \in 1..Begun
        BY <3>1, <3>2, PlaceIsTyped DEF Current
      <3> QED BY <3>1, <3>2 DEF CleanInv, NodesAreIn
    <2> QED BY <2>1, <2>2
  <1> QED BY <1>1, <1>2
          DEF CleanInv, FilesNeverCollide, PushedOnce, RefsAreIn, OnlySimplifiedIsStored

\* Reading a node brings it in, and no other id.
LEMMA ReadNodeKeepsClean ==
  ASSUME IInv, CounterInv, UsesInv, FileInv, CleanInv, ReadNode, aborted' = FALSE
  PROVE  CleanInv'
PROOF
  <1>1. /\ Reading /\ Current.kind = "node" /\ CurrentId \notin DOMAIN uses
        /\ NextItem /\ uses' = NewNodeUses(CurrentId, Current.name)
        /\ UNCHANGED <<pushed, relMembers, wayNodes, simplified, pc, file, idOffset>>
    BY DEF ReadNode
  <1>2. /\ pos \in Nat \ {0} /\ Begun = pos - 1 /\ Begun' = pos
    BY <1>1, PlaceIsTyped DEF Begun, Reading, NextItem
  <1>3. DOMAIN uses' = DOMAIN uses \cup {CurrentId}
    BY <1>1 DEF NewNodeUses, With
  <1>4. [Next]_vars
    BY DEF Next, Producer
  <1>5. AllAccounted'
    <2>1. \A n \in DOMAIN uses : n \in Nat
      BY DEF UsesInv, UsesAreNumbers, Ids
    <2>2. \A k \in DOMAIN pushed : pushed[k].id \in Nat
      BY PushedIdsAreNumbers
    <2>3. ASSUME NEW n, n = CurrentId
          PROVE  Accounted("node", n)'
      <3>1. pos \in 1..Begun' /\ Files[file][pos].kind = "node"
        BY <1>1, <1>2 DEF Current
      <3>2. n = Files[file][pos].id + idOffset
        BY <2>3 DEF CurrentId, Current
      <3> QED BY <1>1, <3>1, <3>2 DEF Accounted
    <2>4. ASSUME NEW kind, NEW n \in Nat, Accounted(kind, n)
          PROVE  Accounted(kind, n)'
      BY <1>4, <2>4, AccountedStays
    <2>5. \A n \in DOMAIN uses' : Accounted("node", n)'
      BY <1>3, <2>1, <2>3, <2>4 DEF CleanInv, AllAccounted
    <2>6. \A n \in DOMAIN relMembers' : n \in Nat /\ Accounted("relation", n)'
      BY <1>1, <2>4 DEF CleanInv, AllAccounted
    <2>7. \A k \in DOMAIN pushed' : Accounted("way", pushed[k].id)'
      <3>1. \A k \in DOMAIN pushed : Accounted("way", pushed[k].id)
        BY DEF CleanInv, AllAccounted
      <3>2. \A k \in DOMAIN pushed : \A n \in Nat : n = pushed[k].id => Accounted("way", n)'
        BY <2>4, <3>1
      <3> QED BY <1>1, <2>2, <3>2 DEF Accounted
    <2> QED BY <2>5, <2>6, <2>7 DEF AllAccounted
  <1>6. NodesAreIn'
    <2>1. ASSUME NEW i \in 1..pos, Files[file][i].kind = "node"
          PROVE  Files[file][i].id + idOffset \in DOMAIN uses'
      <3>1. CASE i = pos
        BY <1>3, <3>1 DEF CurrentId, Current
      <3>2. CASE i # pos
        <4>1. i \in 1..Begun
          BY <1>2, <3>2
        <4> QED BY <1>3, <2>1, <4>1 DEF CleanInv, NodesAreIn
      <3> QED BY <3>1, <3>2
    <2> QED BY <1>1, <1>2, <2>1 DEF NodesAreIn
  <1>7. RefsAreIn'
    BY <1>1, <1>3 DEF CleanInv, RefsAreIn
  <1> QED BY <1>1, <1>5, <1>6, <1>7
          DEF CleanInv, FilesNeverCollide, PushedOnce, OnlySimplifiedIsStored

\* The relation that is read is accounted for.
LEMMA ReadRelationKeepsClean ==
  ASSUME IInv, CounterInv, UsesInv, FileInv, CleanInv, ReadRelation, aborted' = FALSE
  PROVE  CleanInv'
PROOF
  <1>1. /\ Reading /\ Current.kind = "relation"
        /\ UNCHANGED <<pushed, uses, wayNodes, simplified, pc, file, idOffset>>
    BY DEF ReadRelation
  <1>2. pos \in 1..Len(Files[file]) /\ pos \in Nat \ {0} /\ Begun = pos - 1
    BY <1>1, PlaceIsTyped DEF Begun, Reading
  <1>3. [Next]_vars
    BY DEF Next, Producer
  <1>4. CASE relMembers' = relMembers
    <2>1. Begun' = Begun \/ (pos \in 1..Len(Files[file]) /\ Current.kind # "node")
      BY <1>1, <1>2
    <2> QED BY <1>1, <1>3, <1>4, <2>1, OtherStepsKeepClean
  <1>5. CASE relMembers' # relMembers
    <2>1. NextItem /\ DOMAIN relMembers' = DOMAIN relMembers \cup {CurrentId}
      BY <1>5 DEF ReadRelation, With
    <2>2. Begun' = pos
      BY <1>1, <1>2, <2>1 DEF Begun, Reading, NextItem
    <2>3. ASSUME NEW kind, NEW n \in Nat, Accounted(kind, n)
          PROVE  Accounted(kind, n)'
      BY <1>3, <2>3, AccountedStays
    <2>4. ASSUME NEW n, n = CurrentId
          PROVE  n \in Nat /\ Accounted("relation", n)'
      <3>1. pos \in 1..Begun' /\ Files[file][pos].kind = "relation"
        BY <1>1, <1>2, <2>2 DEF Current
      <3>2. n = Files[file][pos].id + idOffset
        BY <2>4 DEF CurrentId, Current
      <3>3. n \in Nat
        BY <1>1, <2>4, PlaceIsTyped DEF CurrentId, Ids
      <3> QED BY <1>1, <3>1, <3>2, <3>3 DEF Accounted
    <2>5. \A n \in DOMAIN uses' : Accounted("node", n)'
      BY <1>1, <2>3 DEF CleanInv, AllAccounted, UsesInv, UsesAreNumbers, Ids
    <2>6. \A n \in DOMAIN relMembers' : n \in Nat /\ Accounted("relation", n)'
      BY <2>1, <2>3, <2>4 DEF CleanInv, AllAccounted
    <2>7. \A k \in DOMAIN pushed' : Accounted("way", pushed[k].id)'
      <3>1. \A k \in DOMAIN pushed : Accounted("way", pushed[k].id)
        BY DEF CleanInv, AllAccounted
      <3>2. \A k \in DOMAIN pushed : \A n \in Nat : n = pushed[k].id => Accounted("way", n)'
        BY <2>3, <3>1
      <3> QED BY <1>1, <3>2, PushedIdsAreNumbers DEF Accounted
    <2>8. NodesAreIn'
      <3>1. \A i \in 1..pos : Files[file][i].kind = "node" => i \in 1..Begun
        BY <1>1, <1>2 DEF Current
      <3> QED BY <1>1, <2>2, <3>1 DEF CleanInv, NodesAreIn
    <2> QED BY <1>1, <2>5, <2>6, <2>7, <2>8
            DEF CleanInv, FilesNeverCollide, AllAccounted, PushedOnce, RefsAreIn, OnlySimplifiedIsStored
  <1> QED BY <1>4, <1>5

\* The way that is pushed has an id of its own, and its nodes are in.
LEMMA PushWayKeepsClean ==
  ASSUME OrderlyFiles, IInv, IInv', CounterInv, UsesInv, FileInv, CleanInv, PushWay
  PROVE  CleanInv'
PROOF
  <1> DEFINE w == QueuedWay(Current)
             l == Len(pushed)
  <1>1. /\ Reading /\ Current.kind = "way" /\ Len(Current.refs) >= 2
        /\ pushed' = Append(pushed, w)
        /\ UNCHANGED <<relMembers, uses, wayNodes, simplified, file, idOffset, pos, aborted>>
        /\ pc = "reading" /\ pc' = "count"
    BY DEF PushWay, Reading
  <1>2. /\ file \in 1..Len(Files) /\ file \in DOMAIN Files /\ pos \in 1..Len(Files[file])
        /\ pos \in DOMAIN Files[file] /\ DOMAIN Files[file] = 1..Len(Files[file])
        /\ pos \in Nat \ {0} /\ Begun = pos - 1 /\ Begun' = pos /\ idOffset \in Nat
        /\ Len(Files[file]) \in Nat
    BY <1>1, PlaceIsTyped, FilesAssumption DEF Begun
  <1>3. [Next]_vars
    BY DEF Next, Producer
  <1>4. /\ DOMAIN pushed' = 1..(l + 1) /\ l \in Nat /\ pushed'[l + 1] = w
        /\ \A k \in 1..l : pushed'[k] = pushed[k]
        /\ DOMAIN pushed = 1..l
    <2>1. pushed \in Seq(QueuedWays) /\ pushed' \in Seq(QueuedWays)
      BY DEF IInv, TypeOK
    <2> QED BY <1>1, <2>1
  <1>5. Current \in Ways
    BY <1>1, <1>2, CurrentIsTyped DEF Nodes, Relations
  <1>6. /\ w.id = CurrentId /\ DOMAIN w.refs = DOMAIN Current.refs
        /\ \A i \in DOMAIN Current.refs : w.refs[i] = Current.refs[i] + idOffset
    BY DEF QueuedWay, CurrentId
  <1> HIDE DEF w, l
  <1>7. ASSUME NEW kind, NEW n \in Nat, Accounted(kind, n)
        PROVE  Accounted(kind, n)'
    BY <1>3, <1>7, AccountedStays
  <1>8. AllAccounted'
    <2>1. \A n \in DOMAIN uses' : Accounted("node", n)'
      BY <1>1, <1>7 DEF CleanInv, AllAccounted, UsesInv, UsesAreNumbers, Ids
    <2>2. \A n \in DOMAIN relMembers' : n \in Nat /\ Accounted("relation", n)'
      BY <1>1, <1>7 DEF CleanInv, AllAccounted
    <2>3. ASSUME NEW k \in DOMAIN pushed'
          PROVE  Accounted("way", pushed[k].id)'
      <3>1. CASE k = l + 1
        <4>1. pushed'[k].id = Files[file][pos].id + idOffset /\ Files[file][pos].kind = "way"
          BY <1>1, <1>4, <1>6, <3>1 DEF CurrentId, Current
        <4>2. pos \in 1..Begun'
          BY <1>2
        <4> QED BY <1>1, <4>1, <4>2 DEF Accounted
      <3>2. CASE k # l + 1
        <4>1. k \in DOMAIN pushed /\ pushed'[k] = pushed[k]
          BY <1>4, <3>2
        <4>2. \A n \in Nat : n = pushed[k].id => Accounted("way", n)'
          BY <1>7, <4>1 DEF CleanInv, AllAccounted
        <4> QED BY <4>1, <4>2, PushedIdsAreNumbers DEF Accounted
      <3> QED BY <3>1, <3>2
    <2> QED BY <2>1, <2>2, <2>3 DEF AllAccounted
  <1>9. PushedOnce'
    <2>1. \A k \in 1..l : pushed[k].id # CurrentId
      <3>1. \A k \in 1..l : Accounted(Current.kind, pushed[k].id)
        BY <1>1, <1>4 DEF CleanInv, AllAccounted
      <3> QED BY <1>1, <3>1, CurrentIsNew
    <2> QED BY <1>4, <1>6, <2>1 DEF CleanInv, PushedOnce
  <1>10. NodesAreIn'
    <2>1. \A i \in 1..pos : Files[file][i].kind = "node" => i \in 1..Begun
      BY <1>1, <1>2 DEF Current
    <2> QED BY <1>1, <1>2, <2>1 DEF CleanInv, NodesAreIn
  <1>11. \A i \in DOMAIN w.refs : w.refs[i] \in DOMAIN uses
    <2> SUFFICES ASSUME NEW i \in DOMAIN Current.refs
                 PROVE  Current.refs[i] + idOffset \in DOMAIN uses
      BY <1>6
    <2>1. RefersToItsNodes(Files[file]) /\ NodesComeFirst(Files[file])
      BY <1>2 DEF OrderlyFiles
    <2>2. PICK j \in DOMAIN Files[file] :
                 Files[file][j].kind = "node" /\ Files[file][j].id = Current.refs[i]
      BY <1>1, <1>2, <2>1 DEF RefersToItsNodes, Current
    <2>3. j < pos
      BY <1>1, <1>2, <2>1, <2>2 DEF NodesComeFirst, Current
    <2>4. j \in 1..Begun
      BY <1>2, <2>3
    <2> QED BY <2>2, <2>4 DEF CleanInv, NodesAreIn
  <1>12. RefsAreIn'
    BY <1>1, <1>4, <1>11 DEF CleanInv, RefsAreIn
  <1> QED BY <1>1, <1>8, <1>9, <1>10, <1>12
          DEF CleanInv, FilesNeverCollide, OnlySimplifiedIsStored

\* The way that is stored is one that was simplified.
LEMMA SimplifyKeepsClean ==
  ASSUME IInv, CounterInv, UsesInv, FileInv, CleanInv, Simplify, aborted' = FALSE
  PROVE  CleanInv'
PROOF
  <1>1. /\ UNCHANGED <<pushed, relMembers, pc, pos, file, idOffset>>
        /\ uses' = UsesWith(KeptNodes(inHand))
        /\ wayNodes' = With(wayNodes, inHand.id, KeptNodes(inHand))
        /\ simplified' = Append(simplified, inHand)
    BY DEF Simplify, producerVars
  <1>2. DOMAIN uses' = DOMAIN uses /\ Begun' = Begun
    BY <1>1 DEF UsesWith, Begun
  <1>3. [Next]_vars
    BY DEF Next, Consumer
  <1>4. ASSUME NEW kind, NEW n
        PROVE  Accounted(kind, n)' <=> Accounted(kind, n)
    BY <1>1, <1>2 DEF Accounted
  <1>5. AllAccounted'
    <2>1. \A k \in DOMAIN pushed' : Accounted("way", pushed[k].id)'
      BY <1>1, <1>2 DEF CleanInv, AllAccounted, Accounted
    <2>2. \A n \in DOMAIN uses' : Accounted("node", n)'
      BY <1>2, <1>4 DEF CleanInv, AllAccounted
    <2>3. \A n \in DOMAIN relMembers' : n \in Nat /\ Accounted("relation", n)'
      BY <1>1, <1>4 DEF CleanInv, AllAccounted
    <2> QED BY <2>1, <2>2, <2>3 DEF AllAccounted
  <1>6. NodesAreIn' /\ RefsAreIn' /\ PushedOnce'
    BY <1>1, <1>2 DEF CleanInv, NodesAreIn, RefsAreIn, PushedOnce
  <1>7. OnlySimplifiedIsStored'
    <2>1. DOMAIN wayNodes' = DOMAIN wayNodes \cup {inHand.id}
      BY <1>1 DEF With
    <2>2. /\ DOMAIN simplified' = 1..(Len(simplified) + 1) /\ Len(simplified) \in Nat
          /\ simplified'[Len(simplified) + 1] = inHand
          /\ \A k \in 1..Len(simplified) : simplified'[k] = simplified[k]
          /\ DOMAIN simplified = 1..Len(simplified)
      <3>1. simplified \in Seq(QueuedWays) /\ inHand \in QueuedWays
        BY DEF IInv, TypeOK, Holding, Simplify, Consuming
      <3> QED BY <1>1, <3>1
    <2>3. ASSUME NEW v \in DOMAIN wayNodes'
          PROVE  \E k \in DOMAIN simplified' : simplified'[k].id = v
      <3>1. CASE v = inHand.id
        <4>1. Len(simplified) + 1 \in DOMAIN simplified'
          BY <2>2
        <4> QED BY <2>2, <3>1, <4>1
      <3>2. CASE v # inHand.id
        <4>1. PICK k \in DOMAIN simplified : simplified[k].id = v
          BY <2>1, <3>2 DEF CleanInv, OnlySimplifiedIsStored
        <4>2. k \in DOMAIN simplified' /\ simplified'[k] = simplified[k]
          BY <2>2
        <4> QED BY <4>1, <4>2
      <3> QED BY <3>1, <3>2
    <2> QED BY <2>3 DEF OnlySimplifiedIsStored
  <1> QED BY <1>5, <1>6, <1>7 DEF CleanInv, FilesNeverCollide

\* With orderly files the reader never meets an id twice or misses a node,
\* although the files use the same ids: the offset keeps them apart
\* (osmpbfreader.cpp:941-945), and no error ends the process.
THEOREM OrderlyFilesAreRead ==
  ASSUME OrderlyFiles
  PROVE  Spec => []FilesNeverCollide
PROOF
  <1>1. Init => CleanInv
    <2> SUFFICES ASSUME Init
                 PROVE  CleanInv
      OBVIOUS
    <2>1. /\ Begun = 0 /\ aborted = FALSE /\ pushed = <<>> /\ uses = <<>> /\ wayNodes = <<>>
          /\ relMembers = <<>>
      BY DEF Init, Begun
    <2> QED BY <2>1 DEF CleanInv, FilesNeverCollide, AllAccounted, PushedOnce, NodesAreIn,
                        RefsAreIn, OnlySimplifiedIsStored
  <1>2. IInv /\ IInv' /\ NothingLost /\ CounterInv /\ UsesInv /\ FileInv /\ CleanInv /\ [Next]_vars
          => CleanInv'
    <2> SUFFICES ASSUME IInv, IInv', NothingLost, CounterInv, UsesInv, FileInv, CleanInv,
                        [Next]_vars
                 PROVE  CleanInv'
      OBVIOUS
    <2>1. aborted' = FALSE
      BY NoStepAborts
    <2>2. CASE ReadNode
      BY <2>1, <2>2, ReadNodeKeepsClean
    <2>3. CASE ReadRelation
      BY <2>1, <2>3, ReadRelationKeepsClean
    <2>4. CASE PushWay
      BY <2>4, PushWayKeepsClean
    <2>5. CASE Simplify
      BY <2>1, <2>5, SimplifyKeepsClean
    <2>6. CASE ~ReadNode /\ ~ReadRelation /\ ~PushWay /\ ~Simplify
      <3>1. UNCHANGED <<pushed, uses, relMembers, wayNodes, simplified>>
        BY <2>6 DEF Next, Producer, ParseStart, SkipWay, CountPush, Throttle, ProducerWake,
               NameWay, SetDone, Join, Consumer, TestDone, Pop, PopNothing, CountPop, ConsumerWake,
               Terminated, vars, dataVars
      <3>2. CASE SkipWay
        <4>1. Reading /\ Current.kind = "way"
          BY <3>2 DEF SkipWay
        <4> QED BY <2>1, <3>1, <4>1, PlaceIsTyped, OtherStepsKeepClean
      <3>3. CASE Join
        <4>1. Begun' = 0
          BY <3>3 DEF Join, Begun
        <4> QED BY <2>1, <3>1, <4>1, OtherStepsKeepClean
      <3>4. CASE ~SkipWay /\ ~Join
        <4>1. Begun' = Begun
          <5>1. CASE ParseStart \/ CountPush \/ Throttle \/ ProducerWake \/ NameWay \/ SetDone
            BY <5>1, PlaceIsTyped
               DEF ParseStart, CountPush, Throttle, ProducerWake, NameWay, NextItem, SetDone, Begun
          <5>2. CASE Consumer \/ Terminated \/ UNCHANGED vars
            BY <5>2 DEF Consumer, TestDone, Pop, PopNothing, CountPop, Simplify, ConsumerWake,
                        Terminated, vars, producerVars, Begun
          <5> QED BY <2>6, <3>4, <5>1, <5>2 DEF Next, Producer
        <4> QED BY <2>1, <3>1, <4>1, OtherStepsKeepClean
      <3> QED BY <3>2, <3>3, <3>4
    <2> QED BY <2>2, <2>3, <2>4, <2>5, <2>6
  <1>3. CleanInv => FilesNeverCollide
    BY DEF CleanInv
  <1> QED BY <1>1, <1>2, <1>3, Inductive, NoWayIsLost, CounterInductive, UsesInductive,
             FileInductive, PTL DEF Spec
=============================================================================
