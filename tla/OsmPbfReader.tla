---------------------------- MODULE OsmPbfReader ----------------------------
(***************************************************************************)
(* OsmPbfReader::parse and its way-simplification thread                   *)
(* (osmpbfreader.cpp).                                                     *)
(*                                                                         *)
(* The thread that calls parse() reads the elements of one .osm.pbf file   *)
(* after the other.  It inserts nodes and relations into the id trees      *)
(* itself and hands every way, as its producer, to a queue; a consumer     *)
(* thread that lives as long as one call of parse() pops the ways, drops   *)
(* superfluous nodes and stores what is left.  At the end of a file the    *)
(* producer sets a flag, joins the consumer and raises the offset that     *)
(* keeps the ids of the next file apart from those already seen.           *)
(***************************************************************************)
EXTENDS Integers, Sequences, FiniteSets

CONSTANTS
  Files,        \* the .osm.pbf files, each a sequence of elements in file order
  Blacklist,    \* blacklistedRelIds: relations to be ignored
  QueueLimit,   \* queueWaySimplification_recommendedSize - 16
  SizeWrap,     \* number of values of the atomic size_t queue counter
  CounterWrap,  \* number of values of the uint16_t counter of a node
  NoWay         \* value of inHand while the consumer holds no way

(***************************************************************************)
(* An element of a file.  'name' says what its name tags amount to:        *)
(* "none" (no name of two letters or more, or a node whose name is         *)
(* ignored), "foreign" (only names with an ignored language code) or       *)
(* "usable".  'region' says whether the element is made known to the       *)
(* Sweden object (a road with a number, an administrative or SCB area).    *)
(* A way has the ids of its nodes and the positions of those at which      *)
(* Ramer-Douglas-Peucker splits it; the other inner nodes lie in the 2m    *)
(* corridor.  A relation has its members.                                  *)
(***************************************************************************)
Node(id, name)                  == [kind |-> "node", id |-> id, name |-> name]
Way(id, refs, bends, name, reg) == [kind |-> "way", id |-> id, refs |-> refs,
                                    bends |-> bends, name |-> name, region |-> reg]
Relation(id, mem, name, reg)    == [kind |-> "relation", id |-> id, members |-> mem,
                                    name |-> name, region |-> reg]

Ids   == Nat \ {0}
Names == {"none", "foreign", "usable"}
Nodes == [kind : {"node"}, id : Ids, name : Names]
Ways  == [kind : {"way"}, id : Ids, refs : Seq(Ids), bends : SUBSET Nat, name : Names,
          region : BOOLEAN]
Relations == [kind : {"relation"}, id : Ids, members : Seq({"node", "way", "relation"} \X Ids),
              name : Names, region : BOOLEAN]

ASSUME FilesAssumption == Files \in Seq(Seq(Nodes \cup Ways \cup Relations))
ASSUME LimitAssumption == /\ QueueLimit \in Nat /\ SizeWrap \in Nat \ {0}
                          /\ CounterWrap \in Nat \ {0, 1}

\* No file has as many elements as a size_t has values.
ASSUME SizeAssumption == \A f \in DOMAIN Files : Len(Files[f]) < SizeWrap

(***************************************************************************)
(* What the reader relies on in an .osm.pbf file and cannot tell when it   *)
(* reads: the nodes come first, as in all files sorted by type and id, no  *)
(* id is used twice for one kind of element, ways that are kept refer to   *)
(* nodes of the file, and relations are not empty.                         *)
(***************************************************************************)
NodesComeFirst(els) ==
  \A i, j \in DOMAIN els : els[i].kind # "node" /\ els[j].kind = "node" => j < i

IdsAreUnique(els) ==
  \A i, j \in DOMAIN els : els[i].kind = els[j].kind /\ els[i].id = els[j].id => i = j

RefersToItsNodes(els) ==
  \A i \in DOMAIN els : els[i].kind = "way" /\ Len(els[i].refs) >= 2 =>
    \A k \in DOMAIN els[i].refs :
      \E j \in DOMAIN els : els[j].kind = "node" /\ els[j].id = els[i].refs[k]

RelationsHaveMembers(els) ==
  \A i \in DOMAIN els : els[i].kind = "relation" => els[i].members # <<>>

SortedFiles  == \A f \in DOMAIN Files : NodesComeFirst(Files[f])
OrderlyFiles == \A f \in DOMAIN Files :
                  /\ NodesComeFirst(Files[f]) /\ IdsAreUnique(Files[f])
                  /\ RefersToItsNodes(Files[f]) /\ RelationsHaveMembers(Files[f])

\* A way in the queue: its own id and its nodes' ids have the offset added.
QueuedWays == [id : Ids, refs : Seq(Ids), bends : SUBSET Nat]

ASSUME NoWayAssumption == NoWay \notin QueuedWays

VARIABLES
  pc,          \* control state of the thread that runs parse()
  file, pos,   \* the file being parsed and the element to read next
  idOffset,    \* OsmPbfReader::id_offset
  largest,     \* largest_observed_id of this call of parse()
  queue,       \* queueWaySimplification
  queueSize,   \* queueWaySimplificationSize
  done,        \* doneWaySimplification
  consumer,    \* control state of consumerWaySimplification
  draining,    \* whether the consumer has left its first loop
  inHand,      \* the way the consumer has popped
  uses,        \* node2Coord: the known nodes, each with its counter
  wayNodes,    \* wayNodes: way id -> ids of the nodes kept
  relMembers,  \* relMembers: relation id -> members
  names,       \* <<kind, id>> with an entry in the text tree and the name trees
  sweden,      \* <<kind, id>> made known to the Sweden object
  aborted,     \* Error::err was called, which ends the process
  pushed,      \* history: the ways pushed, in order
  simplified   \* history: the ways simplified and stored, in order

producerVars == <<pc, file, pos, idOffset, largest>>
consumerVars == <<consumer, draining, inHand>>
queueVars    == <<queue, queueSize, done>>
dataVars     == <<uses, wayNodes, relMembers, names, sweden>>
vars == <<producerVars, queueVars, consumerVars, dataVars, aborted, pushed, simplified>>

Max2(a, b) == IF a >= b THEN a ELSE b

\* A function extended by (or updated at) one argument.
With(f, x, v) == [y \in DOMAIN f \cup {x} |-> IF y = x THEN v ELSE f[y]]

-----------------------------------------------------------------------------
Init ==
  /\ pc = "closed" /\ file = 1 /\ pos = 1 /\ idOffset = 0 /\ largest = 0
  /\ queue = <<>> /\ queueSize = 0 /\ done = FALSE
  /\ consumer = "none" /\ draining = FALSE /\ inHand = NoWay
  /\ uses = <<>> /\ wayNodes = <<>> /\ relMembers = <<>> /\ names = {} /\ sweden = {}
  /\ aborted = FALSE
  /\ pushed = <<>> /\ simplified = <<>>

-----------------------------------------------------------------------------
(* The producer: OsmPbfReader::parse.                                      *)

Reading    == ~aborted /\ pc = "reading" /\ pos <= Len(Files[file])
Current    == Files[file][pos]
CurrentId  == Current.id + idOffset

\* Mutant: the id read last instead of the largest one.
NextItemLast == /\ pos' = pos + 1
                /\ largest' = Current.id

NextItem == /\ pos' = pos + 1
            /\ largest' = Max2(largest, Current.id)

\* A call of parse() on the next file starts the consumer thread.
ParseStart ==
  /\ ~aborted /\ pc = "closed" /\ file <= Len(Files)
  /\ pc' = "reading" /\ pos' = 1 /\ largest' = 0
  /\ done' = FALSE
  /\ consumer' = "test" /\ draining' = FALSE
  /\ UNCHANGED <<file, idOffset, queue, queueSize, inHand, dataVars, aborted,
                 pushed, simplified>>

\* insertNames: the entries of the text tree and of the name trees.
NamesWith(kind, id, name) ==
  IF name = "usable" THEN names \cup {<<kind, id>>} ELSE names
SwedenWith(kind, id, region) ==
  IF region THEN sweden \cup {<<kind, id>>} ELSE sweden

\* A node: inserted with a zero counter, raised at once if the node has a name.
NewNodeUses(id, name) == With(uses, id, IF name = "none" THEN 0 ELSE 1)

ReadNode ==
  /\ Reading /\ Current.kind = "node"
  /\ IF CurrentId \in DOMAIN uses
     THEN aborted' = TRUE /\ UNCHANGED <<pos, largest, uses, names>>   \* leaf already in use
     ELSE /\ NextItem
          /\ uses' = NewNodeUses(CurrentId, Current.name)
          /\ names' = NamesWith("node", CurrentId, Current.name)
          /\ UNCHANGED aborted
  /\ UNCHANGED <<pc, file, idOffset, queueVars, consumerVars, wayNodes, relMembers,
                 sweden, pushed, simplified>>

\* OSMWay: the way as it is queued, its own id and its nodes' ids offset.
QueuedWay(w) ==
  [id |-> w.id + idOffset, refs |-> [i \in DOMAIN w.refs |-> w.refs[i] + idOffset],
   bends |-> w.bends]

SkipWay ==
  /\ Reading /\ Current.kind = "way" /\ Len(Current.refs) < 2
  /\ NextItem
  /\ UNCHANGED <<pc, file, idOffset, queueVars, consumerVars, dataVars, aborted,
                 pushed, simplified>>

PushWay ==
  /\ Reading /\ Current.kind = "way" /\ Len(Current.refs) >= 2
  /\ sweden' = SwedenWith("way", CurrentId, Current.region)
  /\ queue' = Append(queue, QueuedWay(Current))
  /\ pushed' = Append(pushed, QueuedWay(Current))
  /\ pc' = "count"
  /\ UNCHANGED <<file, pos, idOffset, largest, queueSize, done, consumerVars, uses,
                 wayNodes, relMembers, names, aborted, simplified>>

\* The size of the lock-free queue is counted apart from it, after the push.
CountPush ==
  /\ ~aborted /\ pc = "count"
  /\ queueSize' = (queueSize + 1) % SizeWrap
  /\ pc' = "throttle"
  /\ UNCHANGED <<file, pos, idOffset, largest, queue, done, consumerVars, dataVars,
                 aborted, pushed, simplified>>

\* Give the consumer thread time to catch up.
Throttle ==
  /\ ~aborted /\ pc = "throttle"
  /\ pc' = IF queueSize > QueueLimit THEN "asleep" ELSE "name"
  /\ UNCHANGED <<file, pos, idOffset, largest, queueVars, consumerVars, dataVars,
                 aborted, pushed, simplified>>

ProducerWake ==
  /\ ~aborted /\ pc = "asleep"
  /\ pc' = "name"
  /\ UNCHANGED <<file, pos, idOffset, largest, queueVars, consumerVars, dataVars,
                 aborted, pushed, simplified>>

NameWay ==
  /\ ~aborted /\ pc = "name"
  /\ names' = NamesWith("way", CurrentId, Current.name)
  /\ NextItem
  /\ pc' = "reading"
  /\ UNCHANGED <<file, idOffset, queueVars, consumerVars, uses, wayNodes, relMembers,
                 sweden, aborted, pushed, simplified>>

\* The members of a relation are stored with the ids they have in the file.
StoredMembers(r) == r.members

Blacklisted(id) == id \in Blacklist

ReadRelation ==
  /\ Reading /\ Current.kind = "relation"
  /\ IF Blacklisted(CurrentId)
     THEN NextItem /\ UNCHANGED <<relMembers, names, sweden, aborted>>
     ELSE IF Current.members = <<>> \/ CurrentId \in DOMAIN relMembers
     THEN /\ aborted' = TRUE
          /\ sweden' = SwedenWith("relation", CurrentId, Current.region)
          /\ UNCHANGED <<pos, largest, relMembers, names>>
     ELSE /\ NextItem
          /\ sweden' = SwedenWith("relation", CurrentId, Current.region)
          /\ relMembers' = With(relMembers, CurrentId, StoredMembers(Current))
          /\ names' = NamesWith("relation", CurrentId, Current.name)
          /\ UNCHANGED aborted
  /\ UNCHANGED <<pc, file, idOffset, queueVars, consumerVars, uses, wayNodes, pushed,
                 simplified>>

\* End of the file: the consumer is told that nothing more will be pushed.
SetDone ==
  /\ ~aborted /\ pc = "reading" /\ pos > Len(Files[file])
  /\ done' = TRUE
  /\ pc' = "join"
  /\ UNCHANGED <<file, pos, idOffset, largest, queue, queueSize, consumerVars, dataVars,
                 aborted, pushed, simplified>>

NextOffset == idOffset + largest + 1

\* Mutant: parse() does not wait for its thread.
JoinDetached ==
  /\ ~aborted /\ pc = "join"
  /\ consumer' = "none"
  /\ idOffset' = NextOffset
  /\ file' = file + 1
  /\ pc' = "closed"
  /\ UNCHANGED <<pos, largest, queueVars, draining, inHand, dataVars, aborted, pushed,
                 simplified>>

\* Mutant: one consumer for all files, joined after the last one.
JoinAtTheEnd ==
  /\ ~aborted /\ pc = "join"
  /\ idOffset' = NextOffset
  /\ file' = file + 1 /\ pos' = 1
  /\ IF file < Len(Files)
     THEN pc' = "reading" /\ UNCHANGED consumer
     ELSE consumer = "ended" /\ consumer' = "none" /\ pc' = "closed"
  /\ UNCHANGED <<largest, queueVars, draining, inHand, dataVars, aborted, pushed,
                 simplified>>

\* waySimplificationThread.join() returns, and so does parse().
Join ==
  /\ ~aborted /\ pc = "join" /\ consumer = "ended"
  /\ consumer' = "none"
  /\ idOffset' = NextOffset
  /\ file' = file + 1
  /\ pc' = "closed"
  /\ UNCHANGED <<pos, largest, queueVars, draining, inHand, dataVars, aborted, pushed,
                 simplified>>

-----------------------------------------------------------------------------
(* The consumer: consumerWaySimplification.                                *)

Consuming(state) == ~aborted /\ consumer = state

\* while (!doneWaySimplification)
TestDone ==
  /\ Consuming("test")
  /\ draining' = done
  /\ consumer' = "pop"
  /\ UNCHANGED <<producerVars, queueVars, inHand, dataVars, aborted, pushed, simplified>>

\* Mutant: the way pushed last comes first.
PopLast ==
  /\ Consuming("pop") /\ queue # <<>>
  /\ inHand' = queue[Len(queue)] /\ queue' = SubSeq(queue, 1, Len(queue) - 1)
  /\ consumer' = "count"
  /\ UNCHANGED <<producerVars, queueSize, done, draining, dataVars, aborted, pushed,
                 simplified>>

Pop ==
  /\ Consuming("pop") /\ queue # <<>>
  /\ inHand' = Head(queue) /\ queue' = Tail(queue)
  /\ consumer' = "count"
  /\ UNCHANGED <<producerVars, queueSize, done, draining, dataVars, aborted, pushed,
                 simplified>>

\* Mutant: the consumer ends as soon as it finds nothing to do.
PopNothingEnds ==
  /\ Consuming("pop") /\ queue = <<>>
  /\ consumer' = "ended"
  /\ UNCHANGED <<producerVars, queueVars, draining, inHand, dataVars, aborted, pushed,
                 simplified>>

\* The queue is found empty: sleep and look again or, when draining, end.
PopNothing ==
  /\ Consuming("pop") /\ queue = <<>>
  /\ consumer' = IF draining THEN "ended" ELSE "asleep"
  /\ UNCHANGED <<producerVars, queueVars, draining, inHand, dataVars, aborted, pushed,
                 simplified>>

\* Mutant: a signed counter.
CountPopSigned ==
  /\ Consuming("count")
  /\ queueSize' = queueSize - 1
  /\ consumer' = "simplify"
  /\ UNCHANGED <<producerVars, queue, done, draining, inHand, dataVars, aborted, pushed,
                 simplified>>

\* Mutant: the counter is never lowered.
CountPopForgotten ==
  /\ Consuming("count")
  /\ consumer' = "simplify"
  /\ UNCHANGED <<producerVars, queueVars, draining, inHand, dataVars, aborted, pushed,
                 simplified>>

CountPop ==
  /\ Consuming("count")
  /\ queueSize' = (queueSize + SizeWrap - 1) % SizeWrap
  /\ consumer' = "simplify"
  /\ UNCHANGED <<producerVars, queue, done, draining, inHand, dataVars, aborted, pushed,
                 simplified>>

\* Mutant: every node in the corridor goes.
SuperfluousInCorridor(w, i) == 1 < i /\ i < Len(w.refs) /\ i \notin w.bends

\* applyRamerDouglasPeucker: an inner node goes if it is neither a bend of
\* the way nor, as far as its counter tells, of use to anything else.
Superfluous(w, i) == 1 < i /\ i < Len(w.refs) /\ i \notin w.bends /\ uses[w.refs[i]] = 0
KeptPositions(w)  == {i \in DOMAIN w.refs : ~Superfluous(w, i)}
KeptNodes(w) ==
  LET kept == KeptPositions(w)
  IN  [k \in 1..Cardinality(kept) |->
         w.refs[CHOOSE i \in kept : Cardinality({j \in kept : j <= i}) = k]]

Occurrences(s, n) == Cardinality({i \in DOMAIN s : s[i] = n})

\* Mutant: a way counts once for each of its nodes.
UsesOncePerWay(s) ==
  [n \in DOMAIN uses |-> (uses[n] + IF \E i \in DOMAIN s : s[i] = n THEN 1 ELSE 0) % CounterWrap]

\* simplifyWay: every occurrence of a node in the way that is stored counts,
\* in a counter of 16 bits.
UsesWith(s) == [n \in DOMAIN uses |-> (uses[n] + Occurrences(s, n)) % CounterWrap]

\* A node that is not in node2Coord, and a way id seen before, end the process.
Unknown(w) == \E i \in DOMAIN w.refs : w.refs[i] \notin DOMAIN uses

Simplify ==
  /\ Consuming("simplify")
  /\ IF Unknown(inHand) \/ inHand.id \in DOMAIN wayNodes
     THEN aborted' = TRUE /\ UNCHANGED <<uses, wayNodes, consumer, inHand, simplified>>
     ELSE /\ uses' = UsesWith(KeptNodes(inHand))
          /\ wayNodes' = With(wayNodes, inHand.id, KeptNodes(inHand))
          /\ simplified' = Append(simplified, inHand)
          /\ inHand' = NoWay
          /\ consumer' = "pop"
          /\ UNCHANGED aborted
  /\ UNCHANGED <<producerVars, queueVars, draining, relMembers, names, sweden, pushed>>

\* Mutant: after sleeping the flag is not looked at again.
ConsumerWakePops ==
  /\ Consuming("asleep")
  /\ consumer' = "pop"
  /\ UNCHANGED <<producerVars, queueVars, draining, inHand, dataVars, aborted, pushed,
                 simplified>>

ConsumerWake ==
  /\ Consuming("asleep")
  /\ consumer' = "test"
  /\ UNCHANGED <<producerVars, queueVars, draining, inHand, dataVars, aborted, pushed,
                 simplified>>

-----------------------------------------------------------------------------
Finished == pc = "closed" /\ file > Len(Files)

\* The reader has nothing left to do, or the process is gone.
Terminated == (Finished \/ aborted) /\ UNCHANGED vars

Producer == \/ ParseStart \/ ReadNode \/ SkipWay \/ PushWay \/ CountPush \/ Throttle
            \/ ProducerWake \/ NameWay \/ ReadRelation \/ SetDone \/ Join
Consumer == \/ TestDone \/ Pop \/ PopNothing \/ CountPop \/ Simplify \/ ConsumerWake

Next == Producer \/ Consumer \/ Terminated

\* Both are threads of one process, and the scheduler runs every thread.
Spec     == Init /\ [][Next]_vars
FairSpec == Spec /\ WF_vars(Producer) /\ WF_vars(Consumer)
-----------------------------------------------------------------------------
(* Properties.                                                             *)

\* Every variable has its type; 'largest' and the ids it offsets are ids as
\* they are in the file, those in the trees have the offset of their file.
TypeOK ==
  /\ pc \in {"closed", "reading", "count", "throttle", "asleep", "name", "join"}
  /\ file \in Nat \ {0} /\ pos \in Nat \ {0} /\ idOffset \in Nat /\ largest \in Nat
  /\ queue \in Seq(QueuedWays) /\ queueSize \in 0..(SizeWrap - 1) /\ done \in BOOLEAN
  /\ consumer \in {"none", "test", "pop", "count", "simplify", "asleep", "ended"}
  /\ draining \in BOOLEAN /\ inHand \in QueuedWays \cup {NoWay}
  /\ aborted \in BOOLEAN
  /\ pushed \in Seq(QueuedWays) /\ simplified \in Seq(QueuedWays)

\* What the consumer holds, as a sequence.
InHand == IF inHand = NoWay THEN <<>> ELSE <<inHand>>

\* No way is lost, stored twice or stored out of order between the two
\* threads: what the producer pushed is what was stored, what the consumer
\* holds and what is queued, in this order (osmpbfreader.cpp:181-202, 770).
NothingLost == pushed = simplified \o InHand \o queue

\* The largest id of a file, zero if it has no elements.
LargestId(els) == LET ids == {els[i].id : i \in DOMAIN els} \cup {0}
                  IN  CHOOSE m \in ids : \A x \in ids : x <= m

\* The offset of the ids of file f.
OffsetOf[f \in 1..(Len(Files) + 1)] ==
  IF f = 1 THEN 0 ELSE OffsetOf[f - 1] + (LargestId(Files[f - 1]) + 1)

StoredEnds(w, f) ==
  LET id == w.id + OffsetOf[f]
  IN  /\ id \in DOMAIN wayNodes
      /\ wayNodes[id][1] = w.refs[1] + OffsetOf[f]
      /\ wayNodes[id][Len(wayNodes[id])] = w.refs[Len(w.refs)] + OffsetOf[f]

\* When parse() has returned, nothing is queued or in the consumer's hands,
\* and every way of the files parsed so far that has two nodes or more is in
\* wayNodes under its offset id, from its first to its last node; the next
\* file, and fixUnlabeledRegionalRoads after the last one, rely on it
\* (osmpbfreader.cpp:930-932, globalobjects.cpp:315-345).
ReturnedMeansStored ==
  (pc = "closed" /\ ~aborted) =>
    /\ queue = <<>> /\ inHand = NoWay /\ queueSize = 0
    /\ \A f \in 1..(file - 1) : \A i \in DOMAIN Files[f] :
         LET e == Files[f][i]
         IN  e.kind = "way" /\ Len(e.refs) >= 2 => StoredEnds(e, f)

\* The places at which stored ways use node n.
PlacesIn(w, n) == {<<w, i>> : i \in {i \in DOMAIN wayNodes[w] : wayNodes[w][i] = n}}
Places(n)      == UNION {PlacesIn(w, n) : w \in DOMAIN wayNodes}

\* The counter of a node that is used at its places and, perhaps, named.
CounterOf(n, named) == (Cardinality(Places(n)) + named) % CounterWrap

\* A node's counter is the number of its occurrences in stored ways, plus one
\* if it has a name, as far as 16 bits hold it; only so does zero mean "of no
\* use to anything yet" (osmpbfreader.cpp:139, 173-174, 232-235).
CountersAreUses ==
  \A n \in DOMAIN uses : \E named \in {0, 1} :
    uses[n] = CounterOf(n, named) /\ (<<"node", n>> \in names => named = 1)

\* The producer decides whether to give the consumer time on a counter that
\* is kept apart from the queue and may be one below zero (so, unsigned, very
\* large) between the push and its count; when it looks, the counter is never
\* off by more than the one way being popped (osmpbfreader.cpp:185, 770-777).
ThrottleSeesTrueSize ==
  pc = "throttle" => Len(queue) <= queueSize /\ queueSize <= Len(queue) + 1

\* node2Coord has no lock.  What keeps the producer, that inserts nodes and
\* raises their counters, away from it while the consumer reads and raises
\* counters is the order of the elements in a file and the join at its end
\* (osmpbfreader.cpp:533, 617, 932).
NoConcurrentNodeAccess ==
  ~(Reading /\ Current.kind = "node" /\ consumer = "simplify")

\* With files that are sorted and refer to their own nodes, no id is inserted
\* twice and no node is missing, although the files use the same ids: the
\* offset keeps them apart (osmpbfreader.cpp:941-945).
FilesNeverCollide == ~aborted

Before(a, b) == \E i, j \in DOMAIN simplified : i < j /\ simplified[i] = a /\ simplified[j] = b
Elements(s)  == {s[i] : i \in DOMAIN s}

\* All uses of a node fit into its counter.
CounterHolds(n) == Cardinality(Places(n)) + 1 < CounterWrap

\* A way that is stored after another one keeps every node that the other one
\* kept: from then on the node is a junction, unless it is used so often that
\* its counter wraps and may be zero again (osmpbfreader.cpp:138-141,
\* idtree_impl.h:116).
LaterWaysKeepJunctions ==
  \A a, b \in Elements(simplified) : Before(a, b) =>
    \A n \in Elements(b.refs) \cap Elements(wayNodes[a.id]) :
      CounterHolds(n) => n \in Elements(wayNodes[b.id])

\* Every file is read to its end and parse() returns, however the two threads
\* sleep and wake.
EveryFileIsParsed == <>(aborted \/ Finished)

\* The two threads and their queue implement the store they stand for.
Store == INSTANCE Ingest WITH Ways <- QueuedWays, taken <- pushed, stored <- simplified,
                              open <- (pc # "closed")
ImplementsIngest == Store!Spec

\* Not so: "remove only unused/irrelevant nodes" (osmpbfreader.cpp:139) says
\* that a node stays where it is used by another way.  Only the ways stored
\* before count; the way that comes first loses the junction.
JunctionsSurvive ==
  (pc = "closed" /\ ~aborted) =>
    \A a, b \in Elements(simplified) : a # b =>
      Elements(a.refs) \cap Elements(wayNodes[b.id]) \subseteq Elements(wayNodes[a.id])
=============================================================================
