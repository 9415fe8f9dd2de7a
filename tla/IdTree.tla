------------------------------- MODULE IdTree -------------------------------
(***************************************************************************)
(* IdTree<T> (idtree.h, idtree_impl.h), compiled with REVERSE_ID_TREE and  *)
(* DEBUG: a tree of fixed depth in which an id's digits, the most          *)
(* significant first, are the way from the root to its leaf.  Two things   *)
(* make lookups fast: pointers to the nodes on the way along the leading   *)
(* zeros of an id, and a direct-mapped cache.  The tree is written to a    *)
(* file and read back by the next run of the program.                      *)
(***************************************************************************)
EXTENDS Integers, Sequences, FiniteSets, FiniteSetsExt

Seqs == INSTANCE SequencesExt     \* whose Remove is another one

CONSTANTS
  Levels,        \* bitsPerId / bitsPerNode
  NumChildren,   \* numChildren
  ZeroPathDepth, \* zeroPathDepth
  CacheSize,     \* cache_size
  SizeWrap, CounterWrap,   \* number of values of 'size' and of a counter
  Ids, Values,   \* the ids and the data used
  Empty,         \* T(), the data of a node that is no leaf
  EmptyRefused,  \* whether assigning T() is an error, as for ways and relations
  NotFound,      \* what a lookup gives if there is no such element
  MaxRemovals    \* bound on the calls of remove()

\* The weight of digit k from the right, a shift by k * bitsPerNode.
Weight[k \in 0..Levels] == IF k = 0 THEN 1 ELSE NumChildren * Weight[k - 1]

\* There are no more ids other than 0 than a size can count.
ASSUME TreeAssumption == /\ {Levels, ZeroPathDepth, NumChildren, CacheSize, SizeWrap, CounterWrap}
                              \subseteq Nat \ {0}
                         /\ ZeroPathDepth <= Levels
                         /\ Ids \subseteq 0..(Weight[Levels] - 1)
                         /\ Cardinality(Ids \ {0}) < SizeWrap
                         /\ MaxRemovals \in Nat
ASSUME DataAssumption == Empty \notin Values /\ NotFound \notin Values /\ EmptyRefused \in BOOLEAN

VARIABLES
  tree,       \* the nodes, by their path from the root: id, data and counter
  zeroPath,   \* zeroPath: the nodes pointed to
  cache,      \* cache: an id (0 if not in use) and its data
  size,       \* d->size
  got,        \* what the last call of retrieve() returned
  error,      \* the error that ended the process, if any
  present,    \* history: the ids inserted and not yet removed
  removals    \* history: how often remove() was called

vars == <<tree, zeroPath, cache, size, got, error, present, removals>>

Digits == [id \in Ids |-> [k \in 1..Levels |-> (id \div Weight[Levels - k]) % NumChildren]]
Zeros(n)   == [k \in 1..n |-> 0]
Child(p, c) == Append(p, c)
Children(t, p) == {c \in 0..(NumChildren - 1) : Child(p, c) \in DOMAIN t}

InnerNode == [id |-> 0, data |-> Empty, counter |-> 0]

\* The tree with the nodes of S added to it where they are missing.
WithNodes(t, S) == [p \in DOMAIN t \cup S |-> IF p \in DOMAIN t THEN t[p] ELSE InnerNode]

\* buildZeroPath
ZeroPath == [k \in 1..ZeroPathDepth |-> Zeros(k - 1)]
WithZeroPath(t) == WithNodes(t, {Zeros(k) : k \in 0..(ZeroPathDepth - 1)})

\* Mutant: the nodes without children.
ComputeSizeChildless(t) == Cardinality({p \in DOMAIN t : Children(t, p) = {}})

\* compute_size: the nodes at the lowest level.
ComputeSize(t) == Cardinality({p \in DOMAIN t : Len(p) = Levels})

\* size(), which computes the size if it is 0.
SizeNow == IF size = 0 THEN ComputeSize(tree) ELSE size

EmptyCache == [k \in 0..(CacheSize - 1) |-> [id |-> 0, data |-> Empty]]

Init ==
  /\ tree = WithZeroPath(<<>>) /\ zeroPath = ZeroPath
  /\ cache = EmptyCache /\ size = 0
  /\ got = <<0, NotFound>> /\ error = "none"
  /\ present = {} /\ removals = 0

-----------------------------------------------------------------------------
(* Finding the node of an id.                                              *)

\* skipAheadOnZeroPath: how many levels are skipped.
Skippable(id) == {s \in 1..ZeroPathDepth : /\ SubSeq(Digits[id], 1, s) = Zeros(s)
                                           /\ Len(zeroPath) > s}
Skipped(id) == Max(Skippable(id) \cup {0})

\* The node where the search ends, and the way there from where it starts.
Target(id) == LET s == Skipped(id)
              IN  (IF s = 0 THEN <<>> ELSE zeroPath[s + 1]) \o SubSeq(Digits[id], s + 1, Levels)
Way(id)    == LET end == Target(id) IN {SubSeq(end, 1, k) : k \in Skipped(id)..Levels}

\* findNodeForId: the way down exists and ends at a leaf of this id.
Found(id) == /\ <<>> \in DOMAIN tree
             /\ Way(id) \subseteq DOMAIN tree
             /\ tree[Target(id)].id = id
Leaf(id)  == tree[Target(id)]

Fails(what) == error' = what /\ UNCHANGED <<tree, zeroPath, cache, size, got, present, removals>>

-----------------------------------------------------------------------------
(* The operations.                                                         *)

\* Mutant: an element that is there already is replaced.
InUseNever(id) == FALSE

InUse(id) == Digits[id] \in DOMAIN tree

Insert(id, v) ==
  /\ error = "none"
  /\ IF id = 0 THEN Fails("zero id")
     ELSE IF InUse(id) THEN Fails("leaf in use")
     ELSE /\ tree' = [WithNodes(tree, Seqs!Prefixes(Digits[id])) EXCEPT
                        ![Digits[id]].id = id, ![Digits[id]].data = v]
          /\ size' = (size + 1) % SizeWrap
          /\ present' = present \cup {id}
          /\ UNCHANGED <<zeroPath, cache, got, error, removals>>

Line(id) == id % CacheSize

\* Only what is found goes into the cache.
Retrieve(id) ==
  /\ error = "none"
  /\ IF id = 0 THEN Fails("zero id")
     ELSE /\ IF cache[Line(id)].id = id
             THEN got' = <<id, cache[Line(id)].data>> /\ UNCHANGED cache
             ELSE IF Found(id)
             THEN /\ got' = <<id, Leaf(id).data>>
                  /\ cache' = [cache EXCEPT ![Line(id)] = [id |-> id, data |-> Leaf(id).data]]
             ELSE got' = <<id, NotFound>> /\ UNCHANGED cache
          /\ UNCHANGED <<tree, zeroPath, size, error, present, removals>>

IncreaseCounter(id) ==
  /\ error = "none"
  /\ IF ~Found(id) THEN Fails("no node")
     ELSE /\ tree' = [tree EXCEPT ![Target(id)].counter = (@ + 1) % CounterWrap]
          /\ UNCHANGED <<zeroPath, cache, size, got, error, present, removals>>

\* size() is asked for, which may set it.
AskSize ==
  /\ error = "none"
  /\ size' = SizeNow
  /\ UNCHANGED <<tree, zeroPath, cache, got, error, present, removals>>

WithoutSubtree(t, p) == [q \in {q \in DOMAIN t : ~Seqs!IsPrefix(p, q)} |-> t[q]]
IsChild(t, p, q) == q \in {Child(p, c) : c \in Children(t, p)}

\* The nodes findNodeForId records on its way.
Recorded(id) == [k \in 1..Levels |-> IF k <= Skipped(id) THEN zeroPath[k] ELSE SubSeq(Target(id), 1, k - 1)]

\* What is left of the tree, the node looked at last and its children, when
\* 'cur' has been taken out of 'parent'.
TakenOut(t, parent, cur) ==
  LET rest == IF IsChild(t, parent, cur) THEN WithoutSubtree(t, cur) ELSE t
  IN  [tree |-> rest, cur |-> parent, children |-> Cardinality(Children(rest, parent))]

AtLeaf(id) == [tree |-> tree, cur |-> Target(id), children |-> 0]

\* Mutant: the leaf's parent is looked at first.
UnlinkedFromParent(id) ==
  LET left[k \in 0..Levels] ==
        IF k = Levels THEN AtLeaf(id)
        ELSE IF left[k + 1].children # 0 THEN left[k + 1]
        ELSE TakenOut(left[k + 1].tree, Recorded(id)[k + 1], left[k + 1].cur)
  IN  left[0]

\* The loop of remove(): while the node looked at last has no children and
\* more than one node is left of the path, the last one is popped and the one
\* before it is taken for the parent.  left[k] is what holds when k are left.
Unlinked(id) ==
  LET left[k \in 1..Levels] ==
        IF k = Levels THEN AtLeaf(id)
        ELSE IF left[k + 1].children # 0 THEN left[k + 1]
        ELSE TakenOut(left[k + 1].tree, Recorded(id)[k], left[k + 1].cur)
  IN  left[1]

\* Mutant: a signed size.
LessOneSigned(n) == n - 1

LessOne(n) == (n + SizeWrap - 1) % SizeWrap

Remove(id) ==
  /\ error = "none" /\ removals < MaxRemovals
  /\ removals' = removals + 1
  /\ IF ~Found(id)
     THEN UNCHANGED <<tree, size, present>>
     ELSE /\ LET end == Unlinked(id)
             IN  tree' = IF end.children = 0 /\ end.cur = <<>> THEN <<>> ELSE end.tree
          /\ size' = LessOne(size)
          /\ present' = present \ {id}
  /\ UNCHANGED <<zeroPath, cache, got, error>>

-----------------------------------------------------------------------------
(* The file: the nodes in depth-first order, the last child first, each     *)
(* with an 'N' if it has no children and a 'C' if it has, and then with a  *)
(* '0' or a '1' for each child.                                            *)

\* What is written of a node without children, and of one with children.
LeafToken(n)  == [chr |-> "N", id |-> n.id, data |-> n.data, counter |-> n.counter]
InnerToken(n) == [chr |-> "C", id |-> n.id]
Sign(chr)     == [chr |-> chr]

\* Mutant: the first child first.
StreamFirstChildFirst(t) ==
  LET write[x \in (DOMAIN t) \X (0..(NumChildren + 1))] ==
        LET p     == x[1]
            c     == x[2]
            child == Child(p, NumChildren - c)
        IN  IF c = 0 THEN <<>>
            ELSE IF c > NumChildren
            THEN IF Children(t, p) = {} THEN << LeafToken(t[p]) >>
                 ELSE << InnerToken(t[p]) >> \o write[<<p, NumChildren>>]
            ELSE IF child \in DOMAIN t
            THEN << Sign("1") >> \o write[<<child, NumChildren + 1>>] \o write[<<p, c - 1>>]
            ELSE << Sign("0") >> \o write[<<p, c - 1>>]
  IN  write[<< <<>>, NumChildren + 1 >>]

\* The file of a tree.  write[<<p, c>>] is what is written of the children
\* c-1 down to 0 of node p, or of the node itself if c > NumChildren.
Stream(t) ==
  LET write[x \in (DOMAIN t) \X (0..(NumChildren + 1))] ==
        LET p     == x[1]
            c     == x[2]
            child == Child(p, c - 1)
        IN  IF c = 0 THEN <<>>
            ELSE IF c > NumChildren
            THEN IF Children(t, p) = {} THEN << LeafToken(t[p]) >>
                 ELSE << InnerToken(t[p]) >> \o write[<<p, NumChildren>>]
            ELSE IF child \in DOMAIN t
            THEN << Sign("1") >> \o write[<<child, NumChildren + 1>>] \o write[<<p, c - 1>>]
            ELSE << Sign("0") >> \o write[<<p, c - 1>>]
  IN  write[<< <<>>, NumChildren + 1 >>]

NodeRead(token) ==
  IF token.chr = "N" THEN [id |-> token.id, data |-> token.data, counter |-> token.counter]
  ELSE [InnerNode EXCEPT !.id = token.id]

\* A node above the nodes of f, and the nodes of f below child c beside g.
WithRoot(n, f)  == [p \in {<<>>} \cup DOMAIN f |-> IF p = <<>> THEN n ELSE f[p]]
Beside(c, f, g) == [p \in {<<c>> \o q : q \in DOMAIN f} \cup DOMAIN g |->
                      IF p \in DOMAIN g THEN g[p] ELSE f[Tail(p)]]

\* The tree read from a stream.  read[<<i, c>>] is what is read from position
\* i on: the children c-1 down to 0 of a node, or a node if c > NumChildren.
ReadBack(s) ==
  LET read[x \in (1..(Len(s) + 1)) \X (0..(NumChildren + 1))] ==
        LET i        == x[1]
            c        == x[2]
            nothing  == [next |-> i, nodes |-> <<>>]
            children == IF s[i].chr = "N" THEN [nothing EXCEPT !.next = i + 1]
                        ELSE read[<<i + 1, NumChildren>>]
            child    == read[<<i + 1, NumChildren + 1>>]
            others   == read[<<child.next, c - 1>>]
        IN  IF c = 0 \/ i > Len(s) THEN nothing
            ELSE IF c > NumChildren
            THEN [next |-> children.next, nodes |-> WithRoot(NodeRead(s[i]), children.nodes)]
            ELSE IF s[i].chr = "0" THEN read[<<i + 1, c - 1>>]
            ELSE [next |-> others.next, nodes |-> Beside(c - 1, child.nodes, others.nodes)]
  IN  read[<<1, NumChildren + 1>>].nodes

\* A childless node that is no leaf is written with its empty data.
Refused(t) == EmptyRefused /\ \E p \in DOMAIN t : Children(t, p) = {} /\ t[p].data = Empty

\* The tree is written, the program ends, and its next run reads the tree.
Reload ==
  /\ error = "none" /\ <<>> \in DOMAIN tree
  /\ LET new == ReadBack(Stream(tree))
     IN  IF Refused(tree) THEN Fails("empty data")
         ELSE IF SizeNow # ComputeSize(new) THEN Fails("size")
         ELSE /\ tree' = WithZeroPath(new) /\ zeroPath' = ZeroPath
              /\ cache' = EmptyCache
              /\ size' = ComputeSize(new)
              /\ UNCHANGED <<got, error, present, removals>>

-----------------------------------------------------------------------------
\* Error::err has ended the process.
Ended == error # "none" /\ UNCHANGED vars

Next == \/ \E id \in Ids : \/ \E v \in Values : Insert(id, v)
                           \/ Retrieve(id) \/ IncreaseCounter(id) \/ Remove(id)
        \/ AskSize \/ Reload \/ Ended

Spec == Init /\ [][Next]_vars

-----------------------------------------------------------------------------
(* Properties.                                                             *)

Nodes == [id : Ids \cup {0}, data : Values \cup {Empty}, counter : 0..(CounterWrap - 1)]

\* Every variable has its type, and every node but the root has a parent.
TypeOK ==
  /\ \A p \in DOMAIN tree : /\ tree[p] \in Nodes
                            /\ Len(p) <= Levels /\ \A k \in 1..Len(p) : p[k] \in 0..(NumChildren - 1)
                            /\ Seqs!Prefixes(p) \subseteq DOMAIN tree
  /\ cache \in [0..(CacheSize - 1) -> [id : Ids \cup {0}, data : Values \cup {Empty}]]
  /\ size \in 0..(SizeWrap - 1)
  /\ got \in (Ids \cup {0}) \X (Values \cup {NotFound})
  /\ error \in {"none", "zero id", "leaf in use", "no node", "size", "empty data"}
  /\ present \subseteq Ids /\ removals \in 0..MaxRemovals

\* The leaves are a map to which elements are added; a lookup returns what it
\* has, along the zeros or from the root, from the cache or not, in this run
\* of the program and the next (idtree_impl.h:190-298, 333-345, 406-428).
Stored == {id \in Ids : Digits[id] \in DOMAIN tree}
Map == INSTANCE IdMap WITH map <- [id \in Stored |-> [data |-> tree[Digits[id]].data,
                                                      counter |-> tree[Digits[id]].counter]]
ImplementsIdMap == Map!Spec

\* A line of the cache that is in use has what the tree has: nothing that is
\* done to the tree makes it stale (idtree_impl.h:410-425).
CacheIsFresh ==
  \A k \in DOMAIN cache : cache[k].id # 0 =>
    /\ Line(cache[k].id) = k
    /\ cache[k].id \in Stored /\ tree[Digits[cache[k].id]].data = cache[k].data

\* The pointers along the zeros point to nodes that exist, whatever was
\* removed (idtree_impl.h:132, 203-211, 456).
ZeroPathIsInTree == error = "none" => \A k \in DOMAIN zeroPath : zeroPath[k] \in DOMAIN tree

\* Unless remove() was called, what is written can be read: the size that is
\* recorded is the one that is counted; the data of ways and relations is
\* refused only where no id leads along the zeros (idtree_impl.h:218-235,
\* 300-313, 340; idtree.h:48-50, 130-131).
WrittenIsReadable ==
  /\ error = "size" => removals > 0
  /\ error = "empty data" =>
       ~\E id \in Stored : SubSeq(Digits[id], 1, ZeroPathDepth - 1) = Zeros(ZeroPathDepth - 1)
=============================================================================
