-------------------------- MODULE SwedishTextTree --------------------------
(***************************************************************************)
(* SwedishTextTree (swedishtexttree.cpp): the names of the map's elements  *)
(* in a tree whose paths are the codes of a phrase's characters.  It is    *)
(* filled while the map is read, written to a file, and read from there by *)
(* the next run of the program.                                            *)
(***************************************************************************)
EXTENDS Tokenizer

CONSTANTS
  Elements,    \* the OSM elements: records of id, type and rwt (realworld_type)
  UsedCodes    \* the codes of the characters that names have

VARIABLES
  node,        \* the nodes, by their path from the root: SwedishTextNode::elements
  size         \* _size

treeVars == <<node, size>>

TreeInit == node = [p \in {<<>>} |-> <<>>] /\ size = 0

\* code_char, for the characters that words have: å, ä, ö, é, ü and ø are the
\* only ones beyond ASCII that have a code of their own.
NumCodes    == 48
CodeWordSep == NumCodes - 2
CodeUnknown == NumCodes - 1
Code(c) ==
  LET beyond == <<229, 228, 246, 233, 252, 248>>
  IN  CASE c \in Letters       -> c - 97 + 1
        [] c \in Digits        -> c - 48 + 27
        [] c \in Range(beyond) -> 36 + CHOOSE i \in DOMAIN beyond : beyond[i] = c
        [] c = 45              -> 45
        [] c <= 32             -> CodeWordSep
        [] OTHER               -> CodeUnknown

\* to_code_word: up to the first control character.
CodeWord(phrase) ==
  LET ends == {i \in DOMAIN phrase : phrase[i] < 32} \cup {Len(phrase) + 1}
  IN  [i \in 1..(Min(ends) - 1) |-> Code(phrase[i])]

\* insert: the phrases of all words, of all but one and of all but two, in the
\* order in which they are inserted.
Phrases(words) ==
  LET n == Len(words)
      OfSize(s) == [i \in 1..(n - s + 1) |-> Joined(SubSeq(words, i, i + s - 1))]
  IN  FlattenSeq([k \in 1..Min({n, 3}) |-> OfSize(n - k + 1)])

\* The code words under which a name is inserted: up to the first that is
\* empty, where internal_insert fails.
CodesOf(name) ==
  LET phrases == Phrases(Tokens(name))
      codes   == [i \in DOMAIN phrases |-> CodeWord(phrases[i])]
      empty   == {i \in DOMAIN codes : codes[i] = <<>>}
  IN  SubSeq(codes, 1, Min(empty \cup {Len(codes) + 1}) - 1)

\* Mutant: only the last node is made.
WithLastNodeOnly(t, code, element) ==
  [p \in DOMAIN t \cup {code} |->
     LET old == IF p \in DOMAIN t THEN t[p] ELSE <<>>
     IN  IF p = code THEN Append(old, element) ELSE old]

\* internal_insert: the missing nodes are made on the way down.
WithElement(t, code, element) ==
  [p \in DOMAIN t \cup Prefixes(code) |->
     LET old == IF p \in DOMAIN t THEN t[p] ELSE <<>>
     IN  IF p = code THEN Append(old, element) ELSE old]

\* insert, for the code words of one or more names of an element
Inserted(t, codes, element) == FoldLeft(LAMBDA u, code : WithElement(u, code, element), t, codes)

Insert(codes, element) ==
  /\ node' = Inserted(node, codes, element)
  /\ size' = size + Len(codes)

\* Mutant: the walk down ends where a node is missing, with what is there.
RetrieveDeepest(phrase) ==
  LET there == {p \in Prefixes(CodeWord(phrase)) : p \in DOMAIN node}
  IN  node[CHOOSE p \in there : \A q \in there : Len(q) <= Len(p)]

\* retrieve: the walk down ends where a node is missing.
Retrieve(phrase) == LET code == CodeWord(phrase) IN IF code \in DOMAIN node THEN node[code] ELSE <<>>

\* compute_size, and size(), that computes a size that is 0.  Nothing in the
\* program calls it.
ComputeSize(t) == Cardinality(UNION {{p} \X DOMAIN t[p] : p \in DOMAIN t})
SizeNow == IF size = 0 THEN ComputeSize(node) ELSE size

-----------------------------------------------------------------------------
(* The file: the nodes in depth-first order.  A node is an 'N', or a 'C'   *)
(* and a '0' or a '1' with a node for each code, and then its elements.    *)

\* No node has a child for any other code: the '0' for it is left out.
ASSUME CodesAssumption == UsedCodes \subseteq 0..(NumCodes - 1) /\ IsFiniteSet(UsedCodes)
NumUsed   == Cardinality(UsedCodes)
CodeOrder == [k \in 1..NumUsed |-> CHOOSE c \in UsedCodes : Cardinality({d \in UsedCodes : d <= c}) = k]

\* The code of the child to come when there are k of them to come.
ToCome(k) == CodeOrder[NumUsed + 1 - k]

\* Mutant: the last code is not looked at.
HasChildrenButLast(t, p) == \E c \in UsedCodes \ {Max(UsedCodes)} : Append(p, c) \in DOMAIN t

HasChildren(t, p) == \E c \in UsedCodes : Append(p, c) \in DOMAIN t

Sign(chr)       == [chr |-> chr]
Entry(elements) == [chr |-> "i", elements |-> elements]

\* write[<<p, k>>] is what is written of the last k children that node p may
\* have, or of the node itself if k > NumUsed.
Stream(t) ==
  LET write[x \in (DOMAIN t) \X (0..(NumUsed + 1))] ==
        LET p     == x[1]
            k     == x[2]
            child == Append(p, ToCome(k))
        IN  IF k = 0 THEN <<>>
            ELSE IF k > NumUsed
            THEN (IF HasChildren(t, p) THEN << Sign("C") >> \o write[<<p, NumUsed>>] ELSE << Sign("N") >>)
                 \o << Entry(t[p]) >>
            ELSE IF child \in DOMAIN t
            THEN << Sign("1") >> \o write[<<child, NumUsed + 1>>] \o write[<<p, k - 1>>]
            ELSE << Sign("0") >> \o write[<<p, k - 1>>]
  IN  write[<< <<>>, NumUsed + 1 >>]

\* A node above the nodes of f, and the nodes of f below code c beside g.
WithRoot(elements, f) == [p \in {<<>>} \cup DOMAIN f |-> IF p = <<>> THEN elements ELSE f[p]]
Beside(c, f, g)       == [p \in {<<c>> \o q : q \in DOMAIN f} \cup DOMAIN g |->
                            IF p \in DOMAIN g THEN g[p] ELSE f[Tail(p)]]

\* The tree read from a stream.  read[<<i, k>>] is what is read from position
\* i on: the last k children of a node, or a node if k > NumUsed; nothing
\* behind the end.
ReadBack(s) ==
  LET read[x \in (1..(Len(s) + 1)) \X (0..(NumUsed + 1))] ==
        LET i        == x[1]
            k        == x[2]
            nothing  == [next |-> i, nodes |-> <<>>]
            children == IF s[i].chr = "C" THEN read[<<i + 1, NumUsed>>] ELSE [nothing EXCEPT !.next = i + 1]
            child    == read[<<i + 1, NumUsed + 1>>]
            others   == read[<<child.next, k - 1>>]
        IN  IF k = 0 \/ i > Len(s) THEN nothing
            ELSE IF k > NumUsed
            THEN IF children.next > Len(s) THEN nothing
                 ELSE [next  |-> children.next + 1,
                       nodes |-> WithRoot(s[children.next].elements, children.nodes)]
            ELSE IF s[i].chr = "0" THEN read[<<i + 1, k - 1>>]
            ELSE [next |-> others.next, nodes |-> Beside(ToCome(k), child.nodes, others.nodes)]
  IN  read[<<1, NumUsed + 1>>].nodes

\* The tree is written, and read by the next run of the program, where its
\* size is not known.
ReloadTree ==
  /\ \E stream \in {Stream(node)} : node' = ReadBack(stream)
  /\ size' = 0
=============================================================================
