---------------------------- MODULE MapAnalysis ----------------------------
(***************************************************************************)
(* MapAnalysis::identifyCrossingRoads (mapanalysis.cpp): two names that    *)
(* stand close to each other in a text, of ways that share a node.         *)
(***************************************************************************)
EXTENDS TokenProcessor

MaxWords == 3      \* max_words_per_combination
MaxBetween == 5    \* max_inter_word_combo_distance

\* The windows over n words: how many words are between the names, how long
\* the names are, and where the first one starts; and their order in the loops.
Windows(n) ==
  {w \in (0..MaxBetween) \X (1..MaxWords) \X (1..MaxWords) \X (1..n) : w[1] + w[2] + w[3] + w[4] <= n + 1}
Turn(w, n) == ((w[1] * (MaxWords + 1) + w[2]) * (MaxWords + 1) + w[3]) * (n + 1) + w[4]

\* The nodes of the nodes and ways that are called so.
NodesCalled(phrase) ==
  UNION {IF e.type = "Node" THEN {e.id} ELSE IF e.type = "Way" THEN NodesOfWay(e.id) ELSE {} :
           e \in Ids(Retrieve(phrase))}

\* The pairs of names a window stands for, all forms of the last words tried.
PairsOf(words, w) ==
  LET Part(from, len) == Combinations(SubSeq(words, from, from + len - 1), len, len)
  IN  {p \in Part(w[4], w[2]) \X Part(w[4] + w[2] + w[1], w[3]) :
         ~Occurs(p[2], p[1]) /\ ~Occurs(p[1], p[2])}

\* Mutant: a node of one of them is enough.
SharedByEither(pair) == NodesCalled(pair[1]) \cup NodesCalled(pair[2])

\* The nodes of both names of a pair.
Shared(pair) == NodesCalled(pair[1]) \cap NodesCalled(pair[2])

\* What the windows find: of the nodes that a pair shares the one that is
\* last in the order of the set of ids.
Candidates(words, order) ==
  LET LastOf(ids) == order[Max({i \in DOMAIN order : order[i] \in ids})]
      Found(w) == {[at |-> LastOf(Shared(pair)), names |-> pair, size |-> w[2] * w[2] + w[3] * w[3],
                    turn |-> Turn(w, Len(words))] : pair \in {pair \in PairsOf(words, w) : Shared(pair) # {}}}
  IN  UNION {Found(w) : w \in Windows(Len(words))}

\* A node is a crossing of the first pair that shares it (knownCrossings).
FirstAt(found, at) == CHOOSE c \in found : c.at = at /\ \A d \in found : d.at = at => c.turn <= d.turn
IdentifyCrossingRoads(words, order) ==
  LET found == Candidates(words, order) IN {FirstAt(found, c.at) : c \in found}
=============================================================================
