----------------------------- MODULE TextIndex -----------------------------
(***************************************************************************)
(* What the text tree promises: for each code word the elements that were  *)
(* entered under it, in this order, and the number of all entries.         *)
(***************************************************************************)
EXTENDS Integers, FiniteSets, Sequences

CONSTANTS Elements, CodeLists   \* the sequences of code words a name may have
VARIABLES entries, count

Under(code) == IF code \in DOMAIN entries THEN entries[code] ELSE <<>>
Times(code, codes) == Cardinality({i \in DOMAIN codes : codes[i] = code})

Init == entries = <<>> /\ count = 0

\* An element is entered under each code word of one of its names.
Enter(element, codes) ==
  /\ count' = count + Len(codes)
  /\ entries' = [c \in DOMAIN entries \cup {codes[i] : i \in DOMAIN codes} |->
                   Under(c) \o [i \in 1..Times(c, codes) |-> element]]

\* An element whose names have no code words is not entered.
Next ==
  /\ entries' # entries
  /\ \E element \in Elements, codes \in CodeLists : Enter(element, codes)

Spec == Init /\ [][Next]_<<entries, count>>
=============================================================================
