------------------------------- MODULE Ingest -------------------------------
(***************************************************************************)
(* What OsmPbfReader::parse promises about ways, whatever its two threads  *)
(* do: ways are taken from a file one after the other, each is stored      *)
(* once, in the order taken, and a call returns only when every way it     *)
(* took has been stored.                                                   *)
(***************************************************************************)
EXTENDS Integers, Sequences

CONSTANT Ways     \* what may be taken

VARIABLES
  taken,     \* the ways taken from the files so far, in order
  stored,    \* the ways stored so far, in order
  open       \* whether a call of parse is under way

vars == <<taken, stored, open>>

Init == taken = <<>> /\ stored = <<>> /\ open = FALSE

Call == /\ ~open /\ open' = TRUE
        /\ UNCHANGED <<taken, stored>>

\* Some way of Ways is appended to those taken.
Take == /\ open
        /\ taken' \in Seq(Ways) /\ Len(taken') = Len(taken) + 1
        /\ \A i \in DOMAIN taken : taken'[i] = taken[i]
        /\ UNCHANGED <<stored, open>>

StoreNext == /\ open /\ Len(stored) < Len(taken)
             /\ stored' = Append(stored, taken[Len(stored) + 1])
             /\ UNCHANGED <<taken, open>>

Return == /\ open /\ stored = taken
          /\ open' = FALSE
          /\ UNCHANGED <<taken, stored>>

Next == Call \/ Take \/ StoreNext \/ Return

Spec == Init /\ [][Next]_vars
=============================================================================
