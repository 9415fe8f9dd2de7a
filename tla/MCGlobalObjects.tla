-------------------------- MODULE MCGlobalObjects --------------------------
(***************************************************************************)
(* The text tree, one of the six id trees and sweden: one structure of     *)
(* each way in which a file that is not whole, or whole and refused, is    *)
(* dealt with.                                                             *)
(***************************************************************************)
EXTENDS GlobalObjects

CONSTANTS tt, w2n, swe

MCTrees == {w2n}
MCOrder == <<tt, w2n, swe>>

\* A run may be killed once, one file may fail to be read or written, files
\* are removed twice and the map is updated once.
MCBudget == [u \in Upsets |-> IF u = "removal" THEN 2 ELSE 1]

\* Maps that are like most, that cannot be built from, without ways, and
\* without national roads.
Good    == [builds |-> TRUE, refused |-> {}]
MCKinds == {Good, [Good EXCEPT !.builds = FALSE],
            [Good EXCEPT !.refused = {w2n}], [Good EXCEPT !.refused = {swe}]}

\* Nothing is wrong with the map, and there are only removals.
OnlyGood     == {Good}
OnlyRemovals == [u \in Upsets |-> IF u = "removal" THEN 1 ELSE 0]
=============================================================================
