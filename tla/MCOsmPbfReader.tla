--------------------------- MODULE MCOsmPbfReader ---------------------------
(***************************************************************************)
(* Two small files for OsmPbfReader.  Both are sorted as .osm.pbf files    *)
(* are, nodes first, then ways, then relations, and both use the same ids. *)
(***************************************************************************)
EXTENDS OsmPbfReader

\* Node 2 is an inner node of way 7 and, later, of way 1, that is closed and
\* has its first node, a junction of both ways, twice; node 3 has a name.
\* Node 5 is used four times before way 3, an inner node of which it is.
FirstFile ==
  << Node(1, "none"), Node(2, "none"), Node(3, "usable"), Node(4, "foreign"), Node(5, "none"),
     Way(7, <<1, 2, 3, 5>>, {}, "usable", TRUE),
     Way(9, <<5>>, {}, "none", FALSE),
     Way(1, <<5, 2, 4, 1, 5>>, {4}, "none", FALSE),
     Way(2, <<2, 5, 1>>, {}, "usable", FALSE),
     Way(3, <<1, 5, 2>>, {}, "none", FALSE),
     Relation(4, << <<"way", 7>>, <<"node", 3>> >>, "usable", TRUE) >>

\* Relation 3 is on the blacklist as far as its id in the file goes, and
\* relation 6 as far as its id with the offset goes.
SecondFile ==
  << Node(1, "usable"), Node(2, "none"), Node(3, "none"),
     Way(2, <<1, 2, 3>>, {}, "none", FALSE),
     Way(5, <<2, 3, 1>>, {}, "foreign", FALSE),
     Relation(3, << <<"way", 2>> >>, "usable", FALSE),
     Relation(6, << <<"way", 5>>, <<"relation", 3>> >>, "none", FALSE) >>

MCFiles     == <<FirstFile, SecondFile>>
MCBlacklist == {3, 16}

\* Both files are as the theorems about the contents of the trees ask.
ASSUME OrderlyFiles
=============================================================================
