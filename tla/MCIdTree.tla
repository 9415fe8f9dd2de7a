------------------------------ MODULE MCIdTree ------------------------------
(***************************************************************************)
(* Ids of three binary digits.  Two of them follow the zero path, two      *)
(* share a line of the cache.                                              *)
(***************************************************************************)
EXTENDS IdTree

\* 001, 011 and 110, and an id that is none.
MCIds == {0, 1, 3, 6}
=============================================================================
