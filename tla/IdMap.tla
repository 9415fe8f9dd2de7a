------------------------------- MODULE IdMap -------------------------------
(***************************************************************************)
(* What an IdTree promises to those who put elements in and look them up:  *)
(* a map from ids to data, each with a counter, that does not forget, and  *)
(* lookups that return what was put in.                                    *)
(***************************************************************************)
EXTENDS Integers

CONSTANTS
  Ids, Values,   \* the ids and the data
  CounterWrap,   \* number of values of a counter
  NotFound       \* what a lookup returns if there is no such element

VARIABLES
  map,           \* id -> data and counter
  got            \* what the last lookup returned: the id and its data

Init == map = <<>> /\ got = <<0, NotFound>>

Put(id, v) ==
  /\ id \notin DOMAIN map
  /\ map' = [i \in DOMAIN map \cup {id} |->
               IF i = id THEN [data |-> v, counter |-> 0] ELSE map[i]]
  /\ UNCHANGED got

Raise(id) ==
  /\ id \in DOMAIN map
  /\ map' = [map EXCEPT ![id].counter = (@ + 1) % CounterWrap]
  /\ UNCHANGED got

Get(id) ==
  /\ got' = <<id, IF id \in DOMAIN map THEN map[id].data ELSE NotFound>>
  /\ UNCHANGED map

Next == \E id \in Ids : (\E v \in Values : Put(id, v)) \/ Raise(id) \/ Get(id)

Spec == Init /\ [][Next]_<<map, got>>
=============================================================================
