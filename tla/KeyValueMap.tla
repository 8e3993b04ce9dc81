---------------------------- MODULE KeyValueMap ----------------------------
(***************************************************************************)
(* What the hash map of src/src/close_hashmap.hpp promises: a map, with    *)
(* the answer of the last operation.                                       *)
(***************************************************************************)
EXTENDS Functions

CONSTANTS Keys, Vals, NoVal      \* NoVal: NULL

VARIABLES
  map,
  room,            \* whether there is room for another key: the table may grow or is not full
  result           \* what the last operation has returned

Init == DOMAIN map = {} /\ result = NoVal

Put(k, v) == [l \in DOMAIN map \cup {k} |-> IF l = k THEN v ELSE map[l]]

Insert(k, v) ==
  IF k \notin DOMAIN map /\ room
  THEN map' = Put(k, v) /\ result' = TRUE
  ELSE result' = FALSE /\ UNCHANGED map

Upsert(k, v) ==
  IF k \in DOMAIN map \/ room
  THEN map' = Put(k, v) /\ result' = TRUE
  ELSE result' = FALSE /\ UNCHANGED map

Erase(k) ==
  /\ result' = (k \in DOMAIN map)
  /\ map' = Restrict(map, DOMAIN map \ {k})

Get(k) ==
  /\ result' = IF k \in DOMAIN map THEN map[k] ELSE NoVal
  /\ UNCHANGED map

Next ==
  \E k \in Keys :
    \/ Erase(k) \/ Get(k)
    \/ \E v \in Vals : Insert(k, v) \/ Upsert(k, v)

Spec == Init /\ [][Next]_<<map, result>>
=============================================================================
