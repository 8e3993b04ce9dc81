--------------------------- MODULE PriorityQueue ---------------------------
(***************************************************************************)
(* What the heap of src/src/heap.hpp promises: a client keeps the sign of  *)
(* a value it has inserted, updates and erases by it, and finds at the top *)
(* a value that no other comes before.                                     *)
(***************************************************************************)
EXTENDS Integers, Functions

CONSTANTS
  Values,        \* what feature_ gives of a value
  Signs,
  NoSign,        \* there is no top
  MaxHeap        \* the order: kMaxHeap or kMinHeap

VARIABLES
  queue,         \* the value of every sign that a client holds
  top            \* the sign of what Top() points to

\* Whether a value comes before another one.
Before(v, w) == IF MaxHeap THEN v > w ELSE v < w

Firsts(q) == {s \in DOMAIN q : \A t \in DOMAIN q : ~Before(q[t], q[s])}

\* After every operation the top is one of the first, if there is one.
Becomes(q) ==
  /\ queue' = q
  /\ IF DOMAIN q = {} THEN top' = NoSign ELSE top' \in Firsts(q)

Init == DOMAIN queue = {} /\ top = NoSign

Insert ==
  \E s \in Signs \ DOMAIN queue, v \in Values :
    Becomes([t \in DOMAIN queue \cup {s} |-> IF t = s THEN v ELSE queue[t]])

Update == \E s \in DOMAIN queue, v \in Values : Becomes([queue EXCEPT ![s] = v])

Erase == \E s \in DOMAIN queue : Becomes(Restrict(queue, DOMAIN queue \ {s}))

Clear == Becomes(Restrict(queue, {}))

Next == Insert \/ Update \/ Erase \/ Clear

Spec == Init /\ [][Next]_<<queue, top>>
=============================================================================
