------------------------------ MODULE HeapBase ------------------------------
(***************************************************************************)
(* The heap of src/src/heap.hpp: an array of pointers to nodes, of which   *)
(* the first num_items_ from place 1 are a heap.  A node knows its place   *)
(* (index), and its address is the sign that the client keeps.  The array  *)
(* is made by the first operation and doubles when it is full; nodes are   *)
(* never given back before the destructor.                                 *)
(***************************************************************************)
EXTENDS Integers, Functions

CONSTANTS
  Values,        \* what feature_ gives of a value
  MaxHeap,       \* the order: kMaxHeap or kMinHeap
  InitSize,      \* init_size_heap_
  MaxSize,       \* bound: the array does not grow beyond it
  MaxItems       \* bound: no Insert beyond it

ASSUME HeapAssumption ==
  /\ Values \subseteq Int /\ MaxHeap \in BOOLEAN
  /\ InitSize \in Nat \ {0} /\ MaxSize \in Nat /\ MaxItems \in Nat
  /\ InitSize <= MaxSize

\* Nodes by the place they are allocated for.  There is no node NoNode.
Nodes == 0..MaxSize - 1
NoNode == -1

VARIABLES
  init,                    \* init_
  numItems, sizeContainer, \* num_items_, size_container_
  items,                   \* heap_items_
  val, index,              \* of the nodes whose signs the client holds; what is
                           \* in the others is never read
  nodes,                   \* the nodes in memory
  gone                     \* the heap is destroyed

vars == <<init, numItems, sizeContainer, items, val, index, nodes, gone>>

Held == DOMAIN val

Init ==
  /\ init = FALSE /\ gone = FALSE
  /\ numItems = 0 /\ sizeContainer = 0 /\ items = <<>>
  /\ val = <<>> /\ index = <<>> /\ nodes = {}

-----------------------------------------------------------------------------
(* A node moves through the array: next leads from a place to the one that *)
(* it takes instead.  What is in that place moves into the other.          *)

Before(v, w) == IF MaxHeap THEN v > w ELSE v < w

\* Mutant of Upwards: looks at the parent only.
UpwardsOnce(a, v, node, i) ==
  [p \in {q \in {i} \ {1} : Before(v[node], v[a[q \div 2]])} |-> p \div 2]
\* AdjustNode_, up: to the parent, if node comes before it.
Upwards(a, v, node, i) ==
  [p \in {q \in 2..i : Before(v[node], v[a[q \div 2]])} |-> p \div 2]

\* Mutant of FirstChild: the left child, whichever comes first.
FirstChildLeft(a, v, num, p) == IF 2 * p > num THEN 0 ELSE 2 * p
\* The child that comes first; 0 where there is none.
FirstChild(a, v, num, p) ==
  CASE 2 * p > num -> 0
    [] 2 * p = num -> num
    [] OTHER -> IF Before(v[a[2 * p]], v[a[2 * p + 1]]) THEN 2 * p ELSE 2 * p + 1

\* AdjustNode_, down: to that child, unless node comes before it.
Downwards(a, v, num, node, i) ==
  LET Child(p) == FirstChild(a, v, num, p)
  IN  [p \in {q \in i..num : Child(q) # 0 /\ ~Before(v[node], v[a[Child(q)]])} |-> Child(p)]

\* The places on the way from i: the least set that has i and is closed under next.
Way(i, next) ==
  LET all == {i} \cup Range(next)
      Closed(S) == i \in S /\ \A p \in S \cap DOMAIN next : next[p] \in S
  IN  {p \in all : \A S \in SUBSET all : Closed(S) => p \in S}

Moved(a, i, next, node) ==
  [p \in DOMAIN a |->
     CASE p \notin Way(i, next) -> a[p]
       [] p \in Way(i, next) \cap DOMAIN next -> a[next[p]]
       [] OTHER -> node]

\* Mutant of Placed: the nodes that give way keep their index.
PlacedAlone(a, i, next, node, ix) ==
  /\ items' = Moved(a, i, next, node)
  /\ index' = [ix EXCEPT ![node] = CHOOSE p \in Way(i, next) : items'[p] = node]
\* The nodes on the way learn where they are.
Placed(a, i, next, node, ix) ==
  /\ items' = Moved(a, i, next, node)
  /\ index' = [n \in DOMAIN ix |->
                 IF \E p \in Way(i, next) : items'[p] = n
                 THEN CHOOSE p \in Way(i, next) : items'[p] = n
                 ELSE ix[n]]

\* AdjustNode_ of place i, in a heap of num items.
AdjustNode_(a, v, num, i, ix) ==
  IF i > num THEN items' = a /\ index' = ix
  ELSE LET node == a[i]
       IN  IF i > 1 /\ Before(v[node], v[a[i \div 2]])
           THEN Placed(a, i, Upwards(a, v, node, i), node, ix)
           ELSE Placed(a, i, Downwards(a, v, num, node, i), node, ix)

-----------------------------------------------------------------------------
(* Operations.  The first one makes the array (XFC_RAII_INIT).             *)

Array(size) == [p \in 0..size - 1 |-> p]

\* A first operation that finds nothing to do.
Init_ ==
  /\ ~gone /\ ~init
  /\ init' = TRUE
  /\ sizeContainer' = InitSize /\ items' = Array(InitSize) /\ nodes' = 0..InitSize - 1
  /\ UNCHANGED <<numItems, val, index, gone>>

\* Room for one more: Init_ if need be, then Resize_ if the array is full.
SizeBefore == IF init THEN sizeContainer ELSE InitSize
SizeForInsert == IF numItems + 1 = SizeBefore THEN 2 * SizeBefore ELSE SizeBefore
Grown == [p \in 0..SizeForInsert - 1 |-> IF p \in DOMAIN items THEN items[p] ELSE p]

Set(f, n, x) == [m \in DOMAIN f \cup {n} |-> IF m = n THEN x ELSE f[m]]

Insert(x) ==
  /\ ~gone
  /\ numItems < MaxItems /\ SizeForInsert <= MaxSize
  /\ LET node == Grown[numItems + 1]
         v == Set(val, node, x)
     IN  /\ val' = v
         /\ Placed(Grown, numItems + 1, Upwards(Grown, v, node, numItems + 1), node,
                   Set(index, node, numItems + 1))
  /\ numItems' = numItems + 1
  /\ init' = TRUE /\ sizeContainer' = SizeForInsert /\ nodes' = 0..SizeForInsert - 1
  /\ UNCHANGED gone

\* Update of a sign; and Refresh, after the client has changed the value that Item
\* points to.  With the sign of the top: UpdateTop, and RefreshTop.
Update(n, x) ==
  /\ ~gone
  /\ n \in Held
  /\ val' = [val EXCEPT ![n] = x]
  /\ AdjustNode_(items, val', numItems, index[n], index)
  /\ UNCHANGED <<init, numItems, sizeContainer, nodes, gone>>

UpdateTop(x) ==
  /\ ~gone
  /\ numItems # 0
  /\ val' = [val EXCEPT ![items[1]] = x]
  /\ AdjustNode_(items, val', numItems, 1, index)
  /\ UNCHANGED <<init, numItems, sizeContainer, nodes, gone>>

Without(f, n) == Restrict(f, DOMAIN f \ {n})

\* Erase of n, which the last node of the heap replaces; n goes behind it.
\* Mutant of EraseNode: n is not kept for the next Insert.
EraseNodeForgets(n) ==
  LET i == index[n]
      last == items[numItems]
  IN  /\ numItems' = numItems - 1
      /\ val' = Without(val, n)
      /\ AdjustNode_([items EXCEPT ![i] = last], val', numItems', i,
                     Without([index EXCEPT ![last] = i], n))
EraseNode(n) ==
  LET i == index[n]
      last == items[numItems]
  IN  /\ numItems' = numItems - 1
      /\ val' = Without(val, n)
      /\ AdjustNode_([items EXCEPT ![i] = last, ![numItems] = n], val', numItems', i,
                     Without([index EXCEPT ![last] = i], n))

Erase(n) ==
  /\ ~gone
  /\ n \in Held /\ numItems # 0
  /\ EraseNode(n)
  /\ UNCHANGED <<init, sizeContainer, nodes, gone>>

Pop ==
  /\ ~gone
  /\ numItems # 0
  /\ EraseNode(items[1])
  /\ UNCHANGED <<init, sizeContainer, nodes, gone>>

Clear ==
  /\ ~gone
  /\ numItems' = 0 /\ val' = <<>> /\ index' = <<>>
  /\ UNCHANGED <<init, sizeContainer, items, nodes, gone>>

Destroy ==
  /\ ~gone
  /\ numItems' = 0 /\ val' = <<>> /\ index' = <<>>
  /\ nodes' = nodes \ Range(items)
  /\ items' = <<>>
  /\ gone' = TRUE
  /\ UNCHANGED <<init, sizeContainer>>

Next ==
  \/ Init_ \/ Pop \/ Clear \/ Destroy
  \/ \E x \in Values : Insert(x) \/ UpdateTop(x) \/ \E n \in Nodes : Update(n, x)
  \/ \E n \in Nodes : Erase(n)

Spec == Init /\ [][Next]_vars

-----------------------------------------------------------------------------
(* Properties.                                                             *)

Places == 1..numItems

TypeOK ==
  /\ init \in BOOLEAN /\ gone \in BOOLEAN
  /\ sizeContainer \in 0..MaxSize
  /\ items \in [0..(IF gone THEN 0 ELSE sizeContainer) - 1 -> Nodes]
  /\ numItems \in 0..(IF init THEN sizeContainer - 1 ELSE 0)
  /\ Held \subseteq Nodes /\ nodes \subseteq Nodes
  /\ val \in [Held -> Values] /\ index \in [Held -> Nodes]

\* No node comes before its parent: the top is the first of all.
HeapOrder == \A i \in Places : i > 1 => ~Before(val[items[i]], val[items[i \div 2]])

\* Types, and the order of the array.
WellFormed == TypeOK /\ HeapOrder

\* Every sign that a client holds is in the heap at the place that its node
\* knows, and nothing else is: Erase and Update find what they are called for.
SignsFound ==
  /\ Held = {items[i] : i \in Places}
  /\ \A n \in Held : items[index[n]] = n /\ index[n] \in Places

\* The destructor deletes every node, and none twice: whatever is swapped, the array
\* holds each node once.
NoneLeft ==
  /\ gone => nodes = {}
  /\ \A p, q \in DOMAIN items : items[p] = items[q] => p = q

\* Nodes, places and signs are each other's through every swap, and growth of the array.
NodesKept == SignsFound /\ NoneLeft

Queue ==
  INSTANCE PriorityQueue WITH
    Signs <- Nodes, NoSign <- NoNode,
    queue <- val,
    top <- IF numItems = 0 THEN NoNode ELSE items[1]

\* A client that keeps to its signs sees a priority queue: what it erases or updates
\* is what it means, nothing else changes, and the top is always a first one.
ImplementsQueue == Queue!Spec
=============================================================================
