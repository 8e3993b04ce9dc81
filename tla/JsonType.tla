------------------------------ MODULE JsonType ------------------------------
(***************************************************************************)
(* JSON values (src/src/jsontype/jsontype.h, details/jsontype.cpp), used   *)
(* by one thread.  A JsonType points to a SharedJsonVal, which counts the  *)
(* JsonTypes that do; it is copied when one of several is about to change  *)
(* it.  The elements of a list or dict are JsonTypes.  Lists and dicts     *)
(* come from a pool and go back there with the elements they have, which   *)
(* are destroyed when the pool gives the container out again.              *)
(***************************************************************************)
EXTENDS Integers, SequencesExt

CONSTANTS
  Vars,            \* the client's JsonTypes
  Null,            \* null_val of Null_, a JsonType too
  Keys, Indexes,
  Scalars,         \* what is assigned: type and data
  RefLimit,        \* ref_cnt has 16 bits
  MaxPath, MaxPathFrom, \* bounds: brackets after a variable; in an assignment of a JsonType
  MaxNodes, MaxPool \* bounds: values in memory, containers in the pool

Containers == {"list", "dict"}

\* Where the elements of lists and dicts are.
Places == Keys \cup UNION {0..i : i \in Indexes}

ASSUME JsonAssumption ==
  /\ RefLimit \in Nat /\ MaxPath \in Nat /\ MaxPathFrom \in Nat /\ MaxNodes \in Nat \ {0} /\ MaxPool \in Nat
  /\ IsFiniteSet(Vars) /\ Null \notin Vars
  /\ IsFiniteSet(Places) /\ Indexes \subseteq Nat /\ Keys \cap Nat = {}
  /\ \A v \in Scalars : v.type \notin Containers

\* The bounds are such that no count overflows.
ASSUME CountsFit ==
  Cardinality(Vars) + (MaxNodes + MaxPool + MaxPath + MaxPathFrom) * Cardinality(Places) + 2 < RefLimit

VARIABLES
  objs,            \* what every variable points to
  mem,             \* the SharedJsonVals: type, ref_cnt, data
  pool,            \* the containers in the pool, with their elements
  crashed          \* whether an operation has read memory that was free

heapVars == <<objs, mem, pool, crashed>>

\* The operators below take a heap and give the one after; ok says that nothing free was read.
Heap == [objs |-> objs, mem |-> mem, pool |-> pool, ok |-> TRUE]

KindOf(k) == IF k \in Keys THEN "dict" ELSE "list"
Paths(max) == UNION {[1..n -> Keys \cup Indexes] : n \in 0..max}

NoNode == 0          \* NULL, and that a variable is out of scope
Empty == [k \in {} |-> NoNode]
SharedJsonVal(type, data) == [type |-> type, ref |-> 1, data |-> data]

HeapInit ==
  /\ mem = [n \in {1} |-> SharedJsonVal("null", Empty)]
  /\ objs = [x \in Vars \cup {Null} |-> IF x = Null THEN 1 ELSE NoNode]
  /\ pool = [c \in Containers |-> <<>>]
  /\ crashed = FALSE

-----------------------------------------------------------------------------
(* JsonTypes: a variable; the element k of a node; the element k of the    *)
(* i-th list or dict in the pool.  What they point to.                     *)

Variable(x) == <<"objs", NoNode, x>>
Element(n, k) == <<"mem", n, k>>
Pooled(c, i, k) == <<c, i, k>>

At(h, s) ==
  IF s[1] = "objs" THEN h.objs[s[3]]
  ELSE IF s[1] = "mem" THEN h.mem[s[2]].data[s[3]]
  ELSE h.pool[s[1]][s[2]][s[3]]

With(c, k, n) == [l \in DOMAIN c \cup {k} |-> IF l = k THEN n ELSE c[l]]
Point(h, s, n) ==
  IF s[1] = "objs" THEN [h EXCEPT !.objs = With(@, s[3], n)]
  ELSE [h EXCEPT !.mem[s[2]].data = With(@, s[3], n)]

Counted(m, n, d) == [m EXCEPT ![n].ref = (@ + d) % RefLimit]
Elements(node) == IF node.type \in Containers THEN node.data ELSE Empty
Without(m, n) == Restrict(m, DOMAIN m \ {n})

\* The places in c of JsonTypes that point to n.
In(c, n) == {k \in DOMAIN c : c[k] = n}

\* How many of elems and of the elements of the nodes in gone point to n.
Released(m, elems, gone, n) ==
  Cardinality(In(elems, n)) + Cardinality(UNION {{Element(d, k) : k \in In(Elements(m[d]), n)} : d \in gone})

\* ~JsonType, of all the elements of a container: a value goes with the last that points
\* to it, and so do its elements, and the values that then nobody points to, and so on.
Falls(m, elems, gone) == {n \in DOMAIN m : m[n].ref <= Released(m, elems, gone, n)}
Gone(m, elems) ==
  LET gone[i \in 0..Cardinality(DOMAIN m)] ==
        IF i = 0 THEN {} ELSE Falls(m, elems, gone[i - 1])
  IN  gone[Cardinality(DOMAIN m)]
Cleared(m, elems) ==
  LET gone == Gone(m, elems)
  IN  [n \in DOMAIN m \ gone |-> [m[n] EXCEPT !.ref = @ - Released(m, elems, gone, n)]]

\* GetList and GetDict: the last container that was given back, without its elements.
Taken(h, type) ==
  IF type \notin Containers \/ h.pool[type] = <<>> THEN h
  ELSE [h EXCEPT !.mem = Cleared(@, Last(h.pool[type])), !.pool[type] = Front(@)]

\* FreeList and FreeDict.
Parked(h, node) ==
  IF node.type \in Containers THEN [h EXCEPT !.pool[node.type] = Append(@, node.data)] ELSE h

DecRefCnt(h, n) ==
  LET less == [h EXCEPT !.mem = Counted(@, n, -1)]
  IN  IF less.mem[n].ref = 0 THEN Parked(less, h.mem[n]) ELSE less

\* Numbers of new nodes.
Fresh(m, i) == Max(DOMAIN m) + 1 + i
Added(m, new, type, data) ==
  [n \in DOMAIN m \cup new |-> IF n \in DOMAIN m THEN m[n] ELSE SharedJsonVal(type, data)]
New(h, s, type, data) ==
  LET n == Fresh(h.mem, 0)
  IN  Point([Taken(h, type) EXCEPT !.mem = Added(@, {n}, type, data)], s, n)

\* Reset_, as operator= and operator[] call it.
Left(h, s) ==
  LET n == At(h, s)
      less == DecRefCnt(h, n)
  IN  IF n = NoNode THEN h
      ELSE IF less.mem[n].ref # 0 THEN Point(less, s, NoNode)
      ELSE Point([less EXCEPT !.mem = Without(@, n)], s, NoNode)
Retyped(h, s, type) ==
  LET n == At(h, s)
      less == DecRefCnt(h, n)
  IN  IF less.mem[n].ref # 0 THEN New(less, s, type, Empty)
      ELSE Taken([less EXCEPT !.mem[n] = SharedJsonVal(type, Empty)], type)

\* Copy reads the old value after it has taken a container, whose elements are
\* destroyed: one of them may have been the last that kept the value.
Shared(m, c) ==
  [n \in DOMAIN m |-> [m[n] EXCEPT !.ref = (@ + Cardinality(In(c, n))) % RefLimit]]
WithDataOf(new, s, old) ==
  [new EXCEPT !.mem = Shared([@ EXCEPT ![At(new, s)].data = old.data], Elements(old))]
CopiedTo(h, new, s, n) ==
  IF n \in DOMAIN new.mem THEN WithDataOf(new, s, h.mem[n]) ELSE [h EXCEPT !.ok = FALSE]
Copied(h, s) ==
  LET n == At(h, s)
  IN  CopiedTo(h, New(DecRefCnt(h, n), s, h.mem[n].type, Empty), s, n)

\* Mutants of Normalize_: does not copy what two have; does not give up what it copied.
NormalizeFromThree(h, s) == IF h.mem[At(h, s)].ref < 3 THEN h ELSE Copied(h, s)
NormalizeKeepsBoth(h, s) ==
  LET n == At(h, s)
      own == Copied(h, s)
  IN  IF h.mem[n].ref = 1 \/ ~own.ok THEN h ELSE [own EXCEPT !.mem = Counted(@, n, 1)]
Normalize_(h, s) == IF h.mem[At(h, s)].ref = 1 THEN h ELSE Copied(h, s)

-----------------------------------------------------------------------------
(* operator[] and operator=.                                               *)

\* list->resize: every new element is constructed.
Resized(h, n, k) ==
  LET missing == 0..k \ DOMAIN h.mem[n].data
      added == Added(h.mem, {Fresh(h.mem, l) : l \in missing}, "null", Empty)
  IN  [h EXCEPT !.mem =
         [added EXCEPT ![n].data =
            [l \in 0..k |-> IF l \in missing THEN Fresh(h.mem, l) ELSE @[l]]]]

\* The element k of a JsonType, made if it is not there: a dict in a dict, nulls in a list.
Typed(h, s, type) == IF h.mem[At(h, s)].type = type THEN h ELSE Retyped(h, s, type)
WholeAt(own, n, k) ==
  IF k \in DOMAIN own.mem[n].data THEN own
  ELSE IF k \in Keys THEN New(own, Element(n, k), "dict", Empty)
  ELSE Resized(own, n, k)
ElementIn(own, s, k) ==
  LET n == At(own, s)
  IN  IF own.ok THEN [heap |-> WholeAt(own, n, k), slot |-> Element(n, k)] ELSE [heap |-> own, slot |-> s]
ElementOf(h, s, k) == ElementIn(Normalize_(Typed(h, s, KindOf(k)), s), s, k)

\* Brackets one after the other, until one reads what is free.
Bracket(w, k) == IF w.heap.ok THEN ElementOf(w.heap, w.slot, k) ELSE w
Walk(h, s, p) ==
  LET walk[i \in 0..Len(p)] ==
        IF i = 0 THEN [heap |-> h, slot |-> s] ELSE Bracket(walk[i - 1], p[i])
  IN  walk[Len(p)]

\* The brackets of a const JsonType.
ConstElement(h, s, k) ==
  LET node == h.mem[At(h, s)]
  IN  IF node.type = KindOf(k) /\ k \in DOMAIN node.data THEN Element(At(h, s), k)
      ELSE Variable(Null)
Find(h, s, p) ==
  LET find[i \in 0..Len(p)] == IF i = 0 THEN s ELSE ConstElement(h, find[i - 1], p[i])
  IN  find[Len(p)]

\* operator= of a bool, number or string.  A value of the same type that nobody else has
\* is left behind: nobody points to it any more, and it is not deleted.
Assigned(h, s, v) ==
  LET n == At(h, s)
      less == DecRefCnt(h, n)
  IN  IF h.mem[n].ref = 1 /\ h.mem[n].type = v.type
      THEN New([h EXCEPT !.mem = Without(@, n)], s, v.type, v.data)
      ELSE IF less.mem[n].ref = 0 THEN [less EXCEPT !.mem[n] = SharedJsonVal(v.type, v.data)]
      ELSE New(less, s, v.type, v.data)

\* operator= of a JsonType.  It may be an element of what s has: a container in the pool
\* has its elements.
AssignedFrom(h, s, other) ==
  LET n == At(h, other)
      left == Left(h, s)
  IN  IF s = other THEN h
      ELSE IF n \notin DOMAIN left.mem THEN [h EXCEPT !.ok = FALSE]
      ELSE Point([left EXCEPT !.mem = Counted(@, n, 1)], s, n)

-----------------------------------------------------------------------------
(* The statements of a client.                                             *)

Leads(h) ==
  IF h.ok
  THEN /\ Cardinality(DOMAIN h.mem) <= MaxNodes
       /\ Len(h.pool["list"]) + Len(h.pool["dict"]) <= MaxPool
       /\ objs' = h.objs /\ mem' = h.mem /\ pool' = h.pool
       /\ UNCHANGED crashed
  ELSE crashed' = TRUE /\ UNCHANGED <<objs, mem, pool>>

There(x) == ~crashed /\ objs[x] # NoNode

Construct(x) ==
  /\ ~crashed /\ objs[x] = NoNode
  /\ \/ \E type \in {"null"} \cup Containers : Leads(New(Heap, Variable(x), type, Empty))
     \/ \E y \in Vars : There(y) /\ Leads(AssignedFrom(Heap, Variable(x), Variable(y)))

Destroy(x) ==
  /\ There(x)
  /\ Leads([Heap EXCEPT !.mem = Cleared(@, [i \in {x} |-> objs[x]]), !.objs[x] = NoNode])

Assign(x, p) ==
  /\ There(x)
  /\ \E w \in {Walk(Heap, Variable(x), p)}, v \in Scalars :
       Leads(IF w.heap.ok THEN Assigned(w.heap, w.slot, v) ELSE w.heap)

\* x[..] = y[..] of a const y, of which either side may be evaluated first.  The client does
\* not put a value into itself, nor refer to an element of a container that the other side
\* makes longer or replaces.
InItself(x, p, y, q) == x = y /\ Len(q) < Len(p) /\ SubSeq(p, 1, Len(q)) = q
Stays(h, s) ==
  s[1] = "objs" \/
    LET old == mem[s[2]]
        new == h.mem[s[2]]
    IN  /\ s[2] \in DOMAIN h.mem /\ new.type = old.type
        /\ IF old.type = "list" THEN DOMAIN new.data = DOMAIN old.data ELSE s[3] \in DOMAIN new.data

AssignFrom(x, p, y, q) ==
  /\ There(x) /\ There(y) /\ ~InItself(x, p, y, q)
  /\ \E w \in {Walk(Heap, Variable(x), p)}, first \in {Find(Heap, Variable(y), q)} :
       \/ ~w.heap.ok /\ Leads(w.heap)
       \/ w.heap.ok /\ Leads(AssignedFrom(w.heap, w.slot, Find(w.heap, Variable(y), q)))
       \/ w.heap.ok /\ Stays(w.heap, first) /\ Leads(AssignedFrom(w.heap, w.slot, first))

\* x[..] alone, or on the right side of an assignment.
LookUp(x, p) == There(x) /\ Leads(Walk(Heap, Variable(x), p).heap)

HeapNext ==
  \E x \in Vars :
    \/ Construct(x) \/ Destroy(x)
    \/ \E p \in Paths(MaxPath) : Assign(x, p) \/ LookUp(x, p)
    \/ \E p, q \in Paths(MaxPathFrom), y \in Vars : AssignFrom(x, p, y, q)

HeapSpec == HeapInit /\ [][HeapNext]_heapVars

-----------------------------------------------------------------------------
(* Properties.                                                             *)

\* All JsonTypes: the variables, the elements of values, and the elements of what is in
\* the pool.  Those that point to n.
InMemory(m) == UNION {{Element(n, k) : k \in DOMAIN Elements(m[n])} : n \in DOMAIN m}
InPool(p) == UNION {UNION {{Pooled(c, i, k) : k \in DOMAIN p[c][i]} : i \in DOMAIN p[c]} : c \in Containers}
Slots(h) == {Variable(x) : x \in DOMAIN h.objs} \cup InMemory(h.mem) \cup InPool(h.pool)
Holders(h, n) == {s \in Slots(h) : At(h, s) = n}

HeapTypeOK ==
  /\ objs \in [Vars \cup {Null} -> DOMAIN mem \cup {NoNode}] /\ objs[Null] # NoNode
  /\ \A n \in DOMAIN mem :
       /\ mem[n].ref \in 1..RefLimit - 1
       /\ mem[n].type = "list" => DOMAIN mem[n].data = 0..Cardinality(DOMAIN mem[n].data) - 1
       /\ mem[n].type = "dict" => DOMAIN mem[n].data \subseteq Keys
  /\ DOMAIN pool = Containers /\ crashed \in BOOLEAN

\* Every element points to a value in memory.
ElementsLive == \A s \in Slots(Heap) : s[1] = "objs" \/ At(Heap, s) \in DOMAIN mem

\* ref_cnt is the number of JsonTypes that point to a value, so that every value that is
\* in memory will be deleted, and none twice or too early.
RefCounts ==
  HeapTypeOK /\ ElementsLive /\ \A n \in DOMAIN mem : mem[n].ref = Cardinality(Holders(Heap, n))

\* Nothing is read after it was deleted, as long as no container goes back to the pool with
\* elements.  (If one does, it may have kept a value that is copied; see Copied.)
ReadsLive == crashed => \E c \in Containers : \E i \in DOMAIN pool[c] : DOMAIN pool[c][i] # {}

Lifetimes == RefCounts /\ ReadsLive

\* The values behind n, n itself and what its elements lead to: every set that has n and the
\* elements of its nodes has them.
Behind(m, n) ==
  {q \in DOMAIN m :
     \A R \in SUBSET DOMAIN m :
       /\ n \in R \cup {NoNode}
       /\ \A d \in R : \A k \in DOMAIN Elements(m[d]) : m[d].data[k] \in R \cup {NoNode}
       => q \in R}
Unchanged(y) ==
  /\ objs'[y] = objs[y]
  /\ \A n \in Behind(mem, objs[y]) :
       n \in DOMAIN mem' /\ mem'[n].type = mem[n].type /\ mem'[n].data = mem[n].data

\* A statement about one variable changes nothing that the others and null_val read, whatever
\* of it the variable shares with them and however deep it is: all of what they point to stays
\* in memory, with its elements.
OneChanges == \E x \in Vars : \A y \in (Vars \cup {Null}) \ {x} : Unchanged(y)
OthersKept == [][OneChanges]_heapVars
=============================================================================
