----------------------------- MODULE JsonValues -----------------------------
(***************************************************************************)
(* What JsonType (src/src/jsontype/jsontype.h) promises: variables with    *)
(* values of their own, whatever the code shares behind them.  A value is  *)
(* a type and the data of it: a list and a dict map indexes and keys to    *)
(* values.                                                                 *)
(***************************************************************************)
EXTENDS Integers, SequencesExt

CONSTANTS
  Vars, Keys, Indexes,
  Scalars,         \* the values that are not lists or dicts
  Documents,       \* the values that ParseJson may give
  NoValue,         \* the value of a variable that is out of scope
  MaxPath, MaxPathFrom \* bounds: brackets after a variable; in an assignment of a JsonType

VARIABLE val

Empty == [k \in {} |-> NoValue]
Nothing == [type |-> "null", data |-> Empty]
EmptyDict == [type |-> "dict", data |-> Empty]
EmptyList == [type |-> "list", data |-> Empty]

Paths(max) == UNION {[1..n -> Keys \cup Indexes] : n \in 0..max}

\* A bracket makes a dict or a list of what is not one, and the element if it is not there.
Element(v, k) ==
  LET kind == IF k \in Keys THEN "dict" ELSE "list"
      data == IF v.type = kind THEN v.data ELSE Empty
      new == IF k \in Keys THEN [l \in {k} |-> EmptyDict]
             ELSE [i \in 0..k |-> Nothing]
  IN  [type |-> kind,
       data |-> [l \in DOMAIN data \cup DOMAIN new |-> IF l \in DOMAIN data THEN data[l] ELSE new[l]]]

RECURSIVE Put(_, _, _), Look(_, _), Read(_, _)
Put(v, p, w) ==
  IF p = <<>> THEN w
  ELSE LET e == Element(v, Head(p))
       IN  [e EXCEPT !.data = [@ EXCEPT ![Head(p)] = Put(@, Tail(p), w)]]

Look(v, p) ==
  IF p = <<>> THEN v
  ELSE LET e == Element(v, Head(p))
       IN  [e EXCEPT !.data = [@ EXCEPT ![Head(p)] = Look(@, Tail(p))]]

\* The brackets of a const JsonType change nothing.
Read(v, p) ==
  IF p = <<>> THEN v
  ELSE IF /\ v.type = IF Head(p) \in Keys THEN "dict" ELSE "list"
          /\ Head(p) \in DOMAIN v.data
       THEN Read(v.data[Head(p)], Tail(p))
       ELSE Nothing

-----------------------------------------------------------------------------
Init == val = [x \in Vars |-> NoValue]

There(x) == val[x] # NoValue

Construct(x) ==
  /\ ~There(x)
  /\ \E v \in {Nothing, EmptyDict, EmptyList} \cup Documents \cup {val[y] : y \in {z \in Vars : There(z)}} :
       val' = [val EXCEPT ![x] = v]

Destroy(x) == There(x) /\ val' = [val EXCEPT ![x] = NoValue]

Assign(x, p) == There(x) /\ \E v \in Scalars : val' = [val EXCEPT ![x] = Put(@, p, v)]

\* The source is read before the target is looked up, or after it, which may change the source.
AssignFrom(x, p, y, q) ==
  /\ There(x) /\ There(y)
  /\ \E source \in {val[y]} \cup (IF x = y THEN {Look(val[x], p)} ELSE {}) :
       val' = [val EXCEPT ![x] = Put(@, p, Read(source, q))]

LookUp(x, p) == There(x) /\ val' = [val EXCEPT ![x] = Look(@, p)]

Next ==
  \E x \in Vars :
    \/ Construct(x) \/ Destroy(x)
    \/ \E p \in Paths(MaxPath) : Assign(x, p) \/ LookUp(x, p)
    \/ \E p, q \in Paths(MaxPathFrom), y \in Vars : AssignFrom(x, p, y, q)

Spec == Init /\ [][Next]_val
=============================================================================
