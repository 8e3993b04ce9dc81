------------------------------- MODULE MCJson -------------------------------
EXTENDS JsonText
CONSTANTS a, one, none
Of(type, data) == [type |-> type, data |-> data]
SmallScalars == {Of("int", one)}
Plain == SmallScalars \cup {Of("null", Empty), Of("str", a), Of("list", Empty), Of("dict", Empty)}
Around(values) == {Of("list", [i \in {0} |-> v]) : v \in values} \cup {Of("dict", [k \in {a} |-> v]) : v \in values}
Two(values) == {Of("list", [i \in {0, 1} |-> IF i = 0 THEN v ELSE w]) : v, w \in values}
SmallDocuments ==
  Plain \cup Around(Plain) \cup Around(Around(SmallScalars)) \cup Two({Of("int", one), Of("dict", Empty)})
\* Values with something in them that a text loses, or may lose; a string without characters
\* is none.
Lossy == {Of("bool", one)} \cup {Of("str", s) : s \in {"empty", "quote", "backslash"}}
Awkward ==
  Lossy \cup Around(Lossy) \cup Around(Around(Lossy))
    \cup {Of("dict", [k \in {s} |-> Of("int", one)]) : s \in {"empty", "quote", "backslash"}}
    \cup {Of("list", [i \in {0, 1} |-> IF i = 0 THEN Of("int", one) ELSE v]) : v \in Lossy}
Printed == SmallDocuments \cup Awkward
\* What a damaged text may be read as, if it is kept.
NoStrings == {v \in Plain : v.type # "str"}
Kept == NoStrings \cup Around(NoStrings) \cup Around(Around(NoStrings)) \cup Two(NoStrings)
\* One token is replaced or missing, or the rest of the text.
Damaged(t) ==
  {ReplaceAt(t, i, c) : i \in DOMAIN t, c \in Tokens} \cup {RemoveAt(t, i) : i \in DOMAIN t}
    \cup {SubSeq(t, 1, i) : i \in 0..Len(t)}
DamagedTexts == UNION {Damaged(DumpJson(v)) : v \in SmallDocuments}
\* Where a value is in memory does not matter: the values are renamed in the order in which
\* they are found from the variables and the pool.
RECURSIVE Found(_, _, _)
Found(h, elems, before) ==
  FoldFunction(LAMBDA n, known : IF n \notin DOMAIN h.mem \/ Contains(known, n) THEN known
                                 ELSE Found(h, Elements(h.mem[n]), Append(known, n)),
               before, elems)

Renamed(h) ==
  LET roots == <<h.objs>> \o h.pool["list"] \o h.pool["dict"]
      found == FoldLeft(LAMBDA known, elems : Found(h, elems, known), <<>>, roots)
      order == found \o SetToSeq(DOMAIN h.mem \ ToSet(found))
      Names(elems) == [k \in DOMAIN elems |-> SelectInSeq(order, LAMBDA n : n = elems[k])]
      Moved(node) == IF node.type \in Containers THEN [node EXCEPT !.data = Names(@)] ELSE node
  IN  [objs |-> Names(h.objs),
       mem |-> [i \in DOMAIN order |-> Moved(h.mem[order[i]])],
       pool |-> [c \in Containers |-> [i \in DOMAIN h.pool[c] |-> Names(h.pool[c][i])]]]
Nameless == <<Renamed(Heap), crashed>>
Values == INSTANCE JsonValues WITH
  NoValue <- none, Documents <- Kept,
  val <- [v \in Vars |-> IF objs[v] = NoNode THEN none ELSE ValueIn(mem, objs[v], MaxNodes)]
ImplementsValues == Values!Spec
=============================================================================
