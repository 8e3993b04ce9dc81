------------------------------ MODULE JsonText ------------------------------
(***************************************************************************)
(* The texts of JSON values: DumpJson and ParseJson (src/src/jsontype/     *)
(* details/jsontype.cpp).  A text is a sequence of tokens.  The parser     *)
(* makes the values on the heap of JsonType while it reads; where the code *)
(* has a JsonType* of its own, objs has an entry whose name is the depth   *)
(* of the call.                                                            *)
(***************************************************************************)
EXTENDS JsonType

CONSTANTS
  Number,          \* the data of the numbers, and a token
  Documents,       \* the values whose texts are parsed
  Texts,           \* what clients give to ParseJson
  MaxDepth,        \* bound: lists and dicts in each other
  LengthLeft       \* kLengthLeft, in tokens

ASSUME TextAssumption == LengthLeft \in Nat \ {0}

\* A string is a key in its quotes, "empty": one without characters, or "open": a quote that
\* is not closed.  "other" is a character that begins no value.
Strings == Keys \cup {"empty", "open"}
Words == [null |-> [type |-> "null", data |-> Empty], true |-> [type |-> "bool", data |-> Number]]
Tokens == {"[", "]", "{", "}", ",", ":", " ", "-", "other", Number} \cup DOMAIN Words \cup Strings
End == "end"
TokenAt(t, i) == IF i \in DOMAIN t THEN t[i] ELSE End

\* The value behind a node of m, down to a depth that no value has.
RECURSIVE ValueIn(_, _, _)
ValueIn(m, n, depth) ==
  [type |-> m[n].type,
   data |-> IF m[n].type \notin Containers \/ depth = 0 THEN m[n].data
            ELSE [k \in DOMAIN m[n].data |-> ValueIn(m, m[n].data[k], depth - 1)]]

-----------------------------------------------------------------------------
(* DumpJson of the value v.  A bool is printed like a number; a string and *)
(* a key are put between quotes as they are.                               *)

\* The string of one quote, in its quotes, is an empty string and the start of another; the
\* string of one backslash is not closed, as its last quote follows a backslash.  What comes
\* after either in a text has no quote in it.
Quoted(s) ==
  CASE s = "quote" -> <<"empty", "open">>
    [] s = "backslash" -> <<"open">>
    [] s \notin {"quote", "backslash"} -> <<s>>

RECURSIVE DumpJson(_)
DumpJson(v) ==
  CASE v.type = "null" -> <<"null">>
    [] v.type \in {"bool", "int"} -> <<v.data>>
    [] v.type = "str" -> Quoted(v.data)
    [] v.type = "list" ->
         <<"[">> \o FoldLeft(LAMBDA t, i : t \o (IF i = 0 THEN <<>> ELSE <<",">>) \o DumpJson(v.data[i]),
                             <<>>, [i \in 1..Cardinality(DOMAIN v.data) |-> i - 1]) \o <<"]">>
    [] v.type = "dict" ->
         <<"{">> \o FoldLeft(LAMBDA t, k : t \o (IF t = <<>> THEN <<>> ELSE <<",", " ">>)
                                             \o Quoted(k) \o <<":">> \o DumpJson(v.data[k]),
                             <<>>, SetToSeq(DOMAIN v.data)) \o <<"}">>

-----------------------------------------------------------------------------
(* ParseJson.  A call gives the heap after it, where it stopped, and how:  *)
(* it has read a value, which is objs[d]; refused (returned NULL); thrown  *)
(* an exception; read outside the text; or it does not end.                *)

Outcome(h, i, how) == [heap |-> h, at |-> i, how |-> how]

TempNew(h, d, type, data) == New(h, Variable(d), type, data)
Deleted(h, d) ==
  [h EXCEPT !.mem = Cleared(@, [x \in {d} |-> h.objs[d]]), !.objs = Restrict(@, DOMAIN @ \ {d})]
\* Mutant of Inserted: the JsonType* is not deleted.
InsertedKept(h, d, k) ==
  LET s == Element(h.objs[d], k) IN AssignedFrom(Point(h, s, NoNode), s, Variable(d + 1))
\* A copy of a JsonType* becomes the element k of the one around it; a key that is there stays.
Inserted(h, d, k) ==
  LET s == Element(h.objs[d], k)
  IN  IF k \in DOMAIN h.mem[h.objs[d]].data THEN Deleted(h, d + 1)
      ELSE Deleted(AssignedFrom(Point(h, s, NoNode), s, Variable(d + 1)), d + 1)

IgnoreBlanks_(t, i) == Min({j \in i..Len(t) + 1 : TokenAt(t, j) # " "})

\* ERROR_HANDLE of ParseJson: the text that is left is logged, and cut before.
Failed(r, t) ==
  IF r.how # "refused" THEN r
  ELSE IF r.at > Len(t) + 1 THEN [r EXCEPT !.how = "outside"]
  ELSE IF Len(t) + 1 - r.at < LengthLeft THEN [r EXCEPT !.how = "thrown"]
  ELSE r

\* strtol: a sign without digits is a number too, but nothing is read.
ReadInDigits_(h, t, i, d) ==
  CASE t[i] = Number -> Outcome(TempNew(h, d, "int", Number), i + 1, "read")
    [] TokenAt(t, i + 1) = Number -> Outcome(TempNew(h, d, "int", "less"), i + 2, "read")
    [] OTHER -> Outcome(TempNew(h, d, "int", "zero"), i, "read")

\* Where ReadinStrRaw_ stops, at a string.
StringEnd(t, i) == IF t[i] = "open" THEN Len(t) + 1 ELSE i + 1
ReadinStr_(h, t, i, d) ==
  Outcome(TempNew(h, d, "str", t[i]), StringEnd(t, i), IF t[i] = "open" THEN "refused" ELSE "read")

RECURSIVE Parse(_, _, _, _), ReadinList_(_, _, _, _), ReadinDict_(_, _, _, _)

\* The value of a dict pair; its key is at i.
ReadDictPair_(h, t, i, d) ==
  LET colon == IgnoreBlanks_(t, i + 1)
  IN  CASE TokenAt(t, i) \notin Strings -> Outcome(h, i, "refused")
        [] TokenAt(t, i) \in {"empty", "open"} -> Outcome(h, StringEnd(t, i), "refused")
        [] TokenAt(t, i) \in Keys /\ TokenAt(t, colon) # ":" -> Outcome(h, colon + 1, "refused")
        [] TokenAt(t, i) \in Keys /\ TokenAt(t, colon) = ":" -> Parse(h, t, colon + 1, d)

\* Mutant of After: a blank may not follow an element.
AfterAtOnce(r, t) == IF TokenAt(t, r.at) = "," THEN r.at + 1 ELSE r.at
\* Where the next element begins: a comma may be missing, or be the last.
After(r, t) == LET i == IgnoreBlanks_(t, r.at) IN IF TokenAt(t, i) = "," THEN i + 1 ELSE i

\* The loop of ReadinList_: the container is objs[d].
ReadinList_(h, t, i, d) ==
  LET first == IgnoreBlanks_(t, i)
      r == Parse(h, t, first, d + 1)
  IN  CASE TokenAt(t, i) = "]" -> Outcome(h, i + 1, "read")
        [] TokenAt(t, i) = End -> Outcome(h, i + 1, "refused")
        [] OTHER ->
             CASE r.how = "refused" -> [r EXCEPT !.heap = Deleted(@, d)]
               [] r.how = "read" /\ r.at = first -> [r EXCEPT !.how = "endless"]
               [] r.how = "read" /\ r.at # first ->
                    ReadinList_(Inserted(r.heap, d, Cardinality(DOMAIN h.mem[h.objs[d]].data)),
                                t, After(r, t), d)
               [] OTHER -> r

ReadinDict_(h, t, i, d) ==
  LET first == IgnoreBlanks_(t, i)
      r == ReadDictPair_(h, t, first, d + 1)
  IN  CASE TokenAt(t, i) = "}" -> Outcome(h, i + 1, "read")
        [] TokenAt(t, i) = End -> Outcome(h, i + 1, "refused")
        [] OTHER ->
             CASE r.how = "refused" -> [r EXCEPT !.heap = Deleted(@, d)]
               [] r.how = "read" -> ReadinDict_(Inserted(r.heap, d, t[first]), t, After(r, t), d)
               [] OTHER -> r

Parse(h, t, blank, d) ==
  LET i == IgnoreBlanks_(t, blank)
      c == TokenAt(t, i)
      inside == IgnoreBlanks_(t, i + 1)
  IN  Failed(
        CASE c \in DOMAIN Words -> Outcome(TempNew(h, d, Words[c].type, Words[c].data), i + 1, "read")
          [] c \in Strings -> ReadinStr_(h, t, i, d)
          [] c \in {"-", Number} -> ReadInDigits_(h, t, i, d)
          [] c \in {"[", "{"} /\ TokenAt(t, inside) = End -> Outcome(h, inside, "refused")
          [] c = "[" /\ TokenAt(t, inside) # End -> ReadinList_(TempNew(h, d, "list", Empty), t, inside, d)
          [] c = "{" /\ TokenAt(t, inside) # End -> ReadinDict_(TempNew(h, d, "dict", Empty), t, inside, d)
          [] OTHER -> Outcome(h, i, "refused"), t)

-----------------------------------------------------------------------------
(* Clients that parse: the document is copied and deleted.  A heap that    *)
(* has lost values goes on without them; nothing is said of what comes     *)
(* after a parse that does not end or reads outside its text.              *)

Outermost == 0
Parsed(t) == Parse(Heap, t, 1, Outermost)
Temps(h) == DOMAIN h.objs \ DOMAIN objs
WithoutTemps(h) == FoldSet(LAMBDA d, g : Deleted(g, d), h, Temps(h))

\* Bounds: a client parses while it has no other values, and keeps the documents with the
\* scalars that it uses itself.
Familiar(m) ==
  \A n \in DOMAIN m :
    m[n].type \in Containers \cup {"null"} \/ [type |-> m[n].type, data |-> m[n].data] \in Scalars
Idle == ~crashed /\ \A x \in Vars : objs[x] = NoNode

ParseJson(x, t) ==
  /\ Idle
  /\ LET r == Parsed(t)
     IN  \/ r.how = "read" /\ Familiar(r.heap.mem)
            /\ Leads(WithoutTemps(AssignedFrom(r.heap, Variable(x), Variable(Outermost))))
         \/ r.how \in {"refused", "thrown"} /\ Leads(WithoutTemps(r.heap))

Next == HeapNext \/ \E x \in Vars, t \in Texts : ParseJson(x, t)
Spec == HeapInit /\ [][Next]_heapVars

-----------------------------------------------------------------------------
(* Properties.  They look at every text in every state in which a client   *)
(* may parse: the pool is all in which these differ.                       *)

Spaced(t) == {t} \cup {InsertAt(t, i, " ") : i \in 1..Len(t) + 1}

\* What of a value is lost in its text: a bool is printed as a number (87); a quote in a string,
\* or a backslash at its end, is printed as it is (96), and ends it too early or too late (296);
\* an empty key is printed (114) and refused (318).
RECURSIVE Faithful(_)
Faithful(v) ==
  /\ v.type # "bool"
  /\ v.type = "str" => v.data \in Keys \cup {"empty"}
  /\ v.type = "dict" => DOMAIN v.data \subseteq Keys
  /\ v.type \in Containers => \A k \in DOMAIN v.data : Faithful(v.data[k])

ReadAs(t, v) ==
  LET r == Parsed(t)
  IN  /\ r.how = "read" /\ IgnoreBlanks_(t, r.at) = Len(t) + 1
      /\ ValueIn(r.heap.mem, r.heap.objs[Outermost], MaxDepth) = v

\* What DumpJson prints is read as the value it was printed for, to the end, exactly if nothing
\* in it is lost, at any depth; and then also with a blank between any two of its tokens.
ReadsBack ==
  Idle => \A v \in Documents :
            IF Faithful(v) THEN \A t \in Spaced(DumpJson(v)) : ReadAs(t, v)
                           ELSE ~ReadAs(DumpJson(v), v)

\* ParseJson that returns keeps nothing but what it returns: however deep the fault is in a
\* text, everything that was read before it is deleted.
LosesNothing(r) ==
  /\ r.how = "read" => Temps(r.heap) = {Outermost}
  /\ r.how = "refused" => Temps(r.heap) = {}

\* It ends unless a sign without digits is in the text, and reads behind the text only if
\* that is cut off inside a list or a dict.
EndsInside(r, t) ==
  LET Count(tokens) == Cardinality({i \in DOMAIN t : t[i] \in tokens})
  IN  /\ r.how = "endless" => \E i \in DOMAIN t : t[i] = "-" /\ TokenAt(t, i + 1) # Number
      /\ r.how = "outside" => Count({"[", "{"}) > Count({"]", "}"})

\* Whatever text is parsed, both hold.
FailsWell ==
  Idle => \A t \in Texts : LET r == Parsed(t) IN LosesNothing(r) /\ EndsInside(r, t)
=============================================================================
