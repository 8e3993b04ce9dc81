-------------------------- MODULE JsonPools_proofs --------------------------
(***************************************************************************)
(* Proofs about the values of JsonType and about PoolObjs, which its lists *)
(* and dicts come from.  For any client that does not parse: every ref_cnt *)
(* is right, no operation reads what was deleted as long as nothing that   *)
(* has elements went back to the pool, and a statement about one variable  *)
(* leaves what the others have.  Of the pool: it never gives an object to  *)
(* two clients, and never follows a row pointer that has not been set; and *)
(* what it loses.                                                          *)
(***************************************************************************)
EXTENDS JsonType, PoolObjs, FiniteSetTheorems, TLAPS

\* No JsonType.
Nowhere == <<"nowhere", NoNode, NoNode>>

Elems == UNION {[S -> Nat] : S \in SUBSET Places}
FitsType(type, data) ==
  type \in Containers =>
    /\ data \in Elems
    /\ type = "list" => \E l \in Nat : DOMAIN data = 0..l - 1
    /\ type = "dict" => DOMAIN data \subseteq Keys
NodeOK(v) ==
  /\ v = [type |-> v.type, ref |-> v.ref, data |-> v.data]
  /\ v.ref \in Nat /\ FitsType(v.type, v.data)

\* What the parts of a heap are.
Shape(h) ==
  /\ h = [objs |-> h.objs, mem |-> h.mem, pool |-> h.pool, ok |-> h.ok]
  /\ h.objs \in [Vars \cup {Null} -> Nat]
  /\ h.mem = [n \in DOMAIN h.mem |-> h.mem[n]]
  /\ \E b \in Nat : DOMAIN h.mem \subseteq 1..b
  /\ \A n \in DOMAIN h.mem : NodeOK(h.mem[n])
  /\ h.pool \in [Containers -> Seq(Elems)]

Live(h, t) == At(h, t) \in DOMAIN h.mem \/ (t[1] = "objs" /\ At(h, t) = NoNode)

\* The counts are right, if the JsonType s is not counted: it is about to be changed.
Right(h, s) ==
  /\ Shape(h) /\ IsFiniteSet(Slots(h))
  /\ \A t \in Slots(h) : t # s => Live(h, t)
  /\ \A n \in DOMAIN h.mem :
       h.mem[n].ref # 0 /\ h.mem[n].ref = Cardinality(Holders(h, n) \ {s})

\* Every JsonType but s points to a node, or is a variable that is out of scope.
Lively(h, s) == \A t \in Slots(h) : t # s => Live(h, t)

LEMMA HoldersFinite ==
  ASSUME NEW h, NEW n, NEW s, IsFiniteSet(Slots(h))
  PROVE  /\ IsFiniteSet(Holders(h, n)) /\ IsFiniteSet(Holders(h, n) \ {s})
         /\ Cardinality(Holders(h, n) \ {s}) \in Nat
<1>1. Holders(h, n) \subseteq Slots(h) /\ Holders(h, n) \ {s} \subseteq Slots(h)
  BY DEF Holders
<1>2. IsFiniteSet(Holders(h, n)) /\ IsFiniteSet(Holders(h, n) \ {s})
  BY <1>1, FS_Subset
<1> QED  BY <1>2, FS_CardinalityType

LEMMA Apart ==
  ASSUME NEW S, NEW T, IsFiniteSet(S), IsFiniteSet(T), S \cap T = {}
  PROVE  /\ IsFiniteSet(S \cup T) /\ Cardinality(S) \in Nat /\ Cardinality(T) \in Nat
         /\ Cardinality(S \cup T) = Cardinality(S) + Cardinality(T)
<1>1. Cardinality(S) \in Nat /\ Cardinality(T) \in Nat /\ Cardinality(S \cap T) = 0
  BY FS_CardinalityType, FS_EmptySet
<1>2. /\ IsFiniteSet(S \cup T)
      /\ Cardinality(S \cup T) = Cardinality(S) + Cardinality(T) - Cardinality(S \cap T)
  BY FS_Union
<1> QED  BY <1>1, <1>2

LEMMA OneMore ==
  ASSUME NEW S, NEW T, NEW s, IsFiniteSet(S), s \notin S, T = S \cup {s}
  PROVE  Cardinality(T) = Cardinality(S) + 1
BY FS_AddElement

(* What becomes of the counts.                                             *)

\* JsonTypes go on to point where they did, apart from s.
SameBut(h, h2, s) == \A t \in Slots(h) : t # s => At(h2, t) = At(h, t)
SameRefs(h, h2, but) == \A n \in (DOMAIN h.mem \cap DOMAIN h2.mem) \ but : h2.mem[n].ref = h.mem[n].ref

LEMMA Drops ==
  ASSUME NEW h, NEW h2, NEW s \in Slots(h), NEW n \in DOMAIN h.mem,
         Right(h, Nowhere), Nowhere \notin Slots(h), At(h, s) = n, h.mem[n].ref # 1,
         Shape(h2), Slots(h2) = Slots(h), SameBut(h, h2, Nowhere), DOMAIN h2.mem = DOMAIN h.mem,
         SameRefs(h, h2, {n}), h2.mem[n].ref = h.mem[n].ref - 1
  PROVE  Right(h2, s)
<1>1. \A t \in Slots(h) : At(h2, t) = At(h, t)
  BY DEF SameBut
<1>2. \A q : Holders(h2, q) = Holders(h, q)
  BY <1>1 DEF Holders
<1>3. IsFiniteSet(Slots(h))
  BY DEF Right
<1>4. \A t \in Slots(h2) : Live(h2, t)
  BY <1>1 DEF Right, Live
<1>5. ASSUME NEW q \in DOMAIN h.mem, q # n
      PROVE  h2.mem[q].ref # 0 /\ h2.mem[q].ref = Cardinality(Holders(h2, q) \ {s})
  <2>1. Holders(h, q) \ {Nowhere} = Holders(h, q) \ {s}
    BY <1>5 DEF Holders
  <2>2. h2.mem[q].ref = h.mem[q].ref
    BY <1>5 DEF SameRefs
  <2> QED  BY <1>2, <2>1, <2>2 DEF Right
<1>6. h2.mem[n].ref # 0 /\ h2.mem[n].ref = Cardinality(Holders(h2, n) \ {s})
  <2>1. Holders(h, n) \ {Nowhere} = (Holders(h, n) \ {s}) \cup {s} /\ s \notin Holders(h, n) \ {s}
    BY DEF Holders
  <2>2. IsFiniteSet(Holders(h, n) \ {s}) /\ Cardinality(Holders(h, n) \ {s}) \in Nat
    BY <1>3, HoldersFinite
  <2>3. Cardinality(Holders(h, n) \ {Nowhere}) = Cardinality(Holders(h, n) \ {s}) + 1
    BY <2>1, <2>2, OneMore
  <2>4. h.mem[n].ref = Cardinality(Holders(h, n) \ {Nowhere})
    BY DEF Right
  <2>5. h2.mem[n].ref = Cardinality(Holders(h, n) \ {s}) /\ h2.mem[n].ref # 0
    BY <2>2, <2>3, <2>4
  <2> QED  BY <1>2, <2>5
<1> QED  BY <1>3, <1>4, <1>5, <1>6 DEF Right

LEMMA Given ==
  ASSUME NEW h, NEW h2, NEW s, NEW n,
         Right(h, s), s # Nowhere, Nowhere \notin Slots(h), n \notin DOMAIN h.mem, n # NoNode,
         Shape(h2), Slots(h2) = Slots(h) \cup {s}, SameBut(h, h2, s), At(h2, s) = n,
         DOMAIN h2.mem = DOMAIN h.mem \cup {n}, SameRefs(h, h2, {}), h2.mem[n].ref = 1
  PROVE  Right(h2, Nowhere)
<1>1. \A t \in Slots(h) : t # s => At(h2, t) = At(h, t) /\ At(h, t) # n
  BY DEF SameBut, Right, Live
<1>3. IsFiniteSet(Slots(h2))
  BY FS_AddElement DEF Right
<1>4. \A t \in Slots(h2) : Live(h2, t)
  BY <1>1 DEF Right, Live
<1>5. ASSUME NEW q \in DOMAIN h.mem
      PROVE  h2.mem[q].ref # 0 /\ h2.mem[q].ref = Cardinality(Holders(h2, q) \ {Nowhere})
  <2>1. Holders(h2, q) \ {Nowhere} = Holders(h, q) \ {s}
    BY <1>1 DEF Holders
  <2>2. h2.mem[q].ref = h.mem[q].ref
    BY <1>5 DEF SameRefs
  <2> QED  BY <2>1, <2>2 DEF Right
<1>6. h2.mem[n].ref # 0 /\ h2.mem[n].ref = Cardinality(Holders(h2, n) \ {Nowhere})
  <2>1. Holders(h2, n) \ {Nowhere} = {s}
    BY <1>1 DEF Holders
  <2> QED  BY <2>1, FS_Singleton
<1> QED  BY <1>3, <1>4, <1>5, <1>6 DEF Right

LEMMA Shares ==
  ASSUME NEW h, NEW h2, NEW s, NEW n \in DOMAIN h.mem,
         Right(h, s), s # Nowhere, Nowhere \notin Slots(h),
         Shape(h2), Slots(h2) = Slots(h) \cup {s}, SameBut(h, h2, s), At(h2, s) = n,
         DOMAIN h2.mem = DOMAIN h.mem, SameRefs(h, h2, {n}), h2.mem[n].ref = h.mem[n].ref + 1
  PROVE  Right(h2, Nowhere)
<1>1. \A t \in Slots(h) : t # s => At(h2, t) = At(h, t)
  BY DEF SameBut
<1>2. IsFiniteSet(Slots(h))
  BY DEF Right
<1>3. IsFiniteSet(Slots(h2))
  BY <1>2, FS_AddElement
<1>4. \A t \in Slots(h2) : Live(h2, t)
  BY <1>1 DEF Right, Live
<1>5. ASSUME NEW q \in DOMAIN h.mem, q # n
      PROVE  h2.mem[q].ref # 0 /\ h2.mem[q].ref = Cardinality(Holders(h2, q) \ {Nowhere})
  <2>1. Holders(h2, q) \ {Nowhere} = Holders(h, q) \ {s}
    BY <1>1, <1>5 DEF Holders
  <2>2. h2.mem[q].ref = h.mem[q].ref
    BY <1>5 DEF SameRefs
  <2> QED  BY <2>1, <2>2 DEF Right
<1>6. h2.mem[n].ref # 0 /\ h2.mem[n].ref = Cardinality(Holders(h2, n) \ {Nowhere})
  <2>1. Holders(h2, n) \ {Nowhere} = (Holders(h, n) \ {s}) \cup {s}
    BY <1>1 DEF Holders
  <2>2. IsFiniteSet(Holders(h, n) \ {s}) /\ Cardinality(Holders(h, n) \ {s}) \in Nat
    BY <1>2, HoldersFinite
  <2>3. Cardinality(Holders(h2, n) \ {Nowhere}) = Cardinality(Holders(h, n) \ {s}) + 1
    BY <2>1, <2>2, OneMore
  <2>4. h.mem[n].ref = Cardinality(Holders(h, n) \ {s})
    BY DEF Right
  <2> QED  BY <2>2, <2>3, <2>4
<1> QED  BY <1>3, <1>4, <1>5, <1>6 DEF Right

LEMMA Empties ==
  ASSUME NEW h, NEW h2, NEW s, Right(h, s),
         Shape(h2), Slots(h2) = Slots(h), SameBut(h, h2, s), At(h2, s) = NoNode,
         DOMAIN h2.mem = DOMAIN h.mem, SameRefs(h, h2, {})
  PROVE  Right(h2, s)
<1>1. \A t \in Slots(h) : t # s => At(h2, t) = At(h, t)
  BY DEF SameBut
<1>2. \A q : Holders(h2, q) \ {s} = Holders(h, q) \ {s}
  BY <1>1 DEF Holders
<1>3. \A t \in Slots(h2) : t # s => Live(h2, t)
  BY <1>1 DEF Right, Live
<1>4. \A q \in DOMAIN h.mem : h2.mem[q].ref = h.mem[q].ref
  BY DEF SameRefs
<1> QED  BY <1>2, <1>3, <1>4 DEF Right

\* S and T have as many members.
Pairs(f, S, T) ==
  f \in [S -> T] /\ (\A x, y \in S : f[x] = f[y] => x = y) /\ \A t \in T : \E x \in S : f[x] = t

LEMMA AsMany ==
  ASSUME NEW S, NEW T, NEW f, IsFiniteSet(S), Pairs(f, S, T)
  PROVE  IsFiniteSet(T) /\ Cardinality(T) = Cardinality(S)
<1>1. f \in Bijection(S, T)
  BY DEF Pairs, Bijection, Injection, Surjection, IsInjective
<1> QED  BY <1>1, FS_Bijection DEF ExistsBijection

LEMMA OnlyHolder ==
  ASSUME NEW h, NEW s \in Slots(h), NEW n \in DOMAIN h.mem,
         Right(h, Nowhere), Nowhere \notin Slots(h), At(h, s) = n, h.mem[n].ref = 1
  PROVE  Holders(h, n) = {s}
<1>1. s \in Holders(h, n) \ {Nowhere}
  BY DEF Holders
<1>2. Cardinality(Holders(h, n) \ {Nowhere}) = 1
  BY DEF Right
<1>3. IsFiniteSet(Holders(h, n) \ {Nowhere})
  BY HoldersFinite DEF Right
<1>4. PICK x : Holders(h, n) \ {Nowhere} = {x}
  BY <1>2, <1>3, FS_Singleton
<1> QED  BY <1>1, <1>4 DEF Holders

\* The last JsonType of n leaves it, and n is deleted; its elements are somewhere else then.
Moves(h, h2, s, f) ==
  /\ Pairs(f, Slots(h), Slots(h2)) /\ f[s] = s
  /\ \A t \in Slots(h) : /\ t # s => At(h2, f[t]) = At(h, t)
                         /\ t[1] = "objs" => f[t][1] = "objs"

LEMMA Leaves ==
  ASSUME NEW h, NEW h2, NEW s \in Slots(h), NEW n \in DOMAIN h.mem, NEW f,
         Right(h, Nowhere), Nowhere \notin Slots(h), At(h, s) = n, h.mem[n].ref = 1,
         Shape(h2), Moves(h, h2, s, f), DOMAIN h2.mem = DOMAIN h.mem \ {n}, SameRefs(h, h2, {})
  PROVE  Right(h2, s)
<1>1. Holders(h, n) = {s}
  BY OnlyHolder
<1>2. /\ f \in [Slots(h) -> Slots(h2)] /\ f[s] = s
      /\ \A x, y \in Slots(h) : f[x] = f[y] => x = y
      /\ \A u \in Slots(h2) : \E x \in Slots(h) : f[x] = u
      /\ \A t \in Slots(h) : t # s => At(h2, f[t]) = At(h, t) /\ f[t] # s
      /\ \A t \in Slots(h) : t[1] = "objs" => f[t][1] = "objs"
  BY DEF Moves, Pairs
<1>3. IsFiniteSet(Slots(h)) /\ IsFiniteSet(Slots(h2))
  BY AsMany DEF Moves, Right
<1>4. ASSUME NEW u \in Slots(h2), u # s
      PROVE  Live(h2, u)
  <2>1. PICK t \in Slots(h) : f[t] = u
    BY <1>2
  <2>2. t # s /\ t \notin Holders(h, n) /\ At(h2, u) = At(h, t)
    BY <1>1, <1>2, <1>4, <2>1
  <2>3. At(h, t) # n
    BY <2>2 DEF Holders
  <2>4. Live(h, t) /\ (t[1] = "objs" => u[1] = "objs")
    BY <1>2, <2>1 DEF Right
  <2> QED  BY <2>2, <2>3, <2>4 DEF Live
<1>5. ASSUME NEW q \in DOMAIN h2.mem
      PROVE  h2.mem[q].ref # 0 /\ h2.mem[q].ref = Cardinality(Holders(h2, q) \ {s})
  <2> DEFINE S == Holders(h, q) \ {Nowhere}
             T == Holders(h2, q) \ {s}
             g == [t \in S |-> f[t]]
  <2>1. q \in DOMAIN h.mem /\ q # n
    OBVIOUS
  <2>2. S \subseteq Slots(h) /\ s \notin S /\ \A t \in Slots(h) : t \in S <=> At(h, t) = q
    BY <2>1 DEF Holders
  <2>3. T \subseteq Slots(h2) /\ s \notin T /\ \A t \in Slots(h2) : t # s => (t \in T <=> At(h2, t) = q)
    BY DEF Holders
  <2> HIDE DEF S, T
  <2>4. g \in [S -> T] /\ \A t \in S : g[t] = f[t]
    BY <1>2, <2>2, <2>3
  <2>5. \A t \in T : \E x \in S : g[x] = t
    <3> SUFFICES ASSUME NEW t \in T PROVE \E x \in S : g[x] = t
      OBVIOUS
    <3>1. t \in Slots(h2) /\ t # s /\ At(h2, t) = q
      BY <2>3
    <3>2. PICK x \in Slots(h) : f[x] = t
      BY <1>2, <3>1
    <3>3. x # s /\ At(h, x) = q
      BY <1>2, <3>1, <3>2
    <3> QED  BY <2>2, <2>4, <3>2, <3>3
  <2>6. \A x, y \in S : g[x] = g[y] => x = y
    BY <1>2, <2>2, <2>4
  <2>7. Pairs(g, S, T)
    BY <2>4, <2>5, <2>6 DEF Pairs
  <2>8. Cardinality(S) = Cardinality(T)
    BY <1>3, <2>2, <2>7, AsMany, FS_Subset
  <2>9. h2.mem[q].ref = h.mem[q].ref /\ h.mem[q].ref # 0 /\ h.mem[q].ref = Cardinality(S)
    BY <2>1 DEF SameRefs, Right, S
  <2> QED  BY <2>8, <2>9 DEF T
<1> QED  BY <1>3, <1>4, <1>5 DEF Right

\* New nodes, each with one of the new JsonTypes.
LEMMA Adds ==
  ASSUME NEW h, NEW h2, NEW A, NEW N,
         Right(h, Nowhere), Nowhere \notin A, A \cap Slots(h) = {}, N \cap DOMAIN h.mem = {},
         IsFiniteSet(A), Shape(h2), Slots(h2) = Slots(h) \cup A, SameBut(h, h2, Nowhere),
         \A t \in A : At(h2, t) \in N, \A q \in N : \E t \in A : {u \in A : At(h2, u) = q} = {t},
         DOMAIN h2.mem = DOMAIN h.mem \cup N, SameRefs(h, h2, {}), NoNode \notin N,
         \A q \in N : h2.mem[q].ref = 1, Nowhere \notin Slots(h)
  PROVE  Right(h2, Nowhere)
<1>1. \A t \in Slots(h) : At(h2, t) = At(h, t) /\ At(h, t) \notin N
  BY DEF SameBut, Right, Live
<1>2. IsFiniteSet(Slots(h))
  BY DEF Right
<1>3. IsFiniteSet(Slots(h2))
  BY <1>2, FS_Union
<1>4. \A t \in Slots(h2) : Live(h2, t)
  BY <1>1 DEF Right, Live
<1>5. ASSUME NEW q \in DOMAIN h.mem
      PROVE  h2.mem[q].ref # 0 /\ h2.mem[q].ref = Cardinality(Holders(h2, q) \ {Nowhere})
  <2>1. Holders(h2, q) \ {Nowhere} = Holders(h, q) \ {Nowhere}
    BY <1>1 DEF Holders
  <2>2. h2.mem[q].ref = h.mem[q].ref
    BY <1>5 DEF SameRefs
  <2> QED  BY <2>1, <2>2 DEF Right
<1>6. ASSUME NEW q \in N
      PROVE  h2.mem[q].ref # 0 /\ h2.mem[q].ref = Cardinality(Holders(h2, q) \ {Nowhere})
  <2>1. PICK t \in A : {u \in A : At(h2, u) = q} = {t}
    OBVIOUS
  <2>2. Holders(h2, q) \ {Nowhere} = {t}
    BY <1>1, <2>1 DEF Holders
  <2>3. Cardinality({t}) = 1 /\ h2.mem[q].ref = 1
    BY FS_Singleton
  <2>4. Cardinality(Holders(h2, q) \ {Nowhere}) = 1
    BY <2>2, <2>3
  <2> QED  BY <2>3, <2>4
<1> QED  BY <1>3, <1>4, <1>5, <1>6 DEF Right

\* New JsonTypes that point to nodes that are there.
LEMMA Joins ==
  ASSUME NEW h, NEW h2, NEW A,
         Right(h, Nowhere), Nowhere \notin A, A \cap Slots(h) = {}, IsFiniteSet(A),
         Shape(h2), Slots(h2) = Slots(h) \cup A, SameBut(h, h2, Nowhere), Nowhere \notin Slots(h),
         \A t \in A : At(h2, t) \in DOMAIN h.mem, DOMAIN h2.mem = DOMAIN h.mem,
         \A q \in DOMAIN h.mem : h2.mem[q].ref = h.mem[q].ref + Cardinality({t \in A : At(h2, t) = q})
  PROVE  Right(h2, Nowhere)
<1>1. \A t \in Slots(h) : At(h2, t) = At(h, t)
  BY DEF SameBut
<1>2. IsFiniteSet(Slots(h))
  BY DEF Right
<1>3. IsFiniteSet(Slots(h2)) /\ IsFiniteSet(Slots(h))
  BY <1>2, FS_Union
<1>4. \A t \in Slots(h2) : Live(h2, t)
  BY <1>1 DEF Right, Live
<1>5. ASSUME NEW q \in DOMAIN h.mem
      PROVE  h2.mem[q].ref # 0 /\ h2.mem[q].ref = Cardinality(Holders(h2, q) \ {Nowhere})
  <2> DEFINE S == Holders(h, q) \ {Nowhere}
             B == {t \in A : At(h2, t) = q}
  <2>1. Holders(h2, q) \ {Nowhere} = S \cup B
    BY <1>1 DEF Holders
  <2>2. IsFiniteSet(S) /\ Cardinality(S) \in Nat
    BY <1>3, HoldersFinite
  <2>3. B \subseteq A
    OBVIOUS
  <2>4. IsFiniteSet(B) /\ Cardinality(B) \in Nat
    BY <2>3, FS_Subset, FS_CardinalityType
  <2>5. S \cap B = {}
    BY DEF Holders
  <2>6. h2.mem[q].ref = h.mem[q].ref + Cardinality(B)
    OBVIOUS
  <2>7. h.mem[q].ref # 0 /\ h.mem[q].ref = Cardinality(S)
    BY DEF Right
  <2> HIDE DEF S, B
  <2>8. Cardinality(S \cup B) = Cardinality(S) + Cardinality(B)
    BY <2>2, <2>4, <2>5, Apart
  <2>9. Cardinality(Holders(h2, q) \ {Nowhere}) = Cardinality(S) + Cardinality(B)
    BY <2>1, <2>8
  <2> QED  BY <2>2, <2>4, <2>6, <2>7, <2>9
<1> QED  BY <1>3, <1>4, <1>5 DEF Right

(* What falls with a container.                                            *)

\* The JsonTypes in the nodes of D, and with those in E: the ones that point to q.
ElemsOf(h, D) == {t \in Slots(h) : t[1] = "mem" /\ t[2] \in D}
Losing(h, E, D, q) == {t \in E \cup ElemsOf(h, D) : At(h, t) = q}

\* E are the JsonTypes that elems has.
Stands(h, E, elems) ==
  /\ E \subseteq Slots(h)
  /\ \A D \in SUBSET DOMAIN h.mem : \A q \in DOMAIN h.mem :
       Released(h.mem, elems, D, q) = Cardinality(Losing(h, E, D, q))

LEMMA FallsMore ==
  ASSUME NEW h, NEW E, NEW elems, Stands(h, E, elems), IsFiniteSet(Slots(h)),
         \A q \in DOMAIN h.mem : h.mem[q].ref \in Nat,
         NEW C \in SUBSET DOMAIN h.mem, NEW D \in SUBSET DOMAIN h.mem, C \subseteq D
  PROVE  Falls(h.mem, elems, C) \subseteq Falls(h.mem, elems, D)
<1> SUFFICES ASSUME NEW q \in DOMAIN h.mem, h.mem[q].ref <= Released(h.mem, elems, C, q)
             PROVE  h.mem[q].ref <= Released(h.mem, elems, D, q)
  BY DEF Falls
<1>1. /\ Released(h.mem, elems, C, q) = Cardinality(Losing(h, E, C, q))
      /\ Released(h.mem, elems, D, q) = Cardinality(Losing(h, E, D, q))
  BY DEF Stands
<1>2. Losing(h, E, C, q) \subseteq Losing(h, E, D, q) /\ Losing(h, E, D, q) \subseteq Slots(h)
  BY DEF Losing, ElemsOf, Stands
<1>3. /\ IsFiniteSet(Losing(h, E, D, q)) /\ IsFiniteSet(Losing(h, E, C, q))
      /\ Cardinality(Losing(h, E, C, q)) <= Cardinality(Losing(h, E, D, q))
  BY <1>2, FS_Subset
<1>4. Cardinality(Losing(h, E, C, q)) \in Nat /\ Cardinality(Losing(h, E, D, q)) \in Nat
  BY <1>3, FS_CardinalityType
<1>5. h.mem[q].ref \in Nat
  OBVIOUS
<1> QED  BY <1>1, <1>3, <1>4, <1>5

\* The waves of Gone, of which there are n.
Waves(m, elems, n, g) ==
  g = [i \in 0..n |-> IF i = 0 THEN {} ELSE Falls(m, elems, g[i - 1])]

LEMMA LeastOf ==
  ASSUME NEW S \in SUBSET Nat, S # {}
  PROVE  \E m \in S : \A x \in S : m <= x
<1> DEFINE R == OpToRel(<, Nat)
<1>1. IsWellFoundedOn(R, Nat)
  BY NatLessThanWellFounded
<1>2. \A t, u \in Nat : t < u => <<t, u>> \in R
  BY DEF OpToRel
<1> HIDE DEF R
<1>3. \E m \in S : \A x \in S : ~(<<x, m>> \in R)
  BY <1>1, WFMin
<1>4. PICK m \in S : \A x \in S : ~(<<x, m>> \in R)
  BY <1>3
<1>5. ASSUME NEW x \in S PROVE m <= x
  <2>1. m \in Nat /\ x \in Nat /\ ~(<<x, m>> \in R)
    BY <1>4
  <2>2. ~(x < m)
    BY <1>2, <2>1
  <2> QED  BY <2>1, <2>2
<1> QED  BY <1>4, <1>5

LEMMA WavesExist ==
  ASSUME NEW m, NEW elems, NEW n \in Nat
  PROVE  \E g : Waves(m, elems, n, g)
<1> DEFINE Missing == {i \in Nat : ~\E g : Waves(m, elems, i, g)}
<1> SUFFICES ASSUME Missing # {} PROVE FALSE
  OBVIOUS
<1>1. PICK j \in Missing : \A i \in Missing : j <= i
  <2>1. Missing \in SUBSET Nat
    OBVIOUS
  <2> HIDE DEF Missing
  <2> QED  BY <2>1, LeastOf
<1>2. j \in Nat /\ ~\E g : Waves(m, elems, j, g)
  OBVIOUS
<1>3. CASE j = 0
  <2>1. Waves(m, elems, 0, [i \in 0..0 |-> {}])
    BY DEF Waves
  <2> QED  BY <1>2, <1>3, <2>1
<1>4. CASE j # 0
  <2>1. j - 1 \in Nat /\ j - 1 \notin Missing
    BY <1>1, <1>2, <1>4
  <2>2. PICK g : Waves(m, elems, j - 1, g)
    BY <2>1
  <2> DEFINE new == [i \in 0..j |-> IF i = j THEN Falls(m, elems, g[j - 1]) ELSE g[i]]
  <2>3. \A i \in 0..j - 1 : g[i] = IF i = 0 THEN {} ELSE Falls(m, elems, g[i - 1])
    BY <2>1, <2>2 DEF Waves
  <2>4. \A i \in 0..j : new[i] = IF i = 0 THEN {} ELSE Falls(m, elems, new[i - 1])
    <3> SUFFICES ASSUME NEW i \in 0..j
                 PROVE  new[i] = IF i = 0 THEN {} ELSE Falls(m, elems, new[i - 1])
      OBVIOUS
    <3>1. CASE i = 0
      BY <1>2, <1>4, <2>3, <3>1
    <3>2. CASE i # 0
      <4>1. i - 1 \in 0..j - 1 /\ new[i - 1] = g[i - 1]
        BY <1>2, <3>2
      <4>2. new[i] = Falls(m, elems, g[i - 1])
        BY <1>2, <2>3, <3>2
      <4> HIDE DEF new
      <4> QED  BY <3>2, <4>1, <4>2
    <3> QED  BY <3>1, <3>2
  <2>5. new = [i \in 0..j |-> new[i]]
    OBVIOUS
  <2> HIDE DEF new
  <2>6. Waves(m, elems, j, new)
    BY <2>4, <2>5 DEF Waves
  <2> QED  BY <1>2, <2>6
<1> QED  BY <1>3, <1>4

LEMMA GoneIs ==
  ASSUME NEW m, NEW elems, IsFiniteSet(DOMAIN m)
  PROVE  \E g : Waves(m, elems, Cardinality(DOMAIN m), g) /\ Gone(m, elems) = g[Cardinality(DOMAIN m)]
<1> DEFINE n == Cardinality(DOMAIN m)
           w == CHOOSE g : g = [i \in 0..n |-> IF i = 0 THEN {} ELSE Falls(m, elems, g[i - 1])]
<1>1. n \in Nat
  BY FS_CardinalityType
<1>2. \E g : g = [i \in 0..n |-> IF i = 0 THEN {} ELSE Falls(m, elems, g[i - 1])]
  <2>1. \E g : Waves(m, elems, n, g)
    BY <1>1, WavesExist
  <2> QED  BY <2>1 DEF Waves
<1>3. w = [i \in 0..n |-> IF i = 0 THEN {} ELSE Falls(m, elems, w[i - 1])]
  BY <1>2
<1>4. Gone(m, elems) = w[n]
  BY DEF Gone
<1> HIDE DEF w
<1> QED  BY <1>3, <1>4 DEF Waves

\* The JsonType s is not in what falls, if it is not in what falls before.
Spares(h, s, elems) ==
  \A C \in SUBSET DOMAIN h.mem :
    C \subseteq Falls(h.mem, elems, C) /\ s \notin ElemsOf(h, C)
      => s \notin ElemsOf(h, Falls(h.mem, elems, C))

LEMMA WavesGrow ==
  ASSUME NEW h, NEW s, NEW E, NEW elems, Stands(h, E, elems), Spares(h, s, elems), IsFiniteSet(Slots(h)),
         \A q \in DOMAIN h.mem : h.mem[q].ref \in Nat, IsFiniteSet(DOMAIN h.mem),
         NEW n \in Nat, NEW g, Waves(h.mem, elems, n, g), NEW i \in 0..n
  PROVE  /\ g[i] \subseteq DOMAIN h.mem /\ g[i] \subseteq Falls(h.mem, elems, g[i])
         /\ Cardinality(g[i]) >= i \/ g[i] = Falls(h.mem, elems, g[i])
         /\ Falls(h.mem, elems, {}) = {} => g[i] = {}
         /\ s \notin ElemsOf(h, g[i])
<1> DEFINE F(D) == Falls(h.mem, elems, D)
           P(k) == /\ g[k] \subseteq DOMAIN h.mem /\ g[k] \subseteq F(g[k])
                   /\ Cardinality(g[k]) >= k \/ g[k] = F(g[k])
                   /\ F({}) = {} => g[k] = {}
                   /\ s \notin ElemsOf(h, g[k])
           Wrong == {k \in 0..n : ~P(k)}
<1>1. \A D : F(D) \subseteq DOMAIN h.mem
  BY DEF Falls
<1>2. \A C, D \in SUBSET DOMAIN h.mem : C \subseteq D => F(C) \subseteq F(D)
  BY FallsMore
<1>3. g[0] = {} /\ \A k \in 1..n : g[k] = F(g[k - 1])
  <2>1. \A k \in 0..n : g[k] = IF k = 0 THEN {} ELSE Falls(h.mem, elems, g[k - 1])
    BY DEF Waves
  <2> QED  BY <2>1
<1>4. P(0)
  BY <1>3, FS_EmptySet DEF ElemsOf
<1>5. ASSUME NEW k \in 1..n, P(k - 1)
      PROVE  P(k)
  <2>1. g[k] = F(g[k - 1]) /\ g[k - 1] \subseteq g[k] /\ g[k] \subseteq DOMAIN h.mem
    BY <1>1, <1>3, <1>5
  <2>2. g[k] \subseteq F(g[k])
    <3>1. F(g[k - 1]) \subseteq F(g[k])
      BY <1>2, <1>5, <2>1
    <3> QED  BY <2>1, <3>1
  <2>3. Cardinality(g[k]) >= k \/ g[k] = F(g[k])
    <3>1. CASE g[k - 1] = g[k]
      BY <2>1, <3>1
    <3>2. CASE g[k - 1] # g[k]
      <4>1. Cardinality(g[k - 1]) >= k - 1
        BY <1>5, <2>1, <3>2
      <4>2. IsFiniteSet(g[k]) /\ IsFiniteSet(g[k - 1])
        BY <2>1, FS_Subset
      <4>3. /\ Cardinality(g[k - 1]) <= Cardinality(g[k])
            /\ Cardinality(g[k - 1]) # Cardinality(g[k])
        BY <2>1, <3>2, <4>2, FS_Subset
      <4>4. Cardinality(g[k]) \in Nat /\ Cardinality(g[k - 1]) \in Nat
        BY <4>2, FS_CardinalityType
      <4> QED  BY <4>1, <4>3, <4>4
    <3> QED  BY <3>1, <3>2
  <2>4. F({}) = {} => g[k] = {}
    BY <1>5, <2>1
  <2>5. s \notin ElemsOf(h, g[k])
    BY <1>5, <2>1 DEF Spares
  <2> QED  BY <2>1, <2>2, <2>3, <2>4, <2>5
<1> HIDE DEF P
<1>6. SUFFICES ASSUME Wrong # {} PROVE FALSE
  <2>1. \A k \in 0..n : P(k)
    BY <1>6
  <2> QED  BY <2>1 DEF P
<1>7. PICK j \in Wrong : \A k \in Wrong : j <= k
  <2>1. Wrong \in SUBSET Nat
    OBVIOUS
  <2> HIDE DEF Wrong
  <2> QED  BY <1>6, <2>1, LeastOf
<1>8. j # 0 /\ j \in 1..n /\ j - 1 \in 0..n /\ j - 1 \notin Wrong
  BY <1>4, <1>7
<1>9. P(j - 1) /\ ~P(j)
  BY <1>7, <1>8
<1> QED  BY <1>5, <1>8, <1>9

LEMMA GoneFalls ==
  ASSUME NEW h, NEW s, NEW E, NEW elems, Stands(h, E, elems), Spares(h, s, elems), IsFiniteSet(Slots(h)),
         \A q \in DOMAIN h.mem : h.mem[q].ref \in Nat, IsFiniteSet(DOMAIN h.mem)
  PROVE  /\ Gone(h.mem, elems) \subseteq DOMAIN h.mem
         /\ Gone(h.mem, elems) = Falls(h.mem, elems, Gone(h.mem, elems))
         /\ Falls(h.mem, elems, {}) = {} => Gone(h.mem, elems) = {}
         /\ s \notin ElemsOf(h, Gone(h.mem, elems))
<1> DEFINE n == Cardinality(DOMAIN h.mem)
           D == Gone(h.mem, elems)
<1>1. n \in Nat
  BY FS_CardinalityType
<1>2. PICK g : Waves(h.mem, elems, n, g) /\ D = g[n]
  BY GoneIs
<1> HIDE DEF D
<1>3. /\ D \subseteq DOMAIN h.mem /\ D \subseteq Falls(h.mem, elems, D)
      /\ Cardinality(D) >= n \/ D = Falls(h.mem, elems, D)
      /\ Falls(h.mem, elems, {}) = {} => D = {}
      /\ s \notin ElemsOf(h, D)
  BY <1>1, <1>2, WavesGrow
<1>4. Falls(h.mem, elems, D) \subseteq DOMAIN h.mem
  BY DEF Falls
<1>5. ASSUME Cardinality(D) >= n
      PROVE  D = DOMAIN h.mem
  <2>1. Cardinality(D) <= n /\ IsFiniteSet(D)
    BY <1>3, FS_Subset
  <2>2. Cardinality(D) \in Nat
    BY <2>1, FS_CardinalityType
  <2>3. Cardinality(D) = n
    BY <1>1, <1>5, <2>1, <2>2
  <2> QED  BY <1>3, <2>3, FS_Subset
<1>6. D = Falls(h.mem, elems, D)
  BY <1>3, <1>4, <1>5
<1> QED  BY <1>3, <1>6 DEF D

LEMMA Clears ==
  ASSUME NEW h, NEW h2, NEW s, NEW s2, NEW E, NEW elems, NEW D,
         Right(h, s), Stands(h, E, elems),
         D \subseteq DOMAIN h.mem, D = Falls(h.mem, elems, D), s \notin E \cup ElemsOf(h, D),
         Shape(h2), DOMAIN h2.mem = DOMAIN h.mem \ D,
         \A q \in DOMAIN h2.mem : h2.mem[q].ref = h.mem[q].ref - Released(h.mem, elems, D, q),
         Slots(h2) \ {s2} = Slots(h) \ (E \cup ElemsOf(h, D) \cup {s}),
         \A t \in Slots(h2) : t # s2 => At(h2, t) = At(h, t)
  PROVE  Right(h2, s2)
<1> DEFINE L(q) == Losing(h, E, D, q)
           H(q) == Holders(h, q) \ {s}
<1>1. IsFiniteSet(Slots(h)) /\ \A q \in DOMAIN h.mem : h.mem[q].ref \in Nat
  BY DEF Right, Shape, NodeOK
<1>2. ASSUME NEW q \in DOMAIN h.mem
      PROVE  /\ L(q) \subseteq H(q) /\ IsFiniteSet(H(q)) /\ IsFiniteSet(L(q))
             /\ Cardinality(H(q)) \in Nat /\ Cardinality(L(q)) \in Nat
             /\ h.mem[q].ref = Cardinality(H(q)) /\ Released(h.mem, elems, D, q) = Cardinality(L(q))
             /\ q \in D <=> Cardinality(H(q)) <= Cardinality(L(q))
  <2>1. L(q) \subseteq H(q)
    BY DEF Losing, Holders, ElemsOf, Stands
  <2>2. IsFiniteSet(H(q)) /\ Cardinality(H(q)) \in Nat
    BY <1>1, HoldersFinite
  <2>3. IsFiniteSet(L(q)) /\ Cardinality(L(q)) \in Nat
    BY <2>1, <2>2, FS_Subset, FS_CardinalityType
  <2>4. h.mem[q].ref = Cardinality(H(q))
    BY DEF Right
  <2>5. Released(h.mem, elems, D, q) = Cardinality(L(q))
    BY DEF Stands
  <2>6. q \in D <=> h.mem[q].ref <= Released(h.mem, elems, D, q)
    BY DEF Falls
  <2> QED  BY <2>1, <2>2, <2>3, <2>4, <2>5, <2>6
<1>3. ASSUME NEW q \in D
      PROVE  H(q) = L(q)
  <2>1. q \in DOMAIN h.mem
    OBVIOUS
  <2>2. Cardinality(L(q)) <= Cardinality(H(q)) /\ Cardinality(H(q)) <= Cardinality(L(q))
    BY <1>2, <1>3, <2>1, FS_Subset
  <2>3. Cardinality(H(q)) = Cardinality(L(q))
    BY <1>2, <2>1, <2>2
  <2> QED  BY <1>2, <2>1, <2>3, FS_Subset
<1>4. IsFiniteSet(Slots(h2))
  <2>1. IsFiniteSet(Slots(h) \cup {s2})
    BY <1>1, FS_AddElement
  <2>2. Slots(h2) \subseteq Slots(h) \cup {s2}
    OBVIOUS
  <2> QED  BY <2>1, <2>2, FS_Subset
<1>5. ASSUME NEW t \in Slots(h2), t # s2
      PROVE  Live(h2, t)
  <2>1. t \in Slots(h) /\ t # s /\ t \notin E \cup ElemsOf(h, D) /\ At(h2, t) = At(h, t)
    BY <1>5
  <2>2. Live(h, t)
    BY <2>1 DEF Right
  <2>3. At(h, t) \notin D
    <3>1. SUFFICES ASSUME At(h, t) \in D PROVE FALSE
      OBVIOUS
    <3>2. t \in H(At(h, t))
      BY <2>1 DEF Holders
    <3>3. t \notin L(At(h, t))
      BY <2>1 DEF Losing
    <3> QED  BY <1>3, <3>1, <3>2, <3>3
  <2> QED  BY <2>1, <2>2, <2>3 DEF Live
<1>6. ASSUME NEW q \in DOMAIN h2.mem
      PROVE  h2.mem[q].ref # 0 /\ h2.mem[q].ref = Cardinality(Holders(h2, q) \ {s2})
  <2>1. q \in DOMAIN h.mem /\ q \notin D
    OBVIOUS
  <2>2. Holders(h2, q) \ {s2} = H(q) \ L(q)
    <3>1. \A t \in Slots(h2) : t # s2 =>
            t \in Slots(h) /\ t # s /\ t \notin E \cup ElemsOf(h, D) /\ At(h2, t) = At(h, t)
      OBVIOUS
    <3>2. \A t \in Slots(h) : t # s /\ t \notin E \cup ElemsOf(h, D) => t \in Slots(h2) /\ t # s2
      OBVIOUS
    <3> QED  BY <3>1, <3>2 DEF Holders, Losing
  <2>3. H(q) \cap L(q) = L(q)
    BY <1>2, <2>1
  <2>4. Cardinality(H(q) \ L(q)) = Cardinality(H(q)) - Cardinality(L(q))
    <3>1. IsFiniteSet(H(q))
      BY <1>2, <2>1
    <3> HIDE DEF H, L
    <3>2. Cardinality(H(q) \ L(q)) = Cardinality(H(q)) - Cardinality(H(q) \cap L(q))
      BY <3>1, FS_Difference
    <3> QED  BY <2>3, <3>2, Zenon
  <2>5. h2.mem[q].ref = Cardinality(H(q)) - Cardinality(L(q))
    BY <1>2, <2>1
  <2>6. Cardinality(Holders(h2, q) \ {s2}) = Cardinality(H(q)) - Cardinality(L(q))
    BY <2>2, <2>4
  <2>7. Cardinality(H(q)) \in Nat /\ Cardinality(L(q)) \in Nat
        /\ ~(Cardinality(H(q)) <= Cardinality(L(q)))
    BY <1>2, <2>1
  <2> HIDE DEF H, L
  <2> QED  BY <2>5, <2>6, <2>7
<1> QED  BY <1>4, <1>5, <1>6 DEF Right

(* What a client can reach.                                                *)

\* A set of nodes that has what the variables point to, and what is in its nodes: all that
\* is left of R when the JsonType s is taken away.
Closed(h, s, R) ==
  \A t \in Slots(h) :
    (t # s /\ (t[1] = "objs" \/ (t[1] = "mem" /\ t[2] \in R))) => At(h, t) \in R \cup {NoNode}
Reach(h, s, n) == \A R : Closed(h, s, R) => n \in R

\* A JsonType that a statement may change.
Usable(h, s) ==
  /\ s \in Slots(h)
  /\ s[1] = "objs" \/ (s[1] = "mem" /\ Reach(h, s, s[2]))

LEMMA ReachWhole ==
  ASSUME NEW h, NEW s, NEW n, Nowhere \notin Slots(h)
  PROVE  Reach(h, s, n) => Reach(h, Nowhere, n)
<1>1. \A R : Closed(h, Nowhere, R) => Closed(h, s, R)
  BY DEF Closed
<1> QED  BY <1>1 DEF Reach

\* What is in a node does not help to reach the node.
LEMMA ReachOwner ==
  ASSUME NEW h, NEW s, s[1] = "mem", Reach(h, Nowhere, s[2])
  PROVE  Reach(h, s, s[2])
<1> SUFFICES ASSUME NEW R, Closed(h, s, R), s[2] \notin R PROVE FALSE
  BY DEF Reach
<1>1. Closed(h, Nowhere, R)
  BY DEF Closed
<1> QED  BY <1>1 DEF Reach

LEMMA ReachDown ==
  ASSUME NEW h, NEW s, Usable(h, s), At(h, s) # NoNode, Nowhere \notin Slots(h)
  PROVE  Reach(h, Nowhere, At(h, s))
<1> SUFFICES ASSUME NEW R, Closed(h, Nowhere, R) PROVE At(h, s) \in R
  BY DEF Reach
<1>1. s \in Slots(h) /\ s # Nowhere
  BY DEF Usable
<1>2. Closed(h, s, R)
  BY DEF Closed
<1>3. s[1] = "objs" \/ (s[1] = "mem" /\ s[2] \in R)
  BY <1>2 DEF Usable, Reach
<1> QED  BY <1>1, <1>3 DEF Closed

LEMMA ReachThere ==
  ASSUME NEW h, NEW s, NEW n, Lively(h, s), Reach(h, s, n)
  PROVE  n \in DOMAIN h.mem
<1>1. Closed(h, s, DOMAIN h.mem)
  BY DEF Closed, Lively, Live
<1> QED  BY <1>1 DEF Reach

\* D is only pointed to from D and from the pool.
Cut(h, s, D) ==
  \A t \in Slots(h) :
    (t # s /\ (t[1] = "objs" \/ (t[1] = "mem" /\ t[2] \notin D))) => At(h, t) \notin D

LEMMA ReachNotCut ==
  ASSUME NEW h, NEW s, NEW n, NEW D, Lively(h, s), Reach(h, s, n), Cut(h, s, D)
  PROVE  n \notin D
<1>1. Closed(h, s, DOMAIN h.mem \ D)
  <2>1. \A t \in Slots(h) : t # s => Live(h, t)
    BY DEF Lively
  <2> QED  BY <2>1 DEF Closed, Live, Cut
<1> QED  BY <1>1 DEF Reach

\* What is not in D has the JsonTypes it had, apart from s.
Leaves_(h, h2, s, D) ==
  \A t \in Slots(h) :
    (t # s /\ (t[1] = "objs" \/ (t[1] = "mem" /\ t[2] \notin D)))
      => t \in Slots(h2) /\ At(h2, t) = At(h, t)

LEMMA ReachKept ==
  ASSUME NEW h, NEW h2, NEW s, NEW n, NEW D, Reach(h, s, n), Cut(h, s, D), Leaves_(h, h2, s, D)
  PROVE  Reach(h2, s, n)
<1> SUFFICES ASSUME NEW R, Closed(h2, s, R) PROVE n \in R
  BY DEF Reach
<1>1. Closed(h, s, R \ D)
  BY DEF Closed, Cut, Leaves_
<1> QED  BY <1>1 DEF Reach

LEMMA FallsCut ==
  ASSUME NEW h, NEW s, NEW E, NEW elems, NEW C \in SUBSET DOMAIN h.mem, Right(h, s), Stands(h, E, elems),
         s \notin E \cup ElemsOf(h, C),
         NEW t \in Slots(h), t # s, t \notin E \cup ElemsOf(h, C)
  PROVE  At(h, t) \notin Falls(h.mem, elems, C)
<1> SUFFICES ASSUME At(h, t) \in Falls(h.mem, elems, C) PROVE FALSE
  OBVIOUS
<1> DEFINE q == At(h, t)
           H == Holders(h, q) \ {s}
           L == Losing(h, E, C, q)
<1>1. q \in DOMAIN h.mem /\ h.mem[q].ref <= Released(h.mem, elems, C, q)
  BY DEF Falls
<1>2. h.mem[q].ref = Cardinality(H) /\ Released(h.mem, elems, C, q) = Cardinality(L)
  BY <1>1 DEF Right, Stands
<1>3. t \in H /\ t \notin L
  BY DEF Holders, Losing
<1>4. L \subseteq H
  BY DEF Losing, Holders, ElemsOf, Stands
<1>5. IsFiniteSet(H) /\ Cardinality(H) \in Nat
  BY HoldersFinite DEF Right
<1> HIDE DEF q, H, L
<1>6. IsFiniteSet(L) /\ Cardinality(L) <= Cardinality(H)
  BY <1>4, <1>5, FS_Subset
<1>7. Cardinality(L) \in Nat
  BY <1>6, FS_CardinalityType
<1>8. Cardinality(L) = Cardinality(H)
  BY <1>1, <1>2, <1>5, <1>6, <1>7
<1>9. L = H
  BY <1>4, <1>5, <1>8, FS_Subset
<1> QED  BY <1>3, <1>9

\* What falls with a container of the pool is not what a client reaches.
OffClient(E) == \A t \in E : t[1] # "objs" /\ t[1] # "mem"
Safe(h, s) == s \in Slots(h) => (s[1] = "objs" \/ (s[1] = "mem" /\ Reach(h, s, s[2])))

LEMMA PoolCut ==
  ASSUME NEW h, NEW s, NEW E, NEW elems, NEW C \in SUBSET DOMAIN h.mem, Right(h, s), Stands(h, E, elems),
         C \subseteq Falls(h.mem, elems, C), s \notin E \cup ElemsOf(h, C), OffClient(E)
  PROVE  Cut(h, s, Falls(h.mem, elems, C))
<1> SUFFICES ASSUME NEW t \in Slots(h), t # s,
                    t[1] = "objs" \/ (t[1] = "mem" /\ t[2] \notin Falls(h.mem, elems, C))
             PROVE  At(h, t) \notin Falls(h.mem, elems, C)
  BY DEF Cut
<1>1. t \notin E /\ t \notin ElemsOf(h, C)
  BY DEF OffClient, ElemsOf
<1> QED  BY <1>1, FallsCut

LEMMA PoolSpares ==
  ASSUME NEW h, NEW s, NEW E, NEW elems, Right(h, s), Stands(h, E, elems), OffClient(E), Safe(h, s),
         s \notin E
  PROVE  Spares(h, s, elems)
<1> SUFFICES ASSUME NEW C \in SUBSET DOMAIN h.mem, C \subseteq Falls(h.mem, elems, C),
                    s \notin ElemsOf(h, C), s \in ElemsOf(h, Falls(h.mem, elems, C))
             PROVE  FALSE
  BY DEF Spares
<1>1. Cut(h, s, Falls(h.mem, elems, C))
  BY PoolCut
<1>2. s \in Slots(h) /\ s[1] = "mem" /\ s[2] \in Falls(h.mem, elems, C)
  BY DEF ElemsOf
<1>3. Reach(h, s, s[2]) /\ Lively(h, s)
  BY <1>2 DEF Safe, Right, Lively
<1> QED  BY <1>1, <1>2, <1>3, ReachNotCut

(* Where JsonTypes are.                                                    *)

IsVariable(h, t) == \E x \in DOMAIN h.objs : t = Variable(x)
IsElement(h, t) == \E n \in DOMAIN h.mem : \E k \in DOMAIN Elements(h.mem[n]) : t = Element(n, k)
IsPooled(h, t) ==
  \E c \in Containers : \E i \in DOMAIN h.pool[c] : \E k \in DOMAIN h.pool[c][i] : t = Pooled(c, i, k)

LEMMA SlotIs ==
  ASSUME NEW h, NEW t
  PROVE  t \in Slots(h) <=> IsVariable(h, t) \/ IsElement(h, t) \/ IsPooled(h, t)
<1>1. t \in {Variable(x) : x \in DOMAIN h.objs} <=> IsVariable(h, t)
  BY DEF IsVariable
<1>2. t \in InMemory(h.mem) <=> IsElement(h, t)
  BY DEF IsElement, InMemory
<1>3. t \in InPool(h.pool) <=> IsPooled(h, t)
  <2> DEFINE In1(c, i) == {Pooled(c, i, k) : k \in DOMAIN h.pool[c][i]}
             In2(c) == UNION {In1(c, i) : i \in DOMAIN h.pool[c]}
  <2>1. t \in InPool(h.pool) <=> \E c \in Containers : t \in In2(c)
    BY DEF InPool
  <2>2. \A c : t \in In2(c) <=> \E i \in DOMAIN h.pool[c] : t \in In1(c, i)
    OBVIOUS
  <2>3. \A c, i : t \in In1(c, i) <=> \E k \in DOMAIN h.pool[c][i] : t = Pooled(c, i, k)
    BY Zenon
  <2> HIDE DEF In1, In2
  <2> QED  BY <2>1, <2>2, <2>3 DEF IsPooled
<1>4. t \in Slots(h) <=> t \in {Variable(x) : x \in DOMAIN h.objs} \/ t \in InMemory(h.mem) \/ t \in InPool(h.pool)
  BY DEF Slots
<1> QED  BY <1>1, <1>2, <1>3, <1>4

LEMMA ElementIs ==
  ASSUME NEW h, NEW n, NEW k
  PROVE  /\ Element(n, k)[1] = "mem" /\ Element(n, k)[2] = n /\ Element(n, k)[3] = k
         /\ Element(n, k) \in Slots(h) <=> n \in DOMAIN h.mem /\ k \in DOMAIN Elements(h.mem[n])
         /\ At(h, Element(n, k)) = h.mem[n].data[k]
<1>1. Element(n, k)[1] = "mem" /\ Element(n, k)[2] = n /\ Element(n, k)[3] = k
  BY DEF Element
<1>2. ~IsVariable(h, Element(n, k)) /\ ~IsPooled(h, Element(n, k))
  BY DEF IsVariable, IsPooled, Element, Variable, Pooled, Containers
<1>3. IsElement(h, Element(n, k)) <=> n \in DOMAIN h.mem /\ k \in DOMAIN Elements(h.mem[n])
  BY DEF IsElement, Element
<1>4. At(h, Element(n, k)) = h.mem[n].data[k]
  BY <1>1 DEF At
<1> QED  BY <1>1, <1>2, <1>3, <1>4, SlotIs

LEMMA VariableIs ==
  ASSUME NEW h, NEW x
  PROVE  /\ Variable(x)[1] = "objs" /\ Variable(x)[2] = NoNode /\ Variable(x)[3] = x
         /\ Variable(x) \in Slots(h) <=> x \in DOMAIN h.objs
         /\ At(h, Variable(x)) = h.objs[x]
<1>1. Variable(x)[1] = "objs" /\ Variable(x)[2] = NoNode /\ Variable(x)[3] = x
  BY DEF Variable
<1>2. ~IsElement(h, Variable(x)) /\ ~IsPooled(h, Variable(x))
  BY DEF IsElement, IsPooled, Element, Variable, Pooled, Containers
<1>3. IsVariable(h, Variable(x)) <=> x \in DOMAIN h.objs
  BY DEF IsVariable, Variable
<1>4. At(h, Variable(x)) = h.objs[x]
  BY <1>1 DEF At
<1> QED  BY <1>1, <1>2, <1>3, <1>4, SlotIs

LEMMA PooledIs ==
  ASSUME NEW h, NEW c \in Containers, NEW i, NEW k
  PROVE  /\ Pooled(c, i, k)[1] = c /\ Pooled(c, i, k)[2] = i /\ Pooled(c, i, k)[3] = k
         /\ Pooled(c, i, k) \in Slots(h) <=> i \in DOMAIN h.pool[c] /\ k \in DOMAIN h.pool[c][i]
         /\ At(h, Pooled(c, i, k)) = h.pool[c][i][k]
         /\ c # "mem" /\ c # "objs"
<1>1. Pooled(c, i, k)[1] = c /\ Pooled(c, i, k)[2] = i /\ Pooled(c, i, k)[3] = k
  BY DEF Pooled
<1>2. ~IsElement(h, Pooled(c, i, k)) /\ ~IsVariable(h, Pooled(c, i, k))
  BY DEF IsElement, IsVariable, Element, Variable, Pooled, Containers
<1>3. IsPooled(h, Pooled(c, i, k)) <=> i \in DOMAIN h.pool[c] /\ k \in DOMAIN h.pool[c][i]
  BY DEF IsPooled, Pooled
<1>4. At(h, Pooled(c, i, k)) = h.pool[c][i][k]
  BY <1>1 DEF At, Containers
<1> QED  BY <1>1, <1>2, <1>3, <1>4, SlotIs DEF Containers

LEMMA NoSlot ==
  ASSUME NEW h
  PROVE  Nowhere \notin Slots(h)
<1>1. ~IsVariable(h, Nowhere) /\ ~IsElement(h, Nowhere) /\ ~IsPooled(h, Nowhere)
  BY DEF IsVariable, IsElement, IsPooled, Element, Variable, Pooled, Containers, Nowhere
<1> QED  BY <1>1, SlotIs

\* Every JsonType is one of the three.
LEMMA SlotCases ==
  ASSUME NEW h, NEW t \in Slots(h)
  PROVE  \/ \E x \in DOMAIN h.objs : t = Variable(x)
         \/ \E n \in DOMAIN h.mem : \E k \in DOMAIN Elements(h.mem[n]) : t = Element(n, k)
         \/ \E c \in Containers : \E i \in DOMAIN h.pool[c] : \E k \in DOMAIN h.pool[c][i] :
              t = Pooled(c, i, k)
BY SlotIs DEF IsVariable, IsElement, IsPooled

(* The parts of a heap after each of the steps that the operations take.   *)

\* Two heaps with the same JsonTypes.
SameNode(v, w) == w.type = v.type /\ w.data = v.data
SameNodes(h, h2, N) == \A n \in N : SameNode(h.mem[n], h2.mem[n])

LEMMA SameSlots ==
  ASSUME NEW h, NEW h2, h2.objs = h.objs, h2.pool = h.pool, DOMAIN h2.mem = DOMAIN h.mem,
         SameNodes(h, h2, DOMAIN h.mem)
  PROVE  Slots(h2) = Slots(h) /\ SameBut(h, h2, Nowhere)
<1>1. \A n \in DOMAIN h.mem : Elements(h2.mem[n]) = Elements(h.mem[n])
  BY DEF SameNodes, SameNode, Elements
<1>2. \A t : IsElement(h2, t) <=> IsElement(h, t)
  BY <1>1 DEF IsElement
<1>3. \A t : /\ IsVariable(h2, t) <=> IsVariable(h, t)
             /\ IsPooled(h2, t) <=> IsPooled(h, t)
  BY DEF IsVariable, IsPooled
<1>4. \A t : t \in Slots(h2) <=> t \in Slots(h)
  BY <1>2, <1>3, SlotIs
<1>5. ASSUME NEW t \in Slots(h)
      PROVE  At(h2, t) = At(h, t)
  <2>1. CASE \E x \in DOMAIN h.objs : t = Variable(x)
    BY <2>1, VariableIs
  <2>2. CASE \E n \in DOMAIN h.mem : \E k \in DOMAIN Elements(h.mem[n]) : t = Element(n, k)
    <3>1. PICK n \in DOMAIN h.mem : \E k : t = Element(n, k)
      BY <2>2
    <3>2. h2.mem[n].data = h.mem[n].data
      BY DEF SameNodes, SameNode
    <3> QED  BY <3>1, <3>2, ElementIs
  <2>3. CASE \E c \in Containers : \E i \in DOMAIN h.pool[c] : \E k \in DOMAIN h.pool[c][i] :
               t = Pooled(c, i, k)
    BY <2>3, PooledIs
  <2> QED  BY <2>1, <2>2, <2>3, SlotCases
<1> QED  BY <1>4, <1>5 DEF SameBut

\* The parts of h after an assignment to one of them.
Record(h) == h = [objs |-> h.objs, mem |-> h.mem, pool |-> h.pool, ok |-> h.ok]
SetMem(h, m) == [h EXCEPT !.mem = m]
SetObjs(h, o) == [h EXCEPT !.objs = o]
SetPool(h, p) == [h EXCEPT !.pool = p]

LEMMA PartsOf ==
  ASSUME NEW o, NEW m, NEW p, NEW b,
         NEW h, h = [objs |-> o, mem |-> m, pool |-> p, ok |-> b]
  PROVE  h.objs = o /\ h.mem = m /\ h.pool = p /\ h.ok = b /\ Record(h)
BY Zenon DEF Record

LEMMA PartsSet ==
  ASSUME NEW o, NEW m, NEW p, NEW b, NEW x,
         NEW h, h = [objs |-> o, mem |-> m, pool |-> p, ok |-> b]
  PROVE  /\ SetMem(h, x) = [objs |-> o, mem |-> x, pool |-> p, ok |-> b]
         /\ SetObjs(h, x) = [objs |-> x, mem |-> m, pool |-> p, ok |-> b]
         /\ SetPool(h, x) = [objs |-> o, mem |-> m, pool |-> x, ok |-> b]
         /\ [h EXCEPT !.ok = x] = [objs |-> o, mem |-> m, pool |-> p, ok |-> x]
BY SMT DEF SetMem, SetObjs, SetPool

LEMMA Parts ==
  ASSUME NEW h, Record(h), NEW x
  PROVE  /\ /\ Record(SetMem(h, x)) /\ SetMem(h, x).mem = x
            /\ SetMem(h, x).objs = h.objs /\ SetMem(h, x).pool = h.pool /\ SetMem(h, x).ok = h.ok
         /\ /\ Record(SetObjs(h, x)) /\ SetObjs(h, x).objs = x
            /\ SetObjs(h, x).mem = h.mem /\ SetObjs(h, x).pool = h.pool /\ SetObjs(h, x).ok = h.ok
         /\ /\ Record(SetPool(h, x)) /\ SetPool(h, x).pool = x
            /\ SetPool(h, x).mem = h.mem /\ SetPool(h, x).objs = h.objs /\ SetPool(h, x).ok = h.ok
         /\ [h EXCEPT !.ok = x].ok = x
<1>1. \E o, m, p, b : h = [objs |-> o, mem |-> m, pool |-> p, ok |-> b]
  BY Zenon DEF Record
<1>2. PICK o, m, p, b : h = [objs |-> o, mem |-> m, pool |-> p, ok |-> b]
  BY <1>1
<1>3. h.objs = o /\ h.mem = m /\ h.pool = p /\ h.ok = b
  BY <1>2, PartsOf
<1>4. /\ SetMem(h, x) = [objs |-> o, mem |-> x, pool |-> p, ok |-> b]
      /\ SetObjs(h, x) = [objs |-> x, mem |-> m, pool |-> p, ok |-> b]
      /\ SetPool(h, x) = [objs |-> o, mem |-> m, pool |-> x, ok |-> b]
      /\ [h EXCEPT !.ok = x] = [objs |-> o, mem |-> m, pool |-> p, ok |-> x]
  BY <1>2, PartsSet
<1> HIDE DEF SetMem, SetObjs, SetPool
<1>5. [h EXCEPT !.ok = x].ok = x
  BY <1>4, PartsOf
<1> QED  BY <1>3, <1>4, <1>5, PartsOf

LEMMA NodeSet ==
  ASSUME NEW t, NEW r, NEW d, NEW x, NEW v, v = [type |-> t, ref |-> r, data |-> d]
  PROVE  /\ [v EXCEPT !.ref = x] = [type |-> t, ref |-> x, data |-> d]
         /\ [v EXCEPT !.data = x] = [type |-> t, ref |-> r, data |-> x]
         /\ v.type = t /\ v.ref = r /\ v.data = d
BY SMT

LEMMA NodeParts ==
  ASSUME NEW v, v = [type |-> v.type, ref |-> v.ref, data |-> v.data], NEW x
  PROVE  /\ [v EXCEPT !.ref = x] = [type |-> v.type, ref |-> x, data |-> v.data]
         /\ [v EXCEPT !.data = x] = [type |-> v.type, ref |-> v.ref, data |-> x]
<1>1. \E t, r, d : v = [type |-> t, ref |-> r, data |-> d]
  BY Zenon
<1>2. PICK t, r, d : v = [type |-> t, ref |-> r, data |-> d]
  BY <1>1
<1> QED  BY <1>2, NodeSet

\* h2 is h with another count of n.
Recounted(h, h2, n, r) ==
  /\ Shape(h2) /\ Slots(h2) = Slots(h) /\ SameBut(h, h2, Nowhere)
  /\ DOMAIN h2.mem = DOMAIN h.mem /\ SameRefs(h, h2, {n}) /\ SameNodes(h, h2, DOMAIN h.mem)
  /\ h2.mem[n].ref = r /\ h2.objs = h.objs /\ h2.pool = h.pool /\ h2.ok = h.ok

LEMMA CountedIs ==
  ASSUME NEW h, Shape(h), NEW n \in DOMAIN h.mem, NEW d, NEW r \in Nat,
         r = (h.mem[n].ref + d) % RefLimit
  PROVE  Recounted(h, SetMem(h, Counted(h.mem, n, d)), n, r)
<1> DEFINE h2 == SetMem(h, Counted(h.mem, n, d))
           v == h.mem[n]
           w == [type |-> v.type, ref |-> r, data |-> v.data]
<1>1. Record(h) /\ NodeOK(h.mem[n])
  BY DEF Shape, Record
<1>2. /\ Record(h2) /\ h2.mem = Counted(h.mem, n, d)
      /\ h2.objs = h.objs /\ h2.pool = h.pool /\ h2.ok = h.ok
  BY <1>1, Parts
<1>3. [v EXCEPT !.ref = (v.ref + d) % RefLimit] = w
  BY <1>1, NodeParts DEF NodeOK
<1>4. h.mem = [q \in DOMAIN h.mem |-> h.mem[q]]
  BY DEF Shape
<1>5. Counted(h.mem, n, d) = [q \in DOMAIN h.mem |-> IF q = n THEN w ELSE h.mem[q]]
  BY <1>3, <1>4, Zenon DEF Counted
<1> HIDE DEF h2
<1>6. /\ DOMAIN h2.mem = DOMAIN h.mem /\ h2.mem = [q \in DOMAIN h2.mem |-> h2.mem[q]]
      /\ h2.mem[n] = w /\ \A q \in DOMAIN h.mem : q # n => h2.mem[q] = h.mem[q]
  BY <1>2, <1>5
<1>7. w.type = v.type /\ w.data = v.data /\ w.ref = r
  BY Zenon
<1>8. NodeOK(w)
  BY <1>1, <1>7 DEF NodeOK
<1>9. SameNodes(h, h2, DOMAIN h.mem) /\ SameRefs(h, h2, {n}) /\ h2.mem[n].ref = r
  BY <1>6, <1>7 DEF SameNodes, SameNode, SameRefs
<1>10. Shape(h2)
  BY <1>2, <1>6, <1>8 DEF Shape, Record
<1>11. Recounted(h, h2, n, r)
  BY <1>2, <1>6, <1>9, <1>10, SameSlots DEF Recounted
<1> QED  BY <1>11 DEF h2

LEMMA Opened ==
  ASSUME NEW h, Record(h)
  PROVE  \E o, m, p, b : /\ h = [objs |-> o, mem |-> m, pool |-> p, ok |-> b]
                         /\ h.objs = o /\ h.mem = m /\ h.pool = p /\ h.ok = b
<1>1. \E o, m, p, b : h = [objs |-> o, mem |-> m, pool |-> p, ok |-> b]
  BY Zenon DEF Record
<1>2. PICK o, m, p, b : h = [objs |-> o, mem |-> m, pool |-> p, ok |-> b]
  BY <1>1
<1>3. h.objs = o /\ h.mem = m /\ h.pool = p /\ h.ok = b
  BY <1>2, PartsOf
<1> QED  BY <1>2, <1>3

\* s can point to something: it is a variable, an element, or a new key of a dict.
RoomFor(node, k) ==
  /\ node.type \in Containers /\ k \in Places
  /\ k \in DOMAIN node.data \/ (node.type = "dict" /\ k \in Keys)
Room(h, s) ==
  \/ \E x \in DOMAIN h.objs : s = Variable(x)
  \/ \E n \in DOMAIN h.mem : \E k \in Places : s = Element(n, k) /\ RoomFor(h.mem[n], k)

\* h2 is h with s pointing to v.
Pointed(h, h2, s, v) ==
  /\ Shape(h2) /\ Slots(h2) = Slots(h) \cup {s} /\ At(h2, s) = v /\ SameBut(h, h2, s)
  /\ DOMAIN h2.mem = DOMAIN h.mem /\ SameRefs(h, h2, {})
  /\ DOMAIN h2.objs = DOMAIN h.objs /\ \A x \in DOMAIN h.objs : Variable(x) # s => h2.objs[x] = h.objs[x]
  /\ h2.pool = h.pool /\ h2.ok = h.ok
  /\ \A q \in DOMAIN h.mem : h2.mem[q].type = h.mem[q].type
  /\ \A q \in DOMAIN h.mem : (s[1] = "objs" \/ q # s[2]) => h2.mem[q].data = h.mem[q].data
  /\ \A q \in DOMAIN h.mem : DOMAIN h.mem[q].data \subseteq DOMAIN h2.mem[q].data

Fun(c) == c = [l \in DOMAIN c |-> c[l]]

IsWith(c, k, v, d) ==
  /\ DOMAIN d = DOMAIN c \cup {k} /\ d[k] = v
  /\ \A l \in DOMAIN c : l # k => d[l] = c[l]
  /\ Fun(d)

LEMMA WithIs ==
  ASSUME NEW c, NEW k, NEW v
  PROVE  IsWith(c, k, v, With(c, k, v))
BY DEF With, Fun, IsWith

LEMMA InElems ==
  ASSUME NEW c, Fun(c), DOMAIN c \subseteq Places,
         \A l \in DOMAIN c : c[l] \in Nat
  PROVE  c \in Elems
<1>1. c \in [DOMAIN c -> Nat]
  BY DEF Fun
<1> QED  BY <1>1 DEF Elems

LEMMA OfElems ==
  ASSUME NEW c \in Elems
  PROVE  /\ Fun(c) /\ DOMAIN c \subseteq Places
         /\ \A l \in DOMAIN c : c[l] \in Nat
         /\ IsFiniteSet(DOMAIN c)
<1>1. PICK S \in SUBSET Places : c \in [S -> Nat]
  BY DEF Elems
<1>2. IsFiniteSet(DOMAIN c)
  BY <1>1, JsonAssumption, FS_Subset
<1>3. Fun(c)
  BY <1>1 DEF Fun
<1> QED  BY <1>1, <1>2, <1>3

LEMMA PointVariable ==
  ASSUME NEW h, Shape(h), NEW x \in DOMAIN h.objs, NEW v \in Nat
  PROVE  Pointed(h, Point(h, Variable(x), v), Variable(x), v)
<1> DEFINE s == Variable(x)
           h2 == Point(h, s, v)
           o2 == With(h.objs, x, v)
<1>1. Record(h) /\ s[1] = "objs" /\ s[3] = x
  BY VariableIs DEF Shape, Record
<1>2. h2 = SetObjs(h, o2)
  <2>1. PICK o, m, p, b : h = [objs |-> o, mem |-> m, pool |-> p, ok |-> b] /\ h.objs = o
    BY <1>1, Opened
  <2> QED  BY <1>1, <2>1 DEF Point, SetObjs
<1>3. /\ Record(h2) /\ h2.objs = o2 /\ h2.mem = h.mem /\ h2.pool = h.pool /\ h2.ok = h.ok
  BY <1>1, <1>2, Parts
<1> HIDE DEF h2, s, o2
<1>4. /\ DOMAIN o2 = DOMAIN h.objs /\ o2[x] = v /\ \A l \in DOMAIN h.objs : l # x => o2[l] = h.objs[l]
      /\ Fun(o2)
  <2>1. IsWith(h.objs, x, v, o2)
    BY WithIs DEF o2
  <2> QED  BY <2>1 DEF IsWith
<1>5. o2 \in [Vars \cup {Null} -> Nat]
  BY <1>4 DEF Shape, Fun
<1>6. Shape(h2)
  BY <1>3, <1>5 DEF Shape, Record
<1>7. Slots(h2) = Slots(h) \cup {s}
  <2>1. \A t : IsVariable(h2, t) <=> IsVariable(h, t)
    BY <1>3, <1>4 DEF IsVariable
  <2>2. \A t : (IsElement(h2, t) <=> IsElement(h, t)) /\ (IsPooled(h2, t) <=> IsPooled(h, t))
    BY <1>3 DEF IsElement, IsPooled
  <2>3. s \in Slots(h)
    BY VariableIs DEF s
  <2> QED  BY <2>1, <2>2, <2>3, SlotIs
<1>8. At(h2, s) = v
  BY <1>3, <1>4, VariableIs DEF s
<1>9. ASSUME NEW t \in Slots(h), t # s
      PROVE  At(h2, t) = At(h, t)
  <2>1. CASE \E y \in DOMAIN h.objs : t = Variable(y)
    <3>1. PICK y \in DOMAIN h.objs : t = Variable(y)
      BY <2>1
    <3>2. y # x
      BY <1>9, <3>1 DEF s
    <3> QED  BY <1>3, <1>4, <3>1, <3>2, VariableIs
  <2>2. CASE \E n \in DOMAIN h.mem : \E k \in DOMAIN Elements(h.mem[n]) : t = Element(n, k)
    BY <1>3, <2>2, ElementIs
  <2>3. CASE \E c \in Containers : \E i \in DOMAIN h.pool[c] : \E k \in DOMAIN h.pool[c][i] :
               t = Pooled(c, i, k)
    BY <1>3, <2>3, PooledIs
  <2> QED  BY <2>1, <2>2, <2>3, SlotCases
<1>10. \A y \in DOMAIN h.objs : Variable(y) # s => h2.objs[y] = h.objs[y]
  BY <1>3, <1>4 DEF s
<1>11. Pointed(h, h2, s, v)
  BY <1>3, <1>4, <1>6, <1>7, <1>8, <1>9, <1>10 DEF Pointed, SameBut, SameRefs
<1> QED  BY <1>11 DEF h2, s

LEMMA PointElement ==
  ASSUME NEW h, Shape(h), NEW n \in DOMAIN h.mem, NEW k, RoomFor(h.mem[n], k), NEW v \in Nat
  PROVE  Pointed(h, Point(h, Element(n, k), v), Element(n, k), v)
<1> DEFINE s == Element(n, k)
           h2 == Point(h, s, v)
           c == h.mem[n].data
           d == With(c, k, v)
           w == [type |-> h.mem[n].type, ref |-> h.mem[n].ref, data |-> d]
<1>1. Record(h) /\ s[1] = "mem" /\ s[2] = n /\ s[3] = k
  <2>1. Record(h)
    BY DEF Shape, Record
  <2> QED  BY <2>1, ElementIs
<1>2. NodeOK(h.mem[n]) /\ h.mem = [q \in DOMAIN h.mem |-> h.mem[q]]
  BY DEF Shape
<1>3. h2 = SetMem(h, [q \in DOMAIN h.mem |-> IF q = n THEN w ELSE h.mem[q]])
  <2>1. PICK o, m, p, b : h = [objs |-> o, mem |-> m, pool |-> p, ok |-> b] /\ h.mem = m
    BY <1>1, Opened
  <2>2. h2 = [h EXCEPT !.mem[n].data = With(@, k, v)]
    BY <1>1 DEF Point
  <2>3. [h EXCEPT !.mem[n].data = With(@, k, v)] = SetMem(h, [m EXCEPT ![n].data = With(@, k, v)])
    BY <2>1 DEF SetMem
  <2>4. [m EXCEPT ![n].data = With(@, k, v)] = [m EXCEPT ![n] = [m[n] EXCEPT !.data = d]]
    BY <2>1
  <2>5. [m[n] EXCEPT !.data = d] = w
    BY <1>2, <2>1, NodeParts DEF NodeOK
  <2>6. [m EXCEPT ![n] = w] = [q \in DOMAIN h.mem |-> IF q = n THEN w ELSE h.mem[q]]
    BY <1>2, <2>1, Zenon
  <2> QED  BY <2>2, <2>3, <2>4, <2>5, <2>6
<1>4. /\ Record(h2) /\ h2.mem = [q \in DOMAIN h.mem |-> IF q = n THEN w ELSE h.mem[q]]
      /\ h2.objs = h.objs /\ h2.pool = h.pool /\ h2.ok = h.ok
  BY <1>1, <1>3, Parts
<1> HIDE DEF h2, s, d
<1>5. w.type = h.mem[n].type /\ w.ref = h.mem[n].ref /\ w.data = d
  BY Zenon
<1>6. w = [type |-> w.type, ref |-> w.ref, data |-> w.data]
  BY <1>5
<1> HIDE DEF w
<1>7. /\ DOMAIN h2.mem = DOMAIN h.mem /\ h2.mem = [q \in DOMAIN h2.mem |-> h2.mem[q]]
      /\ h2.mem[n] = w /\ \A q \in DOMAIN h.mem : q # n => h2.mem[q] = h.mem[q]
  BY <1>4
<1>8. /\ DOMAIN d = DOMAIN c \cup {k} /\ d[k] = v /\ \A l \in DOMAIN c : l # k => d[l] = c[l]
      /\ Fun(d)
  <2>1. IsWith(c, k, v, d)
    BY WithIs DEF d
  <2> QED  BY <2>1 DEF IsWith
<1>9. /\ h.mem[n].type \in Containers /\ k \in Places
      /\ k \in DOMAIN c \/ (h.mem[n].type = "dict" /\ k \in Keys)
  BY DEF RoomFor
<1>10. FitsType(w.type, w.data)
  <2>1. c \in Elems /\ FitsType(h.mem[n].type, c)
    BY <1>2, <1>9 DEF NodeOK, FitsType
  <2>2. d \in Elems
    <3>1. DOMAIN c \subseteq Places /\ \A l \in DOMAIN c : c[l] \in Nat
      BY <2>1, OfElems
    <3>2. DOMAIN d \subseteq Places /\ \A l \in DOMAIN d : d[l] \in Nat
      BY <1>8, <1>9, <3>1
    <3> QED  BY <1>8, <3>2, InElems
  <2>3. w.type = "list" => \E l \in Nat : DOMAIN d = 0..l - 1
    <3>1. ASSUME w.type = "list"
          PROVE  DOMAIN d = DOMAIN c
      BY <1>5, <1>8, <1>9, <3>1
    <3> QED  BY <1>5, <1>9, <2>1, <3>1 DEF FitsType
  <2>4. w.type = "dict" => DOMAIN d \subseteq Keys
    <3>1. ASSUME w.type = "dict"
          PROVE  DOMAIN c \subseteq Keys
      BY <1>5, <1>9, <2>1, <3>1 DEF FitsType
    <3>2. ASSUME w.type = "dict", k \in DOMAIN c
          PROVE  k \in Keys
      BY <3>1, <3>2
    <3> QED  BY <1>8, <1>9, <3>1, <3>2
  <2> QED  BY <1>5, <2>2, <2>3, <2>4 DEF FitsType
<1>11. Shape(h2)
  <2>1. NodeOK(w)
    BY <1>2, <1>5, <1>6, <1>10 DEF NodeOK
  <2> QED  BY <1>4, <1>7, <2>1 DEF Shape, Record
<1>12. Elements(w) = d /\ Elements(h.mem[n]) = c
  BY <1>5, <1>9 DEF Elements
<1>13. \A q \in DOMAIN h.mem : q # n => Elements(h2.mem[q]) = Elements(h.mem[q])
  BY <1>7
<1>14. Slots(h2) = Slots(h) \cup {s}
  <2>1. \A t : (IsVariable(h2, t) <=> IsVariable(h, t)) /\ (IsPooled(h2, t) <=> IsPooled(h, t))
    BY <1>4 DEF IsVariable, IsPooled
  <2>2. \A t : IsElement(h2, t) <=> IsElement(h, t) \/ t = s
    <3>1. SUFFICES ASSUME NEW t PROVE IsElement(h2, t) <=> IsElement(h, t) \/ t = s
      OBVIOUS
    <3>2. ASSUME NEW q \in DOMAIN h.mem, NEW l
          PROVE  l \in DOMAIN Elements(h2.mem[q]) <=>
                   l \in DOMAIN Elements(h.mem[q]) \/ (q = n /\ l = k)
      BY <1>7, <1>8, <1>12, <1>13
    <3> QED  BY <1>7, <3>2 DEF IsElement, s
  <2> QED  BY <2>1, <2>2, SlotIs
<1>15. At(h2, s) = v
  BY <1>5, <1>7, <1>8, ElementIs DEF s
<1>16. ASSUME NEW t \in Slots(h), t # s
       PROVE  At(h2, t) = At(h, t)
  <2>1. CASE \E y \in DOMAIN h.objs : t = Variable(y)
    BY <1>4, <2>1, VariableIs
  <2>2. CASE \E q \in DOMAIN h.mem : \E l \in DOMAIN Elements(h.mem[q]) : t = Element(q, l)
    <3>1. PICK q \in DOMAIN h.mem : \E l \in DOMAIN Elements(h.mem[q]) : t = Element(q, l)
      BY <2>2
    <3>2. PICK l \in DOMAIN Elements(h.mem[q]) : t = Element(q, l)
      BY <3>1
    <3>3. q # n \/ l # k
      BY <1>16, <3>2 DEF s
    <3>4. h2.mem[q].data[l] = h.mem[q].data[l]
      BY <1>5, <1>7, <1>8, <1>12, <3>2, <3>3
    <3> QED  BY <3>2, <3>4, ElementIs
  <2>3. CASE \E e \in Containers : \E i \in DOMAIN h.pool[e] : \E l \in DOMAIN h.pool[e][i] :
               t = Pooled(e, i, l)
    BY <1>4, <2>3, PooledIs
  <2> QED  BY <2>1, <2>2, <2>3, SlotCases
<1>17. SameRefs(h, h2, {}) /\ \A q \in DOMAIN h.mem : h2.mem[q].type = h.mem[q].type
  BY <1>5, <1>7 DEF SameRefs
<1>18. /\ \A q \in DOMAIN h.mem : (s[1] = "objs" \/ q # s[2]) => h2.mem[q].data = h.mem[q].data
       /\ \A q \in DOMAIN h.mem : DOMAIN h.mem[q].data \subseteq DOMAIN h2.mem[q].data
  BY <1>1, <1>5, <1>7, <1>8
<1>19. Pointed(h, h2, s, v)
  BY <1>4, <1>7, <1>11, <1>14, <1>15, <1>16, <1>17, <1>18 DEF Pointed, SameBut
<1> QED  BY <1>19 DEF h2, s

LEMMA PointIs ==
  ASSUME NEW h, Shape(h), NEW s, Room(h, s), NEW v \in Nat
  PROVE  Pointed(h, Point(h, s, v), s, v)
BY PointVariable, PointElement DEF Room

(* New nodes.                                                              *)

NoElements(type, data) == type \notin Containers \/ data = Empty

LEMMA EmptyIs == Empty \in Elems /\ DOMAIN Empty = {} /\ DOMAIN Empty = 0..0 - 1
<1>1. DOMAIN Empty = {} /\ Fun(Empty)
  BY DEF Empty, Fun
<1>2. Empty \in Elems
  BY <1>1, InElems
<1> QED  BY <1>1, <1>2

LEMMA NewNode ==
  ASSUME NEW type, NEW data, NoElements(type, data)
  PROVE  LET v == SharedJsonVal(type, data)
         IN  /\ NodeOK(v) /\ v.type = type /\ v.ref = 1 /\ v.data = data
             /\ DOMAIN Elements(v) = {}
<1> DEFINE v == SharedJsonVal(type, data)
<1>1. v = [type |-> type, ref |-> 1, data |-> data]
  BY Zenon DEF SharedJsonVal
<1>2. v.type = type /\ v.ref = 1 /\ v.data = data
  BY <1>1
<1>3. v = [type |-> v.type, ref |-> v.ref, data |-> v.data]
  BY <1>1, <1>2
<1> HIDE DEF v
<1>4. FitsType(v.type, v.data)
  <2>1. SUFFICES ASSUME type \in Containers PROVE FitsType(v.type, v.data)
    BY <1>2 DEF FitsType
  <2>2. v.data \in Elems /\ DOMAIN v.data = 0..0 - 1 /\ DOMAIN v.data = {}
    BY <1>2, <2>1, EmptyIs DEF NoElements
  <2>3. \E l \in Nat : DOMAIN v.data = 0..l - 1
    BY <2>2
  <2> QED  BY <2>2, <2>3 DEF FitsType
<1>5. DOMAIN Elements(v) = {}
  BY <1>2, EmptyIs DEF Elements, NoElements
<1> QED  BY <1>2, <1>3, <1>4, <1>5 DEF NodeOK, v

\* h2 is h with the new nodes N, which have no elements and nobody points to yet.
Extended(h, h2, N, type, data) ==
  /\ Shape(h2) /\ Slots(h2) = Slots(h) /\ SameBut(h, h2, Nowhere)
  /\ DOMAIN h2.mem = DOMAIN h.mem \cup N
  /\ \A q \in DOMAIN h.mem : h2.mem[q] = h.mem[q]
  /\ \A q \in N : h2.mem[q].type = type /\ h2.mem[q].ref = 1 /\ h2.mem[q].data = data
  /\ h2.objs = h.objs /\ h2.pool = h.pool /\ h2.ok = h.ok

\* A heap that is h, and has the nodes N too.
LEMMA ExtendedIs ==
  ASSUME NEW h, NEW h2, NEW N, NEW type, NEW data, NoElements(type, data), Shape(h),
         Record(h2), h2.objs = h.objs, h2.pool = h.pool, h2.ok = h.ok,
         Fun(h2.mem), DOMAIN h2.mem = DOMAIN h.mem \cup N, N \cap DOMAIN h.mem = {},
         \A q \in DOMAIN h.mem : h2.mem[q] = h.mem[q],
         \A q \in N : h2.mem[q] = SharedJsonVal(type, data),
         \E b \in Nat : N \subseteq 1..b
  PROVE  Extended(h, h2, N, type, data)
<1> DEFINE v == SharedJsonVal(type, data)
<1>1. NodeOK(v) /\ v.type = type /\ v.ref = 1 /\ v.data = data /\ DOMAIN Elements(v) = {}
  BY NewNode
<1> HIDE DEF v
<1>2. \A q \in N : h2.mem[q] = v
  BY DEF v
<1>3. Shape(h2)
  <2>1. PICK b \in Nat : N \subseteq 1..b
    OBVIOUS
  <2>2. PICK d \in Nat : DOMAIN h.mem \subseteq 1..d
    BY DEF Shape
  <2>3. DOMAIN h2.mem \subseteq 1..b + d
    <3>1. SUFFICES ASSUME NEW q \in DOMAIN h2.mem PROVE q \in 1..b + d
      OBVIOUS
    <3>2. q \in 1..b \/ q \in 1..d
      BY <2>1, <2>2
    <3> QED  BY <3>2
  <2>4. \A q \in DOMAIN h2.mem : NodeOK(h2.mem[q])
    BY <1>1, <1>2 DEF Shape
  <2>5. \E e \in Nat : DOMAIN h2.mem \subseteq 1..e
    BY <2>1, <2>2, <2>3
  <2> QED  BY <2>4, <2>5 DEF Shape, Record, Fun
<1>4. \A t : IsElement(h2, t) <=> IsElement(h, t)
  <2>1. \A q \in N : DOMAIN Elements(h2.mem[q]) = {}
    BY <1>1, <1>2
  <2> QED  BY <2>1 DEF IsElement
<1>5. \A t : (IsVariable(h2, t) <=> IsVariable(h, t)) /\ (IsPooled(h2, t) <=> IsPooled(h, t))
  BY DEF IsVariable, IsPooled
<1>6. Slots(h2) = Slots(h)
  BY <1>4, <1>5, SlotIs
<1>7. ASSUME NEW t \in Slots(h)
      PROVE  At(h2, t) = At(h, t)
  <2>1. CASE \E x \in DOMAIN h.objs : t = Variable(x)
    BY <2>1, VariableIs
  <2>2. CASE \E n \in DOMAIN h.mem : \E k \in DOMAIN Elements(h.mem[n]) : t = Element(n, k)
    <3>1. PICK n \in DOMAIN h.mem : \E k : t = Element(n, k)
      BY <2>2
    <3>2. h2.mem[n] = h.mem[n]
      OBVIOUS
    <3> QED  BY <3>1, <3>2, ElementIs
  <2>3. CASE \E c \in Containers : \E i \in DOMAIN h.pool[c] : \E k \in DOMAIN h.pool[c][i] :
               t = Pooled(c, i, k)
    BY <2>3, PooledIs
  <2> QED  BY <2>1, <2>2, <2>3, SlotCases
<1>8. \A q \in N : h2.mem[q].type = type /\ h2.mem[q].ref = 1 /\ h2.mem[q].data = data
  BY <1>1, <1>2
<1> QED  BY <1>3, <1>6, <1>7, <1>8 DEF Extended, SameBut

LEMMA AddedIs ==
  ASSUME NEW h, NEW N, NEW type, NEW data, NoElements(type, data), Shape(h),
         N \cap DOMAIN h.mem = {}, \E b \in Nat : N \subseteq 1..b
  PROVE  Extended(h, SetMem(h, Added(h.mem, N, type, data)), N, type, data)
<1> DEFINE m == Added(h.mem, N, type, data)
           h2 == SetMem(h, m)
<1>1. /\ Fun(m) /\ DOMAIN m = DOMAIN h.mem \cup N /\ \A q \in DOMAIN h.mem : m[q] = h.mem[q]
      /\ \A q \in N : m[q] = SharedJsonVal(type, data)
  BY DEF Added, Fun
<1>2. Record(h)
  BY DEF Shape, Record
<1>3. Record(h2) /\ h2.mem = m /\ h2.objs = h.objs /\ h2.pool = h.pool /\ h2.ok = h.ok
  BY <1>2, Parts
<1> HIDE DEF m, h2
<1>4. Extended(h, h2, N, type, data)
  BY <1>1, <1>3, ExtendedIs
<1> QED  BY <1>4 DEF m, h2

\* The next number is not taken.
LEMMA FreshIs ==
  ASSUME NEW h, Shape(h), DOMAIN h.mem # {}, NEW i \in Nat
  PROVE  /\ Fresh(h.mem, i) \in Nat \ {0} /\ Fresh(h.mem, i) \notin DOMAIN h.mem
         /\ Fresh(h.mem, i) = Fresh(h.mem, 0) + i
<1> DEFINE D == DOMAIN h.mem
           Above == {b \in Nat : \A n \in D : n <= b}
<1>1. PICK b \in Nat : D \subseteq 1..b
  BY DEF Shape
<1>2. Above # {} /\ Above \in SUBSET Nat
  BY <1>1
<1> HIDE DEF Above
<1>3. PICK a \in Above : \A c \in Above : a <= c
  BY <1>2, LeastOf
<1>4. a \in Nat /\ \A n \in D : n <= a
  BY <1>3 DEF Above
<1>5. a \in D
  <2>1. SUFFICES ASSUME a \notin D PROVE FALSE
    OBVIOUS
  <2>2. D \subseteq Nat \ {0}
    BY <1>1
  <2>3. a # 0
    BY <1>4, <2>2
  <2>4. a - 1 \in Above
    BY <1>4, <2>1, <2>2, <2>3 DEF Above
  <2> QED  BY <1>3, <1>4, <2>4
<1>6. Max(D) \in D /\ \A y \in D : Max(D) >= y
  <2>1. Max(D) = CHOOSE x \in D : \A y \in D : x >= y
    BY Zenon DEF Max
  <2>2. \E x \in D : \A y \in D : x >= y
    BY <1>1, <1>4, <1>5
  <2> QED  BY <2>1, <2>2
<1>7. Max(D) \in Nat /\ Max(D) # 0
  BY <1>1, <1>6
<1>8. Fresh(h.mem, i) = Max(D) + 1 + i /\ Fresh(h.mem, 0) = Max(D) + 1 + 0
  BY DEF Fresh
<1> HIDE DEF D
<1>9. \A y \in D : Max(D) >= y
  BY <1>6
<1>10. \A y \in D : y \in Nat
  BY <1>1
<1>11. Max(D) + 1 + i \notin D
  BY <1>7, <1>9, <1>10
<1> QED  BY <1>7, <1>8, <1>11 DEF D

\* A JsonType that may be changed or made: the client has it.
Spot(h, s) == Room(h, s) /\ (s[1] = "mem" => Reach(h, s, s[2]))

\* The node n is made, and s points to it.
LEMMA Placed ==
  ASSUME NEW h, NEW h1, NEW h2, NEW s, NEW n, NEW type, NEW data,
         Right(h, s), s # Nowhere, n \notin DOMAIN h.mem, n # NoNode,
         Extended(h, h1, {n}, type, data), Pointed(h1, h2, s, n)
  PROVE  Right(h2, Nowhere)
<1>1. Nowhere \notin Slots(h) /\ Shape(h2)
  BY NoSlot DEF Pointed
<1>2. Slots(h2) = Slots(h) \cup {s} /\ At(h2, s) = n
  BY DEF Extended, Pointed
<1>3. SameBut(h, h2, s)
  <2>1. \A t \in Slots(h) : t # Nowhere => At(h1, t) = At(h, t)
    BY DEF Extended, SameBut
  <2>2. \A t \in Slots(h) : t # s => At(h2, t) = At(h1, t)
    BY DEF Extended, Pointed, SameBut
  <2> QED  BY <1>1, <2>1, <2>2 DEF SameBut
<1>4. DOMAIN h2.mem = DOMAIN h.mem \cup {n}
  BY DEF Extended, Pointed
<1>5. SameRefs(h, h2, {}) /\ h2.mem[n].ref = 1
  <2>1. \A q \in DOMAIN h1.mem : h2.mem[q].ref = h1.mem[q].ref
    BY DEF Pointed, SameRefs
  <2>2. DOMAIN h1.mem = DOMAIN h.mem \cup {n} /\ h1.mem[n].ref = 1
        /\ \A q \in DOMAIN h.mem : h1.mem[q].ref = h.mem[q].ref
    BY DEF Extended
  <2> QED  BY <2>1, <2>2 DEF SameRefs
<1> QED  BY <1>1, <1>2, <1>3, <1>4, <1>5, Given

(* GetList and GetDict.                                                    *)

LEMMA StandsIf ==
  ASSUME NEW h, NEW E, NEW elems, NEW f, Shape(h), IsFiniteSet(Slots(h)),
         E \subseteq Slots(h), \A t \in E : t[1] # "mem", IsFiniteSet(DOMAIN elems),
         Pairs(f, DOMAIN elems, E), \A k \in DOMAIN elems : At(h, f[k]) = elems[k]
  PROVE  Stands(h, E, elems)
<1> SUFFICES ASSUME NEW D \in SUBSET DOMAIN h.mem, NEW q \in DOMAIN h.mem
             PROVE  Released(h.mem, elems, D, q) = Cardinality(Losing(h, E, D, q))
  BY DEF Stands
<1> DEFINE A == In(elems, q)
           B == {t \in E : At(h, t) = q}
           C == UNION {{Element(d, k) : k \in In(Elements(h.mem[d]), q)} : d \in D}
           F == {t \in ElemsOf(h, D) : At(h, t) = q}
           g == [k \in A |-> f[k]]
<1>1. /\ f \in [DOMAIN elems -> E] /\ \A x, y \in DOMAIN elems : f[x] = f[y] => x = y
      /\ \A t \in E : \E x \in DOMAIN elems : f[x] = t
  BY DEF Pairs
<1>2. A \subseteq DOMAIN elems /\ \A k \in DOMAIN elems : k \in A <=> elems[k] = q
  BY DEF In
<1>3. B \subseteq E /\ \A t \in E : t \in B <=> At(h, t) = q
  OBVIOUS
<1> HIDE DEF A, B
<1>4. g \in [A -> B] /\ \A k \in A : g[k] = f[k]
  BY <1>1, <1>2, <1>3
<1>5. Pairs(g, A, B)
  <2>1. \A t \in B : \E x \in A : g[x] = t
    <3>1. SUFFICES ASSUME NEW t \in B PROVE \E x \in A : g[x] = t
      OBVIOUS
    <3>2. PICK x \in DOMAIN elems : f[x] = t
      BY <1>1, <1>3, <3>1
    <3>3. x \in A
      BY <1>2, <1>3, <3>2
    <3> QED  BY <1>4, <3>2, <3>3
  <2>2. \A x, y \in A : g[x] = g[y] => x = y
    BY <1>1, <1>2, <1>4
  <2> QED  BY <1>4, <2>1, <2>2 DEF Pairs
<1> HIDE DEF g
<1>6. IsFiniteSet(B) /\ Cardinality(B) = Cardinality(A)
  <2>1. IsFiniteSet(A)
    BY <1>2, FS_Subset
  <2> QED  BY <1>5, <2>1, AsMany
<1>7. C = F
  <2>1. \A t : t \in C <=> \E d \in D : \E k \in In(Elements(h.mem[d]), q) : t = Element(d, k)
    OBVIOUS
  <2> HIDE DEF C
  <2>2. ASSUME NEW t \in C
        PROVE  t \in F
    <3>1. PICK d \in D : \E k \in In(Elements(h.mem[d]), q) : t = Element(d, k)
      BY <2>1, <2>2
    <3>2. PICK k \in In(Elements(h.mem[d]), q) : t = Element(d, k)
      BY <3>1
    <3>3. k \in DOMAIN Elements(h.mem[d]) /\ Elements(h.mem[d])[k] = q
      BY DEF In
    <3>4. Elements(h.mem[d]) = h.mem[d].data
      BY <3>3, EmptyIs DEF Elements
    <3>5. t \in Slots(h) /\ t[1] = "mem" /\ t[2] = d /\ At(h, t) = q
      BY <3>2, <3>3, <3>4, ElementIs
    <3> QED  BY <3>5 DEF ElemsOf
  <2>3. ASSUME NEW t \in F
        PROVE  t \in C
    <3>1. t \in Slots(h) /\ t[1] = "mem" /\ t[2] \in D /\ At(h, t) = q
      BY DEF ElemsOf
    <3>2. PICK d \in DOMAIN h.mem : \E k \in DOMAIN Elements(h.mem[d]) : t = Element(d, k)
      BY <3>1, SlotCases, VariableIs, PooledIs
    <3>3. PICK k \in DOMAIN Elements(h.mem[d]) : t = Element(d, k)
      BY <3>2
    <3>4. d \in D /\ h.mem[d].data[k] = q
      BY <3>1, <3>3, ElementIs
    <3>5. Elements(h.mem[d]) = h.mem[d].data
      BY <3>3, EmptyIs DEF Elements
    <3>6. k \in In(Elements(h.mem[d]), q)
      BY <3>3, <3>4, <3>5 DEF In
    <3> QED  BY <2>1, <3>3, <3>4, <3>6
  <2> QED  BY <2>2, <2>3
<1>8. Losing(h, E, D, q) = B \cup F /\ B \cap F = {}
  BY DEF Losing, ElemsOf, B
<1>9. IsFiniteSet(F)
  <2>1. F \subseteq Slots(h)
    BY DEF ElemsOf
  <2> QED  BY <2>1, FS_Subset
<1>10. Released(h.mem, elems, D, q) = Cardinality(A) + Cardinality(C)
  BY DEF Released, A
<1> HIDE DEF C, F
<1>11. Cardinality(B \cup F) = Cardinality(B) + Cardinality(F)
  BY <1>6, <1>8, <1>9, Apart
<1> QED  BY <1>6, <1>7, <1>8, <1>10, <1>11

Bare(h) == \A c \in Containers : \A i \in DOMAIN h.pool[c] : DOMAIN h.pool[c][i] = {}

\* h2 is h without some of its nodes, and without the last of what is in the pool.
Took(h, h2) ==
  /\ Shape(h2) /\ h2.objs = h.objs /\ h2.ok = h.ok
  /\ DOMAIN h2.mem \subseteq DOMAIN h.mem /\ SameNodes(h, h2, DOMAIN h2.mem)
  /\ \A q \in DOMAIN h2.mem : h2.mem[q].ref <= h.mem[q].ref
  /\ Bare(h) => Bare(h2) /\ DOMAIN h2.mem = DOMAIN h.mem

\* What is left in memory, when what fell with elems has gone.
ClearedSo(h, m, elems, D) ==
  /\ Fun(m) /\ DOMAIN m = DOMAIN h.mem \ D
  /\ \A q \in DOMAIN m : /\ NodeOK(m[q]) /\ SameNode(h.mem[q], m[q])
                         /\ m[q].ref = h.mem[q].ref - Released(h.mem, elems, D, q)
                         /\ m[q].ref <= h.mem[q].ref

LEMMA ClearedIs ==
  ASSUME NEW h, Shape(h), NEW E, NEW elems, NEW D, Stands(h, E, elems), IsFiniteSet(Slots(h)),
         D = Gone(h.mem, elems), D = Falls(h.mem, elems, D)
  PROVE  ClearedSo(h, Cleared(h.mem, elems), elems, D)
<1> DEFINE m == Cleared(h.mem, elems)
           R(q) == Released(h.mem, elems, D, q)
<1>1. m = [q \in DOMAIN h.mem \ D |-> [h.mem[q] EXCEPT !.ref = @ - R(q)]]
  BY DEF Cleared
<1>2. Fun(m) /\ DOMAIN m = DOMAIN h.mem \ D
  BY <1>1 DEF Fun
<1>3. ASSUME NEW q \in DOMAIN m
      PROVE  /\ NodeOK(m[q]) /\ SameNode(h.mem[q], m[q]) /\ m[q].ref = h.mem[q].ref - R(q)
             /\ m[q].ref <= h.mem[q].ref
  <2>1. q \in DOMAIN h.mem /\ q \notin D
    BY <1>2
  <2>2. m[q] = [h.mem[q] EXCEPT !.ref = h.mem[q].ref - R(q)]
    BY <1>1, <2>1
  <2>3. NodeOK(h.mem[q])
    BY <2>1 DEF Shape
  <2>4. m[q] = [type |-> h.mem[q].type, ref |-> h.mem[q].ref - R(q), data |-> h.mem[q].data]
    BY <2>2, <2>3, NodeParts DEF NodeOK
  <2>5. m[q].type = h.mem[q].type /\ m[q].ref = h.mem[q].ref - R(q) /\ m[q].data = h.mem[q].data
    BY <2>4
  <2>6. R(q) \in Nat
    <3>1. Losing(h, E, D, q) \subseteq Slots(h)
      BY DEF Losing, ElemsOf, Stands
    <3>2. Cardinality(Losing(h, E, D, q)) \in Nat
      BY <3>1, FS_Subset, FS_CardinalityType
    <3>3. D \in SUBSET DOMAIN h.mem
      BY DEF Falls
    <3> QED  BY <2>1, <3>2, <3>3 DEF Stands
  <2>7. ~(h.mem[q].ref <= R(q))
    BY <2>1 DEF Falls
  <2>8. m[q] = [type |-> m[q].type, ref |-> m[q].ref, data |-> m[q].data]
    BY <2>4, <2>5
  <2> HIDE DEF m, R
  <2>9. h.mem[q].ref \in Nat
    BY <2>3 DEF NodeOK
  <2>10. h.mem[q].ref - R(q) \in Nat /\ h.mem[q].ref - R(q) <= h.mem[q].ref
    BY <2>6, <2>7, <2>9
  <2>11. NodeOK(m[q])
    BY <2>3, <2>5, <2>8, <2>10 DEF NodeOK
  <2> QED  BY <2>5, <2>10, <2>11 DEF SameNode
<1> HIDE DEF m, R
<1>4. ClearedSo(h, m, elems, D)
  BY <1>2, <1>3 DEF ClearedSo, R
<1> QED  BY <1>4 DEF m

LEMMA FrontIs ==
  ASSUME NEW S, NEW q \in Seq(S), q # <<>>
  PROVE  /\ Front(q) \in Seq(S) /\ DOMAIN q = 1..Len(q) /\ Len(q) \in Nat \ {0}
         /\ DOMAIN Front(q) = 1..Len(q) - 1 /\ \A i \in 1..Len(q) - 1 : Front(q)[i] = q[i]
         /\ Last(q) = q[Len(q)] /\ q[Len(q)] \in S
<1>1. DOMAIN q = 1..Len(q) /\ Len(q) \in Nat \ {0} /\ \A i \in 1..Len(q) : q[i] \in S
  OBVIOUS
<1>2. Front(q) = [i \in 1..Len(q) - 1 |-> q[i]]
  BY DEF Front
<1>3. Last(q) = q[Len(q)]
  BY DEF Last
<1> QED  BY <1>1, <1>2, <1>3

\* The last container of the pool.
LastIs(h, type, L, elems) ==
  /\ type \in Containers /\ L \in Nat \ {0} /\ DOMAIN h.pool[type] = 1..L
  /\ elems = h.pool[type][L] /\ elems \in Elems
OfLast(type, L, elems) == {Pooled(type, L, k) : k \in DOMAIN elems}

LEMMA LastStands ==
  ASSUME NEW h, NEW type, NEW L, NEW elems, LastIs(h, type, L, elems), Shape(h), IsFiniteSet(Slots(h))
  PROVE  Stands(h, OfLast(type, L, elems), elems) /\ OffClient(OfLast(type, L, elems))
<1> DEFINE E == OfLast(type, L, elems)
           f == [k \in DOMAIN elems |-> Pooled(type, L, k)]
<1>1. type \in Containers /\ L \in DOMAIN h.pool[type] /\ elems = h.pool[type][L]
      /\ IsFiniteSet(DOMAIN elems)
  BY OfElems DEF LastIs
<1>2. \A t \in E : \E k \in DOMAIN elems : t = Pooled(type, L, k)
  BY DEF OfLast
<1>3. \A k \in DOMAIN elems : Pooled(type, L, k) \in E /\ f[k] = Pooled(type, L, k)
  BY DEF OfLast
<1>4. \A k \in DOMAIN elems : /\ Pooled(type, L, k) \in Slots(h) /\ Pooled(type, L, k)[3] = k
                              /\ At(h, Pooled(type, L, k)) = elems[k]
                              /\ Pooled(type, L, k)[1] = type
  BY <1>1, PooledIs
<1>5. type # "mem" /\ type # "objs"
  BY <1>1, PooledIs
<1>6. E \subseteq Slots(h) /\ \A t \in E : t[1] # "mem" /\ t[1] # "objs"
  BY <1>2, <1>4, <1>5
<1>7. Pairs(f, DOMAIN elems, E)
  <2>1. f \in [DOMAIN elems -> E]
    BY <1>3
  <2>2. \A x, y \in DOMAIN elems : f[x] = f[y] => x = y
    BY <1>3, <1>4
  <2>3. \A t \in E : \E x \in DOMAIN elems : f[x] = t
    BY <1>2, <1>3
  <2> QED  BY <2>1, <2>2, <2>3 DEF Pairs
<1>8. \A k \in DOMAIN elems : At(h, f[k]) = elems[k]
  BY <1>3, <1>4
<1> HIDE DEF E, f
<1>9. Stands(h, E, elems)
  BY <1>1, <1>6, <1>7, <1>8, StandsIf
<1> QED  BY <1>6, <1>9 DEF OffClient, E

PoolShorter(h, h2, type, L) ==
  /\ \A c \in Containers \ {type} : h2.pool[c] = h.pool[c]
  /\ DOMAIN h2.pool[type] = 1..L - 1 /\ \A i \in 1..L - 1 : h2.pool[type][i] = h.pool[type][i]

SlotsTaken(h, h2, E, D) ==
  /\ Slots(h2) = Slots(h) \ (E \cup ElemsOf(h, D))
  /\ \A t \in Slots(h2) : At(h2, t) = At(h, t)

LEMMA TakenSlots ==
  ASSUME NEW h, NEW h2, NEW type, NEW L, NEW elems, NEW D, LastIs(h, type, L, elems), Shape(h),
         ClearedSo(h, h2.mem, elems, D), h2.objs = h.objs, PoolShorter(h, h2, type, L)
  PROVE  SlotsTaken(h, h2, OfLast(type, L, elems), D)
<1> DEFINE E == OfLast(type, L, elems)
           X == E \cup ElemsOf(h, D)
<1>1. /\ DOMAIN h2.mem = DOMAIN h.mem \ D
      /\ \A q \in DOMAIN h2.mem : Elements(h2.mem[q]) = Elements(h.mem[q])
      /\ \A q \in DOMAIN h2.mem : h2.mem[q].data = h.mem[q].data
  BY DEF ClearedSo, SameNode, Elements
<1>2. /\ type \in Containers /\ L \in Nat \ {0} /\ DOMAIN h.pool[type] = 1..L
      /\ elems = h.pool[type][L]
      /\ \A c \in Containers \ {type} : h2.pool[c] = h.pool[c]
      /\ DOMAIN h2.pool[type] = 1..L - 1 /\ \A i \in 1..L - 1 : h2.pool[type][i] = h.pool[type][i]
  BY DEF LastIs, PoolShorter
<1>3. ASSUME NEW x
      PROVE  /\ Variable(x) \in Slots(h2) <=> Variable(x) \in Slots(h) \ X
             /\ At(h2, Variable(x)) = At(h, Variable(x))
  <2>1. Variable(x) \notin X
    <3>1. Variable(x) \notin E
      BY <1>2, VariableIs, PooledIs DEF OfLast
    <3>2. Variable(x) \notin ElemsOf(h, D)
      BY VariableIs DEF ElemsOf
    <3> QED  BY <3>1, <3>2
  <2> HIDE DEF X
  <2> QED  BY <2>1, VariableIs
<1>4. ASSUME NEW q, NEW k
      PROVE  /\ Element(q, k) \in Slots(h2) <=> Element(q, k) \in Slots(h) \ X
             /\ Element(q, k) \in Slots(h2) => At(h2, Element(q, k)) = At(h, Element(q, k))
  <2>1. Element(q, k) \notin E
    BY <1>2, ElementIs, PooledIs DEF OfLast
  <2>2. Element(q, k) \in ElemsOf(h, D) <=> Element(q, k) \in Slots(h) /\ q \in D
    BY ElementIs DEF ElemsOf
  <2>3. Element(q, k) \in X <=> Element(q, k) \in Slots(h) /\ q \in D
    BY <2>1, <2>2
  <2> HIDE DEF X
  <2>4. /\ Element(q, k) \in Slots(h2) <=> q \in DOMAIN h2.mem /\ k \in DOMAIN Elements(h2.mem[q])
        /\ Element(q, k) \in Slots(h) <=> q \in DOMAIN h.mem /\ k \in DOMAIN Elements(h.mem[q])
        /\ At(h2, Element(q, k)) = h2.mem[q].data[k] /\ At(h, Element(q, k)) = h.mem[q].data[k]
    BY ElementIs
  <2>5. q \in DOMAIN h2.mem => Elements(h2.mem[q]) = Elements(h.mem[q]) /\ h2.mem[q].data = h.mem[q].data
    BY <1>1
  <2> QED  BY <1>1, <2>3, <2>4, <2>5
<1>5. ASSUME NEW c \in Containers, NEW i, NEW k
      PROVE  /\ Pooled(c, i, k) \in Slots(h2) <=> Pooled(c, i, k) \in Slots(h) \ X
             /\ Pooled(c, i, k) \in Slots(h2) => At(h2, Pooled(c, i, k)) = At(h, Pooled(c, i, k))
  <2>1. Pooled(c, i, k) \notin ElemsOf(h, D)
    <3>1. Pooled(c, i, k)[1] = c /\ c # "mem"
      BY PooledIs
    <3> QED  BY <3>1 DEF ElemsOf
  <2>2. Pooled(c, i, k) \in E <=> c = type /\ i = L /\ k \in DOMAIN elems
    <3>1. Pooled(c, i, k)[1] = c /\ Pooled(c, i, k)[2] = i /\ Pooled(c, i, k)[3] = k
      BY PooledIs
    <3>2. \A l : Pooled(type, L, l)[1] = type /\ Pooled(type, L, l)[2] = L /\ Pooled(type, L, l)[3] = l
      BY <1>2, PooledIs
    <3>3. Pooled(c, i, k) \in E <=> \E l \in DOMAIN elems : Pooled(c, i, k) = Pooled(type, L, l)
      BY DEF OfLast
    <3> QED  BY <3>1, <3>2, <3>3
  <2>3. Pooled(c, i, k) \in X <=> c = type /\ i = L /\ k \in DOMAIN elems
    BY <2>1, <2>2
  <2> HIDE DEF X
  <2>4. /\ Pooled(c, i, k) \in Slots(h2) <=> i \in DOMAIN h2.pool[c] /\ k \in DOMAIN h2.pool[c][i]
        /\ Pooled(c, i, k) \in Slots(h) <=> i \in DOMAIN h.pool[c] /\ k \in DOMAIN h.pool[c][i]
        /\ At(h2, Pooled(c, i, k)) = h2.pool[c][i][k] /\ At(h, Pooled(c, i, k)) = h.pool[c][i][k]
    BY PooledIs
  <2>5. CASE c # type
    BY <1>2, <2>3, <2>4, <2>5
  <2>6. CASE c = type
    <3>1. i \in DOMAIN h2.pool[c] <=> i \in DOMAIN h.pool[c] /\ i # L
      BY <1>2, <2>6
    <3>2. i \in DOMAIN h2.pool[c] => h2.pool[c][i] = h.pool[c][i]
      BY <1>2, <2>6
    <3> QED  BY <1>2, <2>3, <2>4, <2>6, <3>1, <3>2
  <2> QED  BY <2>5, <2>6
<1> HIDE DEF X
<1>6. ASSUME NEW t \in Slots(h2)
      PROVE  t \in Slots(h) \ X /\ At(h2, t) = At(h, t)
  BY <1>3, <1>4, <1>5, SlotCases
<1>7. ASSUME NEW t \in Slots(h), t \notin X
      PROVE  t \in Slots(h2)
  BY <1>3, <1>4, <1>5, <1>7, SlotCases
<1>8. Slots(h2) = Slots(h) \ X
  BY <1>6, <1>7
<1>9. SlotsTaken(h, h2, E, D)
  BY <1>6, <1>8 DEF X, SlotsTaken
<1> QED  BY <1>9 DEF E

\* What a client reaches is still there in h2, and still reached.
Spared(h, h2, s) == \A q : Reach(h, s, q) => Reach(h2, s, q) /\ q \in DOMAIN h2.mem

LEMMA TakenLast ==
  ASSUME NEW h, NEW s, NEW type, NEW L, NEW elems, Right(h, s), Safe(h, s),
         LastIs(h, type, L, elems), elems = Last(h.pool[type]), h.pool[type] # <<>>
  PROVE  Right(Taken(h, type), s) /\ Took(h, Taken(h, type)) /\ Spared(h, Taken(h, type), s)
<1> DEFINE h2 == Taken(h, type)
           E == OfLast(type, L, elems)
           D == Gone(h.mem, elems)
           m == Cleared(h.mem, elems)
           p == [h.pool EXCEPT ![type] = Front(@)]
<1>1. Shape(h) /\ IsFiniteSet(Slots(h)) /\ Record(h) /\ type \in Containers
  BY DEF Right, Shape, Record, LastIs
<1>2. h2 = SetPool(SetMem(h, m), p)
  <2>1. PICK o, m1, p1, b : /\ h = [objs |-> o, mem |-> m1, pool |-> p1, ok |-> b]
                            /\ h.objs = o /\ h.mem = m1 /\ h.pool = p1 /\ h.ok = b
    BY <1>1, Opened
  <2>2. h2 = [h EXCEPT !.mem = Cleared(@, elems), !.pool[type] = Front(@)]
    BY <1>1 DEF Taken
  <2> HIDE DEF h2
  <2>3. [h EXCEPT !.mem = Cleared(@, elems), !.pool[type] = Front(@)]
          = SetPool(SetMem(h, Cleared(m1, elems)), [h.pool EXCEPT ![type] = Front(@)])
    BY <2>1 DEF SetPool, SetMem
  <2> QED  BY <2>1, <2>2, <2>3
<1>3. Stands(h, E, elems) /\ OffClient(E)
  BY <1>1, LastStands
<1>4. s \notin E
  BY <1>3 DEF OffClient, Safe, Stands
<1> HIDE DEF h2, E, D, m, p
<1>5. Spares(h, s, elems)
  BY <1>3, <1>4, PoolSpares
<1>6. \A q \in DOMAIN h.mem : h.mem[q].ref \in Nat
  BY <1>1 DEF Shape, NodeOK
<1>7. IsFiniteSet(DOMAIN h.mem)
  <2>1. PICK b \in Nat : DOMAIN h.mem \subseteq 1..b
    BY <1>1 DEF Shape
  <2>2. IsFiniteSet(1..b)
    BY <2>1, FS_Interval
  <2> QED  BY <2>1, <2>2, FS_Subset
<1>8. /\ D \subseteq DOMAIN h.mem /\ D = Falls(h.mem, elems, D)
      /\ Falls(h.mem, elems, {}) = {} => D = {}
      /\ s \notin ElemsOf(h, D)
  BY <1>1, <1>3, <1>5, <1>6, <1>7, GoneFalls DEF D
<1>9. ClearedSo(h, m, elems, D)
  BY <1>1, <1>3, <1>8, ClearedIs DEF D, m
<1>10. /\ Record(h2) /\ h2.mem = m /\ h2.pool = p /\ h2.objs = h.objs /\ h2.ok = h.ok
  <2>1. Record(SetMem(h, m)) /\ SetMem(h, m).mem = m
        /\ SetMem(h, m).objs = h.objs /\ SetMem(h, m).ok = h.ok
    BY <1>1, Parts
  <2> QED  BY <1>2, <2>1, Parts
<1>11. /\ h.pool[type] \in Seq(Elems) /\ Front(h.pool[type]) \in Seq(Elems)
       /\ DOMAIN h.pool[type] = 1..L
       /\ DOMAIN Front(h.pool[type]) = 1..L - 1
       /\ \A i \in 1..L - 1 : Front(h.pool[type])[i] = h.pool[type][i]
  <2>1. h.pool[type] \in Seq(Elems)
    BY <1>1 DEF Shape
  <2>2. DOMAIN h.pool[type] = 1..Len(h.pool[type]) /\ DOMAIN h.pool[type] = 1..L
        /\ Len(h.pool[type]) \in Nat \ {0} /\ L \in Nat \ {0}
    BY <2>1, FrontIs DEF LastIs
  <2>3. Len(h.pool[type]) = L
    BY <2>2
  <2>4. /\ Front(h.pool[type]) \in Seq(Elems)
        /\ DOMAIN Front(h.pool[type]) = 1..Len(h.pool[type]) - 1
        /\ \A i \in 1..Len(h.pool[type]) - 1 : Front(h.pool[type])[i] = h.pool[type][i]
    BY <2>1, FrontIs
  <2> QED  BY <2>1, <2>2, <2>3, <2>4
<1>12. /\ p \in [Containers -> Seq(Elems)] /\ p[type] = Front(h.pool[type])
       /\ \A c \in Containers \ {type} : p[c] = h.pool[c]
  BY <1>1, <1>11 DEF Shape, p
<1>13. /\ Slots(h2) = Slots(h) \ (E \cup ElemsOf(h, D))
       /\ \A t \in Slots(h2) : At(h2, t) = At(h, t)
  <2>1. PoolShorter(h, h2, type, L)
    BY <1>10, <1>11, <1>12 DEF PoolShorter
  <2>2. ClearedSo(h, h2.mem, elems, D) /\ h2.objs = h.objs
    BY <1>9, <1>10
  <2>3. SlotsTaken(h, h2, OfLast(type, L, elems), D)
    BY <1>1, <2>1, <2>2, TakenSlots
  <2> QED  BY <2>3 DEF E, SlotsTaken
<1>14. DOMAIN h2.mem = DOMAIN h.mem \ D /\ SameNodes(h, h2, DOMAIN h2.mem)
       /\ \A q \in DOMAIN h2.mem : h2.mem[q].ref <= h.mem[q].ref
  BY <1>9, <1>10 DEF ClearedSo, SameNodes
<1>15. Shape(h2)
  <2>1. \E b \in Nat : DOMAIN h2.mem \subseteq 1..b
    BY <1>1, <1>14 DEF Shape
  <2>2. \A q \in DOMAIN h2.mem : NodeOK(h2.mem[q])
    BY <1>9, <1>10 DEF ClearedSo
  <2>3. Fun(h2.mem)
    BY <1>9, <1>10 DEF ClearedSo
  <2> QED  BY <1>1, <1>10, <1>12, <2>1, <2>2, <2>3 DEF Shape, Record, Fun
<1>16. Right(h2, s)
  <2>1. \A q \in DOMAIN h2.mem : h2.mem[q].ref = h.mem[q].ref - Released(h.mem, elems, D, q)
    BY <1>9, <1>10 DEF ClearedSo
  <2>2. s \notin E \cup ElemsOf(h, D)
    BY <1>4, <1>8
  <2>3. Slots(h2) \ {s} = Slots(h) \ (E \cup ElemsOf(h, D) \cup {s})
    BY <1>13
  <2> QED  BY <1>3, <1>8, <1>13, <1>14, <1>15, <2>1, <2>2, <2>3, Clears
<1>17. Spared(h, h2, s)
  <2>1. D \in SUBSET DOMAIN h.mem /\ s \notin E \cup ElemsOf(h, D) /\ D \subseteq Falls(h.mem, elems, D)
    BY <1>4, <1>8
  <2>2. Cut(h, s, D)
    BY <1>3, <1>8, <2>1, PoolCut
  <2>3. Leaves_(h, h2, s, D)
    BY <1>3, <1>13 DEF Leaves_, OffClient, ElemsOf
  <2>4. ASSUME NEW q, Reach(h, s, q)
        PROVE  Reach(h2, s, q) /\ q \in DOMAIN h2.mem
    <3>1. Reach(h2, s, q)
      BY <2>2, <2>3, <2>4, ReachKept
    <3>2. Lively(h2, s)
      BY <1>16 DEF Right, Lively
    <3> QED  BY <3>1, <3>2, ReachThere
  <2> QED  BY <2>4 DEF Spared
<1>18. Bare(h) => Bare(h2) /\ DOMAIN h2.mem = DOMAIN h.mem
  <2>1. SUFFICES ASSUME Bare(h) PROVE Bare(h2) /\ DOMAIN h2.mem = DOMAIN h.mem
    OBVIOUS
  <2>2. DOMAIN elems = {}
    <3>1. L \in DOMAIN h.pool[type] /\ elems = h.pool[type][L]
      BY DEF LastIs
    <3> QED  BY <1>1, <2>1, <3>1 DEF Bare
  <2>3. \A q \in DOMAIN h.mem : Released(h.mem, elems, {}, q) = 0
    <3>1. \A q \in DOMAIN h.mem : Losing(h, E, {}, q) = {}
      BY <2>2 DEF Losing, ElemsOf, E, OfLast
    <3>2. \A q \in DOMAIN h.mem : Released(h.mem, elems, {}, q) = Cardinality(Losing(h, E, {}, q))
      BY <1>3 DEF Stands
    <3> QED  BY <3>1, <3>2, FS_EmptySet
  <2>4. Falls(h.mem, elems, {}) = {}
    <3>1. \A q \in DOMAIN h.mem : h.mem[q].ref # 0
      BY DEF Right
    <3> QED  BY <1>6, <2>3, <3>1 DEF Falls
  <2>5. Bare(h2)
    <3>1. SUFFICES ASSUME NEW c \in Containers, NEW i \in DOMAIN h2.pool[c]
                   PROVE  DOMAIN h2.pool[c][i] = {}
      BY DEF Bare
    <3>2. i \in DOMAIN h.pool[c] /\ h2.pool[c][i] = h.pool[c][i]
      <4>1. CASE c # type
        BY <1>10, <1>12, <4>1
      <4>2. CASE c = type
        <5>1. i \in 1..L - 1 /\ h2.pool[c][i] = h.pool[type][i]
          BY <1>10, <1>11, <1>12, <4>2
        <5>2. L \in Nat
          BY DEF LastIs
        <5> QED  BY <1>11, <4>2, <5>1, <5>2
      <4> QED  BY <4>1, <4>2
    <3> QED  BY <2>1, <3>2 DEF Bare
  <2> QED  BY <1>8, <1>14, <2>4, <2>5
<1>19. Took(h, h2)
  BY <1>10, <1>14, <1>15, <1>18 DEF Took
<1> QED  BY <1>16, <1>17, <1>19 DEF h2

LEMMA TakenDoes ==
  ASSUME NEW h, NEW s, NEW type, Right(h, s), Safe(h, s)
  PROVE  Right(Taken(h, type), s) /\ Took(h, Taken(h, type)) /\ Spared(h, Taken(h, type), s)
<1>1. Shape(h)
  BY DEF Right
<1>2. CASE type \notin Containers \/ h.pool[type] = <<>>
  <2>1. Taken(h, type) = h
    BY <1>2 DEF Taken
  <2>2. Took(h, h)
    BY <1>1 DEF Took, SameNodes, SameNode, Shape, NodeOK
  <2>3. Spared(h, h, s)
    <3>1. Lively(h, s)
      BY DEF Right, Lively
    <3> QED  BY <3>1, ReachThere DEF Spared
  <2> QED  BY <2>1, <2>2, <2>3
<1>3. CASE type \in Containers /\ h.pool[type] # <<>>
  <2>1. h.pool[type] \in Seq(Elems)
    BY <1>1, <1>3 DEF Shape
  <2>2. LastIs(h, type, Len(h.pool[type]), Last(h.pool[type]))
    BY <1>3, <2>1, FrontIs DEF LastIs
  <2> QED  BY <1>3, <2>2, TakenLast
<1> QED  BY <1>2, <1>3

(* New.                                                                    *)

\* Right of all JsonTypes is right without s, if s counts for nothing.
LEMMA Unheld ==
  ASSUME NEW h, NEW s, Right(h, Nowhere), s \in Slots(h) => At(h, s) \notin DOMAIN h.mem
  PROVE  Right(h, s)
<1>1. \A q \in DOMAIN h.mem : Holders(h, q) \ {s} = Holders(h, q) \ {Nowhere}
  BY NoSlot DEF Holders
<1>2. \A t \in Slots(h) : Live(h, t)
  BY NoSlot DEF Right
<1> QED  BY <1>1, <1>2 DEF Right

LEMMA LivelyIs ==
  ASSUME NEW h, NEW s, Right(h, s) \/ Right(h, Nowhere)
  PROVE  Lively(h, s)
BY NoSlot DEF Right, Lively

LEMMA UsableSpot ==
  ASSUME NEW h, NEW s, Shape(h), Usable(h, s)
  PROVE  Spot(h, s) /\ Safe(h, s)
<1>1. s \in Slots(h) /\ (s[1] = "objs" \/ (s[1] = "mem" /\ Reach(h, s, s[2])))
  BY DEF Usable
<1>2. Room(h, s)
  <2>1. CASE \E x \in DOMAIN h.objs : s = Variable(x)
    BY <2>1 DEF Room
  <2>2. CASE \E n \in DOMAIN h.mem : \E k \in DOMAIN Elements(h.mem[n]) : s = Element(n, k)
    <3>1. PICK n \in DOMAIN h.mem : \E k \in DOMAIN Elements(h.mem[n]) : s = Element(n, k)
      BY <2>2
    <3>2. PICK k \in DOMAIN Elements(h.mem[n]) : s = Element(n, k)
      BY <3>1
    <3>3. h.mem[n].type \in Containers /\ k \in DOMAIN h.mem[n].data
      BY EmptyIs DEF Elements
    <3>4. h.mem[n].data \in Elems
      BY <3>3 DEF Shape, NodeOK, FitsType
    <3>5. k \in Places
      BY <3>3, <3>4, OfElems
    <3> QED  BY <3>2, <3>3, <3>5 DEF Room, RoomFor
  <2>3. CASE \E c \in Containers : \E i \in DOMAIN h.pool[c] : \E k \in DOMAIN h.pool[c][i] :
               s = Pooled(c, i, k)
    BY <1>1, <2>3, PooledIs
  <2> QED  BY <1>1, <2>1, <2>2, <2>3, SlotCases
<1>3. s[1] = "mem" => Reach(h, s, s[2])
  BY <1>1
<1> QED  BY <1>1, <1>2, <1>3 DEF Spot, Safe

\* The variables apart from s are as they were.
Scope(h, h2, s) ==
  /\ DOMAIN h2.objs = DOMAIN h.objs
  /\ \A x \in DOMAIN h.objs : Variable(x) # s => h2.objs[x] = h.objs[x]

\* In h2, s points to the node n, that nobody else has; the other nodes were there.
Made(h, h2, s, n, type, data) ==
  /\ Right(h2, Nowhere) /\ Usable(h2, s) /\ At(h2, s) = n /\ n # NoNode /\ n \in DOMAIN h2.mem
  /\ h2.mem[n].type = type /\ h2.mem[n].ref = 1 /\ h2.mem[n].data = data
  /\ \A q \in DOMAIN h2.mem \ {n} :
       /\ q \in DOMAIN h.mem /\ h2.mem[q].ref <= h.mem[q].ref /\ h2.mem[q].type = h.mem[q].type
       /\ (s[1] = "objs" \/ q # s[2]) => h2.mem[q].data = h.mem[q].data
  /\ Scope(h, h2, s) /\ h2.ok = h.ok

\* The elements of the nodes that are still there, but s, point to what they did.
KeepsElements(h, h2, s) ==
  \A t \in Slots(h) :
    t # s /\ t[1] = "mem" /\ t[2] \in DOMAIN h2.mem => t \in Slots(h2) /\ At(h2, t) = At(h, t)

LEMMA NewMakes ==
  ASSUME NEW h, NEW s, NEW type, NEW data, Right(h, s), Spot(h, s), NoElements(type, data),
         DOMAIN h.mem # {}
  PROVE  /\ Made(h, New(h, s, type, data), s, Fresh(h.mem, 0), type, data)
         /\ Fresh(h.mem, 0) \notin DOMAIN h.mem
         /\ Bare(h) => Bare(New(h, s, type, data)) /\ DOMAIN h.mem \subseteq DOMAIN New(h, s, type, data).mem
         /\ KeepsElements(h, New(h, s, type, data), s)
         /\ DOMAIN Taken(h, type).mem \subseteq DOMAIN New(h, s, type, data).mem
<1> DEFINE n == Fresh(h.mem, 0)
           h1 == Taken(h, type)
           ha == SetMem(h1, Added(h1.mem, {n}, type, data))
           h2 == New(h, s, type, data)
<1>1. Shape(h) /\ n \in Nat \ {0} /\ n \notin DOMAIN h.mem
  BY FreshIs DEF Right
<1>2. /\ \/ \E x \in DOMAIN h.objs : s = Variable(x)
         \/ \E q \in DOMAIN h.mem : \E k \in Places : s = Element(q, k) /\ RoomFor(h.mem[q], k)
      /\ s[1] = "mem" => Reach(h, s, s[2])
  BY DEF Spot, Room
<1>3. (s[1] = "objs" \/ s[1] = "mem") /\ s # Nowhere /\ Safe(h, s)
  <2>1. s[1] = "objs" \/ s[1] = "mem"
    BY <1>2, VariableIs, ElementIs
  <2> QED  BY <1>2, <2>1 DEF Nowhere, Safe
<1>4. Right(h1, s) /\ Took(h, h1) /\ Spared(h, h1, s)
  BY <1>3, TakenDoes
<1>5. h2 = Point(ha, s, n)
  BY DEF New, SetMem
<1> HIDE DEF n, h1, h2
<1>6. /\ Shape(h1) /\ h1.objs = h.objs /\ h1.ok = h.ok
      /\ DOMAIN h1.mem \subseteq DOMAIN h.mem /\ \A q \in DOMAIN h1.mem : SameNode(h.mem[q], h1.mem[q])
      /\ \A q \in DOMAIN h1.mem : h1.mem[q].ref <= h.mem[q].ref
      /\ Bare(h) => Bare(h1) /\ DOMAIN h1.mem = DOMAIN h.mem
  BY <1>4 DEF Took, SameNodes
<1>7. Extended(h1, ha, {n}, type, data)
  <2>1. {n} \cap DOMAIN h1.mem = {}
    BY <1>1, <1>6
  <2>2. n \in Nat /\ {n} \subseteq 1..n
    BY <1>1
  <2> QED  BY <1>6, <2>1, <2>2, AddedIs
<1> HIDE DEF ha
<1>8. /\ Shape(ha) /\ Slots(ha) = Slots(h1) /\ DOMAIN ha.mem = DOMAIN h1.mem \cup {n}
      /\ \A q \in DOMAIN h1.mem : ha.mem[q] = h1.mem[q]
      /\ ha.mem[n].type = type /\ ha.mem[n].ref = 1 /\ ha.mem[n].data = data
      /\ ha.objs = h1.objs /\ ha.pool = h1.pool /\ ha.ok = h1.ok
      /\ \A t \in Slots(h1) : t # s => At(ha, t) = At(h1, t)
  <2>1. \A t \in Slots(h1) : t # Nowhere => At(ha, t) = At(h1, t)
    BY <1>7 DEF Extended, SameBut
  <2> QED  BY <1>7, <2>1, NoSlot DEF Extended
<1>9. Room(ha, s)
  <2>1. CASE \E x \in DOMAIN h.objs : s = Variable(x)
    BY <1>6, <1>8, <2>1 DEF Room
  <2>2. CASE \E q \in DOMAIN h.mem : \E k \in Places : s = Element(q, k) /\ RoomFor(h.mem[q], k)
    <3>1. PICK q \in DOMAIN h.mem : \E k \in Places : s = Element(q, k) /\ RoomFor(h.mem[q], k)
      BY <2>2
    <3>2. PICK k \in Places : s = Element(q, k) /\ RoomFor(h.mem[q], k)
      BY <3>1
    <3>3. s[1] = "mem" /\ s[2] = q
      BY <3>2, ElementIs
    <3>4. q \in DOMAIN h1.mem
      BY <1>2, <1>4, <3>3 DEF Spared
    <3>5. RoomFor(ha.mem[q], k) /\ q \in DOMAIN ha.mem
      BY <1>6, <1>8, <3>2, <3>4 DEF SameNode, RoomFor
    <3> QED  BY <3>2, <3>5 DEF Room
  <2> QED  BY <1>2, <2>1, <2>2
<1>10. Pointed(ha, h2, s, n)
  BY <1>1, <1>5, <1>8, <1>9, PointIs
<1>11. Right(h2, Nowhere)
  <2>1. n \notin DOMAIN h1.mem /\ n # NoNode
    BY <1>1, <1>6 DEF NoNode
  <2> QED  BY <1>3, <1>4, <1>7, <1>10, <2>1, Placed
<1>12. /\ Slots(h2) = Slots(h1) \cup {s} /\ At(h2, s) = n
       /\ \A t \in Slots(h1) : t # s => At(h2, t) = At(h1, t)
       /\ DOMAIN h2.mem = DOMAIN h1.mem \cup {n}
       /\ \A q \in DOMAIN h2.mem : h2.mem[q].ref = ha.mem[q].ref /\ h2.mem[q].type = ha.mem[q].type
       /\ \A q \in DOMAIN h2.mem : (s[1] = "objs" \/ q # s[2]) => h2.mem[q].data = ha.mem[q].data
       /\ DOMAIN h2.objs = DOMAIN h.objs
       /\ \A x \in DOMAIN h.objs : Variable(x) # s => h2.objs[x] = h.objs[x]
       /\ h2.pool = h1.pool /\ h2.ok = h.ok
  BY <1>6, <1>8, <1>10 DEF Pointed, SameBut, SameRefs
<1>13. Usable(h2, s)
  <2>1. ASSUME s[1] = "mem"
        PROVE  Reach(h2, s, s[2])
    <3>1. Reach(h1, s, s[2])
      BY <1>2, <1>4, <2>1 DEF Spared
    <3>2. Cut(h1, s, {}) /\ Leaves_(h1, h2, s, {})
      BY <1>12 DEF Cut, Leaves_
    <3> QED  BY <3>1, <3>2, ReachKept
  <2> QED  BY <1>3, <1>12, <2>1 DEF Usable
<1>14. h2.mem[n].data = data
  <2>1. s[1] = "objs" \/ n # s[2]
    <3>1. ASSUME s[1] = "mem"
          PROVE  s[2] \in DOMAIN h.mem
      BY <1>2, <3>1, VariableIs, ElementIs
    <3> QED  BY <1>1, <1>3, <3>1
  <2> QED  BY <1>8, <1>12, <2>1
<1>15. ASSUME NEW q \in DOMAIN h2.mem \ {n}
       PROVE  /\ q \in DOMAIN h.mem /\ h2.mem[q].ref <= h.mem[q].ref /\ h2.mem[q].type = h.mem[q].type
              /\ (s[1] = "objs" \/ q # s[2]) => h2.mem[q].data = h.mem[q].data
  <2>1. q \in DOMAIN h1.mem /\ ha.mem[q] = h1.mem[q]
    BY <1>8, <1>12
  <2> QED  BY <1>6, <1>12, <2>1 DEF SameNode
<1>16. Bare(h) => Bare(h2) /\ DOMAIN h.mem \subseteq DOMAIN h2.mem
  BY <1>6, <1>12 DEF Bare
<1>17. Scope(h, h2, s)
  BY <1>12 DEF Scope
<1>18. n # NoNode /\ n \in DOMAIN h2.mem /\ h2.mem[n].type = type /\ h2.mem[n].ref = 1
  BY <1>1, <1>8, <1>12 DEF NoNode
<1>19. Made(h, h2, s, n, type, data)
  BY <1>11, <1>12, <1>13, <1>14, <1>15, <1>17, <1>18 DEF Made
<1>20. ASSUME NEW t \in Slots(h), t # s, t[1] = "mem", t[2] \in DOMAIN h2.mem
       PROVE  t \in Slots(h2) /\ At(h2, t) = At(h, t)
  <2>1. PICK q \in DOMAIN h.mem : \E k \in DOMAIN Elements(h.mem[q]) : t = Element(q, k)
    BY <1>20, SlotCases, VariableIs, PooledIs
  <2>2. PICK k \in DOMAIN Elements(h.mem[q]) : t = Element(q, k)
    BY <2>1
  <2>3. t[2] = q
    BY <2>2, ElementIs
  <2>4. q \in DOMAIN h1.mem
    BY <1>1, <1>12, <1>20, <2>3
  <2>5. Elements(h1.mem[q]) = Elements(h.mem[q]) /\ h1.mem[q].data = h.mem[q].data
    BY <1>6, <2>4 DEF SameNode, Elements
  <2>6. t \in Slots(h1) /\ At(h1, t) = At(h, t)
    BY <2>2, <2>4, <2>5, ElementIs
  <2> QED  BY <1>12, <1>20, <2>6
<1>21. KeepsElements(h, h2, s)
  BY <1>20 DEF KeepsElements
<1>22. DOMAIN h1.mem \subseteq DOMAIN h2.mem
  BY <1>12
<1> QED  BY <1>1, <1>16, <1>19, <1>21, <1>22 DEF n, h1, h2

(* DecRefCnt.                                                              *)

\* The pool has what the node had.
PoolLonger(h, h2, v, l) ==
  /\ v.type \in Containers => l \notin DOMAIN h.pool[v.type]
  /\ \A c \in Containers : /\ \A i \in DOMAIN h.pool[c] : h2.pool[c][i] = h.pool[c][i]
                           /\ c # v.type => DOMAIN h2.pool[c] = DOMAIN h.pool[c]
                           /\ c = v.type => /\ DOMAIN h2.pool[c] = DOMAIN h.pool[c] \cup {l}
                                            /\ h2.pool[c][l] = v.data

LEMMA LostMoves ==
  ASSUME NEW h, NEW h2, NEW s \in Slots(h), NEW n \in DOMAIN h.mem, NEW l,
         s[1] = "objs" \/ (s[1] = "mem" /\ s[2] # n),
         h2.objs = h.objs, DOMAIN h2.mem = DOMAIN h.mem \ {n},
         \A q \in DOMAIN h2.mem : h2.mem[q] = h.mem[q], PoolLonger(h, h2, h.mem[n], l)
  PROVE  /\ \E f : Moves(h, h2, s, f)
         /\ s \in Slots(h2) /\ Leaves_(h, h2, s, {n})
<1> DEFINE v == h.mem[n]
           Of(t) == t[1] = "mem" /\ t[2] = n
           f == [t \in Slots(h) |-> IF Of(t) THEN Pooled(v.type, l, t[3]) ELSE t]
<1>1. \A x : /\ Variable(x) \in Slots(h2) <=> Variable(x) \in Slots(h)
             /\ At(h2, Variable(x)) = At(h, Variable(x)) /\ ~Of(Variable(x))
  BY VariableIs
<1>2. \A q, k : /\ Element(q, k) \in Slots(h2) <=> Element(q, k) \in Slots(h) /\ q # n
                /\ Element(q, k) \in Slots(h) /\ q # n => At(h2, Element(q, k)) = At(h, Element(q, k))
                /\ Of(Element(q, k)) <=> q = n
  <2>1. \A q, k : /\ Element(q, k) \in Slots(h) <=> q \in DOMAIN h.mem /\ k \in DOMAIN Elements(h.mem[q])
                  /\ Element(q, k) \in Slots(h2) <=> q \in DOMAIN h2.mem /\ k \in DOMAIN Elements(h2.mem[q])
                  /\ At(h, Element(q, k)) = h.mem[q].data[k] /\ At(h2, Element(q, k)) = h2.mem[q].data[k]
                  /\ Element(q, k)[1] = "mem" /\ Element(q, k)[2] = q
    BY ElementIs
  <2> QED  BY <2>1
<1>3. ASSUME NEW c \in Containers, NEW i, NEW k
      PROVE  /\ Pooled(c, i, k) \in Slots(h2) <=>
                  Pooled(c, i, k) \in Slots(h) \/ (c = v.type /\ i = l /\ k \in DOMAIN v.data)
             /\ Pooled(c, i, k) \in Slots(h) => At(h2, Pooled(c, i, k)) = At(h, Pooled(c, i, k))
             /\ c = v.type /\ i = l => /\ Pooled(c, i, k) \notin Slots(h)
                                       /\ At(h2, Pooled(c, i, k)) = v.data[k]
             /\ ~Of(Pooled(c, i, k))
  <2>1. /\ Pooled(c, i, k) \in Slots(h) <=> i \in DOMAIN h.pool[c] /\ k \in DOMAIN h.pool[c][i]
        /\ Pooled(c, i, k) \in Slots(h2) <=> i \in DOMAIN h2.pool[c] /\ k \in DOMAIN h2.pool[c][i]
        /\ At(h, Pooled(c, i, k)) = h.pool[c][i][k] /\ At(h2, Pooled(c, i, k)) = h2.pool[c][i][k]
        /\ Pooled(c, i, k)[1] = c /\ c # "mem"
    BY PooledIs
  <2>2. /\ \A j \in DOMAIN h.pool[c] : h2.pool[c][j] = h.pool[c][j]
        /\ c # v.type => DOMAIN h2.pool[c] = DOMAIN h.pool[c]
        /\ c = v.type => /\ DOMAIN h2.pool[c] = DOMAIN h.pool[c] \cup {l}
                         /\ h2.pool[c][l] = v.data /\ l \notin DOMAIN h.pool[c]
    BY DEF PoolLonger
  <2> HIDE DEF v
  <2> QED  BY <2>1, <2>2
<1>4. \A k : /\ Element(n, k) \in Slots(h) <=> v.type \in Containers /\ k \in DOMAIN v.data
             /\ At(h, Element(n, k)) = v.data[k] /\ Element(n, k)[3] = k
  <2>1. \A k : /\ Element(n, k) \in Slots(h) <=> k \in DOMAIN Elements(v)
               /\ At(h, Element(n, k)) = v.data[k] /\ Element(n, k)[3] = k
    BY ElementIs
  <2>2. DOMAIN Elements(v) = IF v.type \in Containers THEN DOMAIN v.data ELSE {}
    BY EmptyIs DEF Elements
  <2> HIDE DEF v
  <2> QED  BY <2>1, <2>2
<1> HIDE DEF v, Of
<1>5. \A t \in Slots(h) : Of(t) => \E k : t = Element(n, k) /\ f[t] = Pooled(v.type, l, k)
  <2>1. SUFFICES ASSUME NEW t \in Slots(h), Of(t)
                 PROVE  \E k : t = Element(n, k) /\ f[t] = Pooled(v.type, l, k)
    OBVIOUS
  <2>2. PICK q, k : t = Element(q, k)
    BY <1>1, <1>3, <2>1, SlotCases
  <2>3. q = n
    BY <1>2, <2>1, <2>2
  <2> QED  BY <1>4, <2>1, <2>2, <2>3
<1>6. ASSUME NEW t \in Slots(h), ~Of(t)
      PROVE  t \in Slots(h2) /\ At(h2, t) = At(h, t) /\ f[t] = t
  <2>1. f[t] = t
    BY <1>6
  <2>2. CASE \E x \in DOMAIN h.objs : t = Variable(x)
    BY <1>1, <2>1, <2>2
  <2>3. CASE \E q \in DOMAIN h.mem : \E k \in DOMAIN Elements(h.mem[q]) : t = Element(q, k)
    BY <1>2, <1>6, <2>1, <2>3
  <2>4. CASE \E c \in Containers : \E i \in DOMAIN h.pool[c] : \E k \in DOMAIN h.pool[c][i] :
               t = Pooled(c, i, k)
    BY <1>3, <2>1, <2>4
  <2> QED  BY <2>2, <2>3, <2>4, SlotCases
<1>7. ASSUME NEW t \in Slots(h), Of(t)
      PROVE  f[t] \in Slots(h2) /\ f[t] \notin Slots(h) /\ At(h2, f[t]) = At(h, t)
  <2>1. PICK k : t = Element(n, k) /\ f[t] = Pooled(v.type, l, k)
    BY <1>5, <1>7
  <2>2. v.type \in Containers /\ k \in DOMAIN v.data /\ At(h, t) = v.data[k]
    BY <1>4, <2>1
  <2> QED  BY <1>3, <2>1, <2>2
<1>8. \A x, y \in Slots(h) : f[x] = f[y] => x = y
  <2>1. SUFFICES ASSUME NEW x \in Slots(h), NEW y \in Slots(h), f[x] = f[y] PROVE x = y
    OBVIOUS
  <2>2. CASE Of(x) /\ Of(y)
    <3>1. PICK k : x = Element(n, k) /\ f[x] = Pooled(v.type, l, k)
      BY <1>5, <2>2
    <3>2. PICK j : y = Element(n, j) /\ f[y] = Pooled(v.type, l, j)
      BY <1>5, <2>2
    <3>3. Pooled(v.type, l, k)[3] = k /\ Pooled(v.type, l, j)[3] = j
      BY DEF Pooled
    <3>4. k = j
      BY <2>1, <3>1, <3>2, <3>3
    <3> QED  BY <3>1, <3>2, <3>4
  <2>3. CASE ~(Of(x) /\ Of(y))
    BY <1>6, <1>7, <2>1, <2>3
  <2> QED  BY <2>2, <2>3
<1>9. \A u \in Slots(h2) : \E x \in Slots(h) : f[x] = u
  <2>1. SUFFICES ASSUME NEW u \in Slots(h2) PROVE \E x \in Slots(h) : f[x] = u
    OBVIOUS
  <2>2. CASE u \in Slots(h) /\ ~Of(u)
    BY <1>6, <2>2
  <2>3. ASSUME ~(u \in Slots(h) /\ ~Of(u))
        PROVE  v.type \in Containers /\ \E k \in DOMAIN v.data : u = Pooled(v.type, l, k)
    <3>1. CASE \E x \in DOMAIN h2.objs : u = Variable(x)
      BY <1>1, <2>3, <3>1
    <3>2. CASE \E q \in DOMAIN h2.mem : \E k \in DOMAIN Elements(h2.mem[q]) : u = Element(q, k)
      BY <1>2, <2>3, <3>2
    <3>3. CASE \E c \in Containers : \E i \in DOMAIN h2.pool[c] : \E k \in DOMAIN h2.pool[c][i] :
                 u = Pooled(c, i, k)
      BY <1>3, <2>3, <3>3
    <3> QED  BY <3>1, <3>2, <3>3, SlotCases
  <2>4. CASE ~(u \in Slots(h) /\ ~Of(u))
    <3>1. v.type \in Containers
      BY <2>3, <2>4
    <3>2. PICK k \in DOMAIN v.data : u = Pooled(v.type, l, k)
      BY <2>3, <2>4
    <3>3. Element(n, k) \in Slots(h) /\ Of(Element(n, k)) /\ Element(n, k)[3] = k
      BY <1>2, <1>4, <3>1
    <3>4. f[Element(n, k)] = u
      BY <3>2, <3>3
    <3> QED  BY <3>3, <3>4
  <2> QED  BY <2>2, <2>4
<1>10. \A t \in Slots(h) : t[1] = "objs" => ~Of(t)
  BY DEF Of
<1>11. ~Of(s)
  BY DEF Of
<1> HIDE DEF f
<1>12. Pairs(f, Slots(h), Slots(h2))
  <2>1. f = [t \in Slots(h) |-> f[t]]
    BY DEF f
  <2>2. \A t \in Slots(h) : f[t] \in Slots(h2)
    BY <1>6, <1>7
  <2> QED  BY <1>8, <1>9, <2>1, <2>2 DEF Pairs
<1>13. Moves(h, h2, s, f)
  BY <1>6, <1>7, <1>10, <1>11, <1>12 DEF Moves
<1>14. s \in Slots(h2)
  BY <1>6, <1>11
<1>15. Leaves_(h, h2, s, {n})
  BY <1>6 DEF Leaves_, Of
<1> QED  BY <1>13, <1>14, <1>15

LEMMA AppendIs ==
  ASSUME NEW S, NEW q \in Seq(S), NEW e \in S
  PROVE  /\ Append(q, e) \in Seq(S) /\ Len(q) + 1 \notin DOMAIN q
         /\ DOMAIN Append(q, e) = DOMAIN q \cup {Len(q) + 1} /\ Append(q, e)[Len(q) + 1] = e
         /\ \A i \in DOMAIN q : Append(q, e)[i] = q[i]
<1>1. Len(q) \in Nat /\ DOMAIN q = 1..Len(q) /\ Append(q, e) \in Seq(S)
  OBVIOUS
<1>2. Len(Append(q, e)) = Len(q) + 1 /\ DOMAIN Append(q, e) = 1..Len(q) + 1
  OBVIOUS
<1>3. Append(q, e)[Len(q) + 1] = e /\ \A i \in 1..Len(q) : Append(q, e)[i] = q[i]
  OBVIOUS
<1> QED  BY <1>1, <1>2, <1>3

LEMMA ParkedIs ==
  ASSUME NEW h, Shape(h), NEW v, NodeOK(v)
  PROVE  LET h2 == Parked(h, v)
         IN  /\ Record(h2) /\ h2.objs = h.objs /\ h2.mem = h.mem /\ h2.ok = h.ok
             /\ h2.pool \in [Containers -> Seq(Elems)] /\ \E l : PoolLonger(h, h2, v, l)
<1> DEFINE h2 == Parked(h, v)
<1>1. Record(h) /\ h.pool \in [Containers -> Seq(Elems)]
  BY DEF Shape, Record
<1>2. CASE v.type \notin Containers
  <2>1. h2 = h
    BY <1>2 DEF Parked
  <2> HIDE DEF h2
  <2>2. PoolLonger(h, h2, v, 0)
    BY <1>2, <2>1 DEF PoolLonger
  <2>3. /\ Record(h2) /\ h2.objs = h.objs /\ h2.mem = h.mem /\ h2.ok = h.ok
        /\ h2.pool \in [Containers -> Seq(Elems)]
    BY <1>1, <2>1
  <2>4. \E l : PoolLonger(h, h2, v, l)
    BY <2>2
  <2> QED  BY <2>3, <2>4 DEF h2
<1>3. CASE v.type \in Containers
  <2> DEFINE c == v.type
             q == h.pool[c]
             p == [h.pool EXCEPT ![c] = Append(q, v.data)]
  <2>1. h2 = SetPool(h, p)
    <3>1. PICK o, m1, p1, b : /\ h = [objs |-> o, mem |-> m1, pool |-> p1, ok |-> b]
                              /\ h.objs = o /\ h.mem = m1 /\ h.pool = p1 /\ h.ok = b
      BY <1>1, Opened
    <3>2. h2 = [h EXCEPT !.pool[v.type] = Append(@, v.data)]
      BY <1>3 DEF Parked
    <3> HIDE DEF h2
    <3>3. [h EXCEPT !.pool[v.type] = Append(@, v.data)] = SetPool(h, [p1 EXCEPT ![c] = Append(@, v.data)])
      BY <3>1 DEF SetPool
    <3> QED  BY <3>1, <3>2, <3>3
  <2>2. q \in Seq(Elems) /\ v.data \in Elems
    BY <1>1, <1>3 DEF NodeOK, FitsType
  <2> HIDE DEF h2, c, q
  <2>3. /\ Append(q, v.data) \in Seq(Elems) /\ Len(q) + 1 \notin DOMAIN q
        /\ DOMAIN Append(q, v.data) = DOMAIN q \cup {Len(q) + 1} /\ Append(q, v.data)[Len(q) + 1] = v.data
        /\ \A i \in DOMAIN q : Append(q, v.data)[i] = q[i]
    BY <2>2, AppendIs
  <2>4. /\ p \in [Containers -> Seq(Elems)] /\ p[c] = Append(q, v.data)
        /\ \A d \in Containers : d # c => p[d] = h.pool[d]
    BY <1>1, <1>3, <2>3 DEF c
  <2> HIDE DEF p
  <2>5. Record(h2) /\ h2.pool = p /\ h2.objs = h.objs /\ h2.mem = h.mem /\ h2.ok = h.ok
    BY <1>1, <2>1, Parts
  <2>6. PoolLonger(h, h2, v, Len(q) + 1)
    <3>1. Len(q) + 1 \notin DOMAIN h.pool[v.type]
      BY <2>3 DEF q, c
    <3>2. ASSUME NEW d \in Containers, d # c
          PROVE  h2.pool[d] = h.pool[d]
      BY <2>4, <2>5, <3>2
    <3>3. /\ \A i \in DOMAIN h.pool[c] : h2.pool[c][i] = h.pool[c][i]
          /\ DOMAIN h2.pool[c] = DOMAIN h.pool[c] \cup {Len(q) + 1} /\ h2.pool[c][Len(q) + 1] = v.data
      BY <2>3, <2>4, <2>5 DEF q
    <3> QED  BY <3>1, <3>2, <3>3 DEF PoolLonger, c
  <2>7. \E l : PoolLonger(h, h2, v, l)
    BY <2>6
  <2> QED  BY <2>4, <2>5, <2>7 DEF h2
<1> QED  BY <1>2, <1>3

LEMMA WithoutIs ==
  ASSUME NEW m, NEW n
  PROVE  /\ Fun(Without(m, n)) /\ DOMAIN Without(m, n) = DOMAIN m \ {n}
         /\ \A q \in DOMAIN m \ {n} : Without(m, n)[q] = m[q]
BY DEF Without, Restrict, Fun

\* h without the node n, which s alone had, but the pool has its elements.
Lost(h, n) == SetMem(Parked(h, h.mem[n]), Without(h.mem, n))
Loses(h, h2, s, n) ==
  /\ Right(h2, s) /\ Spot(h2, s) /\ s \in Slots(h2)
  /\ DOMAIN h2.mem = DOMAIN h.mem \ {n} /\ \A q \in DOMAIN h2.mem : h2.mem[q] = h.mem[q]
  /\ h2.objs = h.objs /\ h2.ok = h.ok
  /\ \A t \in Slots(h) : t # s => At(h, t) # n

LEMMA LostIs ==
  ASSUME NEW h, NEW s, NEW n, Right(h, Nowhere), Usable(h, s), At(h, s) = n, n \in DOMAIN h.mem,
         h.mem[n].ref = 1
  PROVE  Loses(h, Lost(h, n), s, n)
<1> DEFINE v == h.mem[n]
           hp == Parked(h, v)
           h2 == Lost(h, n)
<1>1. Shape(h) /\ NodeOK(v) /\ s \in Slots(h)
  BY DEF Right, Shape, Usable
<1>2. /\ Record(hp) /\ hp.objs = h.objs /\ hp.mem = h.mem /\ hp.ok = h.ok
      /\ hp.pool \in [Containers -> Seq(Elems)] /\ \E l : PoolLonger(h, hp, v, l)
  BY <1>1, ParkedIs
<1>3. h2 = SetMem(hp, Without(h.mem, n))
  BY DEF Lost
<1> HIDE DEF hp, h2
<1>4. /\ Record(h2) /\ h2.objs = h.objs /\ h2.mem = Without(h.mem, n) /\ h2.pool = hp.pool /\ h2.ok = h.ok
  BY <1>2, <1>3, Parts
<1>5. Fun(h2.mem) /\ DOMAIN h2.mem = DOMAIN h.mem \ {n} /\ \A q \in DOMAIN h2.mem : h2.mem[q] = h.mem[q]
  <2> DEFINE w == Without(h.mem, n)
  <2>1. Fun(w) /\ DOMAIN w = DOMAIN h.mem \ {n} /\ \A q \in DOMAIN h.mem \ {n} : w[q] = h.mem[q]
    BY WithoutIs
  <2>2. h2.mem = w
    BY <1>4
  <2> HIDE DEF w
  <2> QED  BY <2>1, <2>2
<1>6. Shape(h2)
  <2>1. \E b \in Nat : DOMAIN h2.mem \subseteq 1..b
    BY <1>1, <1>5 DEF Shape
  <2>2. \A q \in DOMAIN h2.mem : NodeOK(h2.mem[q])
    BY <1>1, <1>5 DEF Shape
  <2> QED  BY <1>1, <1>2, <1>4, <1>5, <2>1, <2>2 DEF Shape, Record, Fun
<1>7. \A t \in Slots(h) : t # s => At(h, t) # n
  <2>1. Holders(h, n) = {s}
    BY <1>1, NoSlot, OnlyHolder
  <2> QED  BY <2>1 DEF Holders
<1>8. Cut(h, s, {n})
  BY <1>7 DEF Cut
<1>9. s[1] = "objs" \/ (s[1] = "mem" /\ s[2] # n /\ Reach(h, s, s[2]))
  <2>1. ASSUME s[1] = "mem", Reach(h, s, s[2])
        PROVE  s[2] \notin {n}
    <3>1. Lively(h, s)
      BY LivelyIs
    <3> QED  BY <1>8, <2>1, <3>1, ReachNotCut
  <2> QED  BY <2>1 DEF Usable
<1>10. PICK l : PoolLonger(h, h2, v, l)
  <2>1. PICK l : PoolLonger(h, hp, v, l)
    BY <1>2
  <2>2. PoolLonger(h, h2, v, l)
    BY <1>4, <2>1 DEF PoolLonger
  <2> QED  BY <2>2
<1>11. /\ \E f : Moves(h, h2, s, f)
       /\ s \in Slots(h2) /\ Leaves_(h, h2, s, {n})
  <2>1. s[1] = "objs" \/ (s[1] = "mem" /\ s[2] # n)
    BY <1>9
  <2> QED  BY <1>1, <1>4, <1>5, <1>10, <2>1, LostMoves
<1>12. PICK f : Moves(h, h2, s, f)
  BY <1>11
<1>13. Right(h2, s)
  <2>1. SameRefs(h, h2, {})
    BY <1>5 DEF SameRefs
  <2> QED  BY <1>1, <1>5, <1>6, <1>12, <2>1, NoSlot, Leaves
<1>14. Spot(h2, s)
  <2>1. s[1] = "mem" => Reach(h2, s, s[2])
    BY <1>8, <1>9, <1>11, ReachKept
  <2>2. Usable(h2, s)
    BY <1>9, <1>11, <2>1 DEF Usable
  <2> QED  BY <1>6, <2>2, UsableSpot
<1>15. Loses(h, h2, s, n)
  BY <1>4, <1>5, <1>7, <1>11, <1>13, <1>14 DEF Loses
<1> QED  BY <1>15 DEF h2

IsHeap(h, o, m, p, b) == h = [objs |-> o, mem |-> m, pool |-> p, ok |-> b]

LEMMA HeapOpened ==
  ASSUME NEW h, Record(h)
  PROVE  \E o, m, p, b : IsHeap(h, o, m, p, b) /\ h.pool = p
BY Opened DEF IsHeap

LEMMA HeapSet ==
  ASSUME NEW h, NEW o, NEW m, NEW p, NEW b, IsHeap(h, o, m, p, b), NEW x
  PROVE  IsHeap(SetMem(h, x), o, x, p, b)
<1>1. h = [objs |-> o, mem |-> m, pool |-> p, ok |-> b]
  BY DEF IsHeap
<1>2. SetMem(h, x) = [objs |-> o, mem |-> x, pool |-> p, ok |-> b]
  BY <1>1 DEF SetMem
<1> QED  BY <1>2 DEF IsHeap

LEMMA ParkedMem ==
  ASSUME NEW h, Record(h), NEW v, NEW m, NEW w
  PROVE  /\ Parked(SetMem(h, m), v) = SetMem(Parked(h, v), m)
         /\ SetMem(SetMem(h, m), w) = SetMem(h, w)
<1>1. PICK o, m1, p, b : IsHeap(h, o, m1, p, b)
  BY HeapOpened
<1>2. IsHeap(SetMem(h, m), o, m, p, b)
  BY <1>1, HeapSet
<1>3. SetMem(SetMem(h, m), w) = SetMem(h, w)
  <2>1. IsHeap(SetMem(SetMem(h, m), w), o, w, p, b) /\ IsHeap(SetMem(h, w), o, w, p, b)
    BY <1>1, <1>2, HeapSet
  <2> QED  BY <2>1 DEF IsHeap
<1>4. CASE v.type \notin Containers
  BY <1>3, <1>4 DEF Parked
<1>5. CASE v.type \in Containers
  <2> DEFINE r == [p EXCEPT ![v.type] = Append(@, v.data)]
             h1 == SetMem(h, m)
  <2>1. IsHeap(Parked(h, v), o, m1, r, b)
    BY <1>1, <1>5 DEF Parked, IsHeap
  <2> HIDE DEF h1
  <2>2. IsHeap(Parked(h1, v), o, m, r, b)
    <3>1. h1 = [objs |-> o, mem |-> m, pool |-> p, ok |-> b]
      BY <1>2 DEF IsHeap, h1
    <3> QED  BY <1>5, <3>1 DEF Parked, IsHeap
  <2> HIDE DEF r
  <2>3. IsHeap(SetMem(Parked(h, v), m), o, m, r, b)
    BY <2>1, HeapSet
  <2>4. Parked(h1, v) = SetMem(Parked(h, v), m)
    BY <2>2, <2>3 DEF IsHeap
  <2> QED  BY <1>3, <2>4 DEF h1
<1> QED  BY <1>4, <1>5

\* h2 is h, in which n has one fewer: s, which still points to it.
Lessened(h, h2, s, n) ==
  /\ Right(h2, s) /\ Spot(h2, s) /\ s \in Slots(h2) /\ At(h2, s) = n
  /\ DOMAIN h2.mem = DOMAIN h.mem /\ SameNodes(h, h2, DOMAIN h.mem) /\ SameRefs(h, h2, {n})
  /\ h2.mem[n].ref = h.mem[n].ref - 1 /\ h2.mem[n].ref # 0
  /\ Slots(h2) = Slots(h) /\ SameBut(h, h2, Nowhere)
  /\ h2.objs = h.objs /\ h2.pool = h.pool /\ h2.ok = h.ok

LEMMA SameReach ==
  ASSUME NEW h, NEW h2, NEW s, NEW n, Slots(h2) = Slots(h), SameBut(h, h2, Nowhere), Reach(h, s, n)
  PROVE  Reach(h2, s, n)
<1>1. Cut(h, s, {}) /\ Leaves_(h, h2, s, {})
  BY NoSlot DEF Cut, Leaves_, SameBut
<1> QED  BY <1>1, ReachKept

LEMMA DecRefCntIs ==
  ASSUME NEW h, NEW n \in DOMAIN h.mem, Shape(h), h.mem[n].ref \in 1..RefLimit - 1
  PROVE  LET less == DecRefCnt(h, n)
         IN  IF h.mem[n].ref = 1 THEN less = SetMem(Parked(h, h.mem[n]), Counted(h.mem, n, -1))
             ELSE less = SetMem(h, Counted(h.mem, n, -1))
<1> DEFINE h1 == SetMem(h, Counted(h.mem, n, -1))
<1>1. RefLimit \in Nat
  BY JsonAssumption
<1>2. (h.mem[n].ref + -1) % RefLimit = h.mem[n].ref - 1
  BY <1>1
<1>3. h1.mem[n].ref = h.mem[n].ref - 1
  <2>1. h.mem[n].ref - 1 \in Nat
    OBVIOUS
  <2>2. Recounted(h, h1, n, h.mem[n].ref - 1)
    BY <1>2, <2>1, CountedIs
  <2> QED  BY <2>2 DEF Recounted
<1>4. DecRefCnt(h, n) = IF h1.mem[n].ref = 0 THEN Parked(h1, h.mem[n]) ELSE h1
  BY DEF DecRefCnt, SetMem
<1>5. Parked(h1, h.mem[n]) = SetMem(Parked(h, h.mem[n]), Counted(h.mem, n, -1))
  <2>1. Record(h)
    BY DEF Shape, Record
  <2> QED  BY <2>1, ParkedMem
<1> HIDE DEF h1
<1>6. h1.mem[n].ref = 0 <=> h.mem[n].ref = 1
  BY <1>3
<1> QED  BY <1>4, <1>5, <1>6 DEF h1

LEMMA FewerIs ==
  ASSUME NEW h, NEW s, NEW n, Right(h, Nowhere), Usable(h, s), At(h, s) = n, n \in DOMAIN h.mem,
         h.mem[n].ref # 1, h.mem[n].ref < RefLimit
  PROVE  Lessened(h, DecRefCnt(h, n), s, n)
<1> DEFINE less == DecRefCnt(h, n)
<1>1. Shape(h) /\ s \in Slots(h) /\ h.mem[n].ref \in Nat /\ h.mem[n].ref # 0 /\ RefLimit \in Nat
  BY JsonAssumption DEF Right, Usable, Shape, NodeOK
<1>2. less = SetMem(h, Counted(h.mem, n, -1)) /\ (h.mem[n].ref + -1) % RefLimit = h.mem[n].ref - 1
  BY <1>1, DecRefCntIs
<1> HIDE DEF less
<1>3. /\ Shape(less) /\ Slots(less) = Slots(h) /\ SameBut(h, less, Nowhere)
      /\ DOMAIN less.mem = DOMAIN h.mem /\ SameRefs(h, less, {n}) /\ SameNodes(h, less, DOMAIN h.mem)
      /\ less.mem[n].ref = h.mem[n].ref - 1
      /\ less.objs = h.objs /\ less.pool = h.pool /\ less.ok = h.ok
  <2>1. h.mem[n].ref - 1 \in Nat
    BY <1>1
  <2>2. Recounted(h, less, n, h.mem[n].ref - 1)
    BY <1>1, <1>2, <2>1, CountedIs
  <2> QED  BY <2>2 DEF Recounted
<1>4. Right(less, s)
  BY <1>1, <1>3, NoSlot, Drops
<1>5. At(less, s) = n /\ less.mem[n].ref # 0
  <2>1. At(less, s) = n
    BY <1>1, <1>3, NoSlot DEF SameBut
  <2> QED  BY <1>1, <1>3, <2>1
<1>6. Spot(less, s)
  <2>1. Usable(less, s)
    <3>1. ASSUME NEW q, Reach(h, s, q)
          PROVE  Reach(less, s, q)
      BY <1>3, <3>1, SameReach
    <3> QED  BY <1>3, <3>1 DEF Usable
  <2> QED  BY <1>3, <2>1, UsableSpot
<1>7. Lessened(h, less, s, n)
  BY <1>1, <1>3, <1>4, <1>5, <1>6 DEF Lessened
<1> QED  BY <1>7 DEF less

LEMMA ReplacedIs ==
  ASSUME NEW h, NEW s, NEW n, Right(h, Nowhere), Usable(h, s), At(h, s) = n, n \in DOMAIN h.mem,
         h.mem[n].ref = 1, 1 < RefLimit, NEW type, NEW data, NoElements(type, data)
  PROVE  LET less == DecRefCnt(h, n)
             new == [less EXCEPT !.mem[n] = SharedJsonVal(type, data)]
         IN  Made(h, new, s, n, type, data) /\ DOMAIN new.mem = DOMAIN h.mem
<1> DEFINE less == DecRefCnt(h, n)
           w == SharedJsonVal(type, data)
           c == Counted(h.mem, n, -1)
           hp == Parked(h, h.mem[n])
           lost == Lost(h, n)
           h2 == [less EXCEPT !.mem[n] = w]
           m2 == [q \in DOMAIN h.mem |-> IF q = n THEN w ELSE h.mem[q]]
<1>1. /\ Shape(h) /\ s \in Slots(h) /\ RefLimit \in Nat /\ NodeOK(h.mem[n])
      /\ h.mem = [q \in DOMAIN h.mem |-> h.mem[q]]
  BY JsonAssumption DEF Right, Usable, Shape
<1>2. Loses(h, lost, s, n)
  BY LostIs
<1>3. Record(hp) /\ hp.objs = h.objs /\ hp.ok = h.ok
  BY <1>1, ParkedIs
<1>4. less = SetMem(hp, c)
  BY <1>1, DecRefCntIs
<1>5. c = [q \in DOMAIN h.mem |-> IF q = n THEN [h.mem[n] EXCEPT !.ref = (@ + -1) % RefLimit] ELSE h.mem[q]]
  BY <1>1, Zenon DEF Counted
<1>6. lost = SetMem(hp, Without(h.mem, n))
  BY DEF Lost
<1> HIDE DEF less, hp, lost, w
<1>7. h2 = SetMem(hp, m2)
  <2>1. [c EXCEPT ![n] = w] = m2
    BY <1>5
  <2> HIDE DEF c
  <2>2. PICK o, m1, p, b : IsHeap(hp, o, m1, p, b)
    BY <1>3, HeapOpened
  <2>3. IsHeap(less, o, c, p, b)
    BY <1>4, <2>2, HeapSet
  <2>4. IsHeap(h2, o, [c EXCEPT ![n] = w], p, b)
    BY <2>3 DEF IsHeap
  <2>5. IsHeap(SetMem(hp, m2), o, m2, p, b)
    BY <2>2, HeapSet
  <2> QED  BY <2>1, <2>4, <2>5 DEF IsHeap
<1>8. /\ Fun(m2) /\ DOMAIN m2 = DOMAIN h.mem /\ m2[n] = w
      /\ \A q \in DOMAIN h.mem \ {n} : m2[q] = h.mem[q]
  BY DEF Fun
<1> HIDE DEF h2, c, m2
<1>9. Record(h2) /\ h2.mem = m2 /\ h2.objs = hp.objs /\ h2.pool = hp.pool /\ h2.ok = hp.ok
  BY <1>3, <1>7, Parts
<1>10. lost.objs = hp.objs /\ lost.pool = hp.pool /\ lost.ok = hp.ok
  BY <1>3, <1>6, Parts
<1>11. /\ Right(lost, s) /\ Spot(lost, s) /\ s \in Slots(lost)
       /\ DOMAIN lost.mem = DOMAIN h.mem \ {n} /\ \A q \in DOMAIN lost.mem : lost.mem[q] = h.mem[q]
  BY <1>2 DEF Loses
<1>12. n \in Nat \ {0}
  <2>1. PICK b \in Nat : DOMAIN h.mem \subseteq 1..b
    BY <1>1 DEF Shape
  <2> QED  BY <2>1
<1>13. Extended(lost, h2, {n}, type, data)
  <2>1. {n} \subseteq 1..n /\ n \in Nat
    BY <1>12
  <2>2. Shape(lost)
    BY <1>11 DEF Right
  <2>3. /\ Fun(h2.mem) /\ DOMAIN h2.mem = DOMAIN lost.mem \cup {n} /\ {n} \cap DOMAIN lost.mem = {}
        /\ \A q \in DOMAIN lost.mem : h2.mem[q] = lost.mem[q]
        /\ \A q \in {n} : h2.mem[q] = SharedJsonVal(type, data)
    BY <1>8, <1>9, <1>11 DEF w
  <2> QED  BY <1>9, <1>10, <2>1, <2>2, <2>3, ExtendedIs
<1>14. /\ Shape(h2) /\ Slots(h2) = Slots(lost) /\ SameBut(lost, h2, Nowhere)
       /\ h2.mem[n].type = type /\ h2.mem[n].ref = 1 /\ h2.mem[n].data = data
  BY <1>13 DEF Extended
<1>15. s # Nowhere /\ (s[1] = "objs" \/ (s[1] = "mem" /\ s[2] \in DOMAIN lost.mem))
  <2>1. s # Nowhere
    BY <1>1, NoSlot
  <2>2. s[1] = "mem" => s[2] \in DOMAIN lost.mem
    BY <1>11, LivelyIs, ReachThere DEF Spot
  <2> QED  BY <2>1, <2>2 DEF Usable
<1>16. At(h2, s) = n
  <2>1. CASE s[1] = "objs"
    BY <1>3, <1>9, <2>1 DEF At
  <2>2. CASE s[1] = "mem"
    <3>1. h2.mem[s[2]] = h.mem[s[2]]
      BY <1>8, <1>9, <1>11, <1>15, <2>2
    <3> QED  BY <2>2, <3>1 DEF At
  <2> QED  BY <1>15, <2>1, <2>2
<1>17. Right(h2, Nowhere)
  <2>1. n \notin DOMAIN lost.mem /\ n # NoNode /\ DOMAIN h2.mem = DOMAIN lost.mem \cup {n}
    BY <1>8, <1>9, <1>11, <1>12 DEF NoNode
  <2>2. Slots(h2) = Slots(lost) \cup {s} /\ SameBut(lost, h2, s) /\ SameRefs(lost, h2, {})
    BY <1>8, <1>9, <1>11, <1>14, NoSlot DEF SameBut, SameRefs
  <2> QED  BY <1>11, <1>14, <1>15, <1>16, <2>1, <2>2, NoSlot, Given
<1>18. Usable(h2, s)
  <2>1. s[1] = "mem" => Reach(h2, s, s[2])
    BY <1>11, <1>14, SameReach DEF Spot
  <2> QED  BY <1>11, <1>14, <1>15, <2>1 DEF Usable
<1>19. \A q \in DOMAIN h2.mem \ {n} :
         /\ q \in DOMAIN h.mem /\ h2.mem[q].ref <= h.mem[q].ref /\ h2.mem[q].type = h.mem[q].type
         /\ h2.mem[q].data = h.mem[q].data
  <2>1. \A q \in DOMAIN h2.mem \ {n} : q \in DOMAIN h.mem /\ h2.mem[q] = h.mem[q]
    BY <1>8, <1>9
  <2>2. \A q \in DOMAIN h.mem : h.mem[q].ref <= h.mem[q].ref
    BY <1>1 DEF Shape, NodeOK
  <2> QED  BY <2>1, <2>2
<1>20. Scope(h, h2, s) /\ h2.ok = h.ok /\ n # NoNode /\ n \in DOMAIN h2.mem
  BY <1>3, <1>8, <1>9, <1>12 DEF Scope, NoNode
<1>21. Made(h, h2, s, n, type, data)
  BY <1>14, <1>16, <1>17, <1>18, <1>19, <1>20 DEF Made
<1>22. DOMAIN h2.mem = DOMAIN h.mem
  BY <1>8, <1>9
<1> QED  BY <1>21, <1>22 DEF h2, less, w

(* The operations of a JsonType.                                           *)

Capped(h, b) == \A n \in DOMAIN h.mem : h.mem[n].ref <= b

\* What a statement starts from and leads to; b bounds the counts.
Good(h, b) == Right(h, Nowhere) /\ h.objs[Null] # NoNode /\ Capped(h, b)

\* What an operation on the JsonType s starts from.
Fit(h, s, b) == Good(h, b) /\ Usable(h, s) /\ s # Variable(Null) /\ At(h, s) # NoNode

\* The variables that are in scope stay so.
InScope(h, h2) == \A x \in Vars \cup {Null} : h.objs[x] # NoNode => h2.objs[x] # NoNode

\* s points to a value that has just been made.
NewAt(h, s) == h.mem[At(h, s)].ref = 1 /\ DOMAIN Elements(h.mem[At(h, s)]) = {}

LEMMA NullLives ==
  ASSUME NEW h, NEW s, Right(h, s), s # Variable(Null), h.objs[Null] # NoNode
  PROVE  DOMAIN h.mem # {}
<1>1. Null \in DOMAIN h.objs
  BY DEF Right, Shape
<1>2. Variable(Null) \in Slots(h) /\ At(h, Variable(Null)) = h.objs[Null]
  BY <1>1, VariableIs
<1>3. Live(h, Variable(Null))
  BY <1>2 DEF Right
<1> QED  BY <1>2, <1>3 DEF Live

LEMMA FitIs ==
  ASSUME NEW h, NEW s, NEW b \in Nat, Fit(h, s, b)
  PROVE  /\ Right(h, Nowhere) /\ Shape(h) /\ Record(h) /\ s \in Slots(h) /\ s # Nowhere
         /\ At(h, s) \in DOMAIN h.mem /\ At(h, s) # NoNode
         /\ h.mem[At(h, s)].ref \in Nat /\ h.mem[At(h, s)].ref # 0 /\ h.mem[At(h, s)].ref <= b /\ 1 <= b
         /\ NodeOK(h.mem[At(h, s)]) /\ Null \in DOMAIN h.objs /\ DOMAIN h.mem # {}
         /\ DOMAIN h.objs = Vars \cup {Null}
<1>1. Right(h, Nowhere) /\ Shape(h) /\ Record(h) /\ s \in Slots(h) /\ Capped(h, b) /\ At(h, s) # NoNode
  BY DEF Fit, Good, Right, Shape, Record, Usable
<1>2. s # Nowhere
  BY <1>1, NoSlot
<1>3. At(h, s) \in DOMAIN h.mem
  <2>1. Live(h, s)
    BY <1>1, <1>2 DEF Right
  <2> QED  BY <1>1, <2>1 DEF Live
<1>4. NodeOK(h.mem[At(h, s)]) /\ h.mem[At(h, s)].ref # 0 /\ h.mem[At(h, s)].ref <= b
  BY <1>1, <1>3 DEF Shape, Right, Capped
<1>5. h.mem[At(h, s)].ref \in Nat
  BY <1>4 DEF NodeOK
<1>6. 1 <= b
  BY <1>4, <1>5
<1>7. DOMAIN h.objs = Vars \cup {Null}
  BY <1>1 DEF Shape
<1> QED  BY <1>1, <1>2, <1>3, <1>4, <1>5, <1>6, <1>7

LEMMA MadeFits ==
  ASSUME NEW h, NEW h2, NEW s, NEW n, NEW type, NEW data, NEW b \in Nat, 1 <= b,
         Made(h, h2, s, n, type, data), s # Variable(Null), h.objs[Null] # NoNode,
         DOMAIN h.objs = Vars \cup {Null}, Capped(h, b), Shape(h)
  PROVE  /\ Fit(h2, s, b) /\ InScope(h, h2) /\ h2.mem[At(h2, s)].type = type
         /\ NoElements(type, data) => NewAt(h2, s)
<1>1. /\ Right(h2, Nowhere) /\ Usable(h2, s) /\ At(h2, s) = n /\ n # NoNode /\ n \in DOMAIN h2.mem
      /\ h2.mem[n].type = type /\ h2.mem[n].ref = 1 /\ h2.mem[n].data = data
      /\ \A q \in DOMAIN h2.mem \ {n} : q \in DOMAIN h.mem /\ h2.mem[q].ref <= h.mem[q].ref
      /\ DOMAIN h2.objs = DOMAIN h.objs
      /\ \A x \in DOMAIN h.objs : Variable(x) # s => h2.objs[x] = h.objs[x]
  BY DEF Made, Scope
<1>2. h2.objs[Null] # NoNode
  BY <1>1
<1>3. Capped(h2, b)
  <2>1. SUFFICES ASSUME NEW q \in DOMAIN h2.mem PROVE h2.mem[q].ref <= b
    BY DEF Capped
  <2>2. CASE q = n
    BY <1>1, <2>2
  <2>3. CASE q # n
    <3>1. q \in DOMAIN h.mem /\ h2.mem[q].ref <= h.mem[q].ref /\ h.mem[q].ref <= b
      BY <1>1, <2>3 DEF Capped
    <3>2. h.mem[q].ref \in Nat /\ h2.mem[q].ref \in Nat
      BY <1>1, <3>1 DEF Right, Shape, NodeOK
    <3> QED  BY <3>1, <3>2
  <2> QED  BY <2>2, <2>3
<1>4. InScope(h, h2)
  <2>1. SUFFICES ASSUME NEW x \in DOMAIN h.objs, h.objs[x] # NoNode PROVE h2.objs[x] # NoNode
    BY DEF InScope
  <2>2. CASE Variable(x) # s
    BY <1>1, <2>1, <2>2
  <2>3. CASE Variable(x) = s
    BY <1>1, <2>3, VariableIs
  <2> QED  BY <2>2, <2>3
<1>5. NoElements(type, data) => NewAt(h2, s)
  BY <1>1, EmptyIs DEF NoElements, NewAt, Elements
<1> QED  BY <1>1, <1>2, <1>3, <1>4, <1>5 DEF Fit, Good

LEMMA LessCapped ==
  ASSUME NEW h, NEW h2, NEW s, NEW n \in DOMAIN h.mem, NEW b \in Nat, Lessened(h, h2, s, n),
         Capped(h, b), Shape(h)
  PROVE  Capped(h2, b)
<1>1. /\ DOMAIN h2.mem = DOMAIN h.mem /\ h2.mem[n].ref = h.mem[n].ref - 1
      /\ \A q \in DOMAIN h.mem : q # n => h2.mem[q].ref = h.mem[q].ref
  BY DEF Lessened, SameRefs
<1>2. \A q \in DOMAIN h.mem : h.mem[q].ref <= b /\ h.mem[q].ref \in Nat
  BY DEF Capped, Shape, NodeOK
<1>3. h2.mem[n].ref <= b
  BY <1>1, <1>2
<1> QED  BY <1>1, <1>2, <1>3 DEF Capped

LEMMA DecRefCntLast ==
  ASSUME NEW h, NEW s, NEW b \in Nat, Fit(h, s, b), b < RefLimit
  PROVE  DecRefCnt(h, At(h, s)).mem[At(h, s)].ref = 0 <=> h.mem[At(h, s)].ref = 1
<1> DEFINE n == At(h, s)
           c == Counted(h.mem, n, -1)
           hp == Parked(h, h.mem[n])
<1>1. /\ Shape(h) /\ Record(h) /\ n \in DOMAIN h.mem /\ h.mem[n].ref \in Nat
      /\ h.mem[n].ref # 0 /\ h.mem[n].ref <= b /\ NodeOK(h.mem[n])
  BY FitIs
<1>2. RefLimit \in Nat /\ h.mem[n].ref < RefLimit /\ 1 < RefLimit /\ h.mem[n].ref \in 1..RefLimit - 1
  BY <1>1, JsonAssumption
<1>3. CASE h.mem[n].ref = 1
  <2>1. DecRefCnt(h, n) = SetMem(hp, c)
    BY <1>1, <1>2, <1>3, DecRefCntIs
  <2>2. Record(hp)
    BY <1>1, ParkedIs
  <2> HIDE DEF c, hp
  <2>3. DecRefCnt(h, n).mem = c
    BY <2>1, <2>2, Parts
  <2>4. c = [h.mem EXCEPT ![n].ref = (@ + -1) % RefLimit]
    BY DEF c, Counted
  <2>5. c[n] = [h.mem[n] EXCEPT !.ref = (1 + -1) % RefLimit]
    BY <1>1, <1>3, <2>4
  <2>6. (1 + -1) % RefLimit = 0
    BY <1>2
  <2>7. c[n] = [type |-> h.mem[n].type, ref |-> 0, data |-> h.mem[n].data]
    BY <1>1, <2>5, <2>6, NodeParts DEF NodeOK
  <2> QED  BY <1>3, <2>3, <2>7
<1>4. CASE h.mem[n].ref # 1
  <2>1. Lessened(h, DecRefCnt(h, n), s, n)
    BY <1>1, <1>2, <1>4, FewerIs DEF Fit, Good
  <2> QED  BY <1>4, <2>1 DEF Lessened
<1> QED  BY <1>3, <1>4

LEMMA TookUsable ==
  ASSUME NEW h, NEW h2, NEW s, Took(h, h2), Spared(h, h2, Nowhere), Usable(h, s)
  PROVE  Usable(h2, s) /\ At(h2, s) = At(h, s)
<1>1. /\ s \in Slots(h) /\ (s[1] = "objs" \/ (s[1] = "mem" /\ Reach(h, s, s[2])))
      /\ h2.objs = h.objs /\ \A q \in DOMAIN h2.mem : q \in DOMAIN h.mem /\ SameNode(h.mem[q], h2.mem[q])
  BY DEF Usable, Took, SameNodes
<1>2. CASE \E x \in DOMAIN h.objs : s = Variable(x)
  BY <1>1, <1>2, VariableIs DEF Usable
<1>3. CASE \E n \in DOMAIN h.mem : \E k \in DOMAIN Elements(h.mem[n]) : s = Element(n, k)
  <2>1. PICK n \in DOMAIN h.mem : \E k \in DOMAIN Elements(h.mem[n]) : s = Element(n, k)
    BY <1>3
  <2>2. PICK k \in DOMAIN Elements(h.mem[n]) : s = Element(n, k)
    BY <2>1
  <2>3. s[1] = "mem" /\ s[2] = n
    BY <2>2, ElementIs
  <2>4. Reach(h2, Nowhere, n) /\ n \in DOMAIN h2.mem
    BY <1>1, <2>3, NoSlot, ReachWhole DEF Spared
  <2>5. SameNode(h.mem[n], h2.mem[n])
    BY <1>1, <2>4
  <2>6. k \in DOMAIN Elements(h2.mem[n]) /\ h2.mem[n].data = h.mem[n].data
    BY <2>5 DEF SameNode, Elements
  <2>7. s \in Slots(h2) /\ At(h2, s) = At(h, s)
    BY <2>2, <2>4, <2>6, ElementIs
  <2>8. Reach(h2, s, s[2])
    BY <2>3, <2>4, ReachOwner
  <2> QED  BY <2>3, <2>7, <2>8 DEF Usable
<1>4. CASE \E c \in Containers : \E i \in DOMAIN h.pool[c] : \E k \in DOMAIN h.pool[c][i] :
             s = Pooled(c, i, k)
  BY <1>1, <1>4, PooledIs
<1> QED  BY <1>1, <1>2, <1>3, <1>4, SlotCases

LEMMA RetypedMakes ==
  ASSUME NEW h, NEW s, NEW b \in Nat, Fit(h, s, b), b < RefLimit, NEW type \in Containers
  PROVE  LET h2 == Retyped(h, s, type)
         IN  /\ Fit(h2, s, b) /\ InScope(h, h2) /\ h2.ok = h.ok
             /\ h2.mem[At(h2, s)].type = type /\ NewAt(h2, s)
<1> DEFINE n == At(h, s)
           less == DecRefCnt(h, n)
           h1 == [less EXCEPT !.mem[n] = SharedJsonVal(type, Empty)]
           h2 == Retyped(h, s, type)
<1>1. /\ Right(h, Nowhere) /\ Shape(h) /\ n \in DOMAIN h.mem /\ h.mem[n].ref \in Nat /\ h.mem[n].ref <= b
      /\ 1 <= b /\ DOMAIN h.objs = Vars \cup {Null} /\ Null \in DOMAIN h.objs
  BY FitIs
<1>2. Usable(h, s) /\ s # Variable(Null) /\ Capped(h, b) /\ h.objs[Null] # NoNode
  BY DEF Fit, Good
<1>3. RefLimit \in Nat /\ h.mem[n].ref < RefLimit /\ 1 < RefLimit
  BY <1>1, JsonAssumption
<1>4. less.mem[n].ref = 0 <=> h.mem[n].ref = 1
  BY DecRefCntLast
<1>5. h2 = IF less.mem[n].ref # 0 THEN New(less, s, type, Empty) ELSE Taken(h1, type)
  BY DEF Retyped
<1>6. NoElements(type, Empty)
  BY DEF NoElements
<1>7. CASE h.mem[n].ref = 1
  <2>1. Made(h, h1, s, n, type, Empty)
    BY <1>1, <1>2, <1>3, <1>6, <1>7, ReplacedIs
  <2> HIDE DEF h1, h2, less, n
  <2>2. h2 = Taken(h1, type)
    BY <1>4, <1>5, <1>7
  <2>3. /\ Right(h1, Nowhere) /\ Usable(h1, s) /\ At(h1, s) = n /\ n # NoNode /\ n \in DOMAIN h1.mem
        /\ h1.mem[n].type = type /\ h1.mem[n].ref = 1 /\ h1.mem[n].data = Empty /\ h1.ok = h.ok
        /\ Scope(h, h1, s)
    BY <2>1 DEF Made
  <2>4. Fit(h1, s, b) /\ InScope(h, h1)
    BY <1>1, <1>2, <2>1, MadeFits
  <2>5. Safe(h1, Nowhere)
    BY NoSlot DEF Safe
  <2>6. Right(h2, Nowhere) /\ Took(h1, h2) /\ Spared(h1, h2, Nowhere)
    BY <2>2, <2>3, <2>5, TakenDoes
  <2>7. /\ h2.objs = h1.objs /\ h2.ok = h1.ok /\ DOMAIN h2.mem \subseteq DOMAIN h1.mem
        /\ \A q \in DOMAIN h2.mem : SameNode(h1.mem[q], h2.mem[q]) /\ h2.mem[q].ref <= h1.mem[q].ref
    BY <2>6 DEF Took, SameNodes
  <2>8. Usable(h2, s) /\ At(h2, s) = n
    BY <2>3, <2>6, TookUsable
  <2>9. n \in DOMAIN h2.mem
    BY <2>3, <2>6, NoSlot, ReachDown DEF Spared
  <2>10. h2.mem[n].type = type /\ h2.mem[n].data = Empty /\ h2.mem[n].ref = 1
    <3>1. h2.mem[n].ref # 0 /\ h2.mem[n].ref \in Nat /\ h2.mem[n].ref <= 1
      BY <2>3, <2>6, <2>7, <2>9 DEF Right, Shape, NodeOK
    <3> QED  BY <2>3, <2>7, <2>9, <3>1 DEF SameNode
  <2>11. NewAt(h2, s)
    BY <2>8, <2>10, EmptyIs DEF NewAt, Elements
  <2>12. Capped(h2, b)
    <3>1. SUFFICES ASSUME NEW q \in DOMAIN h2.mem PROVE h2.mem[q].ref <= b
      BY DEF Capped
    <3>2. h2.mem[q].ref <= h1.mem[q].ref /\ h1.mem[q].ref <= b
      BY <2>4, <2>7 DEF Fit, Good, Capped
    <3>3. h1.mem[q].ref \in Nat /\ h2.mem[q].ref \in Nat
      BY <2>3, <2>6, <2>7 DEF Right, Shape, NodeOK
    <3> QED  BY <3>2, <3>3
  <2>13. Fit(h2, s, b)
    BY <1>2, <2>3, <2>4, <2>6, <2>7, <2>8, <2>12 DEF Fit, Good
  <2>14. InScope(h, h2)
    BY <2>4, <2>7 DEF InScope
  <2> QED  BY <2>3, <2>7, <2>8, <2>10, <2>11, <2>13, <2>14 DEF h2
<1>8. CASE h.mem[n].ref # 1
  <2>1. Lessened(h, less, s, n)
    BY <1>1, <1>2, <1>3, <1>8, FewerIs
  <2> HIDE DEF h1, h2, less, n
  <2>2. h2 = New(less, s, type, Empty)
    BY <1>4, <1>5, <1>8
  <2>3. Right(less, s) /\ Spot(less, s) /\ less.objs = h.objs /\ less.ok = h.ok /\ DOMAIN less.mem # {}
    BY <1>1, <2>1 DEF Lessened
  <2>4. Made(less, h2, s, Fresh(less.mem, 0), type, Empty)
    BY <1>6, <2>2, <2>3, NewMakes
  <2>5. Capped(less, b)
    BY <1>1, <1>2, <2>1, LessCapped
  <2>6. Fit(h2, s, b) /\ InScope(less, h2) /\ h2.mem[At(h2, s)].type = type /\ NewAt(h2, s)
    BY <1>1, <1>2, <1>6, <2>3, <2>4, <2>5, MadeFits DEF Right
  <2>7. InScope(h, h2) /\ h2.ok = h.ok
    BY <2>3, <2>4, <2>6 DEF InScope, Made
  <2> QED  BY <2>6, <2>7 DEF h2
<1> QED  BY <1>7, <1>8

LEMMA LosesCapped ==
  ASSUME NEW h, NEW h2, NEW s, NEW n, NEW b, Loses(h, h2, s, n), Capped(h, b)
  PROVE  Capped(h2, b)
BY DEF Loses, Capped

LEMMA AssignedMakes ==
  ASSUME NEW h, NEW s, NEW b \in Nat, Fit(h, s, b), b < RefLimit, NEW v, v.type \notin Containers
  PROVE  Good(Assigned(h, s, v), b) /\ Assigned(h, s, v).ok = h.ok
<1> DEFINE n == At(h, s)
           less == DecRefCnt(h, n)
           lost == [h EXCEPT !.mem = Without(@, n)]
           h1 == [less EXCEPT !.mem[n] = SharedJsonVal(v.type, v.data)]
           h2 == Assigned(h, s, v)
<1>1. /\ Right(h, Nowhere) /\ Shape(h) /\ n \in DOMAIN h.mem /\ h.mem[n].ref \in Nat /\ h.mem[n].ref <= b
      /\ 1 <= b /\ DOMAIN h.objs = Vars \cup {Null} /\ Null \in DOMAIN h.objs
  BY FitIs
<1>2. Usable(h, s) /\ s # Variable(Null) /\ Capped(h, b) /\ h.objs[Null] # NoNode
  BY DEF Fit, Good
<1>3. RefLimit \in Nat /\ h.mem[n].ref < RefLimit /\ 1 < RefLimit
  BY <1>1, JsonAssumption
<1>4. less.mem[n].ref = 0 <=> h.mem[n].ref = 1
  BY DecRefCntLast
<1>5. NoElements(v.type, v.data)
  BY DEF NoElements
<1>6. h2 = IF h.mem[n].ref = 1 /\ h.mem[n].type = v.type THEN New(lost, s, v.type, v.data)
           ELSE IF less.mem[n].ref = 0 THEN h1 ELSE New(less, s, v.type, v.data)
  BY DEF Assigned
<1>7. CASE h.mem[n].ref = 1 /\ h.mem[n].type = v.type
  <2>1. lost = Lost(h, n)
    BY <1>7 DEF Lost, Parked, SetMem
  <2>2. Loses(h, lost, s, n)
    BY <1>1, <1>2, <1>7, <2>1, LostIs
  <2> HIDE DEF lost, less, n, h1, h2
  <2>3. h2 = New(lost, s, v.type, v.data)
    BY <1>6, <1>7
  <2>4. Right(lost, s) /\ Spot(lost, s) /\ lost.objs = h.objs /\ lost.ok = h.ok
    BY <2>2 DEF Loses
  <2>5. DOMAIN lost.mem # {}
    BY <1>2, <2>4, NullLives
  <2>6. Made(lost, h2, s, Fresh(lost.mem, 0), v.type, v.data)
    BY <1>5, <2>3, <2>4, <2>5, NewMakes
  <2>7. Capped(lost, b)
    BY <1>2, <2>2, LosesCapped
  <2>8. Fit(h2, s, b)
    BY <1>1, <1>2, <2>4, <2>6, <2>7, MadeFits DEF Right
  <2>9. h2.ok = h.ok
    BY <2>4, <2>6 DEF Made
  <2> QED  BY <2>8, <2>9 DEF Fit, h2
<1>8. CASE h.mem[n].ref = 1 /\ h.mem[n].type # v.type
  <2>1. Made(h, h1, s, n, v.type, v.data)
    BY <1>1, <1>2, <1>3, <1>5, <1>8, ReplacedIs
  <2> HIDE DEF lost, less, n, h1, h2
  <2>2. h2 = h1
    BY <1>4, <1>6, <1>8
  <2>3. Fit(h2, s, b)
    BY <1>1, <1>2, <2>1, <2>2, MadeFits
  <2>4. h2.ok = h.ok
    BY <2>1, <2>2 DEF Made
  <2> QED  BY <2>3, <2>4 DEF Fit, h2
<1>9. CASE h.mem[n].ref # 1
  <2>1. Lessened(h, less, s, n)
    BY <1>1, <1>2, <1>3, <1>9, FewerIs
  <2> HIDE DEF lost, less, n, h1, h2
  <2>2. h2 = New(less, s, v.type, v.data)
    BY <1>4, <1>6, <1>9
  <2>3. Right(less, s) /\ Spot(less, s) /\ less.objs = h.objs /\ less.ok = h.ok /\ DOMAIN less.mem # {}
    BY <1>1, <2>1 DEF Lessened
  <2>4. Made(less, h2, s, Fresh(less.mem, 0), v.type, v.data)
    BY <1>5, <2>2, <2>3, NewMakes
  <2>5. Capped(less, b)
    BY <1>1, <1>2, <2>1, LessCapped
  <2>6. Fit(h2, s, b)
    BY <1>1, <1>2, <2>3, <2>4, <2>5, MadeFits DEF Right
  <2>7. h2.ok = h.ok
    BY <2>3, <2>4 DEF Made
  <2> QED  BY <2>6, <2>7 DEF Fit, h2
<1> QED  BY <1>7, <1>8, <1>9

\* s points to nothing any more.
Emptied(h, h2, s) ==
  /\ Right(h2, s) /\ Spot(h2, s) /\ s \in Slots(h2) /\ Scope(h, h2, s) /\ h2.ok = h.ok
  /\ DOMAIN h2.mem = DOMAIN h.mem /\ SameRefs(h, h2, {})

LEMMA EmptiedIs ==
  ASSUME NEW h, NEW s, Right(h, s), Spot(h, s), s \in Slots(h)
  PROVE  Emptied(h, Point(h, s, NoNode), s)
<1> DEFINE h2 == Point(h, s, NoNode)
<1>1. Pointed(h, h2, s, NoNode)
  BY PointIs DEF Right, Spot, NoNode
<1> HIDE DEF h2
<1>2. /\ Shape(h2) /\ Slots(h2) = Slots(h) /\ At(h2, s) = NoNode /\ SameBut(h, h2, s)
      /\ DOMAIN h2.mem = DOMAIN h.mem /\ SameRefs(h, h2, {}) /\ h2.ok = h.ok /\ Scope(h, h2, s)
  BY <1>1 DEF Pointed, Scope
<1>3. Right(h2, s)
  BY <1>2, Empties
<1>4. Spot(h2, s)
  <2>1. s[1] = "mem" => Reach(h2, s, s[2])
    <3>1. Cut(h, s, {}) /\ Leaves_(h, h2, s, {})
      BY <1>2 DEF Cut, Leaves_, SameBut
    <3> QED  BY <3>1, ReachKept DEF Spot
  <2>2. s[1] = "objs" \/ s[1] = "mem"
    BY VariableIs, ElementIs DEF Spot, Room
  <2>3. Usable(h2, s)
    BY <1>2, <2>1, <2>2 DEF Usable
  <2> QED  BY <1>2, <2>3, UsableSpot
<1>5. Emptied(h, h2, s)
  BY <1>2, <1>3, <1>4 DEF Emptied
<1> QED  BY <1>5 DEF h2

LEMMA LeftLost ==
  ASSUME NEW h, NEW n \in DOMAIN h.mem, Shape(h), h.mem[n].ref = 1, h.mem[n].ref \in 1..RefLimit - 1
  PROVE  [DecRefCnt(h, n) EXCEPT !.mem = Without(@, n)] = Lost(h, n)
<1> DEFINE less == DecRefCnt(h, n)
           lost == [less EXCEPT !.mem = Without(@, n)]
           hp == Parked(h, h.mem[n])
           c == Counted(h.mem, n, -1)
<1>1. Record(hp)
  BY ParkedIs DEF Shape
<1>2. less = SetMem(hp, c)
  BY DecRefCntIs
<1>3. Without(c, n) = Without(h.mem, n)
  BY DEF Without, Restrict, Counted
<1>4. lost = SetMem(less, Without(less.mem, n)) /\ Lost(h, n) = SetMem(hp, Without(h.mem, n))
  BY DEF SetMem, Lost
<1> HIDE DEF hp, less, lost, c
<1>5. less.mem = c
  BY <1>1, <1>2, Parts
<1>6. SetMem(SetMem(hp, c), Without(c, n)) = SetMem(hp, Without(c, n))
  BY <1>1, ParkedMem
<1>7. lost = Lost(h, n)
  BY <1>2, <1>3, <1>4, <1>5, <1>6
<1> QED  BY <1>7 DEF lost, less

\* s has let go of what it had; what others point to is still there.
Let(h, h2, s, b) ==
  /\ Right(h2, s) /\ Spot(h2, s) /\ s \in Slots(h2) /\ Scope(h, h2, s) /\ h2.ok = h.ok /\ Capped(h2, b)
  /\ \A t \in Slots(h) : t # s /\ At(h, t) \in DOMAIN h.mem => At(h, t) \in DOMAIN h2.mem

LEMMA LeftIs ==
  ASSUME NEW h, NEW s, NEW b \in Nat, Good(h, b), Usable(h, s), s # Variable(Null), b < RefLimit
  PROVE  Let(h, Left(h, s), s, b)
<1> DEFINE n == At(h, s)
           less == DecRefCnt(h, n)
           lost == [less EXCEPT !.mem = Without(@, n)]
           h2 == Left(h, s)
<1>1. Right(h, Nowhere) /\ Shape(h) /\ s \in Slots(h) /\ Capped(h, b) /\ h.objs[Null] # NoNode
  BY DEF Good, Right, Usable
<1>2. h2 = IF n = NoNode THEN h
           ELSE IF less.mem[n].ref # 0 THEN Point(less, s, NoNode)
           ELSE Point(lost, s, NoNode)
  BY DEF Left
<1>3. CASE n = NoNode
  <2> HIDE DEF h2
  <2>1. h2 = h
    BY <1>2, <1>3
  <2>2. NoNode \notin DOMAIN h.mem
    BY <1>1 DEF Shape, NoNode
  <2>3. Right(h, s)
    BY <1>1, <1>3, <2>2, Unheld
  <2>4. Spot(h, s)
    BY <1>1, UsableSpot
  <2>5. Let(h, h2, s, b)
    BY <1>1, <2>1, <2>3, <2>4 DEF Let, Scope
  <2> QED  BY <2>5 DEF h2
<1>4. CASE n # NoNode
  <2>1. Fit(h, s, b)
    BY <1>1, <1>4 DEF Fit
  <2>2. /\ n \in DOMAIN h.mem /\ h.mem[n].ref \in Nat /\ h.mem[n].ref <= b /\ h.mem[n].ref # 0
        /\ Record(h) /\ NodeOK(h.mem[n])
    BY <2>1, FitIs
  <2>3. RefLimit \in Nat /\ h.mem[n].ref < RefLimit /\ h.mem[n].ref \in 1..RefLimit - 1
    BY <2>2, JsonAssumption
  <2>4. less.mem[n].ref = 0 <=> h.mem[n].ref = 1
    BY <2>1, DecRefCntLast
  <2>5. CASE h.mem[n].ref # 1
    <3>1. Lessened(h, less, s, n)
      BY <1>1, <2>2, <2>3, <2>5, FewerIs
    <3> HIDE DEF h2, lost, less, n
    <3>2. h2 = Point(less, s, NoNode)
      BY <1>2, <1>4, <2>4, <2>5
    <3>3. Right(less, s) /\ Spot(less, s) /\ s \in Slots(less) /\ less.objs = h.objs /\ less.ok = h.ok
          /\ DOMAIN less.mem = DOMAIN h.mem
      BY <3>1 DEF Lessened
    <3>4. Emptied(less, h2, s)
      BY <3>2, <3>3, EmptiedIs
    <3>5. Capped(less, b)
      BY <1>1, <2>2, <3>1, LessCapped
    <3>6. Capped(h2, b) /\ Scope(h, h2, s) /\ h2.ok = h.ok /\ DOMAIN h2.mem = DOMAIN h.mem
      BY <3>3, <3>4, <3>5 DEF Emptied, Capped, SameRefs, Scope
    <3>7. Let(h, h2, s, b)
      BY <3>4, <3>6 DEF Let, Emptied
    <3> QED  BY <3>7 DEF h2
  <2>6. CASE h.mem[n].ref = 1
    <3>1. lost = Lost(h, n)
      BY <1>1, <2>2, <2>3, <2>6, LeftLost
    <3>2. Loses(h, lost, s, n)
      BY <1>1, <2>2, <2>6, <3>1, LostIs
    <3> HIDE DEF h2, lost, less, n
    <3>3. h2 = Point(lost, s, NoNode)
      BY <1>2, <1>4, <2>4, <2>6
    <3>4. /\ Right(lost, s) /\ Spot(lost, s) /\ s \in Slots(lost) /\ lost.objs = h.objs /\ lost.ok = h.ok
          /\ DOMAIN lost.mem = DOMAIN h.mem \ {n} /\ \A t \in Slots(h) : t # s => At(h, t) # n
      BY <3>2 DEF Loses
    <3>5. Emptied(lost, h2, s)
      BY <3>3, <3>4, EmptiedIs
    <3>6. Capped(lost, b)
      BY <1>1, <3>2, LosesCapped
    <3>7. Capped(h2, b) /\ Scope(h, h2, s) /\ h2.ok = h.ok /\ DOMAIN h2.mem = DOMAIN h.mem \ {n}
      BY <3>4, <3>5, <3>6 DEF Emptied, Capped, SameRefs, Scope
    <3>8. Let(h, h2, s, b)
      BY <3>4, <3>5, <3>7 DEF Let, Emptied
    <3> QED  BY <3>8 DEF h2
  <2> QED  BY <2>5, <2>6
<1> QED  BY <1>3, <1>4

LEMMA AssignedFromMakes ==
  ASSUME NEW h, NEW s, NEW b \in Nat, Good(h, b), Usable(h, s), s # Variable(Null), b + 1 < RefLimit,
         NEW other \in Slots(h), At(h, other) \in DOMAIN h.mem
  PROVE  Good(AssignedFrom(h, s, other), b + 1) /\ AssignedFrom(h, s, other).ok = h.ok
<1> DEFINE n == At(h, other)
           left == Left(h, s)
           h1 == [left EXCEPT !.mem = Counted(@, n, 1)]
           h2 == AssignedFrom(h, s, other)
<1>1. Right(h, Nowhere) /\ Shape(h) /\ Capped(h, b) /\ h.objs[Null] # NoNode
  BY DEF Good, Right
<1>2. CASE s = other
  <2>1. h2 = h
    BY <1>2 DEF AssignedFrom
  <2>2. Capped(h, b + 1)
    BY <1>1 DEF Capped, Shape, NodeOK
  <2> QED  BY <1>1, <2>1, <2>2 DEF Good
<1>3. CASE s # other
  <2>1. RefLimit \in Nat /\ b < RefLimit
    BY JsonAssumption
  <2>2. Let(h, left, s, b)
    BY <2>1, LeftIs
  <2>3. h2 = IF n \notin DOMAIN left.mem THEN [h EXCEPT !.ok = FALSE] ELSE Point(h1, s, n)
    BY <1>3 DEF AssignedFrom
  <2>4. h1 = SetMem(left, Counted(left.mem, n, 1))
    BY DEF SetMem
  <2> HIDE DEF n, left, h1, h2
  <2>5. /\ Right(left, s) /\ Shape(left) /\ Spot(left, s) /\ s \in Slots(left) /\ Capped(left, b)
        /\ Scope(h, left, s) /\ left.ok = h.ok
    BY <2>2 DEF Let, Right
  <2>6. n \in DOMAIN left.mem
    BY <1>3, <2>2 DEF Let, n
  <2>7. left.mem[n].ref \in Nat /\ left.mem[n].ref <= b
    BY <2>5, <2>6 DEF Shape, NodeOK, Capped
  <2>8. (left.mem[n].ref + 1) % RefLimit = left.mem[n].ref + 1
    BY <2>1, <2>7
  <2>9. Recounted(left, h1, n, left.mem[n].ref + 1)
    BY <2>4, <2>5, <2>6, <2>7, <2>8, CountedIs
  <2>10. /\ Shape(h1) /\ Slots(h1) = Slots(left) /\ SameBut(left, h1, Nowhere)
         /\ DOMAIN h1.mem = DOMAIN left.mem /\ \A q \in DOMAIN h1.mem : SameNode(left.mem[q], h1.mem[q])
         /\ \A q \in DOMAIN h1.mem : q # n => h1.mem[q].ref = left.mem[q].ref
         /\ h1.mem[n].ref = left.mem[n].ref + 1 /\ h1.objs = left.objs /\ h1.ok = left.ok
    BY <2>9 DEF Recounted, SameRefs, SameNodes
  <2>11. Room(h1, s)
    <3>1. Room(left, s)
      BY <2>5 DEF Spot
    <3>2. \A q \in DOMAIN left.mem : \A k : RoomFor(left.mem[q], k) => RoomFor(h1.mem[q], k)
      BY <2>10 DEF RoomFor, SameNode
    <3> QED  BY <2>10, <3>1, <3>2 DEF Room
  <2>12. n \in Nat
    BY <2>5, <2>6 DEF Shape
  <2>13. Pointed(h1, h2, s, n)
    BY <2>3, <2>6, <2>10, <2>11, <2>12, PointIs
  <2>14. /\ Shape(h2) /\ Slots(h2) = Slots(h1) \cup {s} /\ At(h2, s) = n /\ SameBut(h1, h2, s)
         /\ DOMAIN h2.mem = DOMAIN h1.mem /\ \A q \in DOMAIN h2.mem : h2.mem[q].ref = h1.mem[q].ref
         /\ DOMAIN h2.objs = DOMAIN h1.objs /\ h2.ok = h1.ok
         /\ \A x \in DOMAIN h1.objs : Variable(x) # s => h2.objs[x] = h1.objs[x]
    BY <2>13 DEF Pointed, SameRefs
  <2>15. Right(h2, Nowhere)
    <3>1. s # Nowhere
      BY <2>5, NoSlot
    <3>2. SameBut(left, h2, s) /\ SameRefs(left, h2, {n})
      BY <2>10, <2>14, NoSlot DEF SameBut, SameRefs
    <3>3. /\ Slots(h2) = Slots(left) \cup {s} /\ DOMAIN h2.mem = DOMAIN left.mem
          /\ h2.mem[n].ref = left.mem[n].ref + 1
      BY <2>6, <2>10, <2>14
    <3> QED  BY <2>5, <2>6, <2>14, <3>1, <3>2, <3>3, NoSlot, Shares
  <2>16. Capped(h2, b + 1)
    <3>1. SUFFICES ASSUME NEW q \in DOMAIN left.mem PROVE h2.mem[q].ref <= b + 1
      BY <2>10, <2>14 DEF Capped
    <3>2. left.mem[q].ref \in Nat /\ left.mem[q].ref <= b
      BY <2>5 DEF Shape, NodeOK, Capped
    <3> QED  BY <2>7, <2>10, <2>14, <3>2
  <2>17. h2.objs[Null] # NoNode /\ h2.ok = h.ok
    <3>1. Null \in DOMAIN h.objs
      BY <1>1 DEF Shape
    <3> QED  BY <1>1, <2>5, <2>10, <2>14, <3>1 DEF Scope
  <2> QED  BY <2>15, <2>16, <2>17 DEF Good, h2
<1> QED  BY <1>2, <1>3

(* Copied.                                                                 *)

LEMMA InIs ==
  ASSUME NEW c, NEW q, DOMAIN c \subseteq Places
  PROVE  /\ IsFiniteSet(In(c, q)) /\ Cardinality(In(c, q)) \in Nat
         /\ Cardinality(In(c, q)) <= Cardinality(Places) /\ Cardinality(Places) \in Nat
         /\ (\A l \in DOMAIN c : c[l] # q) => Cardinality(In(c, q)) = 0
<1>1. In(c, q) \subseteq Places
  BY DEF In
<1>2. IsFiniteSet(Places)
  BY JsonAssumption
<1>3. IsFiniteSet(In(c, q)) /\ Cardinality(In(c, q)) <= Cardinality(Places)
  BY <1>1, <1>2, FS_Subset
<1>4. Cardinality(In(c, q)) \in Nat /\ Cardinality(Places) \in Nat
  BY <1>2, <1>3, FS_CardinalityType
<1>5. (\A l \in DOMAIN c : c[l] # q) => In(c, q) = {}
  BY DEF In
<1> QED  BY <1>3, <1>4, <1>5, FS_EmptySet

\* h2 is h, in which the new node n has got the elements c, and what they point to is counted.
Filled(h, h2, n, v) ==
  /\ Right(h2, Nowhere) /\ Slots(h) \subseteq Slots(h2) /\ SameBut(h, h2, Nowhere)
  /\ DOMAIN h2.mem = DOMAIN h.mem /\ h2.mem[n].type = v.type /\ h2.mem[n].ref = h.mem[n].ref
  /\ SameNodes(h, h2, DOMAIN h.mem \ {n})
  /\ h2.objs = h.objs /\ h2.pool = h.pool /\ h2.ok = h.ok

LEMMA FilledIs ==
  ASSUME NEW h, NEW n \in DOMAIN h.mem, NEW v, NEW b \in Nat, Right(h, Nowhere), NodeOK(v),
         h.mem[n].type = v.type, h.mem[n].data = Empty, Capped(h, b),
         b + Cardinality(Places) < RefLimit,
         \A l \in DOMAIN Elements(v) : Elements(v)[l] \in DOMAIN h.mem \ {n}
  PROVE  LET h2 == SetMem(h, Shared([h.mem EXCEPT ![n].data = v.data], Elements(v)))
         IN  Filled(h, h2, n, v) /\ Capped(h2, b + Cardinality(Places))
<1> DEFINE c == Elements(v)
           C(q) == Cardinality(In(c, q))
           P == Cardinality(Places)
           m1 == [h.mem EXCEPT ![n].data = v.data]
           m2 == Shared(m1, c)
           h2 == SetMem(h, m2)
           A == {Element(n, l) : l \in DOMAIN c}
           D(q) == IF q = n THEN v.data ELSE h.mem[q].data
           w(q) == [type |-> h.mem[q].type, ref |-> h.mem[q].ref + C(q), data |-> D(q)]
<1>1. Shape(h) /\ Record(h) /\ RefLimit \in Nat /\ Fun(h.mem) /\ IsFiniteSet(Slots(h))
  BY JsonAssumption DEF Right, Shape, Record, Fun
<1>2. DOMAIN c \subseteq Places /\ IsFiniteSet(DOMAIN c)
  <2>1. c \in Elems
    BY EmptyIs DEF Elements, NodeOK, FitsType
  <2> QED  BY <2>1, OfElems
<1>3. \A q : C(q) \in Nat /\ C(q) <= P /\ P \in Nat
  BY <1>2, InIs
<1>4. C(n) = 0
  <2>1. \A l \in DOMAIN c : c[l] # n
    OBVIOUS
  <2> QED  BY <1>2, <2>1, InIs
<1>5. \A q \in DOMAIN h.mem : /\ NodeOK(h.mem[q]) /\ h.mem[q].ref \in Nat /\ h.mem[q].ref <= b
  BY <1>1 DEF Shape, NodeOK, Capped
<1>6. \A q \in DOMAIN h.mem : (h.mem[q].ref + C(q)) % RefLimit = h.mem[q].ref + C(q)
  <2>1. SUFFICES ASSUME NEW q \in DOMAIN h.mem
                 PROVE  (h.mem[q].ref + C(q)) % RefLimit = h.mem[q].ref + C(q)
    OBVIOUS
  <2>2. C(q) \in Nat /\ C(q) <= P /\ P \in Nat /\ h.mem[q].ref \in Nat /\ h.mem[q].ref <= b
    BY <1>3, <1>5
  <2> HIDE DEF C, P
  <2>3. b + P < RefLimit
    BY DEF P
  <2> QED  BY <1>1, <2>2, <2>3
<1> HIDE DEF C, P, c
<1>7. Fun(m2) /\ DOMAIN m2 = DOMAIN h.mem
  BY DEF Shared, Fun
<1>8. ASSUME NEW q \in DOMAIN h.mem
      PROVE  m2[q] = w(q)
  <2>1. m2[q] = [m1[q] EXCEPT !.ref = (@ + C(q)) % RefLimit]
    BY <1>8 DEF Shared, C
  <2>2. h.mem[q] = [type |-> h.mem[q].type, ref |-> h.mem[q].ref, data |-> h.mem[q].data]
    BY <1>5 DEF NodeOK
  <2>3. m1[q] = [type |-> h.mem[q].type, ref |-> h.mem[q].ref, data |-> D(q)]
    <3>1. CASE q = n
      <4>1. m1[q] = [h.mem[q] EXCEPT !.data = v.data]
        BY <3>1
      <4> HIDE DEF m1
      <4>2. [h.mem[q] EXCEPT !.data = v.data] = [type |-> h.mem[q].type, ref |-> h.mem[q].ref, data |-> v.data]
        BY <2>2, NodeParts
      <4> QED  BY <3>1, <4>1, <4>2
    <3>2. CASE q # n
      <4>1. m1[q] = h.mem[q]
        BY <3>2
      <4> HIDE DEF m1
      <4> QED  BY <2>2, <3>2, <4>1
    <3> QED  BY <3>1, <3>2
  <2> HIDE DEF m1, m2, D
  <2>4. m1[q].ref = h.mem[q].ref
    BY <2>3
  <2>5. [m1[q] EXCEPT !.ref = (h.mem[q].ref + C(q)) % RefLimit]
          = [type |-> h.mem[q].type, ref |-> (h.mem[q].ref + C(q)) % RefLimit, data |-> D(q)]
    BY <2>3, NodeSet
  <2> QED  BY <1>6, <2>1, <2>4, <2>5
<1> HIDE DEF m1, m2, w, D
<1>9. Record(h2) /\ h2.mem = m2 /\ h2.objs = h.objs /\ h2.pool = h.pool /\ h2.ok = h.ok
  BY <1>1, Parts
<1> HIDE DEF h2
<1>10. ASSUME NEW q \in DOMAIN h.mem
       PROVE  /\ h2.mem[q].type = h.mem[q].type /\ h2.mem[q].ref = h.mem[q].ref + C(q)
              /\ h2.mem[q].data = D(q)
              /\ h2.mem[q] = [type |-> h2.mem[q].type, ref |-> h2.mem[q].ref, data |-> h2.mem[q].data]
  <2>1. h2.mem[q] = [type |-> h.mem[q].type, ref |-> h.mem[q].ref + C(q), data |-> D(q)]
    BY <1>8, <1>9 DEF w
  <2> QED  BY <2>1
<1>11. DOMAIN h2.mem = DOMAIN h.mem /\ Fun(h2.mem)
  BY <1>7, <1>9
<1>12. ASSUME NEW q \in DOMAIN h2.mem
       PROVE  NodeOK(h2.mem[q])
  <2>1. h2.mem[q].ref \in Nat
    <3>1. h2.mem[q].ref = h.mem[q].ref + C(q)
      BY <1>10, <1>11
    <3>2. h.mem[q].ref \in Nat /\ C(q) \in Nat
      BY <1>3, <1>5, <1>11
    <3> QED  BY <3>1, <3>2
  <2>2. FitsType(h2.mem[q].type, h2.mem[q].data)
    <3>1. CASE q = n
      BY <1>10, <1>11, <3>1 DEF D, NodeOK
    <3>2. CASE q # n
      BY <1>5, <1>10, <1>11, <3>2 DEF D, NodeOK
    <3> QED  BY <3>1, <3>2
  <2> QED  BY <1>10, <1>11, <2>1, <2>2 DEF NodeOK
<1>13. Shape(h2)
  BY <1>1, <1>9, <1>11, <1>12 DEF Shape, Record, Fun
<1>14. \A q \in DOMAIN h.mem : q # n => Elements(h2.mem[q]) = Elements(h.mem[q])
  BY <1>10 DEF Elements, D
<1>15. Elements(h2.mem[n]) = c /\ DOMAIN Elements(h.mem[n]) = {}
  BY <1>10, EmptyIs DEF Elements, D, c
<1>16. \A l \in DOMAIN c : h2.mem[n].data[l] = c[l]
  BY <1>10, EmptyIs DEF D, c, Elements
<1>17. \A t : t \in A <=> \E l \in DOMAIN c : t = Element(n, l)
  OBVIOUS
<1> HIDE DEF A
<1>18. \A t \in A : t \notin Slots(h) /\ t # Nowhere
  BY <1>15, <1>17, ElementIs DEF Nowhere
<1>19. Slots(h2) = Slots(h) \cup A
  <2>1. \A t : (IsVariable(h2, t) <=> IsVariable(h, t)) /\ (IsPooled(h2, t) <=> IsPooled(h, t))
    BY <1>9 DEF IsVariable, IsPooled
  <2>2. \A t : IsElement(h2, t) <=> IsElement(h, t) \/ t \in A
    <3>1. \A t : IsElement(h2, t) <=>
            (\E q \in DOMAIN h.mem \ {n} : \E k \in DOMAIN Elements(h.mem[q]) : t = Element(q, k)) \/ t \in A
      BY <1>11, <1>14, <1>15, <1>17 DEF IsElement
    <3>2. \A t : IsElement(h, t) <=>
            \E q \in DOMAIN h.mem \ {n} : \E k \in DOMAIN Elements(h.mem[q]) : t = Element(q, k)
      BY <1>15 DEF IsElement
    <3> QED  BY <3>1, <3>2
  <2> QED  BY <2>1, <2>2, SlotIs
<1>20. ASSUME NEW t \in Slots(h)
       PROVE  At(h2, t) = At(h, t)
  <2>1. CASE \E x \in DOMAIN h.objs : t = Variable(x)
    BY <1>9, <2>1, VariableIs
  <2>2. CASE \E q \in DOMAIN h.mem : \E k \in DOMAIN Elements(h.mem[q]) : t = Element(q, k)
    <3>1. PICK q \in DOMAIN h.mem : \E k \in DOMAIN Elements(h.mem[q]) : t = Element(q, k)
      BY <2>2
    <3>2. q # n
      BY <1>15, <3>1
    <3>3. h2.mem[q].data = h.mem[q].data
      BY <1>10, <3>2 DEF D
    <3> QED  BY <3>1, <3>3, ElementIs
  <2>3. CASE \E e \in Containers : \E i \in DOMAIN h.pool[e] : \E k \in DOMAIN h.pool[e][i] :
               t = Pooled(e, i, k)
    BY <1>9, <2>3, PooledIs
  <2> QED  BY <2>1, <2>2, <2>3, SlotCases
<1>21. \A l \in DOMAIN c : Element(n, l) \in A /\ At(h2, Element(n, l)) = c[l] /\ Element(n, l)[3] = l
  BY <1>16, <1>17, ElementIs
<1>22. \A t \in A : At(h2, t) \in DOMAIN h.mem
  BY <1>17, <1>21 DEF c
<1>23. IsFiniteSet(A)
  <2> DEFINE g == [l \in DOMAIN c |-> Element(n, l)]
  <2>1. Pairs(g, DOMAIN c, A)
    BY <1>17, <1>21 DEF Pairs
  <2> QED  BY <1>2, <2>1, AsMany
<1>24. ASSUME NEW q \in DOMAIN h.mem
       PROVE  C(q) = Cardinality({t \in A : At(h2, t) = q})
  <2> DEFINE B == {t \in A : At(h2, t) = q}
             I == In(c, q)
             g == [l \in I |-> Element(n, l)]
  <2>1. \A l : l \in I <=> l \in DOMAIN c /\ c[l] = q
    BY DEF In
  <2>2. \A t : t \in B <=> \E l \in I : t = Element(n, l)
    BY <1>17, <1>21, <2>1
  <2> HIDE DEF B, I
  <2>3. Pairs(g, I, B)
    BY <1>21, <2>1, <2>2 DEF Pairs
  <2>4. IsFiniteSet(I)
    BY <1>2, InIs DEF I
  <2>5. Cardinality(B) = Cardinality(I)
    BY <2>3, <2>4, AsMany
  <2> QED  BY <2>5 DEF B, I, C
<1>25. Right(h2, Nowhere)
  <2>1. SameBut(h, h2, Nowhere) /\ A \cap Slots(h) = {} /\ Nowhere \notin A
    BY <1>18, <1>20 DEF SameBut
  <2>2. \A q \in DOMAIN h.mem : h2.mem[q].ref = h.mem[q].ref + Cardinality({t \in A : At(h2, t) = q})
    BY <1>10, <1>24
  <2> QED  BY <1>11, <1>13, <1>19, <1>22, <1>23, <2>1, <2>2, NoSlot, Joins
<1>26. Filled(h, h2, n, v)
  <2>1. h2.mem[n].ref = h.mem[n].ref /\ h2.mem[n].type = v.type
    <3>1. h2.mem[n].ref = h.mem[n].ref + C(n) /\ h2.mem[n].type = h.mem[n].type
      BY <1>10
    <3>2. h.mem[n].ref \in Nat
      BY <1>5
    <3> QED  BY <1>4, <3>1, <3>2
  <2>2. SameNodes(h, h2, DOMAIN h.mem \ {n})
    BY <1>10 DEF SameNodes, SameNode, D
  <2> QED  BY <1>9, <1>11, <1>19, <1>20, <1>25, <2>1, <2>2 DEF Filled, SameBut
<1>27. Capped(h2, b + P)
  <2>1. SUFFICES ASSUME NEW q \in DOMAIN h.mem PROVE h2.mem[q].ref <= b + P
    BY <1>11 DEF Capped
  <2>2. h2.mem[q].ref = h.mem[q].ref + C(q) /\ C(q) \in Nat /\ C(q) <= P /\ P \in Nat
    BY <1>3, <1>10
  <2>3. h.mem[q].ref \in Nat /\ h.mem[q].ref <= b
    BY <1>5
  <2> QED  BY <2>2, <2>3
<1> QED  BY <1>26, <1>27 DEF h2, m2, m1, c, P

\* s has in h2 what it had in h, and nobody else has it.
Owned(h, h2, s, b) ==
  /\ h2.ok => /\ Fit(h2, s, b) /\ InScope(h, h2) /\ h2.mem[At(h2, s)].type = h.mem[At(h, s)].type
              /\ h2.ok = h.ok
  /\ Bare(h) => h2.ok = h.ok /\ Bare(h2)

\* What Copied fills is the new node.
CopyFilled(h, own, s) ==
  LET new == New(DecRefCnt(h, At(h, s)), s, h.mem[At(h, s)].type, Empty)
  IN  Filled(new, own, At(new, s), h.mem[At(h, s)])

LEMMA CopiedMakes ==
  ASSUME NEW h, NEW s, NEW b \in Nat, Fit(h, s, b), b + Cardinality(Places) < RefLimit,
         h.mem[At(h, s)].ref # 1, h.ok = TRUE
  PROVE  /\ Owned(h, Copied(h, s), s, b + Cardinality(Places))
         /\ Copied(h, s).ok => CopyFilled(h, Copied(h, s), s)
<1> DEFINE n == At(h, s)
           old == h.mem[n]
           less == DecRefCnt(h, n)
           new == New(less, s, old.type, Empty)
           n2 == Fresh(less.mem, 0)
           own == Copied(h, s)
           P == Cardinality(Places)
           full == SetMem(new, Shared([new.mem EXCEPT ![n2].data = old.data], Elements(old)))
<1>1. /\ Right(h, Nowhere) /\ Shape(h) /\ Record(h) /\ n \in DOMAIN h.mem /\ n # NoNode
      /\ old.ref \in Nat /\ old.ref <= b /\ NodeOK(old) /\ s \in Slots(h)
      /\ 1 <= b /\ DOMAIN h.objs = Vars \cup {Null} /\ Null \in DOMAIN h.objs
  BY FitIs
<1>2. Usable(h, s) /\ s # Variable(Null) /\ Capped(h, b) /\ h.objs[Null] # NoNode
  BY DEF Fit, Good
<1>3. P \in Nat
  BY JsonAssumption, FS_CardinalityType
<1>4. RefLimit \in Nat /\ old.ref < RefLimit
  BY <1>1, <1>3, JsonAssumption
<1>5. Lessened(h, less, s, n)
  BY <1>1, <1>2, <1>4, FewerIs
<1>6. own = IF n \in DOMAIN new.mem
            THEN [new EXCEPT !.mem = Shared([@ EXCEPT ![At(new, s)].data = old.data], Elements(old))]
            ELSE [h EXCEPT !.ok = FALSE]
  BY DEF Copied, CopiedTo, WithDataOf
<1>7. /\ DOMAIN Elements(old) = {} \/ (old.type \in Containers /\ Elements(old) = old.data)
      /\ \A l \in DOMAIN Elements(old) : Elements(old)[l] = old.data[l]
  BY EmptyIs DEF Elements
<1> HIDE DEF n, old, less, new, n2, own, P, full
<1>8. /\ Right(less, s) /\ Spot(less, s) /\ less.objs = h.objs /\ less.ok = h.ok /\ less.pool = h.pool
      /\ DOMAIN less.mem # {} /\ DOMAIN less.mem = DOMAIN h.mem
      /\ Slots(less) = Slots(h) /\ \A t \in Slots(h) : At(less, t) = At(h, t)
  BY <1>1, <1>5, NoSlot DEF Lessened, SameBut
<1>9. NoElements(old.type, Empty)
  BY DEF NoElements
<1>10. /\ Made(less, new, s, n2, old.type, Empty) /\ n2 \notin DOMAIN less.mem
       /\ Bare(less) => Bare(new) /\ DOMAIN less.mem \subseteq DOMAIN new.mem
       /\ KeepsElements(less, new, s)
  BY <1>8, <1>9, NewMakes DEF new, n2
<1>11. Capped(less, b)
  BY <1>1, <1>2, <1>5, LessCapped
<1>12. Fit(new, s, b) /\ InScope(less, new)
  BY <1>1, <1>2, <1>8, <1>10, <1>11, MadeFits DEF Right
<1>13. /\ At(new, s) = n2 /\ n2 \in DOMAIN new.mem /\ new.mem[n2].type = old.type
       /\ new.mem[n2].data = Empty /\ new.ok = less.ok
  BY <1>10 DEF Made
<1>14. Bare(h) => Bare(new) /\ n \in DOMAIN new.mem
  BY <1>1, <1>8, <1>10 DEF Bare
<1>15. CASE n \notin DOMAIN new.mem
  <2>1. own = [h EXCEPT !.ok = FALSE]
    BY <1>6, <1>15
  <2>2. own.ok = FALSE
    BY <1>1, <2>1, Parts
  <2>3. Owned(h, own, s, b + P)
    BY <1>14, <1>15, <2>2 DEF Owned
  <2> QED  BY <2>2, <2>3 DEF own, P
<1>16. CASE n \in DOMAIN new.mem
  <2>1. own = full
    BY <1>6, <1>13, <1>16 DEF full, SetMem
  <2>2. Right(new, Nowhere) /\ Capped(new, b) /\ Usable(new, s) /\ new.objs[Null] # NoNode
    BY <1>12 DEF Fit, Good
  <2>3. \A l \in DOMAIN Elements(old) : Elements(old)[l] \in DOMAIN new.mem \ {n2}
    <3>1. SUFFICES ASSUME NEW l \in DOMAIN Elements(old) PROVE old.data[l] \in DOMAIN new.mem \ {n2}
      BY <1>7
    <3> DEFINE t == Element(n, l)
    <3>2. t \in Slots(h) /\ At(h, t) = old.data[l] /\ t[1] = "mem" /\ t[2] = n
      BY <1>1, ElementIs DEF old
    <3> HIDE DEF t
    <3>3. Live(h, t) /\ At(h, t) \in DOMAIN less.mem
      BY <1>1, <1>8, <3>2, NoSlot DEF Right, Live
    <3>4. CASE t = s
      BY <1>8, <1>10, <1>16, <3>2, <3>3, <3>4 DEF n
    <3>5. CASE t # s
      <4>1. t \in Slots(new) /\ At(new, t) = old.data[l]
        BY <1>8, <1>10, <1>16, <3>2, <3>5 DEF KeepsElements
      <4>2. At(new, t) \in DOMAIN new.mem
        BY <2>2, <3>2, <4>1, NoSlot DEF Right, Live
      <4> QED  BY <1>10, <3>2, <3>3, <4>1, <4>2
    <3> QED  BY <3>4, <3>5
  <2>4. Filled(new, own, n2, old) /\ Capped(own, b + P)
    BY <1>1, <1>13, <2>1, <2>2, <2>3, FilledIs DEF full, P
  <2>5. /\ Right(own, Nowhere) /\ Slots(new) \subseteq Slots(own)
        /\ \A t \in Slots(new) : At(own, t) = At(new, t)
        /\ DOMAIN own.mem = DOMAIN new.mem /\ own.mem[n2].type = old.type
        /\ own.objs = new.objs /\ own.pool = new.pool /\ own.ok = new.ok
    BY <2>4, NoSlot DEF Filled, SameBut
  <2>6. Usable(own, s)
    <3>1. Cut(new, s, {}) /\ Leaves_(new, own, s, {})
      BY <2>5 DEF Cut, Leaves_
    <3>2. \A q : Reach(new, s, q) => Reach(own, s, q)
      BY <3>1, ReachKept
    <3> QED  BY <2>2, <2>5, <3>2 DEF Usable
  <2>7. At(own, s) = n2 /\ n2 # NoNode
    BY <1>10, <1>13, <2>2, <2>5 DEF Usable, Made
  <2>8. Fit(own, s, b + P)
    BY <1>2, <2>2, <2>4, <2>5, <2>6, <2>7 DEF Fit, Good
  <2>9. InScope(h, own)
    BY <1>8, <1>12, <2>5 DEF InScope
  <2>10. own.mem[At(own, s)].type = h.mem[At(h, s)].type /\ own.ok = h.ok
    BY <1>8, <1>13, <2>5, <2>7 DEF old, n
  <2>11. Bare(h) => Bare(own)
    BY <1>14, <2>5 DEF Bare
  <2>12. Owned(h, own, s, b + P)
    BY <2>8, <2>9, <2>10, <2>11 DEF Owned
  <2>13. CopyFilled(h, own, s)
    BY <1>13, <2>4 DEF CopyFilled, new, less, old, n
  <2> QED  BY <2>12, <2>13 DEF own, P
<1> QED  BY <1>15, <1>16

LEMMA NormalizedMakes ==
  ASSUME NEW h, NEW s, NEW b \in Nat, Fit(h, s, b), b + Cardinality(Places) < RefLimit, h.ok = TRUE
  PROVE  /\ Owned(h, Normalize_(h, s), s, b + Cardinality(Places))
         /\ NewAt(h, s) => Normalize_(h, s) = h
<1>1. Cardinality(Places) \in Nat
  BY JsonAssumption, FS_CardinalityType
<1>2. CASE h.mem[At(h, s)].ref = 1
  <2>1. Normalize_(h, s) = h
    BY <1>2 DEF Normalize_
  <2>2. Capped(h, b + Cardinality(Places))
    <3>1. Shape(h) /\ Capped(h, b)
      BY FitIs DEF Fit, Good
    <3>2. \A q \in DOMAIN h.mem : h.mem[q].ref <= b /\ h.mem[q].ref \in Nat
      BY <3>1 DEF Capped, Shape, NodeOK
    <3>3. \A r \in Nat : r <= b => r <= b + Cardinality(Places)
      BY <1>1
    <3> QED  BY <3>2, <3>3 DEF Capped
  <2>3. Owned(h, h, s, b + Cardinality(Places))
    BY <2>2 DEF Owned, Fit, Good, InScope
  <2> QED  BY <2>1, <2>3
<1>3. CASE h.mem[At(h, s)].ref # 1
  <2>1. Normalize_(h, s) = Copied(h, s)
    BY <1>3 DEF Normalize_
  <2>2. ~NewAt(h, s)
    BY <1>3 DEF NewAt
  <2> QED  BY <1>3, <2>1, <2>2, CopiedMakes
<1> QED  BY <1>2, <1>3

(* Resized.                                                                *)

\* h2 is h with more JsonTypes, one of which is t, which points to a value that was made.
Grown(h, h2, t) ==
  /\ Right(h2, Nowhere) /\ Slots(h) \subseteq Slots(h2) /\ SameBut(h, h2, Nowhere)
  /\ h2.objs = h.objs /\ h2.pool = h.pool /\ h2.ok = h.ok
  /\ \A q \in DOMAIN h.mem \ {t[2]} : q \in DOMAIN h2.mem /\ h2.mem[q] = h.mem[q]
  /\ t \in Slots(h2) /\ At(h2, t) # NoNode /\ NewAt(h2, t)

LEMMA ResizedIs ==
  ASSUME NEW h, NEW n \in DOMAIN h.mem, NEW k \in Nat, NEW b \in Nat, Right(h, Nowhere), Capped(h, b),
         h.mem[n].type = "list", k \notin DOMAIN h.mem[n].data, 0..k \subseteq Places, 1 <= b
  PROVE  Grown(h, Resized(h, n, k), Element(n, k)) /\ Capped(Resized(h, n, k), b)
<1> DEFINE c == h.mem[n].data
           missing == 0..k \ DOMAIN c
           F(l) == Fresh(h.mem, l)
           N == {F(l) : l \in missing}
           A == {Element(n, l) : l \in missing}
           added == Added(h.mem, N, "null", Empty)
           d == [l \in 0..k |-> IF l \in missing THEN F(l) ELSE c[l]]
           w == [type |-> "list", ref |-> h.mem[n].ref, data |-> d]
           h2 == Resized(h, n, k)
           m2 == [q \in DOMAIN h.mem \cup N |-> IF q = n THEN w ELSE added[q]]
<1>1. Shape(h) /\ Record(h) /\ DOMAIN h.mem # {} /\ NodeOK(h.mem[n])
  BY DEF Right, Shape, Record
<1>2. c \in Elems /\ \E l \in Nat : DOMAIN c = 0..l - 1
  BY <1>1 DEF NodeOK, FitsType, Containers
<1>3. PICK len \in Nat : DOMAIN c = 0..len - 1
  BY <1>2
<1>4. /\ \A l : l \in missing <=> l \in 0..k /\ l \notin DOMAIN c
      /\ k \in missing /\ missing \subseteq Nat /\ DOMAIN c \subseteq 0..k /\ missing \subseteq 0..k
  BY <1>3
<1> HIDE DEF c, missing
<1>5. \A l \in missing : F(l) \in Nat \ {0} /\ F(l) \notin DOMAIN h.mem /\ F(l) = Fresh(h.mem, 0) + l
  BY <1>1, <1>4, FreshIs
<1>6. \A l, j \in missing : F(l) = F(j) => l = j
  <2>1. Fresh(h.mem, 0) \in Nat
    BY <1>1, FreshIs
  <2>2. \A l, j \in missing : l \in Nat /\ j \in Nat
    BY <1>4
  <2> QED  BY <1>5, <2>1, <2>2
<1>7. N \subseteq 1..Fresh(h.mem, 0) + k /\ Fresh(h.mem, 0) + k \in Nat
  <2>1. Fresh(h.mem, 0) \in Nat
    BY <1>1, FreshIs
  <2>2. \A l \in missing : F(l) \in 1..Fresh(h.mem, 0) + k
    BY <1>4, <1>5, <2>1
  <2> QED  BY <2>1, <2>2
<1> HIDE DEF F
<1>8. \A q : q \in N <=> \E l \in missing : q = F(l)
  OBVIOUS
<1>9. \A t : t \in A <=> \E l \in missing : t = Element(n, l)
  OBVIOUS
<1> HIDE DEF N, A
<1>10. N \cap DOMAIN h.mem = {} /\ NoNode \notin N /\ n \notin N
  BY <1>5, <1>8 DEF NoNode
<1>11. /\ DOMAIN added = DOMAIN h.mem \cup N /\ \A q \in DOMAIN h.mem : added[q] = h.mem[q]
       /\ \A q \in N : added[q] = SharedJsonVal("null", Empty)
  BY <1>10 DEF Added
<1>12. h2 = SetMem(h, m2)
  <2>1. h2 = SetMem(h, [added EXCEPT ![n].data = [l \in 0..k |-> IF l \in missing THEN F(l) ELSE @[l]]])
    BY DEF Resized, SetMem, missing, c, N, F
  <2> HIDE DEF h2
  <2>2. added = [q \in DOMAIN h.mem \cup N |-> added[q]]
    BY DEF Added
  <2> HIDE DEF added
  <2>3. added[n].data = c
    BY <1>11 DEF c
  <2>4. [added EXCEPT ![n].data = [l \in 0..k |-> IF l \in missing THEN F(l) ELSE @[l]]]
          = [added EXCEPT ![n].data = d]
    BY <2>3
  <2> HIDE DEF d
  <2>5. [added EXCEPT ![n].data = d] = [added EXCEPT ![n] = [added[n] EXCEPT !.data = d]]
    BY <2>2
  <2>6. [added[n] EXCEPT !.data = d] = w
    BY <1>1, <1>11, NodeParts DEF NodeOK
  <2>7. [added EXCEPT ![n] = w] = m2
    BY <2>2
  <2> QED  BY <2>1, <2>4, <2>5, <2>6, <2>7
<1>13. SharedJsonVal("null", Empty).type = "null" /\ SharedJsonVal("null", Empty).ref = 1
       /\ NodeOK(SharedJsonVal("null", Empty)) /\ DOMAIN Elements(SharedJsonVal("null", Empty)) = {}
  BY NewNode DEF NoElements
<1> HIDE DEF added
<1>14. /\ Fun(m2) /\ DOMAIN m2 = DOMAIN h.mem \cup N /\ m2[n] = w
       /\ \A q \in DOMAIN h.mem : q # n => m2[q] = h.mem[q]
       /\ \A q \in N : m2[q] = SharedJsonVal("null", Empty)
  BY <1>10, <1>11 DEF Fun
<1> HIDE DEF h2, m2
<1>15. Record(h2) /\ h2.mem = m2 /\ h2.objs = h.objs /\ h2.pool = h.pool /\ h2.ok = h.ok
  BY <1>1, <1>12, Parts
<1>16. w.type = "list" /\ w.ref = h.mem[n].ref /\ w.data = d
       /\ w = [type |-> w.type, ref |-> w.ref, data |-> w.data]
  OBVIOUS
<1>17. /\ DOMAIN d = 0..k /\ Fun(d) /\ \A l \in missing : d[l] = F(l)
       /\ \A l \in DOMAIN c : d[l] = c[l]
  BY <1>4 DEF Fun
<1> HIDE DEF w, d
<1>18. NodeOK(w)
  <2>1. \A l \in 0..k : d[l] \in Nat
    <3>1. \A l \in DOMAIN c : c[l] \in Nat
      BY <1>2, OfElems
    <3> QED  BY <1>4, <1>5, <1>17, <3>1
  <2>2. d \in Elems
    BY <1>17, <2>1, InElems
  <2>3. DOMAIN d = 0..(k + 1) - 1 /\ k + 1 \in Nat
    BY <1>17
  <2>4. FitsType(w.type, w.data)
    BY <1>16, <2>2, <2>3 DEF FitsType
  <2>5. w.ref \in Nat
    BY <1>1, <1>16 DEF NodeOK
  <2> QED  BY <1>16, <2>4, <2>5 DEF NodeOK
<1>19. Shape(h2)
  <2>1. \E e \in Nat : DOMAIN h2.mem \subseteq 1..e
    <3>1. PICK e \in Nat : DOMAIN h.mem \subseteq 1..e
      BY <1>1 DEF Shape
    <3> DEFINE f == Fresh(h.mem, 0) + k
    <3>2. f \in Nat /\ N \subseteq 1..f
      BY <1>7
    <3> HIDE DEF f
    <3>3. \A q \in DOMAIN h2.mem : q \in 1..e + f
      <4>1. SUFFICES ASSUME NEW q \in DOMAIN h2.mem PROVE q \in 1..e + f
        OBVIOUS
      <4>2. q \in 1..e \/ q \in 1..f
        BY <1>14, <1>15, <3>1, <3>2
      <4> QED  BY <3>2, <4>2
    <3> QED  BY <3>2, <3>3
  <2>2. \A q \in DOMAIN h2.mem : NodeOK(h2.mem[q])
    <3>1. \A q \in DOMAIN h.mem : NodeOK(h.mem[q])
      BY <1>1 DEF Shape
    <3> QED  BY <1>13, <1>14, <1>15, <1>18, <3>1
  <2> QED  BY <1>1, <1>14, <1>15, <2>1, <2>2 DEF Shape, Record, Fun
<1>20. /\ Elements(h2.mem[n]) = d /\ Elements(h.mem[n]) = c
       /\ \A q \in DOMAIN h.mem : q # n => h2.mem[q] = h.mem[q]
       /\ \A q \in N : DOMAIN Elements(h2.mem[q]) = {}
  <2>1. Elements(w) = d /\ Elements(h.mem[n]) = c
    BY <1>16 DEF Elements, Containers, c
  <2> QED  BY <1>13, <1>14, <1>15, <2>1
<1>21. \A l : l \in DOMAIN d <=> l \in DOMAIN c \/ l \in missing
  BY <1>4, <1>17
<1>22. \A t : IsElement(h2, t) <=> IsElement(h, t) \/ t \in A
  <2>1. SUFFICES ASSUME NEW t PROVE IsElement(h2, t) <=> IsElement(h, t) \/ t \in A
    OBVIOUS
  <2>2. DOMAIN h2.mem = DOMAIN h.mem \cup N
    BY <1>14, <1>15
  <2>3. IsElement(h2, t) <=>
          \/ \E q \in DOMAIN h.mem \ {n} : \E l \in DOMAIN Elements(h.mem[q]) : t = Element(q, l)
          \/ \E l \in DOMAIN d : t = Element(n, l)
    BY <1>20, <2>2 DEF IsElement
  <2>4. IsElement(h, t) <=>
          \/ \E q \in DOMAIN h.mem \ {n} : \E l \in DOMAIN Elements(h.mem[q]) : t = Element(q, l)
          \/ \E l \in DOMAIN c : t = Element(n, l)
    BY <1>20 DEF IsElement
  <2> QED  BY <1>9, <1>21, <2>3, <2>4
<1>23. Slots(h2) = Slots(h) \cup A
  <2>1. \A t : (IsVariable(h2, t) <=> IsVariable(h, t)) /\ (IsPooled(h2, t) <=> IsPooled(h, t))
    BY <1>15 DEF IsVariable, IsPooled
  <2> QED  BY <1>22, <2>1, SlotIs
<1>24. A \cap Slots(h) = {} /\ Nowhere \notin A
  <2>1. \A l \in missing : Element(n, l) \notin Slots(h) /\ Element(n, l) # Nowhere
    BY <1>4, <1>20, ElementIs DEF Nowhere
  <2> QED  BY <1>9, <2>1
<1>25. ASSUME NEW t \in Slots(h)
       PROVE  At(h2, t) = At(h, t)
  <2>1. CASE \E x \in DOMAIN h.objs : t = Variable(x)
    BY <1>15, <2>1, VariableIs
  <2>2. CASE \E q \in DOMAIN h.mem : \E l \in DOMAIN Elements(h.mem[q]) : t = Element(q, l)
    <3>1. PICK q \in DOMAIN h.mem : \E l \in DOMAIN Elements(h.mem[q]) : t = Element(q, l)
      BY <2>2
    <3>2. PICK l \in DOMAIN Elements(h.mem[q]) : t = Element(q, l)
      BY <3>1
    <3>3. h2.mem[q].data[l] = h.mem[q].data[l]
      <4>1. CASE q = n
        BY <1>14, <1>15, <1>16, <1>17, <1>20, <3>2, <4>1 DEF c
      <4>2. CASE q # n
        BY <1>20, <4>2
      <4> QED  BY <4>1, <4>2
    <3> QED  BY <3>2, <3>3, ElementIs
  <2>3. CASE \E e \in Containers : \E i \in DOMAIN h.pool[e] : \E l \in DOMAIN h.pool[e][i] :
               t = Pooled(e, i, l)
    BY <1>15, <2>3, PooledIs
  <2> QED  BY <2>1, <2>2, <2>3, SlotCases
<1>26. \A l \in missing : Element(n, l) \in A /\ At(h2, Element(n, l)) = F(l) /\ Element(n, l)[3] = l
  BY <1>9, <1>14, <1>15, <1>16, <1>17, ElementIs
<1>27. \A t \in A : At(h2, t) \in N
  BY <1>8, <1>9, <1>26
<1>28. \A q \in N : \E t \in A : {u \in A : At(h2, u) = q} = {t}
  <2>1. SUFFICES ASSUME NEW q \in N PROVE \E t \in A : {u \in A : At(h2, u) = q} = {t}
    OBVIOUS
  <2>2. PICK l \in missing : q = F(l)
    BY <1>8
  <2>3. \A u \in A : At(h2, u) = q => u = Element(n, l)
    BY <1>6, <1>9, <1>26, <2>2
  <2> QED  BY <1>26, <2>2, <2>3
<1>29. IsFiniteSet(A)
  <2> DEFINE g == [l \in missing |-> Element(n, l)]
  <2>1. Pairs(g, missing, A)
    BY <1>9, <1>26 DEF Pairs
  <2>2. IsFiniteSet(missing)
    <3>1. IsFiniteSet(0..k)
      BY FS_Interval
    <3> QED  BY <1>4, <3>1, FS_Subset
  <2> QED  BY <2>1, <2>2, AsMany
<1>30. DOMAIN h2.mem = DOMAIN h.mem \cup N /\ \A q \in DOMAIN h.mem : h2.mem[q].ref = h.mem[q].ref
  BY <1>14, <1>15, <1>16
<1>31. \A q \in N : h2.mem[q].ref = 1
  BY <1>13, <1>14, <1>15
<1>32. Right(h2, Nowhere)
  <2>1. SameBut(h, h2, Nowhere) /\ SameRefs(h, h2, {})
    BY <1>25, <1>30 DEF SameBut, SameRefs
  <2> QED  BY <1>10, <1>19, <1>23, <1>24, <1>27, <1>28, <1>29, <1>30, <1>31, <2>1, NoSlot, Adds
<1>33. Element(n, k) \in Slots(h2) /\ At(h2, Element(n, k)) = F(k) /\ F(k) \in N
  BY <1>4, <1>8, <1>23, <1>26
<1>34. At(h2, Element(n, k)) # NoNode /\ NewAt(h2, Element(n, k))
  BY <1>10, <1>20, <1>31, <1>33 DEF NewAt
<1>35. Grown(h, h2, Element(n, k))
  <2>1. \A q \in DOMAIN h.mem \ {Element(n, k)[2]} : q \in DOMAIN h2.mem /\ h2.mem[q] = h.mem[q]
    BY <1>20, <1>30, ElementIs
  <2> QED  BY <1>15, <1>23, <1>25, <1>32, <1>33, <1>34, <2>1 DEF Grown, SameBut
<1>36. Capped(h2, b)
  BY <1>30, <1>31 DEF Capped
<1> QED  BY <1>35, <1>36 DEF h2

(* operator[].                                                             *)

\* What a bracket leads to: an operation can go on at r.slot, unless something free was read;
\* and nothing was, if the pool had no elements or the value was new.
Leads_(h, s, r, b) ==
  /\ r.heap.ok => r.heap.ok = TRUE /\ Fit(r.heap, r.slot, b) /\ InScope(h, r.heap)
  /\ Bare(h) \/ NewAt(h, s) => r.heap.ok = TRUE /\ (Bare(r.heap) \/ NewAt(r.heap, r.slot))

\* The element k of what s has, which is nobody else's and of the right type.
LEMMA WholeMakes ==
  ASSUME NEW own, NEW s, NEW b \in Nat, Fit(own, s, b), own.ok = TRUE, NEW k \in Keys \cup Indexes,
         own.mem[At(own, s)].type = KindOf(k)
  PROVE  LET r == [heap |-> WholeAt(own, At(own, s), k), slot |-> Element(At(own, s), k)]
         IN  Leads_(own, s, r, b)
<1> DEFINE n == At(own, s)
           e == Element(n, k)
           whole == WholeAt(own, n, k)
           r == [heap |-> whole, slot |-> e]
<1>1. /\ Right(own, Nowhere) /\ Shape(own) /\ n \in DOMAIN own.mem /\ n # NoNode /\ 1 <= b
      /\ DOMAIN own.mem # {} /\ DOMAIN own.objs = Vars \cup {Null} /\ NodeOK(own.mem[n])
  BY FitIs
<1>2. own.objs[Null] # NoNode /\ Capped(own, b) /\ Usable(own, s)
  BY DEF Fit, Good
<1>3. Reach(own, Nowhere, n)
  BY <1>1, <1>2, NoSlot, ReachDown
<1>4. e[1] = "mem" /\ e[2] = n /\ e # Variable(Null) /\ e # Nowhere
  BY ElementIs, VariableIs DEF Nowhere
<1>5. own.mem[n].type \in Containers /\ Elements(own.mem[n]) = own.mem[n].data
  BY DEF KindOf, Containers, Elements
<1>6. e \in Slots(own) <=> k \in DOMAIN own.mem[n].data
  BY <1>1, <1>5, ElementIs
<1>7. r.heap = whole /\ r.slot = e
  OBVIOUS
<1>8. Reach(own, e, e[2])
  BY <1>3, <1>4, ReachOwner
<1>9. own.mem[n].type = KindOf(k)
  OBVIOUS
<1> HIDE DEF n, e, whole, r
<1>10. CASE k \in DOMAIN own.mem[n].data
  <2>1. whole = own
    BY <1>10 DEF whole, WholeAt
  <2>2. Usable(own, e)
    BY <1>4, <1>6, <1>8, <1>10 DEF Usable
  <2>3. At(own, e) # NoNode
    <3>1. Live(own, e)
      BY <1>1, <1>4, <1>6, <1>10 DEF Right
    <3>2. NoNode \notin DOMAIN own.mem
      BY <1>1 DEF Shape, NoNode
    <3> QED  BY <1>4, <3>1, <3>2 DEF Live
  <2>4. Fit(own, e, b)
    BY <1>4, <2>2, <2>3 DEF Fit
  <2>5. ~NewAt(own, s)
    BY <1>5, <1>10 DEF NewAt, n
  <2>6. InScope(own, own)
    BY DEF InScope
  <2>7. Leads_(own, s, r, b)
    BY <1>7, <2>1, <2>4, <2>5, <2>6 DEF Leads_
  <2> QED  BY <2>7 DEF r, whole, e, n
<1>11. CASE k \notin DOMAIN own.mem[n].data /\ k \in Keys
  <2>1. whole = New(own, e, "dict", Empty)
    BY <1>11 DEF whole, WholeAt, e
  <2>2. Right(own, e)
    BY <1>1, <1>6, <1>11, Unheld
  <2>3. Room(own, e)
    <3>1. k \in Places /\ own.mem[n].type = "dict"
      BY <1>9, <1>11 DEF Places, KindOf
    <3>2. RoomFor(own.mem[n], k)
      BY <1>5, <1>11, <3>1 DEF RoomFor
    <3> QED  BY <1>1, <3>1, <3>2 DEF Room, e
  <2>4. Spot(own, e)
    BY <1>8, <2>3 DEF Spot
  <2>5. NoElements("dict", Empty)
    BY DEF NoElements
  <2>6. Made(own, whole, e, Fresh(own.mem, 0), "dict", Empty)
    BY <1>1, <2>1, <2>2, <2>4, <2>5, NewMakes
  <2>7. Fit(whole, e, b) /\ InScope(own, whole) /\ NewAt(whole, e)
    BY <1>1, <1>2, <1>4, <2>5, <2>6, MadeFits
  <2>8. whole.ok = TRUE
    BY <2>6 DEF Made
  <2>9. Leads_(own, s, r, b)
    BY <1>7, <2>7, <2>8 DEF Leads_
  <2> QED  BY <2>9 DEF r, whole, e, n
<1>12. CASE k \notin DOMAIN own.mem[n].data /\ k \notin Keys
  <2>1. whole = Resized(own, n, k)
    BY <1>12 DEF whole, WholeAt
  <2>2. k \in Indexes /\ k \in Nat /\ own.mem[n].type = "list"
    BY <1>9, <1>12, JsonAssumption DEF KindOf
  <2>3. 0..k \subseteq Places
    BY <2>2 DEF Places
  <2>4. Grown(own, whole, e) /\ Capped(whole, b)
    BY <1>1, <1>2, <1>12, <2>1, <2>2, <2>3, ResizedIs DEF e
  <2>5. /\ Right(whole, Nowhere) /\ Slots(own) \subseteq Slots(whole) /\ SameBut(own, whole, Nowhere)
        /\ whole.objs = own.objs /\ whole.ok = own.ok
        /\ e \in Slots(whole) /\ At(whole, e) # NoNode /\ NewAt(whole, e)
    BY <2>4 DEF Grown
  <2>6. Reach(whole, Nowhere, n)
    <3>1. Cut(own, Nowhere, {}) /\ Leaves_(own, whole, Nowhere, {})
      BY <2>5 DEF Cut, Leaves_, SameBut
    <3> QED  BY <1>3, <3>1, ReachKept
  <2>7. Usable(whole, e)
    BY <1>4, <2>5, <2>6, ReachOwner DEF Usable
  <2>8. Fit(whole, e, b)
    BY <1>2, <1>4, <2>4, <2>5, <2>7 DEF Fit, Good
  <2>9. InScope(own, whole)
    BY <2>5 DEF InScope
  <2>10. Leads_(own, s, r, b)
    BY <1>7, <2>5, <2>8, <2>9 DEF Leads_
  <2> QED  BY <2>10 DEF r, whole, e, n
<1> QED  BY <1>10, <1>11, <1>12

LEMMA ElementOfMakes ==
  ASSUME NEW h, NEW s, NEW b \in Nat, Fit(h, s, b), h.ok = TRUE, NEW k \in Keys \cup Indexes,
         b + Cardinality(Places) < RefLimit
  PROVE  Leads_(h, s, ElementOf(h, s, k), b + Cardinality(Places))
<1> DEFINE P == Cardinality(Places)
           typed == IF h.mem[At(h, s)].type = KindOf(k) THEN h ELSE Retyped(h, s, KindOf(k))
           own == Normalize_(typed, s)
           n == At(own, s)
           whole == WholeAt(own, n, k)
           r == ElementOf(h, s, k)
<1>1. P \in Nat /\ b < RefLimit /\ b + P \in Nat
  <2>1. P \in Nat /\ RefLimit \in Nat
    BY JsonAssumption, FS_CardinalityType
  <2> QED  BY <2>1
<1>2. r = IF own.ok THEN [heap |-> whole, slot |-> Element(n, k)] ELSE [heap |-> own, slot |-> s]
  BY DEF ElementOf, Typed, ElementIn
<1> HIDE DEF r, whole, own, P, n
<1>3. /\ Fit(typed, s, b) /\ InScope(h, typed) /\ typed.ok = TRUE /\ typed.mem[At(typed, s)].type = KindOf(k)
      /\ Bare(h) \/ NewAt(h, s) => Bare(typed) \/ NewAt(typed, s)
  <2>1. CASE h.mem[At(h, s)].type = KindOf(k)
    <3>1. typed = h
      BY <2>1
    <3> QED  BY <2>1, <3>1 DEF InScope
  <2>2. CASE h.mem[At(h, s)].type # KindOf(k)
    <3>1. typed = Retyped(h, s, KindOf(k))
      BY <2>2
    <3>2. KindOf(k) \in Containers
      BY DEF KindOf, Containers
    <3> HIDE DEF typed
    <3>3. Fit(typed, s, b) /\ InScope(h, typed) /\ typed.ok = h.ok
          /\ typed.mem[At(typed, s)].type = KindOf(k) /\ NewAt(typed, s)
      BY <1>1, <3>1, <3>2, RetypedMakes
    <3> QED  BY <3>3
  <2> QED  BY <2>1, <2>2
<1> HIDE DEF typed
<1>4. Owned(typed, own, s, b + P) /\ (NewAt(typed, s) => own = typed)
  BY <1>3, NormalizedMakes DEF own, P
<1>5. CASE own.ok
  <2>1. /\ Fit(own, s, b + P) /\ InScope(typed, own) /\ own.mem[n].type = KindOf(k) /\ own.ok = TRUE
        /\ Bare(typed) \/ NewAt(typed, s) => Bare(own) \/ NewAt(own, s)
    BY <1>3, <1>4, <1>5 DEF Owned, n
  <2>2. Leads_(own, s, [heap |-> whole, slot |-> Element(n, k)], b + P)
    BY <1>1, <2>1, WholeMakes DEF n, whole
  <2>3. r = [heap |-> whole, slot |-> Element(n, k)]
    BY <1>2, <1>5
  <2>4. Leads_(own, s, r, b + P)
    BY <2>2, <2>3
  <2>5. /\ r.heap.ok => r.heap.ok = TRUE /\ Fit(r.heap, r.slot, b + P) /\ InScope(own, r.heap)
        /\ Bare(own) \/ NewAt(own, s) => r.heap.ok = TRUE /\ (Bare(r.heap) \/ NewAt(r.heap, r.slot))
    BY <2>4 DEF Leads_
  <2>6. r.heap.ok => InScope(h, r.heap)
    BY <1>3, <2>1, <2>5 DEF InScope
  <2>7. Leads_(h, s, r, b + P)
    BY <1>3, <2>1, <2>5, <2>6 DEF Leads_
  <2> QED  BY <2>7 DEF r, P
<1>6. CASE ~own.ok
  <2>1. r = [heap |-> own, slot |-> s]
    BY <1>2, <1>6
  <2>2. r.heap = own /\ ~r.heap.ok
    BY <1>6, <2>1
  <2>3. ~(Bare(h) \/ NewAt(h, s))
    BY <1>3, <1>4, <1>6 DEF Owned
  <2>4. Leads_(h, s, r, b + P)
    BY <2>2, <2>3 DEF Leads_
  <2> QED  BY <2>4 DEF r, P
<1> QED  BY <1>5, <1>6

(* Brackets one after the other.                                           *)

LEMMA Times ==
  ASSUME NEW i \in Nat, NEW n \in Nat, NEW p \in Nat, i <= n
  PROVE  i * p \in Nat /\ n * p \in Nat /\ i * p <= n * p /\ (i + 1) * p = i * p + p
<1>1. n - i \in Nat /\ n = i + (n - i)
  OBVIOUS
<1>2. PICK d \in Nat : n = i + d
  BY <1>1
<1>3. i * p \in Nat /\ d * p \in Nat /\ n * p = i * p + d * p
  BY <1>2
<1>4. (i + 1) * p = i * p + p
  OBVIOUS
<1> QED  BY <1>3, <1>4

LEMMA PathIs ==
  ASSUME NEW max \in Nat, NEW p \in Paths(max)
  PROVE  Len(p) \in 0..max /\ \A i \in 1..Len(p) : p[i] \in Keys \cup Indexes
<1>1. PICK n \in 0..max : p \in [1..n -> Keys \cup Indexes]
  BY DEF Paths
<1>2. p \in Seq(Keys \cup Indexes) /\ Len(p) = n
  BY <1>1
<1> QED  BY <1>1, <1>2

LEMMA LeadsOn ==
  ASSUME NEW h, NEW s, NEW r, NEW r2, NEW b, NEW b2,
         Leads_(h, s, r, b), r.heap.ok, Leads_(r.heap, r.slot, r2, b2)
  PROVE  Leads_(h, s, r2, b2)
BY DEF Leads_, InScope

LEMMA FitMore ==
  ASSUME NEW h, NEW s, NEW b \in Nat, NEW b2 \in Nat, b <= b2, Fit(h, s, b)
  PROVE  Fit(h, s, b2)
<1>1. Shape(h) /\ Capped(h, b)
  BY FitIs DEF Fit, Good
<1>2. \A q \in DOMAIN h.mem : h.mem[q].ref <= b /\ h.mem[q].ref \in Nat
  BY <1>1 DEF Capped, Shape, NodeOK
<1>3. \A r \in Nat : r <= b => r <= b2
  OBVIOUS
<1>4. Capped(h, b2)
  BY <1>2, <1>3 DEF Capped
<1> QED  BY <1>4 DEF Fit, Good

LEMMA LeadsMore ==
  ASSUME NEW h, NEW s, NEW r, NEW b \in Nat, NEW b2 \in Nat, b <= b2, Leads_(h, s, r, b)
  PROVE  Leads_(h, s, r, b2)
BY FitMore DEF Leads_

LEMMA BracketLeads ==
  ASSUME NEW h, NEW s, NEW r, NEW b \in Nat, Leads_(h, s, r, b), NEW k \in Keys \cup Indexes,
         b + Cardinality(Places) < RefLimit
  PROVE  Leads_(h, s, Bracket(r, k), b + Cardinality(Places))
<1>1. Cardinality(Places) \in Nat
  BY JsonAssumption, FS_CardinalityType
<1>2. CASE r.heap.ok
  <2>1. Bracket(r, k) = ElementOf(r.heap, r.slot, k)
    BY <1>2 DEF Bracket
  <2>2. r.heap.ok = TRUE /\ Fit(r.heap, r.slot, b)
    BY <1>2 DEF Leads_
  <2>3. Leads_(r.heap, r.slot, ElementOf(r.heap, r.slot, k), b + Cardinality(Places))
    BY <2>2, ElementOfMakes
  <2> QED  BY <1>2, <2>1, <2>3, LeadsOn
<1>3. CASE ~r.heap.ok
  <2>1. Bracket(r, k) = r
    BY <1>3 DEF Bracket
  <2>2. b <= b + Cardinality(Places) /\ b + Cardinality(Places) \in Nat
    BY <1>1
  <2> QED  BY <2>1, <2>2, LeadsMore
<1> QED  BY <1>2, <1>3

\* Where n brackets lead, one after the other.
Walks(h, s, p, n, w) ==
  w = [i \in 0..n |-> IF i = 0 THEN [heap |-> h, slot |-> s] ELSE Bracket(w[i - 1], p[i])]

LEMMA WalksExist ==
  ASSUME NEW h, NEW s, NEW p, NEW n \in Nat
  PROVE  \E w : Walks(h, s, p, n, w)
<1> DEFINE Missing == {i \in Nat : ~\E w : Walks(h, s, p, i, w)}
           start == [heap |-> h, slot |-> s]
<1> SUFFICES ASSUME Missing # {} PROVE FALSE
  OBVIOUS
<1>1. PICK j \in Missing : \A i \in Missing : j <= i
  <2>1. Missing \in SUBSET Nat
    OBVIOUS
  <2> HIDE DEF Missing
  <2> QED  BY <2>1, LeastOf
<1>2. j \in Nat /\ ~\E w : Walks(h, s, p, j, w)
  OBVIOUS
<1>3. CASE j = 0
  <2>1. Walks(h, s, p, 0, [i \in 0..0 |-> start])
    BY DEF Walks
  <2> QED  BY <1>2, <1>3, <2>1
<1>4. CASE j # 0
  <2>1. j - 1 \in Nat /\ j - 1 \notin Missing
    BY <1>1, <1>2, <1>4
  <2>2. PICK w : Walks(h, s, p, j - 1, w)
    BY <2>1
  <2> DEFINE new == [i \in 0..j |-> IF i = j THEN Bracket(w[j - 1], p[j]) ELSE w[i]]
  <2> HIDE DEF start
  <2>3. \A i \in 0..j - 1 : w[i] = IF i = 0 THEN start ELSE Bracket(w[i - 1], p[i])
    BY <2>1, <2>2 DEF Walks, start
  <2>4. \A i \in 0..j : new[i] = IF i = 0 THEN start ELSE Bracket(new[i - 1], p[i])
    <3> SUFFICES ASSUME NEW i \in 0..j
                 PROVE  new[i] = IF i = 0 THEN start ELSE Bracket(new[i - 1], p[i])
      OBVIOUS
    <3>1. CASE i = 0
      BY <1>2, <1>4, <2>3, <3>1
    <3>2. CASE i # 0
      <4>1. i - 1 \in 0..j - 1 /\ new[i - 1] = w[i - 1]
        BY <1>2, <3>2
      <4>2. new[i] = Bracket(w[i - 1], p[i])
        BY <1>2, <2>3, <3>2
      <4> HIDE DEF new
      <4> QED  BY <3>2, <4>1, <4>2
    <3> QED  BY <3>1, <3>2
  <2>5. new = [i \in 0..j |-> new[i]]
    OBVIOUS
  <2> HIDE DEF new
  <2>6. Walks(h, s, p, j, new)
    BY <2>4, <2>5 DEF Walks, start
  <2> QED  BY <1>2, <2>6
<1> QED  BY <1>3, <1>4

LEMMA WalkIs ==
  ASSUME NEW h, NEW s, NEW p, Len(p) \in Nat
  PROVE  \E w : Walks(h, s, p, Len(p), w) /\ Walk(h, s, p) = w[Len(p)]
<1> DEFINE n == Len(p)
           v == CHOOSE w : w = [i \in 0..n |-> IF i = 0 THEN [heap |-> h, slot |-> s]
                                               ELSE Bracket(w[i - 1], p[i])]
<1>1. \E w : w = [i \in 0..n |-> IF i = 0 THEN [heap |-> h, slot |-> s] ELSE Bracket(w[i - 1], p[i])]
  <2>1. \E w : Walks(h, s, p, n, w)
    BY WalksExist
  <2> QED  BY <2>1 DEF Walks
<1>2. v = [i \in 0..n |-> IF i = 0 THEN [heap |-> h, slot |-> s] ELSE Bracket(v[i - 1], p[i])]
  BY <1>1
<1>3. Walk(h, s, p) = v[n]
  BY DEF Walk
<1> HIDE DEF v
<1> QED  BY <1>2, <1>3 DEF Walks

\* Where the brackets lead on the way.
LEMMA WalkSteps ==
  ASSUME NEW h, NEW s, NEW b \in Nat, Fit(h, s, b), h.ok = TRUE, NEW max \in Nat, NEW p \in Paths(max),
         b + max * Cardinality(Places) < RefLimit, NEW w, Walks(h, s, p, Len(p), w), NEW j \in 0..Len(p)
  PROVE  /\ Leads_(h, s, w[j], b + j * Cardinality(Places)) /\ b + j * Cardinality(Places) \in Nat
         /\ j # Len(p) => b + j * Cardinality(Places) + Cardinality(Places) < RefLimit
<1> DEFINE P == Cardinality(Places)
           n == Len(p)
           start == [heap |-> h, slot |-> s]
<1>1. /\ P \in Nat /\ n \in 0..max /\ n \in Nat /\ (\A i \in 1..n : p[i] \in Keys \cup Indexes)
      /\ RefLimit \in Nat
  BY JsonAssumption, FS_CardinalityType, PathIs
<1>2. w[0] = start /\ \A i \in 1..n : w[i] = Bracket(w[i - 1], p[i])
  <2>1. \A i \in 0..n : w[i] = IF i = 0 THEN start ELSE Bracket(w[i - 1], p[i])
    BY DEF Walks
  <2> HIDE DEF n, start
  <2> QED  BY <1>1, <2>1
<1>3. start.heap = h /\ start.slot = s
  OBVIOUS
<1> DEFINE L(i) == Leads_(h, s, w[i], b + i * P)
           Wrong == {i \in 0..n : ~L(i)}
<1> HIDE DEF n, start
<1>4. L(0)
  <2>1. 0 * P = 0 /\ b + 0 = b
    BY <1>1
  <2>2. Leads_(h, s, start, b)
    BY <1>3 DEF Leads_, InScope
  <2> QED  BY <1>2, <2>1, <2>2
<1>5. ASSUME NEW i \in 0..n
      PROVE  b + i * P \in Nat /\ (i # n => b + i * P + P < RefLimit)
  <2>1. i \in Nat /\ max \in Nat /\ i <= max /\ (i # n => i + 1 <= max)
    BY <1>1
  <2>2. i * P \in Nat /\ max * P \in Nat /\ (i + 1) * P = i * P + P
    BY <1>1, <2>1, Times
  <2>3. i # n => (i + 1) * P <= max * P
    BY <1>1, <2>1, Times
  <2> DEFINE ip == i * P
             mp == max * P
  <2>4. ip \in Nat /\ mp \in Nat /\ b + mp < RefLimit /\ (i # n => ip + P <= mp)
    BY <2>2, <2>3
  <2> HIDE DEF ip, mp, P
  <2>5. b + ip \in Nat /\ (i # n => b + ip + P < RefLimit)
    BY <1>1, <2>4
  <2> QED  BY <2>5 DEF ip
<1>6. ASSUME NEW i \in 1..n, L(i - 1)
      PROVE  L(i)
  <2> DEFINE b1 == b + (i - 1) * P
  <2>1. i - 1 \in 0..n /\ i - 1 # n /\ i - 1 \in Nat /\ (i - 1) + 1 = i /\ i - 1 <= max
    BY <1>1
  <2>2. (i - 1) * P \in Nat /\ i * P = (i - 1) * P + P
    BY <1>1, <2>1, Times
  <2>3. b1 \in Nat /\ b1 + P < RefLimit
    BY <1>5, <2>1
  <2>4. b1 + P = b + i * P
    BY <1>1, <2>2
  <2>5. Leads_(h, s, w[i - 1], b1)
    BY <1>6
  <2> HIDE DEF b1
  <2>6. Leads_(h, s, Bracket(w[i - 1], p[i]), b1 + P)
    BY <1>1, <2>3, <2>5, BracketLeads
  <2> QED  BY <1>2, <2>4, <2>6
<1>7. L(j)
  <2> SUFFICES ASSUME ~L(j) PROVE FALSE
    OBVIOUS
  <2> HIDE DEF L
  <2>1. Wrong # {} /\ Wrong \in SUBSET Nat
    BY <1>1 DEF n
  <2>2. PICK k \in Wrong : \A i \in Wrong : k <= i
    <3> HIDE DEF Wrong
    <3> QED  BY <2>1, LeastOf
  <2>3. k # 0 /\ k \in 1..n /\ k - 1 \in 0..n /\ k - 1 \notin Wrong
    BY <1>1, <1>4, <2>2
  <2>4. L(k - 1) /\ ~L(k)
    BY <2>2, <2>3
  <2> QED  BY <1>6, <2>3, <2>4
<1> QED  BY <1>5, <1>7 DEF n

LEMMA WalkMakes ==
  ASSUME NEW h, NEW s, NEW b \in Nat, Fit(h, s, b), h.ok = TRUE, NEW max \in Nat, NEW p \in Paths(max),
         b + max * Cardinality(Places) < RefLimit
  PROVE  Leads_(h, s, Walk(h, s, p), b + max * Cardinality(Places))
<1> DEFINE P == Cardinality(Places)
           n == Len(p)
           b1 == b + n * P
           b2 == b + max * P
<1>1. P \in Nat /\ n \in 0..max /\ n \in Nat /\ n \in 0..n
  BY JsonAssumption, FS_CardinalityType, PathIs
<1>2. PICK w : Walks(h, s, p, Len(p), w) /\ Walk(h, s, p) = w[Len(p)]
  BY <1>1, WalkIs
<1>3. Leads_(h, s, w[n], b1)
  BY <1>1, <1>2, WalkSteps
<1>4. n * P \in Nat /\ max * P \in Nat /\ n * P <= max * P
  BY <1>1, Times
<1>5. b1 \in Nat /\ b2 \in Nat /\ b1 <= b2
  BY <1>4
<1> HIDE DEF b1, b2
<1>6. Leads_(h, s, w[n], b2)
  BY <1>3, <1>5, LeadsMore
<1> QED  BY <1>2, <1>6 DEF b2

(* The brackets of a const JsonType.                                       *)

\* A JsonType of a client, which points to a value.
Alive(h, t) == t \in Slots(h) /\ At(h, t) \in DOMAIN h.mem /\ (t[1] = "objs" \/ t[1] = "mem")

LEMMA AliveElement ==
  ASSUME NEW h, Right(h, Nowhere), NEW n \in DOMAIN h.mem, NEW k, k \in DOMAIN Elements(h.mem[n])
  PROVE  Alive(h, Element(n, k))
<1>1. Element(n, k) \in Slots(h) /\ Element(n, k)[1] = "mem"
  BY ElementIs
<1>2. Live(h, Element(n, k))
  BY <1>1, NoSlot DEF Right
<1> QED  BY <1>1, <1>2 DEF Live, Alive

LEMMA AliveVariable ==
  ASSUME NEW h, Right(h, Nowhere), NEW x \in DOMAIN h.objs, h.objs[x] # NoNode
  PROVE  Alive(h, Variable(x))
<1>1. Variable(x) \in Slots(h) /\ Variable(x)[1] = "objs" /\ At(h, Variable(x)) = h.objs[x]
  BY VariableIs
<1>2. Live(h, Variable(x))
  BY <1>1, NoSlot DEF Right
<1> QED  BY <1>1, <1>2 DEF Live, Alive

LEMMA ConstElementIs ==
  ASSUME NEW h, NEW t, NEW k, Right(h, Nowhere), h.objs[Null] # NoNode, Alive(h, t)
  PROVE  Alive(h, ConstElement(h, t, k))
<1> DEFINE n == At(h, t)
<1>1. n \in DOMAIN h.mem /\ Null \in DOMAIN h.objs
  BY DEF Alive, Right, Shape
<1>2. CASE h.mem[n].type = KindOf(k) /\ k \in DOMAIN h.mem[n].data
  <2>1. ConstElement(h, t, k) = Element(n, k)
    BY <1>2 DEF ConstElement
  <2>2. k \in DOMAIN Elements(h.mem[n])
    BY <1>2 DEF Elements, KindOf, Containers
  <2> QED  BY <1>1, <2>1, <2>2, AliveElement
<1>3. CASE ~(h.mem[n].type = KindOf(k) /\ k \in DOMAIN h.mem[n].data)
  <2>1. ConstElement(h, t, k) = Variable(Null)
    BY <1>3 DEF ConstElement
  <2> QED  BY <1>1, <2>1, AliveVariable
<1> QED  BY <1>2, <1>3

\* What n brackets of a const JsonType find, one after the other.
Finds(h, s, p, n, f) ==
  f = [i \in 0..n |-> IF i = 0 THEN s ELSE ConstElement(h, f[i - 1], p[i])]

LEMMA FindsExist ==
  ASSUME NEW h, NEW s, NEW p, NEW n \in Nat
  PROVE  \E f : Finds(h, s, p, n, f)
<1> DEFINE Missing == {i \in Nat : ~\E f : Finds(h, s, p, i, f)}
<1> SUFFICES ASSUME Missing # {} PROVE FALSE
  OBVIOUS
<1>1. PICK j \in Missing : \A i \in Missing : j <= i
  <2>1. Missing \in SUBSET Nat
    OBVIOUS
  <2> HIDE DEF Missing
  <2> QED  BY <2>1, LeastOf
<1>2. j \in Nat /\ ~\E f : Finds(h, s, p, j, f)
  OBVIOUS
<1>3. CASE j = 0
  <2>1. Finds(h, s, p, 0, [i \in 0..0 |-> s])
    BY DEF Finds
  <2> QED  BY <1>2, <1>3, <2>1
<1>4. CASE j # 0
  <2>1. j - 1 \in Nat /\ j - 1 \notin Missing
    BY <1>1, <1>2, <1>4
  <2>2. PICK f : Finds(h, s, p, j - 1, f)
    BY <2>1
  <2> DEFINE new == [i \in 0..j |-> IF i = j THEN ConstElement(h, f[j - 1], p[j]) ELSE f[i]]
  <2>3. \A i \in 0..j - 1 : f[i] = IF i = 0 THEN s ELSE ConstElement(h, f[i - 1], p[i])
    BY <2>1, <2>2 DEF Finds
  <2>4. \A i \in 0..j : new[i] = IF i = 0 THEN s ELSE ConstElement(h, new[i - 1], p[i])
    <3> SUFFICES ASSUME NEW i \in 0..j
                 PROVE  new[i] = IF i = 0 THEN s ELSE ConstElement(h, new[i - 1], p[i])
      OBVIOUS
    <3>1. CASE i = 0
      BY <1>2, <1>4, <2>3, <3>1
    <3>2. CASE i # 0
      <4>1. i - 1 \in 0..j - 1 /\ new[i - 1] = f[i - 1]
        BY <1>2, <3>2
      <4>2. new[i] = ConstElement(h, f[i - 1], p[i])
        BY <1>2, <2>3, <3>2
      <4> HIDE DEF new
      <4> QED  BY <3>2, <4>1, <4>2
    <3> QED  BY <3>1, <3>2
  <2>5. new = [i \in 0..j |-> new[i]]
    OBVIOUS
  <2> HIDE DEF new
  <2>6. Finds(h, s, p, j, new)
    BY <2>4, <2>5 DEF Finds
  <2> QED  BY <1>2, <2>6
<1> QED  BY <1>3, <1>4

LEMMA FindIs ==
  ASSUME NEW h, NEW s, NEW p, Len(p) \in Nat
  PROVE  \E f : Finds(h, s, p, Len(p), f) /\ Find(h, s, p) = f[Len(p)]
<1> DEFINE n == Len(p)
           v == CHOOSE f : f = [i \in 0..n |-> IF i = 0 THEN s ELSE ConstElement(h, f[i - 1], p[i])]
<1>1. \E f : f = [i \in 0..n |-> IF i = 0 THEN s ELSE ConstElement(h, f[i - 1], p[i])]
  <2>1. \E f : Finds(h, s, p, n, f)
    BY FindsExist
  <2> QED  BY <2>1 DEF Finds
<1>2. v = [i \in 0..n |-> IF i = 0 THEN s ELSE ConstElement(h, v[i - 1], p[i])]
  BY <1>1
<1>3. Find(h, s, p) = v[n]
  BY DEF Find
<1> HIDE DEF v
<1> QED  BY <1>2, <1>3 DEF Finds

LEMMA FindLives ==
  ASSUME NEW h, NEW s, Right(h, Nowhere), h.objs[Null] # NoNode, Alive(h, s),
         NEW max \in Nat, NEW p \in Paths(max)
  PROVE  Alive(h, Find(h, s, p))
<1> DEFINE n == Len(p)
<1>1. n \in 0..max /\ n \in Nat
  BY PathIs
<1>2. PICK f : Finds(h, s, p, n, f) /\ Find(h, s, p) = f[n]
  BY <1>1, FindIs
<1>3. f[0] = s /\ \A i \in 1..n : f[i] = ConstElement(h, f[i - 1], p[i])
  <2>1. \A i \in 0..n : f[i] = IF i = 0 THEN s ELSE ConstElement(h, f[i - 1], p[i])
    BY <1>2 DEF Finds
  <2> QED  BY <1>1, <2>1
<1> DEFINE Wrong == {i \in 0..n : ~Alive(h, f[i])}
<1> HIDE DEF n
<1>4. Alive(h, f[n])
  <2> SUFFICES ASSUME ~Alive(h, f[n]) PROVE FALSE
    OBVIOUS
  <2>1. Wrong # {} /\ Wrong \in SUBSET Nat
    BY <1>1
  <2>2. PICK j \in Wrong : \A i \in Wrong : j <= i
    <3> HIDE DEF Wrong
    <3> QED  BY <2>1, LeastOf
  <2>3. j # 0 /\ j \in 1..n /\ j - 1 \in 0..n /\ j - 1 \notin Wrong
    BY <1>1, <1>3, <2>2
  <2>4. Alive(h, f[j - 1]) /\ ~Alive(h, f[j])
    BY <2>2, <2>3
  <2> QED  BY <1>3, <2>3, <2>4, ConstElementIs
<1> QED  BY <1>2, <1>4

(* A variable that goes out of scope.                                      *)

Destroyed(h, x) == [h EXCEPT !.mem = Cleared(@, [i \in {x} |-> h.objs[x]]), !.objs[x] = NoNode]

LEMMA DestroyedIs ==
  ASSUME NEW h, NEW x \in Vars, Right(h, Nowhere), h.objs[x] # NoNode
  PROVE  /\ Right(Destroyed(h, x), Nowhere) /\ Destroyed(h, x).objs[Null] = h.objs[Null]
         /\ Destroyed(h, x).ok = h.ok
         /\ Scope(h, Destroyed(h, x), Variable(x))
         /\ \A q : Reach(h, Variable(x), q) =>
              q \in DOMAIN Destroyed(h, x).mem /\ SameNode(h.mem[q], Destroyed(h, x).mem[q])
<1> DEFINE h2 == Destroyed(h, x)
           s == Variable(x)
           E == {s}
           elems == [i \in {x} |-> h.objs[x]]
           f == [i \in {x} |-> s]
           D == Gone(h.mem, elems)
           m == Cleared(h.mem, elems)
           o == [h.objs EXCEPT ![x] = NoNode]
<1>1. Shape(h) /\ IsFiniteSet(Slots(h)) /\ Record(h) /\ h.objs \in [Vars \cup {Null} -> Nat]
  BY DEF Right, Shape, Record
<1>2. s \in Slots(h) /\ s[1] = "objs" /\ At(h, s) = h.objs[x]
  BY <1>1, VariableIs
<1>3. Stands(h, E, elems)
  <2>1. Pairs(f, DOMAIN elems, E) /\ \A k \in DOMAIN elems : At(h, f[k]) = elems[k]
    <3> HIDE DEF s
    <3> QED  BY <1>2 DEF Pairs
  <2>2. IsFiniteSet(DOMAIN elems) /\ E \subseteq Slots(h) /\ \A t \in E : t[1] # "mem"
    BY <1>2, FS_Singleton
  <2> HIDE DEF E, elems, f
  <2> QED  BY <1>1, <2>1, <2>2, StandsIf
<1>4. h2 = SetObjs(SetMem(h, m), o)
  <2>1. PICK o1, m1, p1, b : /\ h = [objs |-> o1, mem |-> m1, pool |-> p1, ok |-> b]
                             /\ h.objs = o1 /\ h.mem = m1 /\ h.pool = p1 /\ h.ok = b
    BY <1>1, Opened
  <2>2. h2 = [h EXCEPT !.mem = Cleared(@, elems), !.objs[x] = NoNode]
    BY DEF Destroyed
  <2> HIDE DEF elems, h2
  <2>3. [h EXCEPT !.mem = Cleared(@, elems), !.objs[x] = NoNode]
          = SetObjs(SetMem(h, Cleared(m1, elems)), [h.objs EXCEPT ![x] = NoNode])
    BY <2>1 DEF SetObjs, SetMem
  <2> QED  BY <2>1, <2>2, <2>3
<1> HIDE DEF h2, E, elems, D, m, o, s, f
<1>5. Spares(h, Nowhere, elems)
  BY NoSlot DEF Spares, ElemsOf
<1>6. \A q \in DOMAIN h.mem : h.mem[q].ref \in Nat
  BY <1>1 DEF Shape, NodeOK
<1>7. IsFiniteSet(DOMAIN h.mem)
  <2>1. PICK b \in Nat : DOMAIN h.mem \subseteq 1..b
    BY <1>1 DEF Shape
  <2>2. IsFiniteSet(1..b)
    BY <2>1, FS_Interval
  <2> QED  BY <2>1, <2>2, FS_Subset
<1>8. D \subseteq DOMAIN h.mem /\ D = Falls(h.mem, elems, D)
  BY <1>1, <1>3, <1>5, <1>6, <1>7, GoneFalls DEF D
<1>9. ClearedSo(h, m, elems, D)
  BY <1>1, <1>3, <1>8, ClearedIs DEF D, m
<1>10. Record(h2) /\ h2.mem = m /\ h2.pool = h.pool /\ h2.objs = o /\ h2.ok = h.ok
  <2>1. Record(SetMem(h, m)) /\ SetMem(h, m).mem = m
        /\ SetMem(h, m).pool = h.pool /\ SetMem(h, m).ok = h.ok
    BY <1>1, Parts
  <2> QED  BY <1>4, <2>1, Parts
<1>11. /\ DOMAIN o = Vars \cup {Null} /\ o[x] = NoNode /\ \A y \in DOMAIN h.objs : y # x => o[y] = h.objs[y]
       /\ o \in [Vars \cup {Null} -> Nat] /\ DOMAIN h.objs = Vars \cup {Null}
  BY <1>1 DEF o, NoNode
<1>12. /\ DOMAIN h2.mem = DOMAIN h.mem \ D
       /\ \A q \in DOMAIN h2.mem : Elements(h2.mem[q]) = Elements(h.mem[q])
       /\ \A q \in DOMAIN h2.mem : h2.mem[q].data = h.mem[q].data
  BY <1>9, <1>10 DEF ClearedSo, SameNode, Elements
<1>13. Shape(h2)
  <2>1. \E b \in Nat : DOMAIN h2.mem \subseteq 1..b
    BY <1>1, <1>12 DEF Shape
  <2>2. (\A q \in DOMAIN h2.mem : NodeOK(h2.mem[q])) /\ Fun(h2.mem)
    BY <1>9, <1>10 DEF ClearedSo
  <2>3. h.pool \in [Containers -> Seq(Elems)]
    BY <1>1 DEF Shape
  <2> QED  BY <1>10, <1>11, <2>1, <2>2, <2>3 DEF Shape, Record, Fun
<1>14. ASSUME NEW y
       PROVE  /\ Variable(y) \in Slots(h2) <=> Variable(y) \in Slots(h)
              /\ Variable(y) \notin ElemsOf(h, D)
              /\ Variable(y) \in Slots(h2) /\ Variable(y) # s => At(h2, Variable(y)) = At(h, Variable(y))
  <2>1. Variable(y) \notin ElemsOf(h, D)
    BY VariableIs DEF ElemsOf
  <2> QED  BY <1>10, <1>11, <2>1, VariableIs DEF s
<1>15. ASSUME NEW q, NEW k
       PROVE  /\ Element(q, k) \in Slots(h2) <=> Element(q, k) \in Slots(h) \ ElemsOf(h, D)
              /\ Element(q, k) \in Slots(h2) => At(h2, Element(q, k)) = At(h, Element(q, k))
  <2>1. Element(q, k) \in ElemsOf(h, D) <=> Element(q, k) \in Slots(h) /\ q \in D
    BY ElementIs DEF ElemsOf
  <2>2. /\ Element(q, k) \in Slots(h2) <=> q \in DOMAIN h2.mem /\ k \in DOMAIN Elements(h2.mem[q])
        /\ Element(q, k) \in Slots(h) <=> q \in DOMAIN h.mem /\ k \in DOMAIN Elements(h.mem[q])
        /\ At(h2, Element(q, k)) = h2.mem[q].data[k] /\ At(h, Element(q, k)) = h.mem[q].data[k]
    BY ElementIs
  <2>3. q \in DOMAIN h2.mem => Elements(h2.mem[q]) = Elements(h.mem[q]) /\ h2.mem[q].data = h.mem[q].data
    BY <1>12
  <2> QED  BY <1>12, <2>1, <2>2, <2>3
<1>16. ASSUME NEW c \in Containers, NEW i, NEW k
       PROVE  /\ Pooled(c, i, k) \in Slots(h2) <=> Pooled(c, i, k) \in Slots(h)
              /\ Pooled(c, i, k) \notin ElemsOf(h, D)
              /\ At(h2, Pooled(c, i, k)) = At(h, Pooled(c, i, k))
  <2>1. Pooled(c, i, k) \notin ElemsOf(h, D)
    <3>1. Pooled(c, i, k)[1] = c /\ c # "mem"
      BY PooledIs
    <3> QED  BY <3>1 DEF ElemsOf
  <2>2. /\ Pooled(c, i, k) \in Slots(h2) <=> i \in DOMAIN h2.pool[c] /\ k \in DOMAIN h2.pool[c][i]
        /\ Pooled(c, i, k) \in Slots(h) <=> i \in DOMAIN h.pool[c] /\ k \in DOMAIN h.pool[c][i]
        /\ At(h2, Pooled(c, i, k)) = h2.pool[c][i][k] /\ At(h, Pooled(c, i, k)) = h.pool[c][i][k]
    BY PooledIs
  <2>3. h2.pool = h.pool
    BY <1>10
  <2> QED  BY <2>1, <2>2, <2>3
<1>17. \A t \in Slots(h2) : t \in Slots(h) \ ElemsOf(h, D) /\ (t # s => At(h2, t) = At(h, t))
  BY <1>14, <1>15, <1>16, SlotCases
<1>18. \A t \in Slots(h) : t \notin ElemsOf(h, D) => t \in Slots(h2)
  BY <1>14, <1>15, <1>16, SlotCases
<1>19. s \in Slots(h2) /\ At(h2, s) = NoNode
  BY <1>2, <1>10, <1>11, <1>14, VariableIs DEF s
<1>20. Right(h2, s)
  <2>1. \A q \in DOMAIN h2.mem : h2.mem[q].ref = h.mem[q].ref - Released(h.mem, elems, D, q)
    BY <1>9, <1>10 DEF ClearedSo
  <2>2. Nowhere \notin E \cup ElemsOf(h, D)
    BY <1>2, NoSlot DEF E, ElemsOf
  <2>3. Slots(h2) \ {s} = Slots(h) \ (E \cup ElemsOf(h, D) \cup {Nowhere})
    BY <1>17, <1>18, NoSlot DEF E
  <2> QED  BY <1>3, <1>8, <1>12, <1>13, <1>17, <2>1, <2>2, <2>3, Clears
<1>21. Right(h2, Nowhere)
  <2>1. NoNode \notin DOMAIN h2.mem
    BY <1>13 DEF Shape, NoNode
  <2>2. \A q \in DOMAIN h2.mem : Holders(h2, q) \ {s} = Holders(h2, q) \ {Nowhere}
    BY <1>19, <2>1, NoSlot DEF Holders
  <2>3. Live(h2, s)
    BY <1>2, <1>19 DEF Live
  <2> QED  BY <1>20, <2>2, <2>3 DEF Right
<1>22. h2.objs[Null] = h.objs[Null]
  BY <1>10, <1>11, JsonAssumption
<1>23. Scope(h, h2, s)
  BY <1>10, <1>11 DEF Scope, s
<1>24. ASSUME NEW q, Reach(h, s, q)
       PROVE  q \in DOMAIN h2.mem /\ SameNode(h.mem[q], h2.mem[q])
  <2>1. Cut(h, s, D)
    <3>1. SUFFICES ASSUME NEW t \in Slots(h), t # s, t[1] = "objs" \/ (t[1] = "mem" /\ t[2] \notin D)
                   PROVE  At(h, t) \notin D
      BY DEF Cut
    <3>2. t \notin E \cup ElemsOf(h, D) /\ Nowhere \notin E \cup ElemsOf(h, D) /\ t # Nowhere
      BY <1>2, <3>1, NoSlot DEF E, ElemsOf
    <3> QED  BY <1>3, <1>8, <3>2, FallsCut
  <2>2. Lively(h, s)
    BY LivelyIs
  <2>3. q \in DOMAIN h.mem /\ q \notin D
    BY <1>24, <2>1, <2>2, ReachThere, ReachNotCut
  <2> QED  BY <1>9, <1>10, <1>12, <2>3 DEF ClearedSo
<1> QED  BY <1>10, <1>21, <1>22, <1>23, <1>24 DEF h2, s

(* How many JsonTypes there are between two statements.                    *)

\* At most one for every name of A and place of B.
LEMMA AtMost ==
  ASSUME NEW T, NEW A, NEW B, NEW c, IsFiniteSet(A), IsFiniteSet(B),
         \A t \in T : t[2] \in A /\ t[3] \in B /\ t = <<c, t[2], t[3]>>
  PROVE  IsFiniteSet(T) /\ Cardinality(T) \in Nat /\ Cardinality(T) <= Cardinality(A) * Cardinality(B)
<1> DEFINE g == [t \in T |-> <<t[2], t[3]>>]
<1>1. IsFiniteSet(A \X B) /\ Cardinality(A \X B) = Cardinality(A) * Cardinality(B)
  BY FS_Product
<1>2. g \in [T -> A \X B]
  OBVIOUS
<1>3. ASSUME NEW t \in T, NEW u \in T, g[t] = g[u]
      PROVE  t = u
  <2>1. t[2] = u[2] /\ t[3] = u[3]
    BY <1>3
  <2>2. t = <<c, t[2], t[3]>> /\ u = <<c, u[2], u[3]>>
    OBVIOUS
  <2> QED  BY <2>1, <2>2
<1> HIDE DEF g
<1>4. g \in Injection(T, A \X B)
  BY <1>2, <1>3 DEF Injection, IsInjective
<1>5. IsFiniteSet(T) /\ Cardinality(T) <= Cardinality(A \X B)
  BY <1>1, <1>4, FS_Injection
<1> QED  BY <1>1, <1>5, FS_CardinalityType

LEMMA Together ==
  ASSUME NEW S, NEW T, IsFiniteSet(S), IsFiniteSet(T)
  PROVE  /\ IsFiniteSet(S \cup T) /\ Cardinality(S \cup T) \in Nat
         /\ Cardinality(S) \in Nat /\ Cardinality(T) \in Nat
         /\ Cardinality(S \cup T) <= Cardinality(S) + Cardinality(T)
<1>1. /\ IsFiniteSet(S \cup T)
      /\ Cardinality(S \cup T) = Cardinality(S) + Cardinality(T) - Cardinality(S \cap T)
  BY FS_Union
<1>2. S \cap T \in SUBSET S
  OBVIOUS
<1>3. IsFiniteSet(S \cap T)
  BY <1>2, FS_Subset
<1>4. /\ Cardinality(S \cup T) \in Nat /\ Cardinality(S \cap T) \in Nat
      /\ Cardinality(S) \in Nat /\ Cardinality(T) \in Nat
  BY <1>1, <1>3, FS_CardinalityType
<1> QED  BY <1>1, <1>4

\* Between two statements: the counts are right, and Null_ is there.
Sound(h) == Right(h, Nowhere) /\ h.objs[Null] # NoNode
Small(h) == Cardinality(DOMAIN h.mem) <= MaxNodes /\ Len(h.pool["list"]) + Len(h.pool["dict"]) <= MaxPool

\* The JsonTypes there can be then.
Most == Cardinality(Vars) + 1 + (MaxNodes + MaxPool) * Cardinality(Places)

LEMMA Sums ==
  ASSUME NEW a \in Nat, NEW b \in Nat, NEW c \in Nat, NEW d \in Nat, NEW p \in Nat
  PROVE  /\ (a + b) * p \in Nat /\ (a + b) * p = a * p + b * p
         /\ a * p \in Nat /\ b * p \in Nat /\ c * p \in Nat /\ d * p \in Nat
         /\ (a + b + c + d) * p = (a + b) * p + c * p + d * p
<1>1. (a + b) * p = a * p + b * p
  OBVIOUS
<1>2. a * p \in Nat /\ b * p \in Nat /\ c * p \in Nat /\ d * p \in Nat
  OBVIOUS
<1>3. (a + b + c + d) * p = a * p + b * p + c * p + d * p
  OBVIOUS
<1> QED  BY <1>1, <1>2, <1>3

LEMMA MostFit ==
  /\ Most \in Nat /\ Most + 1 < RefLimit
  /\ Most + MaxPath * Cardinality(Places) \in Nat
  /\ Most + MaxPath * Cardinality(Places) + 1 < RefLimit
  /\ Most + MaxPathFrom * Cardinality(Places) \in Nat
  /\ Most + MaxPathFrom * Cardinality(Places) + 1 < RefLimit
<1> DEFINE P == Cardinality(Places)
           V == Cardinality(Vars)
           A == (MaxNodes + MaxPool) * P
           B == MaxPath * P
           C == MaxPathFrom * P
<1>1. P \in Nat /\ V \in Nat /\ RefLimit \in Nat /\ MaxPath \in Nat /\ MaxPathFrom \in Nat
      /\ MaxNodes \in Nat /\ MaxPool \in Nat
  BY JsonAssumption, FS_CardinalityType
<1>2. /\ A \in Nat /\ B \in Nat /\ C \in Nat
      /\ (MaxNodes + MaxPool + MaxPath + MaxPathFrom) * P = A + B + C
  BY <1>1, Sums
<1>3. V + (MaxNodes + MaxPool + MaxPath + MaxPathFrom) * P + 2 < RefLimit
  BY CountsFit
<1>4. Most = V + 1 + A
  BY DEF Most
<1> HIDE DEF A, B, C, P, V
<1>5. V + (A + B + C) + 2 < RefLimit
  BY <1>2, <1>3
<1>6. /\ Most \in Nat /\ Most + 1 < RefLimit /\ Most + B \in Nat /\ Most + B + 1 < RefLimit
      /\ Most + C \in Nat /\ Most + C + 1 < RefLimit
  BY <1>1, <1>2, <1>4, <1>5
<1> QED  BY <1>6 DEF B, C, P

LEMMA SlotsCounted ==
  ASSUME NEW h, Sound(h), Small(h)
  PROVE  Cardinality(Slots(h)) \in Nat /\ Cardinality(Slots(h)) <= Most
<1> DEFINE P == Cardinality(Places)
           S(c) == {t \in Slots(h) : t[1] = c}
           C(c) == Cardinality(S(c))
<1>1. Shape(h) /\ IsFiniteSet(Slots(h))
  BY DEF Sound, Right
<1>2. IsFiniteSet(Places) /\ P \in Nat /\ IsFiniteSet(Vars) /\ MaxNodes \in Nat /\ MaxPool \in Nat
      /\ Cardinality(Vars) \in Nat /\ Null \notin Vars
  BY JsonAssumption, FS_CardinalityType
<1>3. IsFiniteSet(DOMAIN h.mem) /\ Cardinality(DOMAIN h.mem) \in Nat
  <2>1. PICK b \in Nat : DOMAIN h.mem \subseteq 1..b
    BY <1>1 DEF Shape
  <2>2. IsFiniteSet(1..b)
    BY <2>1, FS_Interval
  <2> QED  BY <2>1, <2>2, FS_Subset, FS_CardinalityType
<1> HIDE DEF S
<1>4. \A c, t : t \in S(c) <=> t \in Slots(h) /\ t[1] = c
  BY DEF S
<1>5. Slots(h) = S("objs") \cup S("mem") \cup S("list") \cup S("dict")
  <2>1. ASSUME NEW t \in Slots(h)
        PROVE  t[1] = "objs" \/ t[1] = "mem" \/ t[1] = "list" \/ t[1] = "dict"
    <3>1. CASE \E x \in DOMAIN h.objs : t = Variable(x)
      BY <3>1, VariableIs
    <3>2. CASE \E n \in DOMAIN h.mem : \E k \in DOMAIN Elements(h.mem[n]) : t = Element(n, k)
      BY <3>2, ElementIs
    <3>3. CASE \E c \in Containers : \E i \in DOMAIN h.pool[c] : \E k \in DOMAIN h.pool[c][i] :
                 t = Pooled(c, i, k)
      <4>1. PICK c \in Containers : \E i \in DOMAIN h.pool[c] : \E k \in DOMAIN h.pool[c][i] :
                   t = Pooled(c, i, k)
        BY <3>3
      <4>2. t[1] = c
        BY <4>1, PooledIs
      <4> QED  BY <4>2 DEF Containers
    <3> QED  BY <3>1, <3>2, <3>3, SlotCases
  <2> QED  BY <1>4, <2>1
<1>6. IsFiniteSet(S("objs")) /\ C("objs") \in Nat /\ C("objs") <= Cardinality(Vars) + 1
  <2> DEFINE names == Vars \cup {Null}
  <2>1. IsFiniteSet(names) /\ Cardinality(names) = Cardinality(Vars) + 1
    BY <1>2, FS_AddElement
  <2>2. IsFiniteSet({NoNode}) /\ Cardinality({NoNode}) = 1
    BY FS_Singleton
  <2>3. DOMAIN h.objs = names
    BY <1>1 DEF Shape
  <2>4. \A t \in S("objs") : t[2] \in {NoNode} /\ t[3] \in names /\ t = <<"objs", t[2], t[3]>>
    <3>1. SUFFICES ASSUME NEW t \in S("objs")
                   PROVE  t[2] \in {NoNode} /\ t[3] \in names /\ t = <<"objs", t[2], t[3]>>
      OBVIOUS
    <3>2. t \in Slots(h) /\ t[1] = "objs"
      BY <1>4
    <3>3. PICK x \in DOMAIN h.objs : t = Variable(x)
      BY <3>2, SlotCases, ElementIs, PooledIs
    <3> QED  BY <2>3, <3>3, VariableIs DEF Variable
  <2> HIDE DEF names
  <2>5. IsFiniteSet(S("objs")) /\ C("objs") \in Nat /\ C("objs") <= Cardinality({NoNode}) * Cardinality(names)
    BY <2>1, <2>2, <2>4, AtMost
  <2>6. Cardinality({NoNode}) * Cardinality(names) = Cardinality(Vars) + 1
    BY <1>2, <2>1, <2>2
  <2> QED  BY <2>5, <2>6
<1>7. IsFiniteSet(S("mem")) /\ C("mem") \in Nat /\ C("mem") <= Cardinality(DOMAIN h.mem) * P
  <2>1. \A t \in S("mem") : t[2] \in DOMAIN h.mem /\ t[3] \in Places /\ t = <<"mem", t[2], t[3]>>
    <3>1. SUFFICES ASSUME NEW t \in S("mem")
                   PROVE  t[2] \in DOMAIN h.mem /\ t[3] \in Places /\ t = <<"mem", t[2], t[3]>>
      OBVIOUS
    <3>2. t \in Slots(h) /\ t[1] = "mem"
      BY <1>4
    <3>3. PICK n \in DOMAIN h.mem : \E k \in DOMAIN Elements(h.mem[n]) : t = Element(n, k)
      BY <3>2, SlotCases, VariableIs, PooledIs
    <3>4. PICK k \in DOMAIN Elements(h.mem[n]) : t = Element(n, k)
      BY <3>3
    <3>5. h.mem[n].type \in Containers /\ k \in DOMAIN h.mem[n].data
      BY EmptyIs DEF Elements
    <3>6. h.mem[n].data \in Elems
      BY <1>1, <3>5 DEF Shape, NodeOK, FitsType
    <3>7. k \in Places
      BY <3>5, <3>6, OfElems
    <3> QED  BY <3>4, <3>7, ElementIs DEF Element
  <2> QED  BY <1>2, <1>3, <2>1, AtMost
<1>8. ASSUME NEW c \in Containers
      PROVE  IsFiniteSet(S(c)) /\ C(c) \in Nat /\ C(c) <= Len(h.pool[c]) * P /\ Len(h.pool[c]) \in Nat
  <2> DEFINE l == Len(h.pool[c])
  <2>1. l \in Nat /\ DOMAIN h.pool[c] = 1..l /\ \A i \in 1..l : h.pool[c][i] \in Elems
    <3>1. h.pool[c] \in Seq(Elems)
      BY <1>1 DEF Shape
    <3> QED  BY <3>1
  <2> HIDE DEF l
  <2>2. \A t \in S(c) : t[2] \in 1..l /\ t[3] \in Places /\ t = <<c, t[2], t[3]>>
    <3>1. SUFFICES ASSUME NEW t \in S(c)
                   PROVE  t[2] \in 1..l /\ t[3] \in Places /\ t = <<c, t[2], t[3]>>
      OBVIOUS
    <3>2. t \in Slots(h) /\ t[1] = c /\ c # "mem" /\ c # "objs"
      BY <1>4, PooledIs
    <3>3. PICK d \in Containers : \E i \in DOMAIN h.pool[d] : \E k \in DOMAIN h.pool[d][i] : t = Pooled(d, i, k)
      BY <3>2, SlotCases, VariableIs, ElementIs
    <3>4. PICK i \in DOMAIN h.pool[d] : \E k \in DOMAIN h.pool[d][i] : t = Pooled(d, i, k)
      BY <3>3
    <3>5. PICK k \in DOMAIN h.pool[d][i] : t = Pooled(d, i, k)
      BY <3>4
    <3>6. d = c
      BY <3>2, <3>5, PooledIs
    <3>7. i \in 1..l /\ k \in Places
      BY <2>1, <3>6, OfElems
    <3> QED  BY <3>5, <3>6, <3>7, PooledIs DEF Pooled
  <2>3. IsFiniteSet(1..l) /\ Cardinality(1..l) = l
    BY <2>1, FS_Interval
  <2>4. IsFiniteSet(S(c)) /\ C(c) \in Nat /\ C(c) <= Cardinality(1..l) * P
    BY <1>2, <2>2, <2>3, AtMost
  <2> QED  BY <2>1, <2>3, <2>4 DEF l
<1> DEFINE m == Cardinality(DOMAIN h.mem)
           l == Len(h.pool["list"])
           d == Len(h.pool["dict"])
<1>9. /\ IsFiniteSet(S("list")) /\ C("list") \in Nat /\ C("list") <= l * P /\ l \in Nat
      /\ IsFiniteSet(S("dict")) /\ C("dict") \in Nat /\ C("dict") <= d * P /\ d \in Nat
  BY <1>8 DEF Containers
<1>10. m \in Nat /\ m <= MaxNodes /\ l + d <= MaxPool
  BY <1>3 DEF Small
<1>11. /\ Cardinality(Slots(h)) \in Nat
       /\ Cardinality(Slots(h)) <= C("objs") + C("mem") + C("list") + C("dict")
  <2>1. /\ IsFiniteSet(S("objs") \cup S("mem")) /\ Cardinality(S("objs") \cup S("mem")) \in Nat
        /\ Cardinality(S("objs") \cup S("mem")) <= C("objs") + C("mem")
    BY <1>6, <1>7, Together
  <2>2. /\ IsFiniteSet(S("objs") \cup S("mem") \cup S("list"))
        /\ Cardinality(S("objs") \cup S("mem") \cup S("list")) \in Nat
        /\ Cardinality(S("objs") \cup S("mem") \cup S("list")) <= Cardinality(S("objs") \cup S("mem")) + C("list")
    BY <1>9, <2>1, Together
  <2>3. /\ Cardinality(S("objs") \cup S("mem") \cup S("list") \cup S("dict")) \in Nat
        /\ Cardinality(S("objs") \cup S("mem") \cup S("list") \cup S("dict"))
             <= Cardinality(S("objs") \cup S("mem") \cup S("list")) + C("dict")
    BY <1>9, <2>2, Together
  <2> QED  BY <1>5, <1>6, <1>7, <1>9, <2>1, <2>2, <2>3
<1> HIDE DEF C, P, m, l, d
<1>12. /\ m * P \in Nat /\ m * P <= MaxNodes * P /\ MaxNodes * P \in Nat
       /\ (l + d) * P <= MaxPool * P /\ MaxPool * P \in Nat
       /\ (l + d) * P = l * P + d * P /\ l * P \in Nat /\ d * P \in Nat
       /\ (MaxNodes + MaxPool) * P = MaxNodes * P + MaxPool * P
  <2>1. l + d \in Nat
    BY <1>9
  <2> QED  BY <1>2, <1>9, <1>10, <2>1, Times, Sums
<1>13. C("mem") <= m * P
  BY <1>7 DEF m
<1>14. Most = Cardinality(Vars) + 1 + (MaxNodes + MaxPool) * P
  BY DEF Most, P
<1> DEFINE mp == m * P
           np == MaxNodes * P
           pp == MaxPool * P
           lp == l * P
           dp == d * P
<1>15. Most = Cardinality(Vars) + 1 + np + pp
  BY <1>2, <1>12, <1>14
<1>16. /\ C("objs") <= Cardinality(Vars) + 1 /\ C("mem") <= mp /\ mp <= np /\ C("list") <= lp /\ C("dict") <= dp
       /\ lp + dp <= pp /\ mp \in Nat /\ np \in Nat /\ pp \in Nat /\ lp \in Nat /\ dp \in Nat
  BY <1>6, <1>9, <1>12, <1>13
<1> HIDE DEF mp, np, pp, lp, dp
<1>17. C("objs") + C("mem") + C("list") + C("dict") <= Most
  BY <1>2, <1>6, <1>7, <1>9, <1>15, <1>16
<1>18. Most \in Nat /\ C("objs") + C("mem") + C("list") + C("dict") \in Nat
  BY <1>6, <1>7, <1>9, MostFit
<1> QED  BY <1>11, <1>17, <1>18

LEMMA SoundGood ==
  ASSUME NEW h, Sound(h), Small(h)
  PROVE  Good(h, Most)
<1>1. ASSUME NEW n \in DOMAIN h.mem
      PROVE  h.mem[n].ref <= Most
  <2>1. Holders(h, n) \ {Nowhere} \subseteq Slots(h) /\ IsFiniteSet(Slots(h))
    BY DEF Holders, Sound, Right
  <2>2. /\ Cardinality(Holders(h, n) \ {Nowhere}) <= Cardinality(Slots(h))
        /\ Cardinality(Holders(h, n) \ {Nowhere}) \in Nat
    BY <2>1, FS_Subset, FS_CardinalityType
  <2>3. h.mem[n].ref = Cardinality(Holders(h, n) \ {Nowhere})
    BY DEF Sound, Right
  <2>4. Cardinality(Slots(h)) \in Nat /\ Cardinality(Slots(h)) <= Most /\ Most \in Nat
    BY SlotsCounted, MostFit
  <2> QED  BY <2>2, <2>3, <2>4
<1> QED  BY <1>1 DEF Good, Capped, Sound

(* The statements of a client, each from h to r.                           *)

Ends(h, r) == (r.ok => r.ok = TRUE /\ Sound(r)) /\ (Bare(h) => r.ok)

LEMMA NewEnds ==
  ASSUME NEW h, NEW x \in Vars, NEW type, Sound(h), Small(h), h.ok = TRUE, h.objs[x] = NoNode
  PROVE  Ends(h, New(h, Variable(x), type, Empty))
<1> DEFINE s == Variable(x)
           h2 == New(h, s, type, Empty)
<1>1. Right(h, Nowhere) /\ Shape(h) /\ h.objs[Null] # NoNode /\ DOMAIN h.objs = Vars \cup {Null}
      /\ x \in DOMAIN h.objs /\ x # Null
  BY JsonAssumption DEF Sound, Right, Shape
<1>2. /\ s \in Slots(h) /\ s[1] = "objs" /\ At(h, s) = NoNode /\ s[3] = x
      /\ Variable(Null) \in Slots(h) /\ Variable(Null)[3] = Null
  BY <1>1, VariableIs
<1>3. s # Variable(Null) /\ NoNode \notin DOMAIN h.mem /\ Usable(h, s)
  BY <1>1, <1>2 DEF Usable, Shape, NoNode
<1> HIDE DEF s, h2
<1>4. Right(h, s) /\ Spot(h, s)
  BY <1>1, <1>2, <1>3, Unheld, UsableSpot
<1>5. DOMAIN h.mem # {}
  BY <1>1, <1>3, <1>4, NullLives
<1>6. Made(h, h2, s, Fresh(h.mem, 0), type, Empty)
  <2>1. NoElements(type, Empty)
    BY DEF NoElements
  <2> QED  BY <1>4, <1>5, <2>1, NewMakes DEF h2
<1>7. Good(h, Most) /\ Most \in Nat
  BY SoundGood, MostFit
<1>8. 1 <= Most
  <2>1. Most = Cardinality(Vars) + 1 + (MaxNodes + MaxPool) * Cardinality(Places)
    BY DEF Most
  <2>2. Cardinality(Vars) \in Nat /\ (MaxNodes + MaxPool) * Cardinality(Places) \in Nat
    BY JsonAssumption, FS_CardinalityType, Sums
  <2> QED  BY <2>1, <2>2
<1>9. Fit(h2, s, Most)
  BY <1>1, <1>3, <1>6, <1>7, <1>8, MadeFits DEF Good
<1>10. h2.ok = TRUE
  BY <1>6 DEF Made
<1>11. Ends(h, h2)
  BY <1>9, <1>10 DEF Ends, Fit, Good, Sound
<1> QED  BY <1>11 DEF h2, s

LEMMA CopyEnds ==
  ASSUME NEW h, NEW x \in Vars, NEW y \in Vars, Sound(h), Small(h), h.ok = TRUE, h.objs[y] # NoNode
  PROVE  Ends(h, AssignedFrom(h, Variable(x), Variable(y)))
<1>1. Right(h, Nowhere) /\ x \in DOMAIN h.objs /\ y \in DOMAIN h.objs /\ x # Null
  BY JsonAssumption DEF Sound, Right, Shape
<1>2. Usable(h, Variable(x)) /\ Variable(x) # Variable(Null)
  BY <1>1, VariableIs DEF Usable
<1>3. Variable(y) \in Slots(h) /\ At(h, Variable(y)) \in DOMAIN h.mem
  BY <1>1, AliveVariable DEF Alive
<1>4. Good(h, Most) /\ Most \in Nat /\ Most + 1 < RefLimit
  BY SoundGood, MostFit
<1>5. /\ Good(AssignedFrom(h, Variable(x), Variable(y)), Most + 1)
      /\ AssignedFrom(h, Variable(x), Variable(y)).ok = h.ok
  BY <1>2, <1>3, <1>4, AssignedFromMakes
<1> QED  BY <1>5 DEF Ends, Good, Sound

LEMMA DestroyEnds ==
  ASSUME NEW h, NEW x \in Vars, Sound(h), h.ok = TRUE, h.objs[x] # NoNode
  PROVE  Ends(h, Destroyed(h, x))
BY DestroyedIs DEF Sound, Ends

LEMMA VariableFits ==
  ASSUME NEW h, NEW x \in Vars, Sound(h), Small(h), h.objs[x] # NoNode
  PROVE  Fit(h, Variable(x), Most)
<1>1. x \in DOMAIN h.objs /\ x # Null
  BY JsonAssumption DEF Sound, Right, Shape
<1>2. Usable(h, Variable(x)) /\ Variable(x) # Variable(Null) /\ At(h, Variable(x)) # NoNode
  BY <1>1, VariableIs DEF Usable
<1> QED  BY <1>2, SoundGood DEF Fit

LEMMA WalkEnds ==
  ASSUME NEW h, NEW x \in Vars, NEW p \in Paths(MaxPath), Sound(h), Small(h), h.ok = TRUE,
         h.objs[x] # NoNode
  PROVE  /\ Leads_(h, Variable(x), Walk(h, Variable(x), p), Most + MaxPath * Cardinality(Places))
         /\ Ends(h, Walk(h, Variable(x), p).heap)
<1>1. Fit(h, Variable(x), Most) /\ Most \in Nat /\ MaxPath \in Nat
  BY VariableFits, MostFit, JsonAssumption
<1>2. Most + MaxPath * Cardinality(Places) < RefLimit
  BY MostFit, JsonAssumption
<1> DEFINE b == Most + MaxPath * Cardinality(Places)
           w == Walk(h, Variable(x), p)
<1>3. Leads_(h, Variable(x), w, b)
  BY <1>1, <1>2, WalkMakes
<1> HIDE DEF b, w
<1>4. Ends(h, w.heap)
  BY <1>3 DEF Leads_, Ends, Fit, Good, Sound
<1> QED  BY <1>3, <1>4 DEF b, w

LEMMA AssignEnds ==
  ASSUME NEW h, NEW x \in Vars, NEW p \in Paths(MaxPath), NEW v \in Scalars, Sound(h), Small(h),
         h.ok = TRUE, h.objs[x] # NoNode, NEW w, w = Walk(h, Variable(x), p)
  PROVE  Ends(h, IF w.heap.ok THEN Assigned(w.heap, w.slot, v) ELSE w.heap)
<1> DEFINE b == Most + MaxPath * Cardinality(Places)
<1>1. Leads_(h, Variable(x), w, b) /\ Ends(h, w.heap)
  BY WalkEnds
<1>2. b \in Nat /\ b < RefLimit /\ v.type \notin Containers
  BY MostFit, JsonAssumption
<1> HIDE DEF b
<1>3. CASE w.heap.ok
  <2>1. Fit(w.heap, w.slot, b) /\ w.heap.ok = TRUE
    BY <1>1, <1>3 DEF Leads_
  <2>2. Good(Assigned(w.heap, w.slot, v), b) /\ Assigned(w.heap, w.slot, v).ok = w.heap.ok
    BY <1>2, <2>1, AssignedMakes
  <2>3. Ends(h, Assigned(w.heap, w.slot, v))
    BY <2>1, <2>2 DEF Ends, Good, Sound
  <2> QED  BY <1>3, <2>3
<1>4. CASE ~w.heap.ok
  BY <1>1, <1>4
<1> QED  BY <1>3, <1>4

\* Stays, of the heap h.
StaysFrom(h, g, t) ==
  t[1] = "objs" \/
    LET old == h.mem[t[2]]
        new == g.mem[t[2]]
    IN  /\ t[2] \in DOMAIN g.mem /\ new.type = old.type
        /\ IF old.type = "list" THEN DOMAIN new.data = DOMAIN old.data ELSE t[3] \in DOMAIN new.data

LEMMA StaysAlive ==
  ASSUME NEW h, NEW g, NEW t, Right(h, Nowhere), Right(g, Nowhere), InScope(h, g), Alive(h, t),
         StaysFrom(h, g, t)
  PROVE  Alive(g, t)
<1>1. t \in Slots(h) /\ At(h, t) \in DOMAIN h.mem /\ (t[1] = "objs" \/ t[1] = "mem")
  BY DEF Alive
<1>2. CASE t[1] = "objs"
  <2>1. PICK x \in DOMAIN h.objs : t = Variable(x)
    BY <1>1, <1>2, SlotCases, ElementIs, PooledIs
  <2>2. DOMAIN h.objs = Vars \cup {Null} /\ DOMAIN g.objs = Vars \cup {Null} /\ NoNode \notin DOMAIN h.mem
    BY DEF Right, Shape, NoNode
  <2>3. g.objs[x] # NoNode
    BY <1>1, <2>1, <2>2, VariableIs DEF InScope
  <2> QED  BY <2>1, <2>2, <2>3, AliveVariable
<1>3. CASE t[1] = "mem"
  <2>1. PICK n \in DOMAIN h.mem : \E k \in DOMAIN Elements(h.mem[n]) : t = Element(n, k)
    BY <1>1, <1>3, SlotCases, VariableIs, PooledIs
  <2>2. PICK k \in DOMAIN Elements(h.mem[n]) : t = Element(n, k)
    BY <2>1
  <2>3. t[1] = "mem" /\ t[2] = n /\ t[3] = k
    BY <2>2, ElementIs
  <2>4. h.mem[n].type \in Containers /\ k \in DOMAIN h.mem[n].data
    BY EmptyIs DEF Elements
  <2>5. n \in DOMAIN g.mem /\ g.mem[n].type \in Containers /\ k \in DOMAIN g.mem[n].data
    BY <2>3, <2>4 DEF StaysFrom
  <2>6. k \in DOMAIN Elements(g.mem[n])
    BY <2>5 DEF Elements
  <2> QED  BY <2>2, <2>5, <2>6, AliveElement
<1> QED  BY <1>1, <1>2, <1>3

\* What is assigned is there, whichever side is evaluated first.
LEMMA AssignFromReads ==
  ASSUME NEW h, NEW x \in Vars, NEW y \in Vars, NEW p \in Paths(MaxPathFrom), NEW q \in Paths(MaxPathFrom),
         Sound(h), Small(h), h.ok = TRUE, h.objs[x] # NoNode, h.objs[y] # NoNode,
         NEW w, w = Walk(h, Variable(x), p), NEW first, first = Find(h, Variable(y), q)
  PROVE  /\ Leads_(h, Variable(x), w, Most + MaxPathFrom * Cardinality(Places))
         /\ w.heap.ok =>
              /\ Alive(w.heap, Find(w.heap, Variable(y), q))
              /\ StaysFrom(h, w.heap, first) => Alive(w.heap, first)
<1> DEFINE b == Most + MaxPathFrom * Cardinality(Places)
           g == w.heap
           later == Find(g, Variable(y), q)
<1>1. b \in Nat /\ b < RefLimit /\ MaxPathFrom \in Nat /\ Most \in Nat
  BY MostFit, JsonAssumption
<1>2. Leads_(h, Variable(x), w, b)
  BY <1>1, VariableFits, WalkMakes
<1>3. Right(h, Nowhere) /\ h.objs[Null] # NoNode /\ y \in DOMAIN h.objs
  BY DEF Sound, Right, Shape
<1>4. Alive(h, first)
  BY <1>1, <1>3, AliveVariable, FindLives
<1> HIDE DEF b, later
<1>5. ASSUME g.ok
      PROVE  Right(g, Nowhere) /\ g.objs[Null] # NoNode /\ InScope(h, g) /\ Alive(g, later)
  <2>1. Right(g, Nowhere) /\ g.objs[Null] # NoNode /\ InScope(h, g)
    BY <1>2, <1>5 DEF Leads_, Fit, Good
  <2>2. g.objs[y] # NoNode /\ y \in DOMAIN g.objs
    BY <2>1 DEF InScope, Right, Shape
  <2> QED  BY <1>1, <2>1, <2>2, AliveVariable, FindLives DEF later
<1>6. g.ok /\ StaysFrom(h, g, first) => Alive(g, first)
  BY <1>3, <1>4, <1>5, StaysAlive
<1> QED  BY <1>2, <1>5, <1>6 DEF later, b

LEMMA AssignFromEnds ==
  ASSUME NEW h, NEW x \in Vars, NEW y \in Vars, NEW p \in Paths(MaxPathFrom), NEW q \in Paths(MaxPathFrom),
         Sound(h), Small(h), h.ok = TRUE, h.objs[x] # NoNode, h.objs[y] # NoNode,
         NEW w, w = Walk(h, Variable(x), p), NEW first, first = Find(h, Variable(y), q)
  PROVE  /\ Ends(h, w.heap)
         /\ w.heap.ok => Ends(h, AssignedFrom(w.heap, w.slot, Find(w.heap, Variable(y), q)))
         /\ w.heap.ok /\ StaysFrom(h, w.heap, first) => Ends(h, AssignedFrom(w.heap, w.slot, first))
<1> DEFINE b == Most + MaxPathFrom * Cardinality(Places)
           g == w.heap
           later == Find(g, Variable(y), q)
<1>1. b \in Nat /\ b + 1 < RefLimit
  BY MostFit, JsonAssumption
<1>2. /\ Leads_(h, Variable(x), w, b)
      /\ g.ok => Alive(g, later) /\ (StaysFrom(h, g, first) => Alive(g, first))
  BY AssignFromReads
<1> HIDE DEF b, later
<1>3. Ends(h, w.heap)
  BY <1>2 DEF Leads_, Ends, Fit, Good, Sound
<1>4. ASSUME g.ok, NEW t, Alive(g, t)
      PROVE  Ends(h, AssignedFrom(g, w.slot, t))
  <2>1. Fit(g, w.slot, b) /\ g.ok = TRUE
    BY <1>2, <1>4 DEF Leads_
  <2>2. Good(g, b) /\ Usable(g, w.slot) /\ w.slot # Variable(Null)
    BY <2>1 DEF Fit
  <2>3. t \in Slots(g) /\ At(g, t) \in DOMAIN g.mem
    BY <1>4 DEF Alive
  <2>4. Good(AssignedFrom(g, w.slot, t), b + 1) /\ AssignedFrom(g, w.slot, t).ok = g.ok
    BY <1>1, <2>2, <2>3, AssignedFromMakes
  <2> QED  BY <2>1, <2>4 DEF Ends, Good, Sound
<1> QED  BY <1>2, <1>3, <1>4 DEF later

(* The invariant: what holds between two statements.                       *)

LifeInv ==
  /\ Sound(Heap) /\ Small(Heap)
  /\ crashed \in BOOLEAN /\ (crashed => ~Bare(Heap))

LEMMA HeapIs == Heap.objs = objs /\ Heap.mem = mem /\ Heap.pool = pool /\ Heap.ok = TRUE
BY DEF Heap

LEMMA LeadsKeeps ==
  ASSUME LifeInv, ~crashed, NEW r, Ends(Heap, r), Leads(r)
  PROVE  LifeInv'
<1>1. CASE r.ok
  <2>1. r.ok = TRUE /\ Sound(r) /\ Small(r)
    BY <1>1 DEF Ends, Leads, Small
  <2>2. Record(r)
    BY <2>1 DEF Sound, Right, Shape, Record
  <2>3. objs' = r.objs /\ mem' = r.mem /\ pool' = r.pool /\ crashed' = crashed
    BY <1>1 DEF Leads
  <2>4. Heap' = r
    BY <2>1, <2>2, <2>3 DEF Heap, Record
  <2>5. crashed' = FALSE
    BY <2>3 DEF LifeInv
  <2> QED  BY <2>1, <2>4, <2>5 DEF LifeInv
<1>2. CASE ~r.ok
  <2>1. crashed' = TRUE /\ objs' = objs /\ mem' = mem /\ pool' = pool
    BY <1>2 DEF Leads
  <2>2. Heap' = Heap
    BY <2>1 DEF Heap
  <2>3. ~Bare(Heap)
    BY <1>2 DEF Ends
  <2> QED  BY <2>1, <2>2, <2>3 DEF LifeInv
<1> QED  BY <1>1, <1>2

LEMMA HeapInitInv == HeapInit => LifeInv
<1> SUFFICES ASSUME HeapInit PROVE LifeInv
  OBVIOUS
<1>1. /\ Heap.mem = mem /\ Heap.objs = objs /\ Heap.pool = pool /\ Record(Heap)
      /\ mem = [n \in {1} |-> SharedJsonVal("null", Empty)]
      /\ objs = [x \in Vars \cup {Null} |-> IF x = Null THEN 1 ELSE NoNode]
      /\ pool = [c \in Containers |-> <<>>] /\ crashed = FALSE
  BY DEF HeapInit, Heap, Record
<1>2. /\ DOMAIN mem = {1} /\ mem[1] = SharedJsonVal("null", Empty) /\ Fun(mem)
      /\ DOMAIN objs = Vars \cup {Null} /\ objs[Null] = 1 /\ \A x \in Vars : objs[x] = NoNode
      /\ objs \in [Vars \cup {Null} -> Nat]
      /\ pool \in [Containers -> Seq(Elems)] /\ \A c \in Containers : DOMAIN pool[c] = {} /\ Len(pool[c]) = 0
  BY <1>1, JsonAssumption DEF Fun, NoNode
<1>3. /\ NodeOK(mem[1]) /\ mem[1].ref = 1 /\ DOMAIN Elements(mem[1]) = {}
  BY <1>2, NewNode DEF NoElements
<1> DEFINE h == Heap
           null == Variable(Null)
<1> HIDE DEF h
<1>4. /\ h.mem = mem /\ h.objs = objs /\ h.pool = pool /\ Record(h)
  BY <1>1 DEF h
<1>5. Shape(h)
  <2>1. DOMAIN h.mem \subseteq 1..1 /\ 1 \in Nat
    BY <1>2, <1>4
  <2> QED  BY <1>2, <1>3, <1>4, <2>1 DEF Shape, Record, Fun
<1>6. \A t : t \in Slots(h) <=> \E x \in Vars \cup {Null} : t = Variable(x)
  <2>1. ASSUME NEW t \in Slots(h) PROVE \E x \in Vars \cup {Null} : t = Variable(x)
    BY <1>2, <1>3, <1>4, SlotCases
  <2>2. \A x \in Vars \cup {Null} : Variable(x) \in Slots(h)
    BY <1>2, <1>4, VariableIs
  <2> QED  BY <2>1, <2>2
<1>7. \A x \in Vars \cup {Null} : /\ Variable(x)[1] = "objs" /\ Variable(x)[3] = x
                                  /\ At(h, Variable(x)) = IF x = Null THEN 1 ELSE NoNode
  BY <1>2, <1>4, JsonAssumption, VariableIs
<1>8. IsFiniteSet(Slots(h))
  <2> DEFINE names == Vars \cup {Null}
             g == [x \in names |-> Variable(x)]
  <2>1. Pairs(g, names, Slots(h))
    BY <1>6, <1>7 DEF Pairs
  <2>2. IsFiniteSet(names)
    BY JsonAssumption, FS_AddElement
  <2> QED  BY <2>1, <2>2, AsMany
<1>9. \A t \in Slots(h) : Live(h, t)
  BY <1>2, <1>4, <1>6, <1>7 DEF Live
<1>10. Holders(h, 1) \ {Nowhere} = {null}
  BY <1>6, <1>7, NoSlot DEF Holders, NoNode
<1>11. Cardinality({null}) = 1
  BY FS_Singleton
<1>12. Right(h, Nowhere)
  <2>1. \A n \in DOMAIN h.mem : h.mem[n].ref # 0 /\ h.mem[n].ref = Cardinality(Holders(h, n) \ {Nowhere})
    <3>1. SUFFICES ASSUME NEW n \in DOMAIN h.mem
                   PROVE  h.mem[n].ref # 0 /\ h.mem[n].ref = Cardinality(Holders(h, n) \ {Nowhere})
      OBVIOUS
    <3>2. n = 1 /\ h.mem[1].ref = 1
      BY <1>2, <1>3, <1>4
    <3>3. Cardinality(Holders(h, 1) \ {Nowhere}) = 1
      BY <1>10, <1>11
    <3> QED  BY <3>2, <3>3
  <2> QED  BY <1>5, <1>8, <1>9, <2>1 DEF Right
<1>13. Sound(h)
  BY <1>2, <1>4, <1>12 DEF Sound, NoNode
<1>14. Small(h)
  <2>1. 1 <= MaxNodes /\ 0 <= MaxPool
    BY JsonAssumption
  <2>3. Cardinality({1}) = 1
    BY FS_Singleton
  <2>4. Cardinality(DOMAIN h.mem) = 1
    BY <1>2, <1>4, <2>3
  <2>2. Len(h.pool["list"]) = 0 /\ Len(h.pool["dict"]) = 0
    BY <1>2, <1>4 DEF Containers
  <2> QED  BY <2>1, <2>2, <2>4 DEF Small
<1> QED  BY <1>1, <1>13, <1>14 DEF LifeInv, h

LEMMA ConstructKeeps ==
  ASSUME LifeInv, NEW x \in Vars, Construct(x)
  PROVE  LifeInv'
<1>1. Sound(Heap) /\ Small(Heap) /\ ~crashed /\ objs[x] = NoNode
  BY DEF LifeInv, Construct
<1>2. CASE \E type \in {"null"} \cup Containers : Leads(New(Heap, Variable(x), type, Empty))
  <2>1. PICK type \in {"null"} \cup Containers : Leads(New(Heap, Variable(x), type, Empty))
    BY <1>2
  <2>2. Ends(Heap, New(Heap, Variable(x), type, Empty))
    BY <1>1, HeapIs, NewEnds
  <2> QED  BY <1>1, <2>1, <2>2, LeadsKeeps
<1>3. CASE \E y \in Vars : There(y) /\ Leads(AssignedFrom(Heap, Variable(x), Variable(y)))
  <2>1. PICK y \in Vars : There(y) /\ Leads(AssignedFrom(Heap, Variable(x), Variable(y)))
    BY <1>3
  <2>2. Ends(Heap, AssignedFrom(Heap, Variable(x), Variable(y)))
    BY <1>1, <2>1, HeapIs, CopyEnds DEF There
  <2> QED  BY <1>1, <2>1, <2>2, LeadsKeeps
<1> QED  BY <1>2, <1>3 DEF Construct

LEMMA DestroyKeeps ==
  ASSUME LifeInv, NEW x \in Vars, Destroy(x)
  PROVE  LifeInv'
<1>1. Sound(Heap) /\ ~crashed /\ objs[x] # NoNode
  BY DEF LifeInv, Destroy, There
<1>2. Leads(Destroyed(Heap, x))
  BY HeapIs DEF Destroy, Destroyed
<1>3. Ends(Heap, Destroyed(Heap, x))
  BY <1>1, HeapIs, DestroyEnds
<1> QED  BY <1>1, <1>2, <1>3, LeadsKeeps

LEMMA AssignKeeps ==
  ASSUME LifeInv, NEW x \in Vars, NEW p \in Paths(MaxPath), Assign(x, p)
  PROVE  LifeInv'
<1>1. Sound(Heap) /\ Small(Heap) /\ ~crashed /\ objs[x] # NoNode
  BY DEF LifeInv, Assign, There
<1> DEFINE w == Walk(Heap, Variable(x), p)
<1>2. PICK v \in Scalars : Leads(IF w.heap.ok THEN Assigned(w.heap, w.slot, v) ELSE w.heap)
  <2>1. \E g \in {w}, v \in Scalars : Leads(IF g.heap.ok THEN Assigned(g.heap, g.slot, v) ELSE g.heap)
    BY DEF Assign
  <2> HIDE DEF w
  <2> QED  BY <2>1
<1> HIDE DEF w
<1>3. Ends(Heap, IF w.heap.ok THEN Assigned(w.heap, w.slot, v) ELSE w.heap)
  BY <1>1, HeapIs, AssignEnds DEF w
<1> QED  BY <1>1, <1>2, <1>3, LeadsKeeps

LEMMA LookUpKeeps ==
  ASSUME LifeInv, NEW x \in Vars, NEW p \in Paths(MaxPath), LookUp(x, p)
  PROVE  LifeInv'
<1>1. Sound(Heap) /\ Small(Heap) /\ ~crashed /\ objs[x] # NoNode /\ Leads(Walk(Heap, Variable(x), p).heap)
  BY DEF LifeInv, LookUp, There
<1>2. Ends(Heap, Walk(Heap, Variable(x), p).heap)
  BY <1>1, HeapIs, WalkEnds
<1> QED  BY <1>1, <1>2, LeadsKeeps

LEMMA AssignFromKeeps ==
  ASSUME LifeInv, NEW x \in Vars, NEW y \in Vars, NEW p \in Paths(MaxPathFrom),
         NEW q \in Paths(MaxPathFrom), AssignFrom(x, p, y, q)
  PROVE  LifeInv'
<1>1. Sound(Heap) /\ Small(Heap) /\ ~crashed /\ objs[x] # NoNode /\ objs[y] # NoNode
  BY DEF LifeInv, AssignFrom, There
<1> DEFINE w == Walk(Heap, Variable(x), p)
           first == Find(Heap, Variable(y), q)
           later == Find(w.heap, Variable(y), q)
<1>2. \/ ~w.heap.ok /\ Leads(w.heap)
      \/ w.heap.ok /\ Leads(AssignedFrom(w.heap, w.slot, later))
      \/ w.heap.ok /\ Stays(w.heap, first) /\ Leads(AssignedFrom(w.heap, w.slot, first))
  <2>1. \E g \in {w}, f \in {first} :
          \/ ~g.heap.ok /\ Leads(g.heap)
          \/ g.heap.ok /\ Leads(AssignedFrom(g.heap, g.slot, Find(g.heap, Variable(y), q)))
          \/ g.heap.ok /\ Stays(g.heap, f) /\ Leads(AssignedFrom(g.heap, g.slot, f))
    BY DEF AssignFrom
  <2> HIDE DEF w, first
  <2> QED  BY <2>1
<1> HIDE DEF w, first
<1>3. Stays(w.heap, first) => StaysFrom(Heap, w.heap, first)
  BY HeapIs DEF Stays, StaysFrom
<1>4. /\ Ends(Heap, w.heap)
      /\ w.heap.ok => Ends(Heap, AssignedFrom(w.heap, w.slot, later))
      /\ w.heap.ok /\ StaysFrom(Heap, w.heap, first) => Ends(Heap, AssignedFrom(w.heap, w.slot, first))
  BY <1>1, HeapIs, AssignFromEnds DEF w, first
<1> HIDE DEF later
<1>5. CASE ~w.heap.ok /\ Leads(w.heap)
  BY <1>1, <1>4, <1>5, LeadsKeeps
<1>6. CASE w.heap.ok /\ Leads(AssignedFrom(w.heap, w.slot, later))
  BY <1>1, <1>4, <1>6, LeadsKeeps
<1>7. CASE w.heap.ok /\ Stays(w.heap, first) /\ Leads(AssignedFrom(w.heap, w.slot, first))
  BY <1>1, <1>3, <1>4, <1>7, LeadsKeeps
<1> QED  BY <1>2, <1>5, <1>6, <1>7

LEMMA HeapNextInv == LifeInv /\ [HeapNext]_heapVars => LifeInv'
<1> SUFFICES ASSUME LifeInv, [HeapNext]_heapVars PROVE LifeInv'
  OBVIOUS
<1>1. CASE UNCHANGED heapVars
  <2>1. Heap' = Heap /\ crashed' = crashed
    BY <1>1 DEF heapVars, Heap
  <2> QED  BY <2>1 DEF LifeInv
<1>2. CASE HeapNext
  <2>1. PICK x \in Vars :
          \/ Construct(x) \/ Destroy(x)
          \/ \E p \in Paths(MaxPath) : Assign(x, p) \/ LookUp(x, p)
          \/ \E p, q \in Paths(MaxPathFrom), y \in Vars : AssignFrom(x, p, y, q)
    BY <1>2 DEF HeapNext
  <2>2. CASE Construct(x)
    BY <2>2, ConstructKeeps
  <2>3. CASE Destroy(x)
    BY <2>3, DestroyKeeps
  <2>4. CASE \E p \in Paths(MaxPath) : Assign(x, p) \/ LookUp(x, p)
    BY <2>4, AssignKeeps, LookUpKeeps
  <2>5. CASE \E p, q \in Paths(MaxPathFrom), y \in Vars : AssignFrom(x, p, y, q)
    BY <2>5, AssignFromKeeps
  <2> QED  BY <2>1, <2>2, <2>3, <2>4, <2>5
<1> QED  BY <1>1, <1>2

LEMMA LifeInvImplies == LifeInv => Lifetimes
<1> SUFFICES ASSUME LifeInv PROVE Lifetimes
  OBVIOUS
<1> DEFINE h == Heap
<1>1. Sound(h) /\ Small(h) /\ crashed \in BOOLEAN /\ (crashed => ~Bare(h))
  BY DEF LifeInv
<1>2. h.objs = objs /\ h.mem = mem /\ h.pool = pool
  BY HeapIs
<1> HIDE DEF h
<1>3. Right(h, Nowhere) /\ Shape(h) /\ h.objs[Null] # NoNode
  BY <1>1 DEF Sound, Right
<1>4. ReadsLive
  BY <1>1, <1>2 DEF ReadsLive, Bare
<1>5. \A t \in Slots(h) : Live(h, t)
  BY <1>3, NoSlot DEF Right
<1>6. ElementsLive
  <2>1. \A t \in Slots(h) : t[1] = "objs" \/ At(h, t) \in DOMAIN mem
    BY <1>2, <1>5 DEF Live
  <2> QED  BY <2>1 DEF ElementsLive, h
<1>7. \A n \in DOMAIN mem : mem[n].ref # 0 /\ mem[n].ref = Cardinality(Holders(h, n))
  <2>1. \A n : Holders(h, n) \ {Nowhere} = Holders(h, n)
    BY NoSlot DEF Holders
  <2> QED  BY <1>2, <1>3, <2>1 DEF Right
<1>8. objs \in [Vars \cup {Null} -> DOMAIN mem \cup {NoNode}]
  <2>1. objs \in [Vars \cup {Null} -> Nat]
    BY <1>2, <1>3 DEF Shape
  <2>2. ASSUME NEW x \in Vars \cup {Null}
        PROVE  objs[x] \in DOMAIN mem \cup {NoNode}
    <3>1. Variable(x) \in Slots(h) /\ At(h, Variable(x)) = objs[x]
      BY <1>2, <2>1, VariableIs
    <3> QED  BY <1>2, <1>5, <3>1 DEF Live
  <2> QED  BY <2>1, <2>2
<1>9. ASSUME NEW n \in DOMAIN mem
      PROVE  /\ mem[n].ref \in 1..RefLimit - 1
             /\ mem[n].type = "list" => DOMAIN mem[n].data = 0..Cardinality(DOMAIN mem[n].data) - 1
             /\ mem[n].type = "dict" => DOMAIN mem[n].data \subseteq Keys
  <2>1. NodeOK(mem[n])
    BY <1>2, <1>3 DEF Shape
  <2>2. mem[n].ref \in Nat /\ mem[n].ref # 0 /\ mem[n].ref <= Most
    <3>1. mem[n].ref \in Nat
      BY <2>1 DEF NodeOK
    <3>2. Capped(h, Most)
      BY <1>1, SoundGood DEF Good
    <3> QED  BY <1>2, <1>7, <3>1, <3>2 DEF Capped
  <2>3. mem[n].ref \in 1..RefLimit - 1
    BY <2>2, MostFit, JsonAssumption
  <2>4. ASSUME mem[n].type = "list"
        PROVE  DOMAIN mem[n].data = 0..Cardinality(DOMAIN mem[n].data) - 1
    <3>1. PICK l \in Nat : DOMAIN mem[n].data = 0..l - 1
      BY <2>1, <2>4 DEF NodeOK, FitsType, Containers
    <3>2. 0 \in Int /\ l - 1 \in Int
      BY <3>1
    <3>3. Cardinality(0..l - 1) = IF 0 > l - 1 THEN 0 ELSE l - 1 - 0 + 1
      BY <3>2, FS_Interval
    <3>4. Cardinality(DOMAIN mem[n].data) = l
      BY <3>1, <3>3
    <3> QED  BY <3>1, <3>4
  <2>5. mem[n].type = "dict" => DOMAIN mem[n].data \subseteq Keys
    BY <2>1 DEF NodeOK, FitsType, Containers
  <2> QED  BY <2>3, <2>4, <2>5
<1>10. DOMAIN pool = Containers
  BY <1>2, <1>3 DEF Shape
<1>11. HeapTypeOK
  BY <1>1, <1>2, <1>3, <1>8, <1>9, <1>10 DEF HeapTypeOK
<1>12. RefCounts
  BY <1>6, <1>7, <1>11 DEF RefCounts, h
<1> QED  BY <1>4, <1>12 DEF Lifetimes

\* However a client of JsonTypes constructs, assigns, looks up and destroys them, every
\* ref_cnt is the number of JsonTypes that point to its value, each of which is in memory,
\* and no operation reads a value after it was deleted, as long as no list or dict has gone
\* back to the pool with elements.
THEOREM LifetimesAlways == HeapSpec => []Lifetimes
<1> QED  BY HeapInitInv, HeapNextInv, LifeInvImplies, PTL DEF HeapSpec

-----------------------------------------------------------------------------
(* What the others have.                                                   *)

\* R has what the variables other than s point to, and what is in its nodes of F.
ClosedIn(h, s, F, R) ==
  \A t \in Slots(h) :
    (t # s /\ (t[1] = "objs" \/ (t[1] = "mem" /\ t[2] \in R \cap F))) => At(h, t) \in R \cup {NoNode}

\* The nodes F belong to the others: s is not in them, and is not needed to reach them.
Others(h, s, F) ==
  /\ s[1] = "mem" => s[2] \notin F
  /\ \A t \in Slots(h) : t[1] = "mem" /\ t[2] \in F => At(h, t) \in F
  /\ \A R : ClosedIn(h, s, F, R) => F \subseteq R

\* h2 is h for all but s.
Same(h, h2, s, F) ==
  /\ Scope(h, h2, s)
  /\ \A q \in F : q \in DOMAIN h2.mem /\ SameNode(h.mem[q], h2.mem[q])

LEMMA OthersReached ==
  ASSUME NEW h, NEW s, NEW F, Others(h, s, F), NEW q \in F
  PROVE  Reach(h, s, q)
<1> SUFFICES ASSUME NEW R, Closed(h, s, R) PROVE q \in R
  BY DEF Reach
<1>1. ClosedIn(h, s, F, R)
  BY DEF Closed, ClosedIn
<1> QED  BY <1>1 DEF Others

LEMMA OthersThere ==
  ASSUME NEW h, NEW s, NEW F, Others(h, s, F), Right(h, s) \/ Right(h, Nowhere)
  PROVE  F \subseteq DOMAIN h.mem
BY OthersReached, LivelyIs, ReachThere

\* A variable, and an element, in another heap.
LEMMA VariableSame ==
  ASSUME NEW h, NEW h2, NEW s, Scope(h, h2, s), NEW t \in Slots(h), t[1] = "objs"
  PROVE  t \in Slots(h2) /\ (t # s => At(h2, t) = At(h, t))
<1>1. PICK x \in DOMAIN h.objs : t = Variable(x)
  BY SlotCases, ElementIs, PooledIs
<1>2. x \in DOMAIN h2.objs /\ (Variable(x) # s => h2.objs[x] = h.objs[x])
  BY DEF Scope
<1> QED  BY <1>1, <1>2, VariableIs

LEMMA ElementSame ==
  ASSUME NEW h, NEW h2, NEW t \in Slots(h), t[1] = "mem",
         t[2] \in DOMAIN h2.mem, SameNode(h.mem[t[2]], h2.mem[t[2]])
  PROVE  t[2] \in DOMAIN h.mem /\ t \in Slots(h2) /\ At(h2, t) = At(h, t)
<1>1. PICK q \in DOMAIN h.mem : \E k \in DOMAIN Elements(h.mem[q]) : t = Element(q, k)
  BY SlotCases, VariableIs, PooledIs
<1>2. PICK k \in DOMAIN Elements(h.mem[q]) : t = Element(q, k)
  BY <1>1
<1>3. t[2] = q /\ Elements(h2.mem[q]) = Elements(h.mem[q]) /\ h2.mem[q].data = h.mem[q].data
  BY <1>2, ElementIs DEF SameNode, Elements
<1> QED  BY <1>2, <1>3, ElementIs

LEMMA OthersStay ==
  ASSUME NEW h, NEW h2, NEW s, NEW F, Others(h, s, F), Same(h, h2, s, F), F \subseteq DOMAIN h.mem
  PROVE  Others(h2, s, F)
<1>1. ASSUME NEW t \in Slots(h2), t[1] = "mem", t[2] \in F
      PROVE  At(h2, t) \in F
  <2>1. t[2] \in DOMAIN h.mem /\ SameNode(h2.mem[t[2]], h.mem[t[2]])
    BY <1>1 DEF Same, SameNode
  <2>2. t \in Slots(h) /\ At(h2, t) = At(h, t)
    BY <1>1, <2>1, ElementSame
  <2> QED  BY <1>1, <2>2 DEF Others
<1>2. ASSUME NEW R, ClosedIn(h2, s, F, R)
      PROVE  F \subseteq R
  <2>1. SUFFICES ClosedIn(h, s, F, R)
    BY DEF Others
  <2>2. SUFFICES ASSUME NEW t \in Slots(h), t # s, t[1] = "objs" \/ (t[1] = "mem" /\ t[2] \in R \cap F)
                 PROVE  At(h, t) \in R \cup {NoNode}
    BY DEF ClosedIn
  <2>3. CASE t[1] = "objs"
    <3>1. t \in Slots(h2) /\ At(h2, t) = At(h, t)
      BY <2>2, <2>3, VariableSame DEF Same
    <3> QED  BY <1>2, <2>2, <2>3, <3>1 DEF ClosedIn
  <2>4. CASE t[1] = "mem" /\ t[2] \in R \cap F
    <3>1. t \in Slots(h2) /\ At(h2, t) = At(h, t)
      BY <2>4, ElementSame DEF Same
    <3> QED  BY <1>2, <2>2, <2>4, <3>1 DEF ClosedIn
  <2> QED  BY <2>2, <2>3, <2>4
<1> QED  BY <1>1, <1>2 DEF Others

LEMMA SameTwice ==
  ASSUME NEW h, NEW h1, NEW h2, NEW s, NEW F, Same(h, h1, s, F), Same(h1, h2, s, F)
  PROVE  Same(h, h2, s, F)
BY DEF Same, Scope, SameNode

\* What nobody else points to does not belong to the others.
LEMMA OwnIs ==
  ASSUME NEW h, NEW s \in Slots(h), NEW F, Right(h, Nowhere), Others(h, s, F), At(h, s) \in DOMAIN h.mem,
         h.mem[At(h, s)].ref = 1
  PROVE  At(h, s) \notin F
<1> DEFINE n == At(h, s)
           R == DOMAIN h.mem \ {n}
<1>1. Holders(h, n) = {s}
  BY NoSlot, OnlyHolder
<1>2. ClosedIn(h, s, F, R)
  <2>1. SUFFICES ASSUME NEW t \in Slots(h), t # s PROVE At(h, t) \in R \cup {NoNode}
    BY DEF ClosedIn
  <2>2. At(h, t) # n
    BY <1>1, <2>1 DEF Holders
  <2>3. Live(h, t)
    BY <2>1, NoSlot DEF Right
  <2> QED  BY <2>2, <2>3 DEF Live
<1> QED  BY <1>2 DEF Others

\* The brackets go on in a value that is s's own.
LEMMA OthersBelow ==
  ASSUME NEW h, NEW s, NEW n, NEW k, NEW F, Others(h, s, F), n \notin F
  PROVE  Others(h, Element(n, k), F)
<1> DEFINE e == Element(n, k)
<1>1. e[1] = "mem" /\ e[2] = n
  BY ElementIs
<1> HIDE DEF e
<1>2. ASSUME NEW R, ClosedIn(h, e, F, R)
      PROVE  ClosedIn(h, s, F, R)
  BY <1>1, <1>2 DEF ClosedIn
<1>3. Others(h, e, F)
  BY <1>1, <1>2 DEF Others
<1> QED  BY <1>3 DEF e

LEMMA TakenSame ==
  ASSUME NEW h, NEW s, NEW F, NEW type, Right(h, s), Safe(h, s), Others(h, s, F)
  PROVE  Same(h, Taken(h, type), s, F)
<1>1. Took(h, Taken(h, type)) /\ Spared(h, Taken(h, type), s)
  BY TakenDoes
<1>2. \A q \in F : q \in DOMAIN Taken(h, type).mem
  BY <1>1, OthersReached DEF Spared
<1> QED  BY <1>1, <1>2 DEF Same, Took, SameNodes, Scope

LEMMA NewSame ==
  ASSUME NEW h, NEW s, NEW F, NEW type, NEW data, Right(h, s), Spot(h, s), NoElements(type, data),
         DOMAIN h.mem # {}, Others(h, s, F)
  PROVE  Same(h, New(h, s, type, data), s, F) /\ At(New(h, s, type, data), s) \notin F
<1> DEFINE h2 == New(h, s, type, data)
           n == Fresh(h.mem, 0)
<1>1. Made(h, h2, s, n, type, data) /\ n \notin DOMAIN h.mem /\ DOMAIN Taken(h, type).mem \subseteq DOMAIN h2.mem
  BY NewMakes
<1>2. F \subseteq DOMAIN h.mem
  BY OthersThere
<1>3. Safe(h, s) /\ (s[1] = "objs" \/ s[1] = "mem")
  BY VariableIs, ElementIs DEF Safe, Spot, Room
<1>4. F \subseteq DOMAIN h2.mem
  BY <1>1, <1>3, TakenSame DEF Same
<1> HIDE DEF h2, n
<1>5. \A q \in F : q # n /\ (s[1] = "objs" \/ q # s[2])
  BY <1>1, <1>2, <1>3 DEF Others
<1>6. Same(h, h2, s, F)
  BY <1>1, <1>4, <1>5 DEF Made, Same, SameNode
<1>7. At(h2, s) \notin F
  BY <1>1, <1>2 DEF Made
<1> QED  BY <1>6, <1>7 DEF h2

LEMMA LessSame ==
  ASSUME NEW h, NEW h2, NEW s, NEW n, NEW F, Lessened(h, h2, s, n), F \subseteq DOMAIN h.mem
  PROVE  Same(h, h2, s, F)
BY DEF Lessened, Same, SameNodes, Scope

LEMMA LostSame ==
  ASSUME NEW h, NEW h2, NEW s, NEW n, NEW F, Loses(h, h2, s, n), F \subseteq DOMAIN h.mem, n \notin F
  PROVE  Same(h, h2, s, F)
BY DEF Loses, Same, SameNode, Scope

LEMMA PointedSame ==
  ASSUME NEW h, NEW h2, NEW s, NEW v, NEW F, Pointed(h, h2, s, v), Others(h, s, F), F \subseteq DOMAIN h.mem,
         s[1] = "objs" \/ s[1] = "mem"
  PROVE  Same(h, h2, s, F)
<1>1. \A q \in F : q \in DOMAIN h.mem /\ (s[1] = "objs" \/ q # s[2])
  BY DEF Others
<1> QED  BY <1>1 DEF Pointed, Same, SameNode, Scope

LEMMA RecountedSame ==
  ASSUME NEW h, NEW h2, NEW s, NEW n, NEW r, NEW F, Recounted(h, h2, n, r), F \subseteq DOMAIN h.mem
  PROVE  Same(h, h2, s, F)
BY DEF Recounted, Same, SameNodes, Scope

LEMMA MadeSame ==
  ASSUME NEW h, NEW h2, NEW s, NEW n, NEW type, NEW data, NEW F, Made(h, h2, s, n, type, data),
         Others(h, s, F), F \subseteq DOMAIN h2.mem, n \notin F, s[1] = "objs" \/ s[1] = "mem"
  PROVE  Same(h, h2, s, F)
<1>1. \A q \in F : q \in DOMAIN h2.mem \ {n} /\ (s[1] = "objs" \/ q # s[2])
  BY DEF Others
<1> QED  BY <1>1 DEF Made, Same, SameNode

\* In an element, or below it, all the variables are as they were.
LEMMA SameBelow ==
  ASSUME NEW h, NEW h2, NEW e, NEW s, NEW F, Same(h, h2, e, F), e[1] = "mem"
  PROVE  Same(h, h2, s, F)
<1>1. \A x : Variable(x) # e
  BY VariableIs
<1> QED  BY <1>1 DEF Same, Scope

\* The operations of a JsonType, one after the other: each leaves the others what they have.
LEMMA FitOthers ==
  ASSUME NEW h, NEW s, NEW b \in Nat, NEW F, Fit(h, s, b), Others(h, s, F)
  PROVE  /\ F \subseteq DOMAIN h.mem /\ (s[1] = "objs" \/ s[1] = "mem") /\ Usable(h, s)
         /\ Right(h, Nowhere) /\ s \in Slots(h) /\ At(h, s) \in DOMAIN h.mem /\ Capped(h, b)
         /\ (h.mem[At(h, s)].ref = 1 => At(h, s) \notin F)
<1>1. /\ Right(h, Nowhere) /\ s \in Slots(h) /\ At(h, s) \in DOMAIN h.mem /\ Usable(h, s) /\ Capped(h, b)
      /\ (s[1] = "objs" \/ s[1] = "mem")
  BY FitIs DEF Fit, Good, Usable
<1> QED  BY <1>1, OthersThere, OwnIs

LEMMA RetypedSame ==
  ASSUME NEW h, NEW s, NEW b \in Nat, NEW F, Fit(h, s, b), b < RefLimit, NEW type \in Containers,
         Others(h, s, F)
  PROVE  Same(h, Retyped(h, s, type), s, F)
<1> DEFINE n == At(h, s)
           less == DecRefCnt(h, n)
           h1 == [less EXCEPT !.mem[n] = SharedJsonVal(type, Empty)]
           h2 == Retyped(h, s, type)
<1>1. /\ F \subseteq DOMAIN h.mem /\ (s[1] = "objs" \/ s[1] = "mem") /\ Usable(h, s)
      /\ Right(h, Nowhere) /\ n \in DOMAIN h.mem
      /\ (h.mem[n].ref = 1 => n \notin F)
  BY FitOthers
<1>2. h.mem[n].ref \in Nat /\ h.mem[n].ref < RefLimit /\ 1 < RefLimit /\ n \in DOMAIN h.mem /\ DOMAIN h.mem # {}
  BY FitIs, JsonAssumption
<1>3. less.mem[n].ref = 0 <=> h.mem[n].ref = 1
  BY DecRefCntLast
<1>4. h2 = IF less.mem[n].ref # 0 THEN New(less, s, type, Empty) ELSE Taken(h1, type)
  BY DEF Retyped
<1>5. NoElements(type, Empty)
  BY DEF NoElements
<1>6. CASE h.mem[n].ref = 1
  <2>1. Made(h, h1, s, n, type, Empty) /\ DOMAIN h1.mem = DOMAIN h.mem
    BY <1>1, <1>2, <1>5, <1>6, ReplacedIs
  <2> HIDE DEF h1, h2, less
  <2>2. h2 = Taken(h1, type) /\ n \notin F
    BY <1>1, <1>2, <1>3, <1>4, <1>6
  <2>3. Same(h, h1, s, F)
    BY <1>1, <2>1, <2>2, MadeSame
  <2>4. Others(h1, s, F)
    BY <1>1, <2>3, OthersStay
  <2>5. Right(h1, Nowhere) /\ Safe(h1, Nowhere)
    BY <2>1, NoSlot DEF Made, Safe
  <2>6. Took(h1, h2) /\ Spared(h1, h2, Nowhere)
    BY <2>2, <2>5, TakenDoes
  <2>7. \A q \in F : q \in DOMAIN h2.mem
    <3>1. \A q \in F : Reach(h1, Nowhere, q)
      BY <2>4, OthersReached, ReachWhole, NoSlot
    <3> QED  BY <2>6, <3>1 DEF Spared
  <2>8. Same(h1, h2, s, F)
    BY <2>6, <2>7 DEF Same, Took, SameNodes, Scope
  <2> QED  BY <2>3, <2>8, SameTwice DEF h2
<1>7. CASE h.mem[n].ref # 1
  <2>1. Lessened(h, less, s, n)
    BY <1>1, <1>2, <1>7, FewerIs
  <2> HIDE DEF h1, h2, less, n
  <2>2. h2 = New(less, s, type, Empty)
    BY <1>3, <1>4, <1>7
  <2>3. Right(less, s) /\ Spot(less, s) /\ DOMAIN less.mem # {}
    BY <1>2, <2>1 DEF Lessened
  <2>4. Same(h, less, s, F) /\ Others(less, s, F)
    BY <1>1, <2>1, LessSame, OthersStay
  <2>5. Same(less, h2, s, F)
    BY <1>5, <2>2, <2>3, <2>4, NewSame
  <2> QED  BY <2>4, <2>5, SameTwice DEF h2
<1> QED  BY <1>6, <1>7

LEMMA AssignedSame ==
  ASSUME NEW h, NEW s, NEW b \in Nat, NEW F, Fit(h, s, b), b < RefLimit, NEW v, v.type \notin Containers,
         Others(h, s, F)
  PROVE  Same(h, Assigned(h, s, v), s, F)
<1> DEFINE n == At(h, s)
           less == DecRefCnt(h, n)
           lost == [h EXCEPT !.mem = Without(@, n)]
           h1 == [less EXCEPT !.mem[n] = SharedJsonVal(v.type, v.data)]
           h2 == Assigned(h, s, v)
<1>1. /\ F \subseteq DOMAIN h.mem /\ (s[1] = "objs" \/ s[1] = "mem") /\ Usable(h, s)
      /\ Right(h, Nowhere) /\ n \in DOMAIN h.mem
      /\ (h.mem[n].ref = 1 => n \notin F)
  BY FitOthers
<1>2. h.mem[n].ref \in Nat /\ h.mem[n].ref < RefLimit /\ 1 < RefLimit /\ n \in DOMAIN h.mem /\ DOMAIN h.mem # {}
  BY FitIs, JsonAssumption
<1>3. less.mem[n].ref = 0 <=> h.mem[n].ref = 1
  BY DecRefCntLast
<1>4. NoElements(v.type, v.data)
  BY DEF NoElements
<1>5. h2 = IF h.mem[n].ref = 1 /\ h.mem[n].type = v.type THEN New(lost, s, v.type, v.data)
           ELSE IF less.mem[n].ref = 0 THEN h1 ELSE New(less, s, v.type, v.data)
  BY DEF Assigned
<1>6. CASE h.mem[n].ref = 1 /\ h.mem[n].type = v.type
  <2>1. lost = Lost(h, n)
    BY <1>6 DEF Lost, Parked, SetMem
  <2>2. Loses(h, lost, s, n)
    BY <1>1, <1>2, <1>6, <2>1, LostIs
  <2> HIDE DEF lost, less, n, h1, h2
  <2>3. h2 = New(lost, s, v.type, v.data) /\ n \notin F
    BY <1>1, <1>2, <1>5, <1>6
  <2>4. Right(lost, s) /\ Spot(lost, s) /\ lost.objs = h.objs
    BY <2>2 DEF Loses
  <2>5. DOMAIN lost.mem # {}
    BY <2>4, NullLives DEF Fit, Good
  <2>6. Same(h, lost, s, F) /\ Others(lost, s, F)
    BY <1>1, <2>2, <2>3, LostSame, OthersStay
  <2>7. Same(lost, h2, s, F)
    BY <1>4, <2>3, <2>4, <2>5, <2>6, NewSame
  <2> QED  BY <2>6, <2>7, SameTwice DEF h2
<1>7. CASE h.mem[n].ref = 1 /\ h.mem[n].type # v.type
  <2>1. Made(h, h1, s, n, v.type, v.data) /\ DOMAIN h1.mem = DOMAIN h.mem
    BY <1>1, <1>2, <1>4, <1>7, ReplacedIs
  <2> HIDE DEF lost, less, n, h1, h2
  <2>2. h2 = h1 /\ n \notin F
    BY <1>1, <1>2, <1>3, <1>5, <1>7
  <2> QED  BY <1>1, <2>1, <2>2, MadeSame DEF h2
<1>8. CASE h.mem[n].ref # 1
  <2>1. Lessened(h, less, s, n)
    BY <1>1, <1>2, <1>8, FewerIs
  <2> HIDE DEF lost, less, n, h1, h2
  <2>2. h2 = New(less, s, v.type, v.data)
    BY <1>3, <1>5, <1>8
  <2>3. Right(less, s) /\ Spot(less, s) /\ DOMAIN less.mem # {}
    BY <1>2, <2>1 DEF Lessened
  <2>4. Same(h, less, s, F) /\ Others(less, s, F)
    BY <1>1, <2>1, LessSame, OthersStay
  <2>5. Same(less, h2, s, F)
    BY <1>4, <2>2, <2>3, <2>4, NewSame
  <2> QED  BY <2>4, <2>5, SameTwice DEF h2
<1> QED  BY <1>6, <1>7, <1>8

LEMMA LeftSame ==
  ASSUME NEW h, NEW s, NEW b \in Nat, NEW F, Good(h, b), Usable(h, s), s # Variable(Null), b < RefLimit,
         Others(h, s, F)
  PROVE  Same(h, Left(h, s), s, F)
<1> DEFINE n == At(h, s)
           less == DecRefCnt(h, n)
           lost == [less EXCEPT !.mem = Without(@, n)]
           h2 == Left(h, s)
<1>1. Right(h, Nowhere) /\ Shape(h) /\ s \in Slots(h) /\ Capped(h, b) /\ (s[1] = "objs" \/ s[1] = "mem")
  BY DEF Good, Right, Usable
<1>2. F \subseteq DOMAIN h.mem
  BY <1>1, OthersThere
<1>3. h2 = IF n = NoNode THEN h
           ELSE IF less.mem[n].ref # 0 THEN Point(less, s, NoNode)
           ELSE Point(lost, s, NoNode)
  BY DEF Left
<1>4. CASE n = NoNode
  BY <1>2, <1>3, <1>4 DEF Same, Scope, SameNode
<1>5. ASSUME NEW g, Right(g, s), Spot(g, s), Same(h, g, s, F), h2 = Point(g, s, NoNode)
      PROVE  Same(h, h2, s, F)
  <2> HIDE DEF h2
  <2>1. Shape(g) /\ Room(g, s) /\ NoNode \in Nat
    BY <1>5 DEF Right, Spot, NoNode
  <2>2. Pointed(g, h2, s, NoNode)
    BY <1>5, <2>1, PointIs
  <2>3. Others(g, s, F)
    BY <1>2, <1>5, OthersStay
  <2>4. Same(g, h2, s, F)
    BY <1>1, <1>5, <2>2, <2>3, OthersThere, PointedSame
  <2> QED  BY <1>5, <2>4, SameTwice
<1>6. CASE n # NoNode
  <2>1. Fit(h, s, b)
    BY <1>6 DEF Fit
  <2>2. n \in DOMAIN h.mem /\ h.mem[n].ref \in Nat /\ h.mem[n].ref <= b /\ h.mem[n].ref # 0
    BY <2>1, FitIs
  <2>3. RefLimit \in Nat /\ h.mem[n].ref < RefLimit /\ h.mem[n].ref \in 1..RefLimit - 1
    BY <2>2, JsonAssumption
  <2>4. less.mem[n].ref = 0 <=> h.mem[n].ref = 1
    BY <2>1, DecRefCntLast
  <2>5. CASE h.mem[n].ref # 1
    <3>1. Lessened(h, less, s, n)
      BY <1>1, <2>2, <2>3, <2>5, FewerIs
    <3> HIDE DEF h2, lost, less, n
    <3>2. h2 = Point(less, s, NoNode) /\ Right(less, s) /\ Spot(less, s)
      BY <1>3, <1>6, <2>4, <2>5, <3>1 DEF Lessened
    <3>3. Same(h, less, s, F)
      BY <1>2, <3>1, LessSame
    <3> QED  BY <1>5, <3>2, <3>3 DEF h2
  <2>6. CASE h.mem[n].ref = 1
    <3>1. lost = Lost(h, n)
      BY <1>1, <2>2, <2>3, <2>6, LeftLost
    <3>2. Loses(h, lost, s, n) /\ n \notin F
      BY <1>1, <2>2, <2>6, <3>1, LostIs, OwnIs
    <3> HIDE DEF h2, lost, less, n
    <3>3. h2 = Point(lost, s, NoNode) /\ Right(lost, s) /\ Spot(lost, s)
      BY <1>3, <1>6, <2>4, <2>6, <3>2 DEF Loses
    <3>4. Same(h, lost, s, F)
      BY <1>2, <3>2, LostSame
    <3> QED  BY <1>5, <3>3, <3>4 DEF h2
  <2> QED  BY <2>5, <2>6
<1> QED  BY <1>4, <1>6

LEMMA AssignedFromSame ==
  ASSUME NEW h, NEW s, NEW b \in Nat, NEW F, Good(h, b), Usable(h, s), s # Variable(Null),
         b + 1 < RefLimit, NEW other \in Slots(h), At(h, other) \in DOMAIN h.mem, Others(h, s, F)
  PROVE  Same(h, AssignedFrom(h, s, other), s, F)
<1> DEFINE n == At(h, other)
           left == Left(h, s)
           h1 == [left EXCEPT !.mem = Counted(@, n, 1)]
           h2 == AssignedFrom(h, s, other)
<1>1. Right(h, Nowhere) /\ (s[1] = "objs" \/ s[1] = "mem")
  BY DEF Good, Usable
<1>2. F \subseteq DOMAIN h.mem
  BY <1>1, OthersThere
<1>3. CASE s = other
  <2>1. h2 = h
    BY <1>3 DEF AssignedFrom
  <2> QED  BY <1>2, <2>1 DEF Same, Scope, SameNode
<1>4. CASE s # other
  <2>1. RefLimit \in Nat /\ b < RefLimit
    BY JsonAssumption
  <2>2. Let(h, left, s, b) /\ Same(h, left, s, F)
    BY <2>1, LeftIs, LeftSame
  <2>3. h2 = IF n \notin DOMAIN left.mem THEN [h EXCEPT !.ok = FALSE] ELSE Point(h1, s, n)
    BY <1>4 DEF AssignedFrom
  <2>4. h1 = SetMem(left, Counted(left.mem, n, 1))
    BY DEF SetMem
  <2> HIDE DEF n, left, h1, h2
  <2>5. Right(left, s) /\ Shape(left) /\ Room(left, s) /\ Capped(left, b)
    BY <2>2 DEF Let, Right, Spot
  <2>6. n \in DOMAIN left.mem
    BY <1>4, <2>2 DEF Let, n
  <2>7. left.mem[n].ref \in Nat /\ left.mem[n].ref <= b
    BY <2>5, <2>6 DEF Shape, NodeOK, Capped
  <2>8. PICK r \in Nat : r = (left.mem[n].ref + 1) % RefLimit
    BY <2>1, <2>7
  <2>9. Recounted(left, h1, n, r)
    BY <2>4, <2>5, <2>6, <2>8, CountedIs
  <2>10. Shape(h1) /\ Room(h1, s) /\ n \in Nat
    <3>1. \A q \in DOMAIN left.mem : \A k : RoomFor(left.mem[q], k) => RoomFor(h1.mem[q], k)
      BY <2>9 DEF RoomFor, Recounted, SameNodes, SameNode
    <3>2. n \in Nat
      BY <2>5, <2>6 DEF Shape
    <3> QED  BY <2>5, <2>9, <3>1, <3>2 DEF Room, Recounted
  <2>11. Pointed(h1, h2, s, n)
    BY <2>3, <2>6, <2>10, PointIs
  <2>12. Others(left, s, F) /\ F \subseteq DOMAIN left.mem
    BY <1>2, <2>2, OthersStay DEF Same
  <2>13. Same(left, h1, s, F)
    BY <2>9, <2>12, RecountedSame
  <2>14. Others(h1, s, F) /\ F \subseteq DOMAIN h1.mem
    BY <2>12, <2>13, OthersStay DEF Same
  <2>15. Same(h1, h2, s, F)
    BY <1>1, <2>11, <2>14, PointedSame
  <2>16. Same(h, h1, s, F)
    BY <2>2, <2>13, SameTwice
  <2> QED  BY <2>15, <2>16, SameTwice DEF h2
<1> QED  BY <1>3, <1>4

LEMMA NormalizedSame ==
  ASSUME NEW h, NEW s, NEW b \in Nat, NEW F, Fit(h, s, b), b + Cardinality(Places) < RefLimit,
         h.ok = TRUE, Others(h, s, F), Normalize_(h, s).ok
  PROVE  Same(h, Normalize_(h, s), s, F) /\ At(Normalize_(h, s), s) \notin F
<1> DEFINE n == At(h, s)
           less == DecRefCnt(h, n)
           new == New(less, s, h.mem[n].type, Empty)
           own == Normalize_(h, s)
<1>1. /\ F \subseteq DOMAIN h.mem /\ Usable(h, s) /\ Right(h, Nowhere) /\ n \in DOMAIN h.mem
      /\ (h.mem[n].ref = 1 => n \notin F)
  BY FitOthers
<1>2. CASE h.mem[n].ref = 1
  <2>1. own = h
    BY <1>2 DEF Normalize_
  <2> QED  BY <1>1, <1>2, <2>1 DEF Same, Scope, SameNode
<1>3. CASE h.mem[n].ref # 1
  <2>1. h.mem[n].ref \in Nat /\ h.mem[n].ref < RefLimit /\ DOMAIN h.mem # {}
    <3>1. Cardinality(Places) \in Nat /\ RefLimit \in Nat
      BY JsonAssumption, FS_CardinalityType
    <3>2. h.mem[n].ref \in Nat /\ h.mem[n].ref <= b /\ DOMAIN h.mem # {}
      BY FitIs
    <3> QED  BY <3>1, <3>2
  <2>2. Lessened(h, less, s, n)
    BY <1>1, <1>3, <2>1, FewerIs
  <2>3. own = Copied(h, s)
    BY <1>3 DEF Normalize_
  <2>4. Filled(new, own, At(new, s), h.mem[n])
    BY <1>3, <2>3, CopiedMakes DEF CopyFilled
  <2> HIDE DEF own, new, less, n
  <2>5. Same(h, less, s, F) /\ Others(less, s, F)
    BY <1>1, <2>2, LessSame, OthersStay
  <2>6. NoElements(h.mem[n].type, Empty) /\ Right(less, s) /\ Spot(less, s) /\ DOMAIN less.mem # {}
    BY <2>1, <2>2 DEF NoElements, Lessened
  <2>7. Same(less, new, s, F) /\ At(new, s) \notin F
    BY <2>5, <2>6, NewSame DEF new
  <2>8. s \in Slots(new) /\ s # Nowhere
    <3>1. Made(less, new, s, Fresh(less.mem, 0), h.mem[n].type, Empty)
      BY <2>6, NewMakes DEF new
    <3> QED  BY <3>1, NoSlot DEF Made, Usable
  <2>9. At(own, s) = At(new, s)
    BY <2>4, <2>8 DEF Filled, SameBut
  <2>10. Same(new, own, s, F)
    BY <2>4, <2>7 DEF Filled, Same, Scope, SameNodes
  <2>11. Same(h, new, s, F)
    BY <2>5, <2>7, SameTwice
  <2> QED  BY <2>7, <2>9, <2>10, <2>11, SameTwice DEF own
<1> QED  BY <1>2, <1>3

LEMMA WholeSame ==
  ASSUME NEW own, NEW s, NEW b \in Nat, NEW F, Fit(own, s, b), NEW k \in Keys \cup Indexes,
         own.mem[At(own, s)].type = KindOf(k), Others(own, s, F), At(own, s) \notin F
  PROVE  LET e == Element(At(own, s), k)
         IN  Same(own, WholeAt(own, At(own, s), k), e, F) /\ Others(own, e, F)
<1> DEFINE n == At(own, s)
           e == Element(n, k)
           whole == WholeAt(own, n, k)
<1>1. /\ Right(own, Nowhere) /\ n \in DOMAIN own.mem /\ 1 <= b /\ DOMAIN own.mem # {}
      /\ Usable(own, s) /\ Capped(own, b) /\ F \subseteq DOMAIN own.mem /\ n # NoNode
  BY FitIs, FitOthers
<1>2. Others(own, e, F)
  BY OthersBelow
<1>3. e[1] = "mem" /\ e[2] = n
  BY ElementIs
<1>4. own.mem[n].type \in Containers /\ Elements(own.mem[n]) = own.mem[n].data /\ own.mem[n].type = KindOf(k)
  BY DEF KindOf, Containers, Elements
<1>5. Reach(own, Nowhere, n) /\ (e \in Slots(own) <=> k \in DOMAIN own.mem[n].data) /\ n \notin F
  BY <1>1, <1>4, NoSlot, ReachDown, ElementIs
<1> HIDE DEF n, e, whole
<1>6. CASE k \in DOMAIN own.mem[n].data
  <2>1. whole = own
    BY <1>6 DEF whole, WholeAt
  <2>2. Same(own, whole, e, F)
    BY <1>1, <2>1 DEF Same, Scope, SameNode
  <2> QED  BY <1>2, <2>2 DEF whole, e, n
<1>7. CASE k \notin DOMAIN own.mem[n].data /\ k \in Keys
  <2>1. whole = New(own, e, "dict", Empty)
    BY <1>7 DEF whole, WholeAt, e
  <2>2. Right(own, e)
    BY <1>1, <1>5, <1>7, Unheld
  <2>3. k \in Places /\ own.mem[n].type = "dict"
    BY <1>4, <1>7 DEF Places, KindOf
  <2>4. Spot(own, e)
    <3>1. RoomFor(own.mem[n], k)
      BY <1>4, <1>7, <2>3 DEF RoomFor
    <3>2. Reach(own, e, e[2])
      BY <1>3, <1>5, ReachOwner
    <3> QED  BY <1>1, <2>3, <3>1, <3>2 DEF Spot, Room, e
  <2>5. NoElements("dict", Empty)
    BY DEF NoElements
  <2>6. Same(own, whole, e, F)
    BY <1>1, <1>2, <2>1, <2>2, <2>4, <2>5, NewSame
  <2> QED  BY <1>2, <2>6 DEF whole, e, n
<1>8. CASE k \notin DOMAIN own.mem[n].data /\ k \notin Keys
  <2>1. whole = Resized(own, n, k)
    BY <1>8 DEF whole, WholeAt
  <2>2. k \in Nat /\ own.mem[n].type = "list" /\ 0..k \subseteq Places
    BY <1>4, <1>8, JsonAssumption DEF KindOf, Places
  <2>3. Grown(own, whole, e)
    BY <1>1, <1>8, <2>1, <2>2, ResizedIs DEF e
  <2>4. Same(own, whole, e, F)
    BY <1>1, <1>3, <1>5, <2>3 DEF Grown, Same, SameNode, Scope
  <2> QED  BY <1>2, <2>4 DEF whole, e, n
<1> QED  BY <1>6, <1>7, <1>8

\* The brackets lead to r, and the others have what they had.
Goes(h, s, r, F) ==
  r.heap.ok => /\ Same(h, r.heap, s, F) /\ Others(r.heap, r.slot, F)
               /\ r.slot = s \/ r.slot[1] = "mem"

LEMMA ElementOfSame ==
  ASSUME NEW h, NEW s, NEW b \in Nat, NEW F, Fit(h, s, b), h.ok = TRUE, NEW k \in Keys \cup Indexes,
         b + Cardinality(Places) < RefLimit, Others(h, s, F)
  PROVE  Goes(h, s, ElementOf(h, s, k), F)
<1> DEFINE P == Cardinality(Places)
           typed == Typed(h, s, KindOf(k))
           own == Normalize_(typed, s)
           n == At(own, s)
           whole == WholeAt(own, n, k)
           e == Element(n, k)
           r == ElementOf(h, s, k)
<1>1. P \in Nat /\ b < RefLimit /\ b + P \in Nat
  <2>1. P \in Nat /\ RefLimit \in Nat
    BY JsonAssumption, FS_CardinalityType
  <2> QED  BY <2>1
<1>2. r = IF own.ok THEN [heap |-> whole, slot |-> e] ELSE [heap |-> own, slot |-> s]
  BY DEF ElementOf, ElementIn
<1>3. /\ Fit(typed, s, b) /\ typed.ok = TRUE /\ typed.mem[At(typed, s)].type = KindOf(k)
      /\ Same(h, typed, s, F)
  <2>1. CASE h.mem[At(h, s)].type = KindOf(k)
    <3>1. typed = h
      BY <2>1 DEF Typed
    <3>2. F \subseteq DOMAIN h.mem
      BY FitOthers
    <3> QED  BY <2>1, <3>1, <3>2 DEF Same, Scope, SameNode
  <2>2. CASE h.mem[At(h, s)].type # KindOf(k)
    <3>1. typed = Retyped(h, s, KindOf(k)) /\ KindOf(k) \in Containers
      BY <2>2 DEF Typed, KindOf, Containers
    <3> HIDE DEF typed
    <3> QED  BY <1>1, <3>1, RetypedMakes, RetypedSame
  <2> QED  BY <2>1, <2>2
<1> HIDE DEF r, whole, own, P, n, typed, e
<1>4. Others(typed, s, F)
  <2>1. F \subseteq DOMAIN h.mem
    BY FitOthers
  <2> QED  BY <1>3, <2>1, OthersStay
<1>5. CASE own.ok
  <2>1. Fit(own, s, b + P) /\ own.mem[n].type = KindOf(k)
    BY <1>3, <1>5, NormalizedMakes DEF own, P, Owned, n
  <2>2. Same(typed, own, s, F) /\ n \notin F
    BY <1>3, <1>4, <1>5, NormalizedSame DEF own, P, n
  <2>3. Others(own, s, F)
    <3>1. F \subseteq DOMAIN typed.mem
      BY <1>3 DEF Same
    <3> QED  BY <1>4, <2>2, <3>1, OthersStay
  <2>4. Same(own, whole, e, F) /\ Others(own, e, F)
    BY <1>1, <2>1, <2>2, <2>3, WholeSame DEF whole, n, e
  <2>5. Same(own, whole, s, F) /\ e[1] = "mem"
    BY <2>4, SameBelow, ElementIs DEF e
  <2>6. Others(whole, e, F)
    <3>1. F \subseteq DOMAIN own.mem
      BY <2>2 DEF Same
    <3> QED  BY <2>4, <3>1, OthersStay
  <2>7. Same(h, own, s, F)
    BY <1>3, <2>2, SameTwice
  <2>8. Same(h, whole, s, F)
    BY <2>5, <2>7, SameTwice
  <2>9. r.heap = whole /\ r.slot = e
    BY <1>2, <1>5
  <2>10. Goes(h, s, r, F)
    BY <2>5, <2>6, <2>8, <2>9 DEF Goes
  <2> QED  BY <2>10 DEF r
<1>6. CASE ~own.ok
  <2>1. r.heap = own
    BY <1>2, <1>6
  <2>2. Goes(h, s, r, F)
    BY <1>6, <2>1 DEF Goes
  <2> QED  BY <2>2 DEF r
<1> QED  BY <1>5, <1>6

\* What is the same below s is the same for s.
LEMMA SameFrom ==
  ASSUME NEW h, NEW s, NEW F, NEW r, Goes(h, s, r, F), r.heap.ok, NEW g, Same(r.heap, g, r.slot, F)
  PROVE  Same(h, g, s, F)
<1>1. Same(r.heap, g, s, F)
  BY SameBelow DEF Goes
<1> QED  BY <1>1, SameTwice DEF Goes

LEMMA BracketSame ==
  ASSUME NEW h, NEW s, NEW r, NEW b \in Nat, NEW F, Leads_(h, s, r, b), NEW k \in Keys \cup Indexes,
         b + Cardinality(Places) < RefLimit, Goes(h, s, r, F)
  PROVE  Goes(h, s, Bracket(r, k), F)
<1>1. CASE ~r.heap.ok
  BY <1>1 DEF Bracket
<1>2. CASE r.heap.ok
  <2> DEFINE r2 == ElementOf(r.heap, r.slot, k)
  <2>1. Bracket(r, k) = r2
    BY <1>2 DEF Bracket
  <2>2. Fit(r.heap, r.slot, b) /\ r.heap.ok = TRUE /\ Others(r.heap, r.slot, F)
    BY <1>2 DEF Leads_, Goes
  <2>3. Goes(r.heap, r.slot, r2, F)
    BY <2>2, ElementOfSame
  <2> HIDE DEF r2
  <2>4. r2.heap.ok => /\ Same(h, r2.heap, s, F) /\ Others(r2.heap, r2.slot, F)
                      /\ r2.slot = s \/ r2.slot[1] = "mem"
    BY <1>2, <2>3, SameFrom DEF Goes
  <2> QED  BY <2>1, <2>4 DEF Goes
<1> QED  BY <1>1, <1>2

LEMMA WalkSame ==
  ASSUME NEW h, NEW s, NEW b \in Nat, NEW F, Fit(h, s, b), h.ok = TRUE, NEW max \in Nat,
         NEW p \in Paths(max), b + max * Cardinality(Places) < RefLimit, Others(h, s, F)
  PROVE  Goes(h, s, Walk(h, s, p), F)
<1> DEFINE P == Cardinality(Places)
           n == Len(p)
           start == [heap |-> h, slot |-> s]
<1>1. P \in Nat /\ n \in 0..max /\ \A i \in 1..n : p[i] \in Keys \cup Indexes
  BY JsonAssumption, FS_CardinalityType, PathIs
<1>2. PICK w : Walks(h, s, p, n, w) /\ Walk(h, s, p) = w[n]
  BY <1>1, WalkIs
<1>3. w[0] = start /\ \A i \in 1..n : w[i] = Bracket(w[i - 1], p[i])
  <2>1. \A i \in 0..n : w[i] = IF i = 0 THEN start ELSE Bracket(w[i - 1], p[i])
    BY <1>2 DEF Walks
  <2> QED  BY <1>1, <2>1
<1>4. start.heap = h /\ start.slot = s
  OBVIOUS
<1> DEFINE G(i) == Goes(h, s, w[i], F)
           Wrong == {i \in 0..n : ~G(i)}
<1> HIDE DEF start
<1>5. G(0)
  <2>1. F \subseteq DOMAIN h.mem
    BY FitOthers
  <2>2. Goes(h, s, start, F)
    BY <1>4, <2>1 DEF Goes, Same, Scope, SameNode
  <2> QED  BY <1>3, <2>2
<1>6. ASSUME NEW i \in 1..n, G(i - 1)
      PROVE  G(i)
  <2> DEFINE b1 == b + (i - 1) * P
  <2>1. i - 1 \in 0..n /\ i - 1 # n
    BY <1>1
  <2>2. Leads_(h, s, w[i - 1], b1) /\ b1 \in Nat /\ b1 + P < RefLimit
    BY <1>2, <2>1, WalkSteps
  <2> HIDE DEF b1
  <2>3. Goes(h, s, Bracket(w[i - 1], p[i]), F)
    BY <1>1, <1>6, <2>2, BracketSame
  <2> QED  BY <1>3, <2>3
<1>7. G(n)
  <2> SUFFICES ASSUME ~G(n) PROVE FALSE
    OBVIOUS
  <2> HIDE DEF G, n
  <2>1. Wrong # {} /\ Wrong \in SUBSET Nat
    BY <1>1
  <2>2. PICK j \in Wrong : \A i \in Wrong : j <= i
    <3> HIDE DEF Wrong
    <3> QED  BY <2>1, LeastOf
  <2>3. j # 0 /\ j \in 1..n /\ j - 1 \in 0..n /\ j - 1 \notin Wrong
    BY <1>1, <1>5, <2>2
  <2>4. G(j - 1) /\ ~G(j)
    BY <2>2, <2>3
  <2> QED  BY <1>6, <2>3, <2>4
<1> QED  BY <1>2, <1>7

LEMMA DestroyedSame ==
  ASSUME NEW h, NEW x \in Vars, NEW F, Right(h, Nowhere), h.objs[x] # NoNode, Others(h, Variable(x), F)
  PROVE  Same(h, Destroyed(h, x), Variable(x), F)
<1>1. \A q \in F : Reach(h, Variable(x), q)
  BY OthersReached
<1> QED  BY <1>1, DestroyedIs DEF Same

(* The statements, of which each is about one variable.                    *)

\* What the variables other than x can reach.
Rest(h, x) == {n \in DOMAIN h.mem : Reach(h, Variable(x), n)}

LEMMA RestReached ==
  ASSUME NEW h, NEW x, Right(h, Nowhere), NEW t \in Slots(h), t # Variable(x),
         t[1] = "objs" \/ (t[1] = "mem" /\ t[2] \in Rest(h, x))
  PROVE  At(h, t) \in Rest(h, x) \/ (t[1] = "objs" /\ At(h, t) = NoNode)
<1>1. Live(h, t)
  BY NoSlot DEF Right
<1>2. CASE t[1] = "objs" /\ At(h, t) = NoNode
  BY <1>2
<1>3. CASE At(h, t) \in DOMAIN h.mem
  <2>1. At(h, t) # NoNode
    BY <1>3 DEF Right, Shape, NoNode
  <2>2. ASSUME NEW R, Closed(h, Variable(x), R)
        PROVE  At(h, t) \in R
    <3>1. t[1] = "objs" \/ (t[1] = "mem" /\ t[2] \in R)
      BY <2>2 DEF Rest, Reach
    <3>2. At(h, t) \in R \cup {NoNode}
      BY <2>2, <3>1 DEF Closed
    <3> QED  BY <2>1, <3>2
  <2>3. Reach(h, Variable(x), At(h, t))
    BY <2>2 DEF Reach
  <2> QED  BY <1>3, <2>3 DEF Rest
<1> QED  BY <1>1, <1>2, <1>3 DEF Live

LEMMA RestIsOthers ==
  ASSUME NEW h, NEW x, Right(h, Nowhere)
  PROVE  Others(h, Variable(x), Rest(h, x))
<1> DEFINE s == Variable(x)
           F == Rest(h, x)
<1>1. s[1] = "objs"
  BY VariableIs
<1> HIDE DEF s, F
<1>2. ASSUME NEW t \in Slots(h), t[1] = "mem", t[2] \in F
      PROVE  At(h, t) \in F
  BY <1>1, <1>2, RestReached DEF s, F
<1>3. ASSUME NEW R, ClosedIn(h, s, F, R)
      PROVE  F \subseteq R
  <2>1. Closed(h, s, R \cap F)
    <3>1. SUFFICES ASSUME NEW t \in Slots(h), t # s, t[1] = "objs" \/ (t[1] = "mem" /\ t[2] \in R \cap F)
                   PROVE  At(h, t) \in (R \cap F) \cup {NoNode}
      BY DEF Closed
    <3>2. At(h, t) \in R \cup {NoNode}
      BY <1>3, <3>1 DEF ClosedIn
    <3>3. At(h, t) \in F \/ At(h, t) = NoNode
      BY <3>1, RestReached DEF s, F
    <3> QED  BY <3>2, <3>3
  <2>2. \A q \in F : q \in R \cap F
    BY <2>1 DEF F, Rest, Reach, s
  <2> QED  BY <2>2
<1>4. Others(h, s, F)
  BY <1>1, <1>2, <1>3 DEF Others
<1> QED  BY <1>4 DEF s, F

\* All of what another variable points to is in what can be reached without x.
LEMMA BehindRest ==
  ASSUME NEW h, NEW x, NEW y \in DOMAIN h.objs, y # x, Right(h, Nowhere)
  PROVE  Behind(h.mem, h.objs[y]) \subseteq Rest(h, x)
<1> DEFINE F == Rest(h, x)
<1>1. F \in SUBSET DOMAIN h.mem
  BY DEF Rest
<1> HIDE DEF F
<1>2. h.objs[y] \in F \cup {NoNode}
  <2>1. Variable(y) \in Slots(h) /\ Variable(y)[1] = "objs" /\ Variable(y) # Variable(x)
    BY VariableIs
  <2>2. At(h, Variable(y)) \in F \cup {NoNode}
    BY <2>1, RestReached DEF F
  <2> QED  BY <2>2, VariableIs
<1>3. \A d \in F : \A k \in DOMAIN Elements(h.mem[d]) : h.mem[d].data[k] \in F \cup {NoNode}
  <2>1. SUFFICES ASSUME NEW d \in F, NEW k \in DOMAIN Elements(h.mem[d])
                 PROVE  h.mem[d].data[k] \in F \cup {NoNode}
    OBVIOUS
  <2> DEFINE t == Element(d, k)
  <2>2. t \in Slots(h) /\ t[1] = "mem" /\ t[2] = d /\ t # Variable(x) /\ At(h, t) = h.mem[d].data[k]
    BY <1>1, ElementIs, VariableIs
  <2> HIDE DEF t
  <2>3. At(h, t) \in F \cup {NoNode}
    BY <2>2, RestReached DEF F
  <2> QED  BY <2>2, <2>3
<1>4. \A q \in Behind(h.mem, h.objs[y]) : q \in F
  BY <1>1, <1>2, <1>3 DEF Behind
<1> QED  BY <1>4 DEF F

LEMMA LeadsChanges ==
  ASSUME LifeInv, NEW x \in Vars, NEW r, Leads(r), r.ok => Same(Heap, r, Variable(x), Rest(Heap, x))
  PROVE  OneChanges
<1>1. Right(Heap, Nowhere) /\ DOMAIN Heap.objs = Vars \cup {Null} /\ Heap.objs = objs /\ Heap.mem = mem
  BY HeapIs DEF LifeInv, Sound, Right, Shape
<1>2. SUFFICES ASSUME NEW y \in (Vars \cup {Null}) \ {x} PROVE Unchanged(y)
  BY DEF OneChanges
<1>3. Behind(mem, objs[y]) \subseteq Rest(Heap, x)
  BY <1>1, <1>2, BehindRest
<1>4. CASE r.ok
  <2>1. objs' = r.objs /\ mem' = r.mem
    BY <1>4 DEF Leads
  <2>2. objs'[y] = objs[y]
    <3>1. Variable(y) # Variable(x)
      BY <1>2, VariableIs
    <3> QED  BY <1>1, <1>2, <1>4, <2>1, <3>1 DEF Same, Scope
  <2>3. \A n \in Rest(Heap, x) : n \in DOMAIN mem' /\ mem'[n].type = mem[n].type /\ mem'[n].data = mem[n].data
    BY <1>1, <1>4, <2>1 DEF Same, SameNode
  <2> QED  BY <1>3, <2>2, <2>3 DEF Unchanged
<1>5. CASE ~r.ok
  <2>1. objs' = objs /\ mem' = mem
    BY <1>5 DEF Leads
  <2>2. \A n \in Behind(mem, objs[y]) : n \in DOMAIN mem
    BY DEF Behind
  <2> QED  BY <2>1, <2>2 DEF Unchanged
<1> QED  BY <1>4, <1>5

LEMMA ConstructChanges ==
  ASSUME LifeInv, NEW x \in Vars, Construct(x)
  PROVE  OneChanges
<1> DEFINE s == Variable(x)
           F == Rest(Heap, x)
<1>1. /\ Sound(Heap) /\ Small(Heap) /\ Right(Heap, Nowhere) /\ Heap.objs[Null] # NoNode /\ objs[x] = NoNode
      /\ x \in DOMAIN Heap.objs /\ x # Null
  BY JsonAssumption DEF LifeInv, Construct, Sound, Right, Shape
<1>2. Others(Heap, s, F)
  BY <1>1, RestIsOthers
<1>3. Usable(Heap, s) /\ s # Variable(Null) /\ s \in Slots(Heap)
  BY <1>1, VariableIs DEF Usable
<1>4. CASE \E type \in {"null"} \cup Containers : Leads(New(Heap, s, type, Empty))
  <2>1. PICK type \in {"null"} \cup Containers : Leads(New(Heap, s, type, Empty))
    BY <1>4
  <2>2. At(Heap, s) = NoNode /\ NoNode \notin DOMAIN Heap.mem
    BY <1>1, HeapIs, VariableIs DEF Right, Shape, NoNode
  <2>3. Right(Heap, s) /\ Spot(Heap, s) /\ NoElements(type, Empty)
    BY <1>1, <1>3, <2>2, Unheld, UsableSpot DEF NoElements, Right
  <2>4. DOMAIN Heap.mem # {}
    BY <1>1, <1>3, <2>3, NullLives
  <2> HIDE DEF s, F
  <2>5. Same(Heap, New(Heap, s, type, Empty), s, F)
    BY <1>2, <2>3, <2>4, NewSame
  <2> QED  BY <2>1, <2>5, LeadsChanges DEF s, F
<1>5. CASE \E y \in Vars : There(y) /\ Leads(AssignedFrom(Heap, s, Variable(y)))
  <2>1. PICK y \in Vars : There(y) /\ Leads(AssignedFrom(Heap, s, Variable(y)))
    BY <1>5
  <2>2. Variable(y) \in Slots(Heap) /\ At(Heap, Variable(y)) \in DOMAIN Heap.mem
    <3>1. y \in DOMAIN Heap.objs /\ Heap.objs[y] # NoNode
      BY <1>1, <2>1, HeapIs DEF There, Right, Shape
    <3> QED  BY <1>1, <3>1, AliveVariable DEF Alive
  <2>3. Good(Heap, Most) /\ Most \in Nat /\ Most + 1 < RefLimit
    BY <1>1, SoundGood, MostFit
  <2> HIDE DEF s, F
  <2>4. Same(Heap, AssignedFrom(Heap, s, Variable(y)), s, F)
    BY <1>2, <1>3, <2>2, <2>3, AssignedFromSame
  <2> QED  BY <2>1, <2>4, LeadsChanges DEF s, F
<1> QED  BY <1>4, <1>5 DEF Construct

LEMMA DestroyChanges ==
  ASSUME LifeInv, NEW x \in Vars, Destroy(x)
  PROVE  OneChanges
<1>1. Right(Heap, Nowhere) /\ Heap.objs[x] # NoNode
  BY HeapIs DEF LifeInv, Sound, Destroy, There
<1>2. Leads(Destroyed(Heap, x))
  BY HeapIs DEF Destroy, Destroyed
<1>3. Same(Heap, Destroyed(Heap, x), Variable(x), Rest(Heap, x))
  BY <1>1, RestIsOthers, DestroyedSame
<1> QED  BY <1>2, <1>3, LeadsChanges

\* Where the brackets after a variable lead.
LEMMA WalkChanges ==
  ASSUME LifeInv, NEW x \in Vars, There(x), NEW max \in Nat, NEW p \in Paths(max),
         Most + max * Cardinality(Places) < RefLimit
  PROVE  Goes(Heap, Variable(x), Walk(Heap, Variable(x), p), Rest(Heap, x))
<1>1. Fit(Heap, Variable(x), Most) /\ Most \in Nat /\ Heap.ok = TRUE
  BY HeapIs, VariableFits, MostFit DEF LifeInv, There
<1>2. Others(Heap, Variable(x), Rest(Heap, x))
  BY RestIsOthers DEF LifeInv, Sound
<1> QED  BY <1>1, <1>2, WalkSame

LEMMA AssignChanges ==
  ASSUME LifeInv, NEW x \in Vars, NEW p \in Paths(MaxPath), Assign(x, p)
  PROVE  OneChanges
<1> DEFINE w == Walk(Heap, Variable(x), p)
           b == Most + MaxPath * Cardinality(Places)
           F == Rest(Heap, x)
<1>1. Sound(Heap) /\ Small(Heap) /\ There(x) /\ Heap.ok = TRUE /\ Heap.objs[x] # NoNode
  BY HeapIs DEF LifeInv, Assign, There
<1>2. PICK v \in Scalars : Leads(IF w.heap.ok THEN Assigned(w.heap, w.slot, v) ELSE w.heap)
  <2>1. \E g \in {w}, v \in Scalars : Leads(IF g.heap.ok THEN Assigned(g.heap, g.slot, v) ELSE g.heap)
    BY DEF Assign
  <2> HIDE DEF w
  <2> QED  BY <2>1
<1>3. b \in Nat /\ b < RefLimit /\ MaxPath \in Nat /\ v.type \notin Containers
  BY MostFit, JsonAssumption
<1>4. Goes(Heap, Variable(x), w, F)
  BY <1>1, <1>3, WalkChanges
<1>5. Leads_(Heap, Variable(x), w, b)
  BY <1>1, WalkEnds
<1> HIDE DEF w, b, F
<1>6. CASE w.heap.ok
  <2>1. Fit(w.heap, w.slot, b) /\ Others(w.heap, w.slot, F)
    BY <1>4, <1>5, <1>6 DEF Leads_, Goes
  <2>2. Same(w.heap, Assigned(w.heap, w.slot, v), w.slot, F)
    BY <1>3, <2>1, AssignedSame
  <2>3. Same(Heap, Assigned(w.heap, w.slot, v), Variable(x), F)
    BY <1>4, <1>6, <2>2, SameFrom
  <2> QED  BY <1>2, <1>6, <2>3, LeadsChanges DEF F
<1>7. CASE ~w.heap.ok
  BY <1>2, <1>7, LeadsChanges
<1> QED  BY <1>6, <1>7

LEMMA LookUpChanges ==
  ASSUME LifeInv, NEW x \in Vars, NEW p \in Paths(MaxPath), LookUp(x, p)
  PROVE  OneChanges
<1>1. There(x) /\ Leads(Walk(Heap, Variable(x), p).heap)
  BY DEF LookUp
<1>2. MaxPath \in Nat /\ Most + MaxPath * Cardinality(Places) < RefLimit
  BY MostFit, JsonAssumption
<1>3. Goes(Heap, Variable(x), Walk(Heap, Variable(x), p), Rest(Heap, x))
  BY <1>1, <1>2, WalkChanges
<1> QED  BY <1>1, <1>3, LeadsChanges DEF Goes

LEMMA AssignFromChanges ==
  ASSUME LifeInv, NEW x \in Vars, NEW y \in Vars, NEW p \in Paths(MaxPathFrom),
         NEW q \in Paths(MaxPathFrom), AssignFrom(x, p, y, q)
  PROVE  OneChanges
<1> DEFINE w == Walk(Heap, Variable(x), p)
           first == Find(Heap, Variable(y), q)
           later == Find(w.heap, Variable(y), q)
           b == Most + MaxPathFrom * Cardinality(Places)
           F == Rest(Heap, x)
<1>1. /\ Sound(Heap) /\ Small(Heap) /\ There(x) /\ Heap.ok = TRUE /\ Heap.objs[x] # NoNode
      /\ Heap.objs[y] # NoNode
  BY HeapIs DEF LifeInv, AssignFrom, There
<1>2. \/ ~w.heap.ok /\ Leads(w.heap)
      \/ w.heap.ok /\ Leads(AssignedFrom(w.heap, w.slot, later))
      \/ w.heap.ok /\ Stays(w.heap, first) /\ Leads(AssignedFrom(w.heap, w.slot, first))
  <2>1. \E g \in {w}, f \in {first} :
          \/ ~g.heap.ok /\ Leads(g.heap)
          \/ g.heap.ok /\ Leads(AssignedFrom(g.heap, g.slot, Find(g.heap, Variable(y), q)))
          \/ g.heap.ok /\ Stays(g.heap, f) /\ Leads(AssignedFrom(g.heap, g.slot, f))
    BY DEF AssignFrom
  <2> HIDE DEF w, first
  <2> QED  BY <2>1
<1>3. b \in Nat /\ b + 1 < RefLimit /\ b < RefLimit /\ MaxPathFrom \in Nat
  BY MostFit, JsonAssumption
<1>4. Goes(Heap, Variable(x), w, F)
  BY <1>1, <1>3, WalkChanges
<1>5. /\ Leads_(Heap, Variable(x), w, b)
      /\ w.heap.ok => Alive(w.heap, later) /\ (StaysFrom(Heap, w.heap, first) => Alive(w.heap, first))
  BY <1>1, AssignFromReads
<1> HIDE DEF w, first, later, b, F
<1>6. Stays(w.heap, first) => StaysFrom(Heap, w.heap, first)
  BY HeapIs DEF Stays, StaysFrom
<1>7. ASSUME w.heap.ok, NEW t, Alive(w.heap, t)
      PROVE  Same(Heap, AssignedFrom(w.heap, w.slot, t), Variable(x), F)
  <2>1. Fit(w.heap, w.slot, b) /\ Others(w.heap, w.slot, F)
    BY <1>4, <1>5, <1>7 DEF Leads_, Goes
  <2>2. t \in Slots(w.heap) /\ At(w.heap, t) \in DOMAIN w.heap.mem
    BY <1>7 DEF Alive
  <2>3. Same(w.heap, AssignedFrom(w.heap, w.slot, t), w.slot, F)
    BY <1>3, <2>1, <2>2, AssignedFromSame DEF Fit
  <2> QED  BY <1>4, <1>7, <2>3, SameFrom
<1>8. CASE ~w.heap.ok /\ Leads(w.heap)
  BY <1>8, LeadsChanges
<1>9. CASE w.heap.ok /\ Leads(AssignedFrom(w.heap, w.slot, later))
  BY <1>5, <1>7, <1>9, LeadsChanges DEF F
<1>10. CASE w.heap.ok /\ Stays(w.heap, first) /\ Leads(AssignedFrom(w.heap, w.slot, first))
  BY <1>5, <1>6, <1>7, <1>10, LeadsChanges DEF F
<1> QED  BY <1>2, <1>8, <1>9, <1>10

LEMMA HeapNextChanges == LifeInv /\ [HeapNext]_heapVars => [OneChanges]_heapVars
<1> SUFFICES ASSUME LifeInv, HeapNext PROVE OneChanges
  OBVIOUS
<1>1. PICK x \in Vars :
        \/ Construct(x) \/ Destroy(x)
        \/ \E p \in Paths(MaxPath) : Assign(x, p) \/ LookUp(x, p)
        \/ \E p, q \in Paths(MaxPathFrom), y \in Vars : AssignFrom(x, p, y, q)
  BY DEF HeapNext
<1>2. CASE Construct(x)
  BY <1>2, ConstructChanges
<1>3. CASE Destroy(x)
  BY <1>3, DestroyChanges
<1>4. CASE \E p \in Paths(MaxPath) : Assign(x, p) \/ LookUp(x, p)
  BY <1>4, AssignChanges, LookUpChanges
<1>5. CASE \E p, q \in Paths(MaxPathFrom), y \in Vars : AssignFrom(x, p, y, q)
  BY <1>5, AssignFromChanges
<1> QED  BY <1>1, <1>2, <1>3, <1>4, <1>5

\* A statement about one variable leaves all that the other variables and null_val read as it
\* is, however much of it they share: the values stay in memory, with their types, their data
\* and their elements, at any depth.
THEOREM OthersKeptAlways == HeapSpec => OthersKept
<1> QED  BY HeapInitInv, HeapNextInv, HeapNextChanges, PTL DEF HeapSpec, OthersKept

-----------------------------------------------------------------------------
(* PoolObjs.                                                               *)

\* Before Init_ there is nothing in the table; after the destructor nobody calls.
Phases ==
  /\ ~init => currentRow = 0 /\ currentCol = 0 /\ numBlocksAlloc = 0
  /\ destroyed => \A t \in Threads : pc[t] = "idle"

\* The type invariant, the shape of the table, and the owners need each other: an
\* object that Get takes off the list has no other owner because places behind the
\* cursor are not listed, and they can be written because their row is there.
Inv == TypeOK /\ RowsAllocated /\ OneOwner /\ Phases

USE PoolAssumption DEF Rows, Cols

\* A table without rows, or one row more, is a table.
LEMMA RowType ==
  /\ NoRow \in {NoRow} \cup [Cols -> Objects \cup {Junk}]
  /\ JunkRow \in [Cols -> Objects \cup {Junk}]
  /\ 0 \in Cols /\ ObjsPerBlock - 1 \in Cols
  /\ \A f \in [Cols -> Objects \cup {Junk}] : f # NoRow
<1>1. 0 \in Cols /\ ObjsPerBlock - 1 \in Cols
  OBVIOUS
<1>2. JunkRow \in [Cols -> Objects \cup {Junk}]
  BY DEF JunkRow
<1>3. ASSUME NEW f \in [Cols -> Objects \cup {Junk}]
      PROVE  f # NoRow
  <2>1. DOMAIN f = Cols /\ DOMAIN NoRow = {}
    BY DEF NoRow
  <2> QED  BY <1>1, <2>1
<1> QED  BY <1>1, <1>2, <1>3

\* What the constructor was told does not change, and the lock stays initialised.
LEMMA FlagsInv ==
  ASSUME FlagsOK, UNCHANGED flags, lockInit' = lockInit \/ lockInit' = TRUE
  PROVE  FlagsOK'
<1>1. toResize' = toResize /\ newIfNoResize' = newIfNoResize
  BY Zenon DEF flags
<1>2. toResize \in BOOLEAN /\ newIfNoResize \in BOOLEAN
  BY DEF FlagsOK
<1>3. toResize' \in BOOLEAN /\ newIfNoResize' \in BOOLEAN
  BY <1>1, <1>2, Zenon
<1>4. lockInit' \in BOOLEAN
  <2>1. lockInit \in BOOLEAN
    BY DEF FlagsOK
  <2> QED  BY <2>1, Zenon
<1> QED  BY <1>3, <1>4 DEF FlagsOK

\* The program starts in the invariant.
LEMMA InitInv == Init => Inv
<1> SUFFICES ASSUME Init PROVE Inv
  OBVIOUS
<1>1. TypeOK
  <2>1. rows \in [Rows -> {NoRow} \cup [Cols -> Objects \cup {Junk}]]
    BY RowType DEF Init
  <2>2. currentRow \in 0..MaxBlocks /\ currentCol \in Cols /\ numBlocksAlloc \in 0..MaxBlocks
    BY DEF Init
  <2>3. FlagsOK
    BY DEF Init, FlagsOK
  <2> QED  BY <2>1, <2>2, <2>3 DEF Init, TypeOK
<1>2. RowsAllocated
  BY DEF Init, RowsAllocated
<1>3. OneOwner
  BY DEF Init, OneOwner, Listed, Freeing
<1>4. Phases
  BY DEF Init, Phases
<1> QED  BY <1>1, <1>2, <1>3, <1>4 DEF Inv

\* Calling and returning touch neither the table nor the cursor.
LEMMA CallInv ==
  ASSUME Inv, NEW t \in Threads, CallGet(t) \/ CallFree(t)
  PROVE  Inv'
<1>1. CASE CallGet(t)
  <2>0. FlagsOK'
    BY <1>1, FlagsInv DEF CallGet, Call, Inv, TypeOK
  <2>1. TypeOK'
    BY <1>1, <2>0 DEF CallGet, Call, poolVars, Inv, TypeOK
  <2>2. RowsAllocated'
    BY <1>1 DEF CallGet, Call, poolVars, Inv, RowsAllocated
  <2>3. Freeing' = Freeing
    BY <1>1 DEF CallGet, Call, Inv, TypeOK, Freeing
  <2>4. \A u \in Threads : pc'[u] = "free" => pc[u] = "free" /\ arg'[u] = arg[u]
    BY <1>1 DEF CallGet, Call, Inv, TypeOK
  <2>5. OneOwner'
    BY <1>1, <2>3, <2>4 DEF CallGet, Call, poolVars, Inv, OneOwner, Listed
  <2>6. Phases'
    BY <1>1 DEF CallGet, Call, poolVars, Inv, Phases
  <2> QED  BY <2>1, <2>2, <2>5, <2>6 DEF Inv
<1>2. CASE CallFree(t)
  <2>1. PICK o \in used : Call(t, "free", o) /\ used' = used \ {o}
    BY <1>2 DEF CallFree
  <2>0. FlagsOK'
    BY <2>1, FlagsInv DEF Call, Inv, TypeOK
  <2>2. TypeOK'
    BY <2>0, <2>1 DEF Call, poolVars, Inv, TypeOK
  <2>3. RowsAllocated'
    BY <2>1 DEF Call, poolVars, Inv, RowsAllocated
  <2>4. Freeing' = Freeing \cup {o}
    BY <2>1 DEF Call, Inv, TypeOK, Freeing
  <2>5. \A u \in Threads : pc'[u] = "free" => \/ u = t /\ arg'[u] = o
                                              \/ u # t /\ pc[u] = "free" /\ arg'[u] = arg[u]
    BY <2>1 DEF Call, Inv, TypeOK
  <2>6. ~destroyed /\ ~destroyed' /\ UNCHANGED poolVars /\ live' = live
    BY <2>1 DEF Call
  <2>7. OneOwner'
    <3>1. \A r \in Rows, c \in Cols : Listed(r, c)' <=> Listed(r, c)
      BY <2>6 DEF Listed, poolVars
    <3>2. OneOwner /\ rows' = rows /\ o \in used
      BY <2>6 DEF Inv, poolVars
    <3>3. \A u, v \in Threads : pc'[u] = "free" /\ pc'[v] = "free" /\ arg'[u] = arg'[v] => u = v
      <4>1. \A u \in Threads : pc[u] = "free" => arg[u] # o
        BY <2>6, <3>2 DEF OneOwner, Freeing
      <4> QED  BY <2>5, <2>6, <3>2, <4>1 DEF OneOwner
    <3>4. Freeing' \subseteq live' \ used' /\ used' \subseteq live'
      BY <2>1, <2>4, <2>6, <3>2 DEF OneOwner
    <3>5. \A r \in Rows, c \in Cols :
            Listed(r, c)' => rows'[r][c] \in live' \ (used' \cup Freeing')
      BY <2>1, <2>4, <2>6, <3>1, <3>2 DEF OneOwner
    <3>6. \A r1, r2 \in Rows, c1, c2 \in Cols :
            Listed(r1, c1)' /\ Listed(r2, c2)' /\ rows'[r1][c1] = rows'[r2][c2]
              => r1 = r2 /\ c1 = c2
      BY <2>6, <3>1, <3>2 DEF OneOwner
    <3> QED  BY <3>3, <3>4, <3>5, <3>6 DEF OneOwner
  <2>8. Phases'
    BY <2>1 DEF Call, poolVars, Inv, Phases
  <2> QED  BY <2>2, <2>3, <2>7, <2>8 DEF Inv
<1> QED  BY <1>1, <1>2

\* Init_ fills whole rows with new objects.
LEMMA Init_Inv ==
  ASSUME Inv, NEW t \in Threads, Init_(t)
  PROVE  Inv'
<1>1. PICK blocks \in InitBlocks :
        /\ \E made \in Injection((0..blocks - 1) \X Cols, Objects \ live) :
             /\ rows' = [r \in Rows |->
                           IF r < blocks THEN [c \in Cols |-> made[<<r, c>>]] ELSE NoRow]
             /\ live' = live \cup Range(made)
        /\ currentRow' = blocks /\ numBlocksAlloc' = blocks
        /\ numObjsAlloc' = blocks * ObjsPerBlock
  BY DEF Init_
<1>2. PICK made \in Injection((0..blocks - 1) \X Cols, Objects \ live) :
        /\ rows' = [r \in Rows |->
                      IF r < blocks THEN [c \in Cols |-> made[<<r, c>>]] ELSE NoRow]
        /\ live' = live \cup Range(made)
  BY <1>1
<1>3. blocks \in 0..MaxBlocks /\ blocks * ObjsPerBlock \in Nat
  BY DEF InitBlocks
<1>4. /\ \A r \in 0..blocks - 1, c \in Cols : made[<<r, c>>] \in Objects \ live
      /\ \A r1, r2 \in 0..blocks - 1, c1, c2 \in Cols :
           made[<<r1, c1>>] = made[<<r2, c2>>] => r1 = r2 /\ c1 = c2
      /\ Range(made) \subseteq Objects \ live
      /\ \A r \in 0..blocks - 1, c \in Cols : made[<<r, c>>] \in Range(made)
  BY DEF Injection, IsInjective, Range
<1>5. ~init /\ ~destroyed /\ ~destroyed' /\ currentCol = 0 /\ currentCol' = 0 /\ init'
  BY DEF Init_, Inv, Phases
<1>6. /\ \A r \in 0..blocks - 1 : rows'[r] = [c \in Cols |-> made[<<r, c>>]]
      /\ \A r \in Rows : r >= blocks => rows'[r] = NoRow
  BY <1>2, <1>3
<1>7. \A r \in Rows, c \in Cols :
        Listed(r, c)' => r \in 0..blocks - 1 /\ rows'[r][c] = made[<<r, c>>]
  <2> SUFFICES ASSUME NEW r \in Rows, NEW c \in Cols, Listed(r, c)'
               PROVE  r \in 0..blocks - 1 /\ rows'[r][c] = made[<<r, c>>]
    BY DEF Listed
  <2>1. r \in 0..blocks - 1
    BY <1>1, <1>3, <1>5 DEF Listed
  <2>2. rows'[r] = [d \in Cols |-> made[<<r, d>>]]
    BY <2>1, <1>6
  <2>3. rows'[r][c] = made[<<r, c>>]
    BY <2>2, Zenon
  <2> QED  BY <2>1, <2>3
<1>8. TypeOK'
  <2>1. rows' \in [Rows -> {NoRow} \cup [Cols -> Objects \cup {Junk}]]
    <3>1. ASSUME NEW r \in Rows
          PROVE  rows'[r] \in {NoRow} \cup [Cols -> Objects \cup {Junk}]
      <4>1. CASE r < blocks
        <5>1. \A c \in Cols : made[<<r, c>>] \in Objects
          BY <4>1, <1>3, <1>4
        <5>2. [c \in Cols |-> made[<<r, c>>]] \in [Cols -> Objects \cup {Junk}]
          BY <5>1
        <5>3. rows'[r] = [c \in Cols |-> made[<<r, c>>]]
          BY <4>1, <1>3, <1>6
        <5> QED  BY <5>2, <5>3, Zenon
      <4>2. CASE r >= blocks
        BY <4>2, <1>6
      <4> QED  BY <4>1, <4>2, <1>3
    <3>2. rows' = [r \in Rows |-> rows'[r]]
      BY <1>2
    <3> QED  BY <3>1, <3>2
  <2>2. FlagsOK'
    BY FlagsInv DEF Init_, Inv, TypeOK
  <2>3. currentRow' \in 0..MaxBlocks /\ currentCol' \in Cols /\ numBlocksAlloc' \in 0..MaxBlocks
    BY <1>1, <1>3, <1>5
  <2>4. live' \subseteq Objects /\ used' \subseteq Objects /\ pc' = pc /\ arg' = arg
    BY <1>2, <1>4 DEF Init_, Inv, TypeOK
  <2>5. /\ TypeOK /\ destroyed' = destroyed /\ init' = TRUE
        /\ numObjsAlloc' \in Nat
    BY <1>1, <1>3 DEF Init_, Inv
  <2>6. pc' \in [Threads -> {"idle", "get", "free"}] /\ arg' \in [Threads -> Objects \cup {NoObj}]
    BY <2>4, <2>5 DEF TypeOK
  <2> QED  BY <2>1, <2>2, <2>3, <2>4, <2>5, <2>6 DEF TypeOK
<1>9. RowsAllocated'
  <2>1. \A r \in 0..blocks - 1 : rows'[r] # NoRow
    <3> SUFFICES ASSUME NEW r \in 0..blocks - 1 PROVE rows'[r] # NoRow
      OBVIOUS
    <3>1. \A c \in Cols : made[<<r, c>>] \in Objects
      BY <1>4
    <3>2. [c \in Cols |-> made[<<r, c>>]] \in [Cols -> Objects \cup {Junk}]
      BY <3>1
    <3>3. rows'[r] \in [Cols -> Objects \cup {Junk}]
      BY <3>2, <1>6
    <3> QED  BY <3>3, RowType
  <2>2. \A r \in Rows : rows'[r] # NoRow <=> r < blocks
    BY <2>1, <1>3, <1>6
  <2> QED  BY <2>2, <1>1, <1>5 DEF RowsAllocated
<1>10. OneOwner'
  <2>1. used' = used /\ pc' = pc /\ arg' = arg /\ Freeing' = Freeing
    BY DEF Init_, Freeing
  <2>2. used \subseteq live /\ Freeing \subseteq live \ used
    BY <1>5 DEF Inv, OneOwner, Listed
  <2>3. \A r \in Rows, c \in Cols : Listed(r, c)' => rows'[r][c] \in live' \ (used' \cup Freeing')
    BY <2>1, <2>2, <1>2, <1>4, <1>7 DEF Listed
  <2>4. \A r1, r2 \in Rows, c1, c2 \in Cols :
          Listed(r1, c1)' /\ Listed(r2, c2)' /\ rows'[r1][c1] = rows'[r2][c2]
            => r1 = r2 /\ c1 = c2
    <3> SUFFICES ASSUME NEW r1 \in Rows, NEW r2 \in Rows, NEW c1 \in Cols, NEW c2 \in Cols,
                        Listed(r1, c1)', Listed(r2, c2)', rows'[r1][c1] = rows'[r2][c2]
                 PROVE  r1 = r2 /\ c1 = c2
      BY DEF Listed
    <3>1. /\ r1 \in 0..blocks - 1 /\ rows'[r1][c1] = made[<<r1, c1>>]
          /\ r2 \in 0..blocks - 1 /\ rows'[r2][c2] = made[<<r2, c2>>]
      BY <1>7 DEF Listed
    <3>2. made[<<r1, c1>>] = made[<<r2, c2>>]
      BY <3>1
    <3> QED  BY <3>1, <3>2, <1>4
  <2> QED  BY <2>1, <2>2, <2>3, <2>4, <1>2, <1>5 DEF Inv, OneOwner, Listed
<1>11. Phases'
  BY <1>5 DEF Phases
<1> QED  BY <1>8, <1>9, <1>10, <1>11 DEF Inv

\* A call that ends takes its argument with it.
TakenBack(t) ==
  /\ FlagsOK'
  /\ pc' \in [Threads -> {"idle", "get", "free"}]
  /\ arg' \in [Threads -> Objects \cup {NoObj}]
  /\ \A u \in Threads : pc'[u] = "free" => u # t /\ pc[u] = "free" /\ arg'[u] = arg[u]
  /\ Freeing' \subseteq Freeing
  /\ pc[t] = "free" /\ ~destroyed => arg[t] \notin Freeing'
  /\ pc[t] # "idle" => ~destroyed
  /\ init' = init /\ destroyed' = destroyed

LEMMA ReturnFrees ==
  ASSUME Inv, NEW t \in Threads, Return(t)
  PROVE  TakenBack(t)
<1>1. /\ pc' \in [Threads -> {"idle", "get", "free"}]
      /\ arg' \in [Threads -> Objects \cup {NoObj}]
      /\ \A u \in Threads : pc'[u] = "free" => u # t /\ pc[u] = "free" /\ arg'[u] = arg[u]
      /\ init' = init /\ destroyed' = destroyed
  BY DEF Return, Inv, TypeOK
<1>2. Freeing' \subseteq Freeing
  BY <1>1 DEF Freeing
<1>3. pc[t] = "free" /\ ~destroyed => arg[t] \notin Freeing'
  BY <1>1 DEF Freeing, Inv, OneOwner, Listed
<1>4. FlagsOK'
  BY FlagsInv DEF Return, Inv, TypeOK
<1> QED  BY <1>1, <1>2, <1>3, <1>4 DEF Inv, Phases, TakenBack

\* Taking one object off the list keeps the owners apart.
LEMMA TakeInv ==
  ASSUME Inv, NEW t \in Threads, pc[t] = "get", init, Return(t),
         NEW row \in Rows, NEW col \in Cols, Listed(row, col),
         used' = used \cup {rows[row][col]},
         \A r \in Rows, c \in Cols : Listed(r, c)' => Listed(r, c) /\ (r # row \/ c # col),
         live' = live, rows' = rows
  PROVE  OneOwner' /\ live' \subseteq Objects /\ used' \subseteq Objects
<1>0. TakenBack(t)
  BY ReturnFrees
<1>1. ~destroyed /\ ~destroyed'
  BY <1>0 DEF TakenBack
<1>2. OneOwner /\ live \subseteq Objects /\ used \subseteq Objects
  BY DEF Inv, TypeOK
<1>3. rows[row][col] \in live \ (used \cup Freeing)
  BY <1>1, <1>2 DEF OneOwner, Listed
<1>4. \A r \in Rows, c \in Cols : Listed(r, c)' => rows'[r][c] \in live' \ (used' \cup Freeing')
  BY <1>0, <1>1, <1>2 DEF OneOwner, TakenBack, Listed
<1>5. \A r1, r2 \in Rows, c1, c2 \in Cols :
        Listed(r1, c1)' /\ Listed(r2, c2)' /\ rows'[r1][c1] = rows'[r2][c2] => r1 = r2 /\ c1 = c2
  BY <1>1, <1>2 DEF OneOwner, Listed
<1> QED  BY <1>0, <1>1, <1>2, <1>3, <1>4, <1>5 DEF OneOwner, TakenBack, Listed

LEMMA GetInv ==
  ASSUME Inv, NEW t \in Threads, Get(t)
  PROVE  Inv'
<1>0. Return(t) /\ TakenBack(t)
  BY ReturnFrees DEF Get, GetFromRow, GetFromRowBefore, GetFromNewBlock, GetNew, GetNothing
<1>1. CASE GetFromRow(t)
  <2>1. /\ pc[t] = "get" /\ init /\ Return(t) /\ ~destroyed /\ TypeOK /\ RowsAllocated
        /\ currentCol # 0 /\ currentCol' = currentCol - 1
        /\ rows' = rows /\ currentRow' = currentRow /\ live' = live
        /\ numObjsAlloc' = numObjsAlloc /\ numBlocksAlloc' = numBlocksAlloc
    BY <1>1, <1>0 DEF GetFromRow, Inv, TakenBack
  <2>2. currentRow \in Rows /\ currentCol - 1 \in Cols /\ currentRow < numBlocksAlloc
    BY <2>1 DEF TypeOK, RowsAllocated
  <2>3. /\ Listed(currentRow, currentCol - 1)
        /\ \A r \in Rows, c \in Cols :
             Listed(r, c)' => Listed(r, c) /\ (r # currentRow \/ c # currentCol - 1)
    BY <2>1, <2>2 DEF Listed, TypeOK
  <2>4. used' = used \cup {rows[currentRow][currentCol - 1]}
    BY <1>1 DEF GetFromRow
  <2>5. OneOwner' /\ live' \subseteq Objects /\ used' \subseteq Objects
    BY <2>1, <2>2, <2>3, <2>4, TakeInv
  <2>6. TypeOK'
    BY <2>1, <2>2, <2>5, <1>0 DEF TypeOK, TakenBack
  <2>7. RowsAllocated'
    BY <2>1, <2>2 DEF RowsAllocated
  <2>8. Phases'
    BY <2>1, <1>0 DEF Phases, TakenBack
  <2> QED  BY <2>5, <2>6, <2>7, <2>8 DEF Inv
<1>2. CASE GetFromRowBefore(t)
  <2>1. /\ pc[t] = "get" /\ init /\ Return(t) /\ ~destroyed /\ TypeOK /\ RowsAllocated
        /\ currentCol = 0 /\ currentRow # 0
        /\ currentCol' = ObjsPerBlock - 1 /\ currentRow' = currentRow - 1
        /\ rows' = rows /\ live' = live
        /\ numObjsAlloc' = numObjsAlloc /\ numBlocksAlloc' = numBlocksAlloc
    BY <1>2, <1>0 DEF GetFromRowBefore, Inv, TakenBack
  <2>2. currentRow - 1 \in Rows /\ ObjsPerBlock - 1 \in Cols /\ currentRow - 1 < numBlocksAlloc
    BY <2>1 DEF TypeOK, RowsAllocated
  <2>3. /\ Listed(currentRow - 1, ObjsPerBlock - 1)
        /\ \A r \in Rows, c \in Cols :
             Listed(r, c)' => Listed(r, c) /\ (r # currentRow - 1 \/ c # ObjsPerBlock - 1)
    BY <2>1, <2>2 DEF Listed, TypeOK
  <2>4. used' = used \cup {rows[currentRow - 1][ObjsPerBlock - 1]}
    BY <1>2 DEF GetFromRowBefore
  <2>5. OneOwner' /\ live' \subseteq Objects /\ used' \subseteq Objects
    BY <2>1, <2>2, <2>3, <2>4, TakeInv
  <2>6. TypeOK'
    BY <2>1, <2>2, <2>5, <1>0 DEF TypeOK, TakenBack
  <2>7. RowsAllocated'
    BY <2>1, <2>2 DEF RowsAllocated
  <2>8. Phases'
    BY <2>1, <1>0 DEF Phases, TakenBack
  <2> QED  BY <2>5, <2>6, <2>7, <2>8 DEF Inv
<1>3. CASE GetFromNewBlock(t)
  <2>1. PICK made \in Injection(Cols, Objects \ live) :
          /\ rows' = [rows EXCEPT ![numBlocksAlloc] = JunkRow, ![0] = made]
          /\ live' = live \cup Range(made)
          /\ used' = used \cup {made[ObjsPerBlock - 1]}
    BY <1>3 DEF GetFromNewBlock
  <2>2. /\ pc[t] = "get" /\ init /\ Return(t) /\ ~destroyed /\ TypeOK /\ RowsAllocated /\ OneOwner
        /\ currentCol = 0 /\ currentRow = 0 /\ numBlocksAlloc < MaxBlocks
        /\ currentCol' = ObjsPerBlock - 1 /\ currentRow' = 0
        /\ numObjsAlloc' = numObjsAlloc + ObjsPerBlock /\ numBlocksAlloc' = numBlocksAlloc + 1
    BY <1>3, <1>0 DEF GetFromNewBlock, NoneFree, CanGrow, Inv, TakenBack
  <2>3. /\ made \in [Cols -> Objects \cup {Junk}]
        /\ \A c \in Cols : made[c] \in Objects \ live /\ made[c] \in Range(made)
        /\ \A c, d \in Cols : made[c] = made[d] => c = d
        /\ Range(made) \subseteq Objects \ live
    BY DEF Injection, IsInjective, Range
  <2>4. numBlocksAlloc \in Rows /\ 0 \in Rows /\ ObjsPerBlock - 1 \in Cols
    BY <2>2 DEF TypeOK
  <2>5. /\ rows' \in [Rows -> {NoRow} \cup [Cols -> Objects \cup {Junk}]]
        /\ rows'[0] = made
        /\ numBlocksAlloc # 0 => rows'[numBlocksAlloc] = JunkRow
        /\ \A r \in Rows \ {0, numBlocksAlloc} : rows'[r] = rows[r]
    BY <2>1, <2>2, <2>3, <2>4, RowType DEF TypeOK
  <2>6. \A r \in Rows, c \in Cols :
          Listed(r, c)' => r = 0 /\ c # ObjsPerBlock - 1 /\ rows'[r][c] = made[c]
    BY <2>2, <2>4, <2>5 DEF Listed
  <2>7. used \subseteq live /\ Freeing \subseteq live \ used
    BY <2>2 DEF OneOwner, Listed
  <2>8. \A r \in Rows, c \in Cols : Listed(r, c)' => rows'[r][c] \in live' \ (used' \cup Freeing')
    <3> SUFFICES ASSUME NEW r \in Rows, NEW c \in Cols, Listed(r, c)'
                 PROVE  rows'[r][c] \in live' \ (used' \cup Freeing')
      BY DEF Listed
    <3>1. c # ObjsPerBlock - 1 /\ rows'[r][c] = made[c]
      BY <2>6 DEF Listed
    <3>2. made[c] \notin live /\ made[c] \in live' /\ made[c] # made[ObjsPerBlock - 1]
      BY <3>1, <2>1, <2>3, <2>4
    <3>3. Freeing' \subseteq live
      BY <2>7, <1>0 DEF TakenBack
    <3> QED  BY <3>1, <3>2, <3>3, <2>1, <2>7
  <2>9. \A r1, r2 \in Rows, c1, c2 \in Cols :
          Listed(r1, c1)' /\ Listed(r2, c2)' /\ rows'[r1][c1] = rows'[r2][c2] => r1 = r2 /\ c1 = c2
    BY <2>3, <2>6 DEF Listed
  <2>10. OneOwner'
    <3>1. Freeing' \subseteq live' \ used' /\ used' \subseteq live'
      <4>1. Freeing' \subseteq live \ used
        BY <2>7, <1>0 DEF TakenBack
      <4>2. made[ObjsPerBlock - 1] \in live' \ live
        BY <2>1, <2>3, <2>4
      <4> QED  BY <4>1, <4>2, <2>1, <2>7
    <3>2. \A u, v \in Threads : pc'[u] = "free" /\ pc'[v] = "free" /\ arg'[u] = arg'[v] => u = v
      BY <2>2, <1>0 DEF OneOwner, TakenBack
    <3> QED  BY <3>1, <3>2, <2>8, <2>9 DEF OneOwner, Listed
  <2>11. TypeOK'
    BY <2>1, <2>2, <2>3, <2>4, <2>5, <1>0 DEF TypeOK, TakenBack
  <2>12. RowsAllocated'
    <3>1. \A r \in Rows : rows'[r] # NoRow <=> r < numBlocksAlloc + 1
      BY <2>2, <2>3, <2>4, <2>5, RowType DEF TypeOK, RowsAllocated
    <3> QED  BY <3>1, <2>2 DEF RowsAllocated, TypeOK
  <2>13. Phases'
    BY <2>2, <1>0 DEF Phases, TakenBack
  <2> QED  BY <2>10, <2>11, <2>12, <2>13 DEF Inv
<1>4. CASE GetNew(t)
  <2>1. PICK o \in Objects \ live : live' = live \cup {o} /\ used' = used \cup {o}
    BY <1>4 DEF GetNew
  <2>2. pc[t] = "get" /\ Return(t) /\ ~destroyed /\ UNCHANGED poolVars
    BY <1>4, <1>0 DEF GetNew, TakenBack
  <2>3. rows' = rows /\ currentRow' = currentRow /\ currentCol' = currentCol
    BY <2>2 DEF poolVars
  <2>4. OneOwner'
    BY <2>1, <2>2, <2>3, <1>0 DEF Inv, OneOwner, TakenBack, Listed
  <2>5. TypeOK'
    BY <2>1, <2>2, <1>0 DEF Inv, TypeOK, poolVars, TakenBack
  <2>6. RowsAllocated' /\ Phases'
    BY <2>2, <1>0 DEF Inv, RowsAllocated, Phases, poolVars, TakenBack
  <2> QED  BY <2>4, <2>5, <2>6 DEF Inv
<1>5. CASE GetNothing(t)
  <2>1. pc[t] = "get" /\ Return(t) /\ ~destroyed /\ UNCHANGED <<poolVars, live, used>>
    BY <1>5, <1>0 DEF GetNothing, TakenBack
  <2>2. rows' = rows /\ currentRow' = currentRow /\ currentCol' = currentCol
    BY <2>1 DEF poolVars
  <2>3. OneOwner'
    BY <2>1, <2>2, <1>0 DEF Inv, OneOwner, TakenBack, Listed
  <2>4. TypeOK'
    BY <2>1, <1>0 DEF Inv, TypeOK, poolVars, TakenBack
  <2>5. RowsAllocated' /\ Phases'
    BY <2>1, <1>0 DEF Inv, RowsAllocated, Phases, poolVars, TakenBack
  <2> QED  BY <2>3, <2>4, <2>5 DEF Inv
<1> QED  BY <1>1, <1>2, <1>3, <1>4, <1>5 DEF Get

LEMMA FreeInv ==
  ASSUME Inv, NEW t \in Threads, Free(t)
  PROVE  Inv'
<1> DEFINE o == arg[t]
<1>0. Return(t) /\ TakenBack(t)
  BY ReturnFrees DEF Free, FreeDeletes, FreeLoses, FreeStores
<1>1. /\ pc[t] = "free" /\ init /\ Return(t) /\ ~destroyed /\ used' = used
      /\ TypeOK /\ RowsAllocated /\ OneOwner
  BY <1>0 DEF Free, FreeDeletes, FreeLoses, FreeStores, Inv, TakenBack
<1>2. o \in Freeing /\ o \in live \ used /\ o \in Objects /\ o \notin Freeing'
      /\ \A r \in Rows, c \in Cols : Listed(r, c) => rows[r][c] # o
  BY <1>1, <1>0 DEF OneOwner, Freeing, TypeOK, TakenBack, Listed
<1>3. CASE FreeDeletes(t)
  <2>1. UNCHANGED poolVars /\ live' = live \ {o}
    BY <1>3 DEF FreeDeletes
  <2>2. rows' = rows /\ currentRow' = currentRow /\ currentCol' = currentCol
    BY <2>1 DEF poolVars
  <2>3. OneOwner'
    BY <1>1, <1>2, <2>1, <2>2, <1>0 DEF OneOwner, TakenBack, Listed
  <2>4. TypeOK'
    BY <1>1, <2>1, <1>0 DEF TypeOK, poolVars, TakenBack
  <2>5. RowsAllocated' /\ Phases'
    BY <1>1, <2>1, <1>0 DEF RowsAllocated, Phases, poolVars, TakenBack
  <2> QED  BY <2>3, <2>4, <2>5 DEF Inv
<1>4. CASE FreeLoses(t)
  <2>1. UNCHANGED poolVars /\ live' = live
    BY <1>4 DEF FreeLoses
  <2>2. rows' = rows /\ currentRow' = currentRow /\ currentCol' = currentCol
    BY <2>1 DEF poolVars
  <2>3. OneOwner'
    BY <1>1, <2>1, <2>2, <1>0 DEF OneOwner, TakenBack, Listed
  <2>4. TypeOK'
    BY <1>1, <2>1, <1>0 DEF TypeOK, poolVars, TakenBack
  <2>5. RowsAllocated' /\ Phases'
    BY <1>1, <2>1, <1>0 DEF RowsAllocated, Phases, poolVars, TakenBack
  <2> QED  BY <2>3, <2>4, <2>5 DEF Inv
<1>5. CASE FreeStores(t)
  <2> DEFINE table == IF RowsFull THEN [rows EXCEPT ![numBlocksAlloc] = JunkRow] ELSE rows
  <2>1. /\ rows' = [table EXCEPT ![currentRow][currentCol] = o]
        /\ numBlocksAlloc' = IF RowsFull THEN numBlocksAlloc + 1 ELSE numBlocksAlloc
        /\ IF currentCol < ObjsPerBlock - 1
           THEN currentCol' = currentCol + 1 /\ currentRow' = currentRow
           ELSE currentCol' = 0 /\ currentRow' = currentRow + 1
        /\ RowsFull => numBlocksAlloc < MaxBlocks
        /\ numObjsAlloc' = numObjsAlloc /\ live' = live
    BY <1>5 DEF FreeStores
  <2>2. /\ currentRow \in Rows /\ currentCol \in Cols /\ currentRow <= numBlocksAlloc
        /\ RowsFull <=> currentRow = numBlocksAlloc
        /\ numBlocksAlloc \in Nat /\ numBlocksAlloc' \in 0..MaxBlocks
        /\ currentRow < numBlocksAlloc'
    BY <1>1, <2>1 DEF RowsFull, TypeOK, RowsAllocated
  <2>3. /\ table \in [Rows -> {NoRow} \cup [Cols -> Objects \cup {Junk}]]
        /\ table[currentRow] \in [Cols -> Objects \cup {Junk}]
        /\ \A r \in Rows \ {currentRow} : table[r] = rows[r]
        /\ ~RowsFull => table = rows
    BY <1>1, <2>2, RowType DEF TypeOK, RowsAllocated
  <2> HIDE DEF table
  <2>4. /\ rows' = [table EXCEPT ![currentRow] = [table[currentRow] EXCEPT ![currentCol] = o]]
        /\ [table[currentRow] EXCEPT ![currentCol] = o] \in [Cols -> Objects \cup {Junk}]
    BY <1>2, <2>1, <2>2, <2>3
  <2>5. /\ rows' \in [Rows -> {NoRow} \cup [Cols -> Objects \cup {Junk}]]
        /\ rows'[currentRow] \in [Cols -> Objects \cup {Junk}]
        /\ \A r \in Rows \ {currentRow} : rows'[r] = rows[r]
        /\ rows'[currentRow][currentCol] = o
        /\ \A c \in Cols \ {currentCol} : rows'[currentRow][c] = table[currentRow][c]
    BY <2>2, <2>3, <2>4
  <2>6. \A r \in Rows, c \in Cols :
          /\ Listed(r, c)' <=> Listed(r, c) \/ (r = currentRow /\ c = currentCol)
          /\ Listed(r, c) => r # currentRow \/ (c # currentCol /\ ~RowsFull)
    BY <1>1, <2>1, <2>2 DEF Listed, TypeOK, RowsAllocated
  <2>7. \A r \in Rows, c \in Cols : Listed(r, c) => rows'[r][c] = rows[r][c]
    BY <2>3, <2>5, <2>6 DEF Listed
  <2>8. OneOwner'
    <3>1. \A r \in Rows, c \in Cols : Listed(r, c)' => rows'[r][c] \in live' \ (used' \cup Freeing')
      <4> SUFFICES ASSUME NEW r \in Rows, NEW c \in Cols, Listed(r, c)'
                   PROVE  rows'[r][c] \in live' \ (used' \cup Freeing')
        BY DEF Listed
      <4>1. CASE Listed(r, c)
        <5>1. rows'[r][c] = rows[r][c] /\ rows[r][c] \in live \ (used \cup Freeing)
          BY <4>1, <1>1, <2>7 DEF OneOwner
        <5> QED  BY <5>1, <1>0, <1>1, <2>1 DEF TakenBack
      <4>2. CASE r = currentRow /\ c = currentCol
        BY <4>2, <1>1, <1>2, <2>1, <2>5
      <4> QED  BY <4>1, <4>2, <2>6 DEF Listed
    <3>2. \A r1, r2 \in Rows, c1, c2 \in Cols :
            Listed(r1, c1)' /\ Listed(r2, c2)' /\ rows'[r1][c1] = rows'[r2][c2]
              => r1 = r2 /\ c1 = c2
      <4> SUFFICES ASSUME NEW r1 \in Rows, NEW r2 \in Rows, NEW c1 \in Cols, NEW c2 \in Cols,
                          Listed(r1, c1)', Listed(r2, c2)', rows'[r1][c1] = rows'[r2][c2]
                   PROVE  r1 = r2 /\ c1 = c2
        BY DEF Listed
      <4>1. \A r \in Rows, c \in Cols : Listed(r, c) => rows'[r][c] # o
        BY <1>1, <1>2, <2>7 DEF OneOwner
      <4>2. CASE Listed(r1, c1) /\ Listed(r2, c2)
        <5>1. rows[r1][c1] = rows[r2][c2]
          BY <4>2, <2>7
        <5> QED  BY <4>2, <5>1, <1>1 DEF OneOwner
      <4>3. CASE ~Listed(r1, c1)
        <5>1. r1 = currentRow /\ c1 = currentCol /\ rows'[r1][c1] = o
          BY <4>3, <2>5, <2>6
        <5> QED  BY <4>1, <5>1, <2>6
      <4>4. CASE ~Listed(r2, c2)
        <5>1. r2 = currentRow /\ c2 = currentCol /\ rows'[r2][c2] = o
          BY <4>4, <2>5, <2>6
        <5> QED  BY <4>1, <5>1, <2>6
      <4> QED  BY <4>2, <4>3, <4>4
    <3> QED  BY <3>1, <3>2, <1>0, <1>1, <2>1 DEF OneOwner, TakenBack, Listed
  <2>9. TypeOK'
    <3>1. currentRow' \in 0..MaxBlocks /\ currentCol' \in Cols
      BY <1>1, <2>1, <2>2 DEF TypeOK
    <3> QED  BY <3>1, <1>1, <2>1, <2>2, <2>5, <1>0 DEF TypeOK, TakenBack
  <2>10. RowsAllocated'
    <3>1. rows'[currentRow] # NoRow
      BY <2>5, RowType
    <3>2. \A r \in Rows : rows'[r] # NoRow <=> r < numBlocksAlloc'
      <4> SUFFICES ASSUME NEW r \in Rows PROVE rows'[r] # NoRow <=> r < numBlocksAlloc'
        OBVIOUS
      <4>1. rows[r] # NoRow <=> r < numBlocksAlloc
        BY <1>1 DEF RowsAllocated
      <4>2. CASE r = currentRow
        BY <4>2, <3>1, <2>2
      <4>3. CASE r # currentRow
        <5>1. rows'[r] = rows[r]
          BY <4>3, <2>5
        <5>2. r < numBlocksAlloc' <=> r < numBlocksAlloc
          BY <4>3, <2>1, <2>2, PoolAssumption DEF Rows
        <5> QED  BY <4>1, <5>1, <5>2
      <4> QED  BY <4>2, <4>3
    <3>3. currentRow' < numBlocksAlloc' \/ (currentRow' = numBlocksAlloc' /\ currentCol' = 0)
      BY <1>1, <2>1, <2>2 DEF TypeOK
    <3> QED  BY <3>2, <3>3 DEF RowsAllocated
  <2>11. Phases'
    BY <1>1, <1>0 DEF Phases, TakenBack
  <2> QED  BY <2>8, <2>9, <2>10, <2>11 DEF Inv
<1> QED  BY <1>3, <1>4, <1>5 DEF Free

LEMMA DestroyPoolInv ==
  ASSUME Inv, DestroyPool
  PROVE  Inv'
<1>1. TypeOK'
  <2>1. rows' \in [Rows -> {NoRow} \cup [Cols -> Objects \cup {Junk}]]
    BY RowType DEF DestroyPool
  <2>2. FlagsOK'
    BY FlagsInv DEF DestroyPool, Inv, TypeOK
  <2> QED  BY <2>1, <2>2 DEF DestroyPool, Inv, TypeOK
<1>2. RowsAllocated' /\ OneOwner'
  BY DEF DestroyPool, RowsAllocated, OneOwner, Listed
<1>3. Phases'
  BY DEF DestroyPool, Inv, Phases
<1> QED  BY <1>1, <1>2, <1>3 DEF Inv

\* Every step of the program keeps the invariant.
LEMMA NextInv == Inv /\ [Next]_vars => Inv'
<1> SUFFICES ASSUME Inv, [Next]_vars PROVE Inv'
  OBVIOUS
<1>1. ASSUME NEW t \in Threads, CallGet(t) \/ CallFree(t) PROVE Inv'
  BY <1>1, CallInv
<1>2. ASSUME NEW t \in Threads, Init_(t) PROVE Inv'
  BY <1>2, Init_Inv
<1>3. ASSUME NEW t \in Threads, Get(t) PROVE Inv'
  BY <1>3, GetInv
<1>4. ASSUME NEW t \in Threads, Free(t) PROVE Inv'
  BY <1>4, FreeInv
<1>5. CASE DestroyPool
  BY <1>5, DestroyPoolInv
<1>6. CASE UNCHANGED vars
  <2>1. FlagsOK'
    BY <1>6, FlagsInv DEF vars, Inv, TypeOK
  <2> QED  BY <1>6, <2>1
           DEF vars, poolVars, Inv, TypeOK, RowsAllocated, OneOwner, Phases, Listed, Freeing
<1> QED  BY <1>1, <1>2, <1>3, <1>4, <1>5, <1>6 DEF Next

\* An object has one owner at a time, for any number of threads and objects, any
\* size of block and table and any policy of growth, as long as the first call is
\* made alone and clients free what they have got, once.
THEOREM Ownership == Spec => []OneOwner
<1>1. Inv => OneOwner
  BY DEF Inv
<1> QED  BY <1>1, InitInv, NextInv, PTL DEF Spec

\* Types are kept, and no call follows a row pointer that was never set.
THEOREM TableShape == Spec => []WellFormed
<1>1. Inv => WellFormed
  BY DEF Inv, WellFormed
<1> QED  BY <1>1, InitInv, NextInv, PTL DEF Spec

-----------------------------------------------------------------------------
(* No object is lost.                                                      *)

\* A list with one place more or less has one object more or less.
LEMMA OneListedLess ==
  ASSUME NEW row \in Rows, NEW col \in Cols, Listed(row, col), rows' = rows,
         \A r \in Rows, c \in Cols : Listed(r, c)' <=> Listed(r, c) /\ (r # row \/ c # col)
  PROVE  FreeObjects = FreeObjects' \cup {rows[row][col]}
<1>1. ASSUME NEW o \in FreeObjects PROVE o \in FreeObjects' \cup {rows[row][col]}
  <2>1. PICK q \in Rows \X Cols : Listed(q[1], q[2]) /\ o = rows[q[1]][q[2]]
    BY DEF FreeObjects
  <2>2. CASE q[1] = row /\ q[2] = col
    BY <2>1, <2>2
  <2>3. CASE q[1] # row \/ q[2] # col
    <3>1. Listed(q[1], q[2])'
      BY <2>1, <2>3
    <3> QED  BY <2>1, <3>1 DEF FreeObjects
  <2> QED  BY <2>2, <2>3
<1>2. ASSUME NEW o \in FreeObjects' PROVE o \in FreeObjects
  <2>1. PICK q \in Rows \X Cols : Listed(q[1], q[2])' /\ o = rows'[q[1]][q[2]]
    BY DEF FreeObjects
  <2>2. Listed(q[1], q[2])
    BY <2>1
  <2> QED  BY <2>1, <2>2 DEF FreeObjects
<1>3. rows[row][col] \in FreeObjects
  <2>1. <<row, col>> \in Rows \X Cols /\ <<row, col>>[1] = row /\ <<row, col>>[2] = col
    OBVIOUS
  <2> QED  BY <2>1 DEF FreeObjects
<1> QED  BY <1>1, <1>2, <1>3

LEMMA OneListedMore ==
  ASSUME NEW row \in Rows, NEW col \in Cols, NEW o, rows'[row][col] = o,
         \A r \in Rows, c \in Cols : Listed(r, c)' <=> Listed(r, c) \/ (r = row /\ c = col),
         \A r \in Rows, c \in Cols : Listed(r, c) => rows'[r][c] = rows[r][c]
  PROVE  FreeObjects' = FreeObjects \cup {o}
<1>1. ASSUME NEW x \in FreeObjects' PROVE x \in FreeObjects \cup {o}
  <2>1. PICK q \in Rows \X Cols : Listed(q[1], q[2])' /\ x = rows'[q[1]][q[2]]
    BY DEF FreeObjects
  <2>2. CASE q[1] = row /\ q[2] = col
    BY <2>1, <2>2
  <2>3. CASE Listed(q[1], q[2])
    BY <2>1, <2>3 DEF FreeObjects
  <2> QED  BY <2>1, <2>2, <2>3
<1>2. ASSUME NEW x \in FreeObjects PROVE x \in FreeObjects'
  <2>1. PICK q \in Rows \X Cols : Listed(q[1], q[2]) /\ x = rows[q[1]][q[2]]
    BY DEF FreeObjects
  <2>2. Listed(q[1], q[2])' /\ rows'[q[1]][q[2]] = x
    BY <2>1
  <2> QED  BY <2>1, <2>2 DEF FreeObjects
<1>3. o \in FreeObjects'
  <2>1. <<row, col>> \in Rows \X Cols /\ <<row, col>>[1] = row /\ <<row, col>>[2] = col
    OBVIOUS
  <2>2. Listed(row, col)'
    OBVIOUS
  <2> QED  BY <2>1, <2>2 DEF FreeObjects
<1> QED  BY <1>1, <1>2, <1>3

\* The list of a pool that is empty, or not there yet.
LEMMA NoneListed == currentRow = 0 /\ currentCol = 0 => FreeObjects = {}
  BY DEF FreeObjects, Listed

\* What a call of Free had in hand is in nobody's hand when it returns.
LEMMA ReturnGives ==
  ASSUME Inv, NEW t \in Threads, Return(t)
  PROVE  /\ pc[t] = "get" => Freeing' = Freeing
         /\ pc[t] = "free" => Freeing = Freeing' \cup {arg[t]}
<1>1. \A u \in Threads : u # t => pc'[u] = pc[u] /\ arg'[u] = arg[u]
  BY DEF Return, Inv, TypeOK
<1>2. pc'[t] = "idle"
  BY DEF Return, Inv, TypeOK
<1> QED  BY <1>1, <1>2 DEF Freeing

\* Get takes one object off the list, or makes new ones.
LEMMA GetLosesNone ==
  ASSUME Inv, NothingLost, NEW t \in Threads, Get(t)
  PROVE  NothingLost'
<1>1. /\ pc[t] = "get" /\ Return(t) /\ init
  BY DEF Get, GetFromRow, GetFromRowBefore, GetFromNewBlock, GetNew, GetNothing
<1>2. Freeing' = Freeing /\ ~destroyed /\ ~destroyed' /\ TypeOK /\ RowsAllocated
  BY <1>1, ReturnGives, ReturnFrees DEF TakenBack, Inv
<1>3. CASE GetFromRow(t)
  <2>1. /\ currentCol # 0 /\ currentCol' = currentCol - 1
        /\ used' = used \cup {rows[currentRow][currentCol - 1]}
        /\ UNCHANGED <<rows, currentRow, numBlocksAlloc, live>>
    BY <1>3 DEF GetFromRow
  <2>2. currentRow \in Rows /\ currentCol - 1 \in Cols
    BY <1>2, <2>1 DEF TypeOK, RowsAllocated
  <2>3. /\ Listed(currentRow, currentCol - 1)
        /\ \A r \in Rows, c \in Cols :
             Listed(r, c)' <=> Listed(r, c) /\ (r # currentRow \/ c # currentCol - 1)
    BY <1>2, <2>1, <2>2 DEF Listed, TypeOK
  <2>4. FreeObjects = FreeObjects' \cup {rows[currentRow][currentCol - 1]}
    BY <2>1, <2>2, <2>3, OneListedLess
  <2> QED  BY <1>2, <2>1, <2>4 DEF NothingLost
<1>4. CASE GetFromRowBefore(t)
  <2>1. /\ currentCol = 0 /\ currentRow # 0
        /\ currentCol' = ObjsPerBlock - 1 /\ currentRow' = currentRow - 1
        /\ used' = used \cup {rows[currentRow - 1][ObjsPerBlock - 1]}
        /\ UNCHANGED <<rows, numBlocksAlloc, live>>
    BY <1>4 DEF GetFromRowBefore
  <2>2. currentRow - 1 \in Rows /\ ObjsPerBlock - 1 \in Cols
    BY <1>2, <2>1 DEF TypeOK, RowsAllocated
  <2>3. /\ Listed(currentRow - 1, ObjsPerBlock - 1)
        /\ \A r \in Rows, c \in Cols :
             Listed(r, c)' <=> Listed(r, c) /\ (r # currentRow - 1 \/ c # ObjsPerBlock - 1)
    BY <1>2, <2>1, <2>2 DEF Listed, TypeOK
  <2>4. FreeObjects = FreeObjects' \cup {rows[currentRow - 1][ObjsPerBlock - 1]}
    BY <2>1, <2>2, <2>3, OneListedLess
  <2> QED  BY <1>2, <2>1, <2>4 DEF NothingLost
<1>5. CASE GetFromNewBlock(t)
  <2>1. PICK made \in Injection(Cols, Objects \ live) :
          /\ rows' = [rows EXCEPT ![numBlocksAlloc] = JunkRow, ![0] = made]
          /\ live' = live \cup Range(made)
          /\ used' = used \cup {made[ObjsPerBlock - 1]}
    BY <1>5 DEF GetFromNewBlock
  <2>2. /\ currentCol = 0 /\ currentRow = 0 /\ numBlocksAlloc < MaxBlocks
        /\ currentCol' = ObjsPerBlock - 1 /\ currentRow' = 0
    BY <1>5 DEF GetFromNewBlock, NoneFree, CanGrow
  <2>3. rows'[0] = made /\ 0 \in Rows /\ DOMAIN made = Cols
    BY <1>2, <2>1, <2>2 DEF TypeOK, Injection
  <2>4. FreeObjects' = {made[c] : c \in Cols \ {ObjsPerBlock - 1}}
    <3>1. \A r \in Rows, c \in Cols : Listed(r, c)' <=> r = 0 /\ c # ObjsPerBlock - 1
      BY <2>2 DEF Listed
    <3>2. ASSUME NEW o \in FreeObjects' PROVE o \in {made[c] : c \in Cols \ {ObjsPerBlock - 1}}
      <4>1. PICK q \in Rows \X Cols : Listed(q[1], q[2])' /\ o = rows'[q[1]][q[2]]
        BY DEF FreeObjects
      <4>2. q[1] = 0 /\ q[2] \in Cols \ {ObjsPerBlock - 1}
        BY <3>1, <4>1
      <4> QED  BY <4>1, <4>2, <2>3
    <3>3. ASSUME NEW c \in Cols \ {ObjsPerBlock - 1} PROVE made[c] \in FreeObjects'
      <4>1. <<0, c>> \in Rows \X Cols /\ <<0, c>>[1] = 0 /\ <<0, c>>[2] = c
        BY <2>3
      <4>2. Listed(0, c)' /\ rows'[0][c] = made[c]
        BY <3>1, <2>3
      <4> QED  BY <4>1, <4>2 DEF FreeObjects
    <3> QED  BY <3>2, <3>3
  <2>5. Range(made) = FreeObjects' \cup {made[ObjsPerBlock - 1]}
    BY <2>3, <2>4, RowType DEF Range
  <2>6. live = used \cup Freeing
    BY <1>2, <2>2, NoneListed DEF NothingLost
  <2> QED  BY <1>2, <2>1, <2>5, <2>6 DEF NothingLost
<1>6. CASE GetNew(t) \/ GetNothing(t)
  <2>1. /\ UNCHANGED poolVars
        /\ \E new \in SUBSET Objects : live' = live \cup new /\ used' = used \cup new
    <3>1. CASE GetNew(t)
      <4>1. PICK o \in Objects \ live : live' = live \cup {o} /\ used' = used \cup {o}
        BY <3>1 DEF GetNew
      <4>2. {o} \in SUBSET Objects
        OBVIOUS
      <4> QED  BY <3>1, <4>1, <4>2 DEF GetNew
    <3>2. CASE GetNothing(t)
      <4>1. {} \in SUBSET Objects
        OBVIOUS
      <4> QED  BY <3>2, <4>1 DEF GetNothing
    <3> QED  BY <1>6, <3>1, <3>2
  <2>2. FreeObjects' = FreeObjects /\ numBlocksAlloc' = numBlocksAlloc
    BY <2>1 DEF poolVars, FreeObjects, Listed
  <2> QED  BY <1>2, <2>1, <2>2 DEF NothingLost
<1> QED  BY <1>3, <1>4, <1>5, <1>6 DEF Get

\* Free deletes its object or puts it on the list, unless the table is full.
LEMMA FreeLosesNone ==
  ASSUME Inv, NothingLost, NEW t \in Threads, Free(t)
  PROVE  NothingLost'
<1>1. pc[t] = "free" /\ Return(t) /\ init /\ used' = used
  BY DEF Free, FreeDeletes, FreeLoses, FreeStores
<1>2. /\ Freeing = Freeing' \cup {arg[t]} /\ ~destroyed /\ ~destroyed'
      /\ arg[t] \notin Freeing'
      /\ TypeOK /\ RowsAllocated /\ OneOwner
  BY <1>1, ReturnGives, ReturnFrees DEF TakenBack, Inv
<1>3. CASE FreeDeletes(t)
  <2>1. UNCHANGED poolVars /\ live' = live \ {arg[t]}
    BY <1>3 DEF FreeDeletes
  <2>2. FreeObjects' = FreeObjects /\ numBlocksAlloc' = numBlocksAlloc
    BY <2>1 DEF poolVars, FreeObjects, Listed
  <2>3. arg[t] \notin FreeObjects /\ arg[t] \notin used
    BY <1>2 DEF OneOwner, FreeObjects, Listed
  <2> QED  BY <1>1, <1>2, <2>1, <2>2, <2>3 DEF NothingLost
<1>4. CASE FreeLoses(t)
  BY <1>4 DEF FreeLoses, poolVars, NothingLost, Inv, TypeOK
<1>5. CASE FreeStores(t)
  <2> DEFINE table == IF RowsFull THEN [rows EXCEPT ![numBlocksAlloc] = JunkRow] ELSE rows
  <2>1. /\ rows' = [table EXCEPT ![currentRow][currentCol] = arg[t]]
        /\ numBlocksAlloc' = IF RowsFull THEN numBlocksAlloc + 1 ELSE numBlocksAlloc
        /\ IF currentCol < ObjsPerBlock - 1
           THEN currentCol' = currentCol + 1 /\ currentRow' = currentRow
           ELSE currentCol' = 0 /\ currentRow' = currentRow + 1
        /\ RowsFull => numBlocksAlloc < MaxBlocks
        /\ live' = live
    BY <1>5 DEF FreeStores
  <2>2. /\ currentRow \in Rows /\ currentCol \in Cols /\ currentRow <= numBlocksAlloc
        /\ RowsFull <=> currentRow = numBlocksAlloc
        /\ numBlocksAlloc \in Nat /\ numBlocksAlloc' >= numBlocksAlloc
    BY <1>2, <2>1 DEF RowsFull, TypeOK, RowsAllocated
  <2>3. /\ table \in [Rows -> {NoRow} \cup [Cols -> Objects \cup {Junk}]]
        /\ table[currentRow] \in [Cols -> Objects \cup {Junk}]
        /\ \A r \in Rows \ {currentRow} : table[r] = rows[r]
        /\ ~RowsFull => table = rows
    BY <1>2, <2>2, RowType DEF TypeOK, RowsAllocated
  <2> HIDE DEF table
  <2>4. rows' = [table EXCEPT ![currentRow] = [table[currentRow] EXCEPT ![currentCol] = arg[t]]]
    BY <2>1
  <2>5. /\ \A r \in Rows \ {currentRow} : rows'[r] = rows[r]
        /\ rows'[currentRow][currentCol] = arg[t]
        /\ \A c \in Cols \ {currentCol} : rows'[currentRow][c] = table[currentRow][c]
    BY <2>2, <2>3, <2>4
  <2>6. \A r \in Rows, c \in Cols :
          /\ Listed(r, c)' <=> Listed(r, c) \/ (r = currentRow /\ c = currentCol)
          /\ Listed(r, c) => r # currentRow \/ (c # currentCol /\ ~RowsFull)
    BY <1>2, <2>1, <2>2 DEF Listed, TypeOK, RowsAllocated
  <2>7. \A r \in Rows, c \in Cols : Listed(r, c) => rows'[r][c] = rows[r][c]
    BY <2>3, <2>5, <2>6 DEF Listed
  <2>8. FreeObjects' = FreeObjects \cup {arg[t]}
    BY <2>2, <2>5, <2>6, <2>7, OneListedMore
  <2>9. numBlocksAlloc' < MaxBlocks => numBlocksAlloc < MaxBlocks
    BY <2>1, <2>2
  <2> QED  BY <1>1, <1>2, <2>1, <2>8, <2>9 DEF NothingLost
<1> QED  BY <1>3, <1>4, <1>5 DEF Free

\* A call hands its argument over, Init_ begins with what it lists, and the destructor
\* deletes what is listed.
LEMMA NextLosesNone == Inv /\ NothingLost /\ [Next]_vars => NothingLost'
<1> SUFFICES ASSUME Inv, NothingLost, [Next]_vars PROVE NothingLost'
  OBVIOUS
<1>1. ASSUME NEW t \in Threads, CallGet(t) \/ CallFree(t) PROVE NothingLost'
  <2>1. /\ UNCHANGED <<poolVars, live, destroyed>> /\ ~destroyed
        /\ \A u \in Threads : u # t => pc'[u] = pc[u] /\ arg'[u] = arg[u]
        /\ pc[t] = "idle"
    BY <1>1 DEF CallGet, CallFree, Call, Inv, TypeOK
  <2>2. FreeObjects' = FreeObjects /\ numBlocksAlloc' = numBlocksAlloc
    BY <2>1 DEF poolVars, FreeObjects, Listed
  <2>3. CASE CallGet(t)
    <3>1. used' = used /\ pc'[t] = "get"
      BY <2>3 DEF CallGet, Call, Inv, TypeOK
    <3>2. Freeing' = Freeing
      BY <2>1, <3>1 DEF Freeing
    <3> QED  BY <2>1, <2>2, <3>1, <3>2 DEF NothingLost
  <2>4. CASE CallFree(t)
    <3>1. PICK o \in used : Call(t, "free", o) /\ used' = used \ {o}
      BY <2>4 DEF CallFree
    <3>2. pc'[t] = "free" /\ arg'[t] = o
      BY <3>1 DEF Call, Inv, TypeOK
    <3>3. Freeing' = Freeing \cup {o}
      BY <2>1, <3>2 DEF Freeing
    <3> QED  BY <2>1, <2>2, <3>1, <3>3 DEF NothingLost
  <2> QED  BY <1>1, <2>3, <2>4
<1>2. ASSUME NEW t \in Threads, Init_(t) PROVE NothingLost'
  <2>0. PICK blocks \in InitBlocks :
          /\ \E made \in Injection((0..blocks - 1) \X Cols, Objects \ live) :
               /\ rows' = [r \in Rows |->
                             IF r < blocks THEN [c \in Cols |-> made[<<r, c>>]] ELSE NoRow]
               /\ live' = live \cup Range(made)
          /\ currentRow' = blocks
    BY <1>2 DEF Init_
  <2>1. PICK made \in Injection((0..blocks - 1) \X Cols, Objects \ live) :
          /\ rows' = [r \in Rows |->
                        IF r < blocks THEN [c \in Cols |-> made[<<r, c>>]] ELSE NoRow]
          /\ live' = live \cup Range(made)
    BY <2>0
  <2>2. /\ ~destroyed /\ ~destroyed' /\ currentRow = 0 /\ currentCol = 0 /\ currentCol' = 0
        /\ numBlocksAlloc = 0 /\ used' = used /\ Freeing' = Freeing
    BY <1>2 DEF Init_, Inv, Phases, Freeing
  <2>3. live = used \cup Freeing
    BY <2>2, NoneListed DEF NothingLost
  <2>4. blocks \in 0..MaxBlocks /\ DOMAIN made = (0..blocks - 1) \X Cols
    BY DEF InitBlocks, Injection
  <2>5. FreeObjects' = Range(made)
    <3>1. \A r \in Rows, c \in Cols : Listed(r, c)' <=> r \in 0..blocks - 1
      BY <2>0, <2>2, <2>4 DEF Listed
    <3>2. \A r \in 0..blocks - 1, c \in Cols : r \in Rows /\ rows'[r][c] = made[<<r, c>>]
      <4> SUFFICES ASSUME NEW r \in 0..blocks - 1, NEW c \in Cols
                   PROVE  r \in Rows /\ rows'[r][c] = made[<<r, c>>]
        OBVIOUS
      <4>1. r \in Rows /\ rows'[r] = [d \in Cols |-> made[<<r, d>>]]
        BY <2>1, <2>4
      <4>2. rows'[r][c] = made[<<r, c>>]
        BY <4>1, Zenon
      <4> QED  BY <4>1, <4>2
    <3>3. ASSUME NEW o \in FreeObjects' PROVE o \in Range(made)
      <4>1. PICK q \in Rows \X Cols : Listed(q[1], q[2])' /\ o = rows'[q[1]][q[2]]
        BY DEF FreeObjects
      <4>2. q[1] \in 0..blocks - 1 /\ q[2] \in Cols
        BY <3>1, <4>1
      <4>3. o = made[<<q[1], q[2]>>] /\ <<q[1], q[2]>> \in DOMAIN made
        BY <2>4, <3>2, <4>1, <4>2
      <4> QED  BY <4>3 DEF Range
    <3>4. ASSUME NEW o \in Range(made) PROVE o \in FreeObjects'
      <4>1. PICK q \in (0..blocks - 1) \X Cols : o = made[q]
        BY <2>4 DEF Range
      <4>2. q[1] \in Rows /\ q[2] \in Cols /\ o = rows'[q[1]][q[2]] /\ Listed(q[1], q[2])'
        BY <3>1, <3>2, <4>1
      <4>3. q \in Rows \X Cols
        BY <4>1, <4>2
      <4> QED  BY <4>2, <4>3 DEF FreeObjects
    <3> QED  BY <3>3, <3>4
  <2> QED  BY <2>1, <2>2, <2>3, <2>5 DEF NothingLost
<1>3. ASSUME NEW t \in Threads, Get(t) PROVE NothingLost'
  BY <1>3, GetLosesNone
<1>4. ASSUME NEW t \in Threads, Free(t) PROVE NothingLost'
  BY <1>4, FreeLosesNone
<1>5. CASE DestroyPool
  <2>1. /\ ~destroyed /\ destroyed' /\ live' = live \ FreeObjects /\ used' = used
        /\ numBlocksAlloc' = numBlocksAlloc /\ \A t \in Threads : pc[t] = "idle"
    BY <1>5 DEF DestroyPool
  <2>2. Freeing = {} /\ used \cap FreeObjects = {}
    BY <2>1 DEF Freeing, FreeObjects, Inv, OneOwner, Listed
  <2> QED  BY <2>1, <2>2 DEF NothingLost
<1>6. CASE UNCHANGED vars
  BY <1>6 DEF vars, poolVars, NothingLost, FreeObjects, Freeing, Listed
<1> QED  BY <1>1, <1>2, <1>3, <1>4, <1>5, <1>6 DEF Next

\* Every object in memory is listed, with a client or in a call of Free, until the table is
\* as large as it may get; and the destructor leaves only those of clients.
THEOREM NoLeaks == Spec => []NothingLost
<1>1. Init => NothingLost
  BY NoneListed DEF Init, NothingLost, Freeing
<1> QED  BY <1>1, InitInv, NextInv, NextLosesNone, PTL DEF Spec

-----------------------------------------------------------------------------
(* A pool of a fixed size.                                                 *)

LEMMA UpTo ==
  ASSUME NEW n \in Nat
  PROVE  IsFiniteSet(0..n - 1) /\ Cardinality(0..n - 1) = n
<1>1. 0 \in Int /\ n - 1 \in Int
  OBVIOUS
<1>2. /\ IsFiniteSet(0..n - 1)
      /\ Cardinality(0..n - 1) = IF 0 > n - 1 THEN 0 ELSE n - 1 - 0 + 1
  BY <1>1, FS_Interval
<1> QED  BY <1>2

\* The places that are listed: the rows before the current one, and a part of it.
ListedPlaces == {q \in Rows \X Cols : Listed(q[1], q[2])}

LEMMA ListedCount ==
  ASSUME Inv, ~destroyed
  PROVE  /\ IsFiniteSet(ListedPlaces)
         /\ Cardinality(ListedPlaces) = currentRow * ObjsPerBlock + currentCol
<1> DEFINE Above == (0..currentRow - 1) \X Cols
           Final == {currentRow} \X (0..currentCol - 1)
<1>1. /\ currentRow \in 0..MaxBlocks /\ currentCol \in 0..ObjsPerBlock - 1
      /\ currentRow = MaxBlocks => currentCol = 0
  BY DEF Inv, TypeOK, RowsAllocated
<1>2. ListedPlaces = Above \cup Final
  <2>1. ASSUME NEW q \in ListedPlaces PROVE q \in Above \cup Final
    BY <1>1 DEF ListedPlaces, Listed
  <2>2. ASSUME NEW q \in Above \cup Final PROVE q \in ListedPlaces
    BY <1>1 DEF ListedPlaces, Listed
  <2> QED  BY <2>1, <2>2
<1>3. Above \cap Final = {}
  BY <1>1
<1>4. IsFiniteSet(Above) /\ Cardinality(Above) = currentRow * ObjsPerBlock
  <2>1. /\ IsFiniteSet(0..currentRow - 1) /\ Cardinality(0..currentRow - 1) = currentRow
        /\ IsFiniteSet(Cols) /\ Cardinality(Cols) = ObjsPerBlock
    BY <1>1, UpTo
  <2> QED  BY <2>1, FS_Product, ZenonT(30)
<1>5. IsFiniteSet(Final) /\ Cardinality(Final) = currentCol
  <2>1. /\ IsFiniteSet({currentRow}) /\ Cardinality({currentRow}) = 1
        /\ IsFiniteSet(0..currentCol - 1) /\ Cardinality(0..currentCol - 1) = currentCol
    <3>1. currentCol \in Nat
      BY <1>1
    <3> QED  BY <3>1, UpTo, FS_Singleton
  <2>2. IsFiniteSet(Final) /\ Cardinality(Final) = 1 * currentCol
    BY <2>1, FS_Product, ZenonT(30)
  <2> QED  BY <1>1, <2>2
<1> HIDE DEF Above, Final
<1>6. IsFiniteSet(Above \cup Final)
      /\ Cardinality(Above \cup Final) = Cardinality(Above) + Cardinality(Final) - 0
  BY <1>3, <1>4, <1>5, FS_Union, FS_EmptySet
<1>7. currentRow * ObjsPerBlock \in Int
  BY <1>1
<1> QED  BY <1>1, <1>2, <1>4, <1>5, <1>6, <1>7

\* A block has as many objects as places, and adds finitely many to those in memory.
LEMMA BlockFinite ==
  ASSUME NEW S, IsFiniteSet(S), NEW T, NEW made \in Injection(S, T)
  PROVE  IsFiniteSet(Range(made)) /\ Cardinality(Range(made)) = Cardinality(S)
<1>1. made \in Surjection(S, Range(made)) /\ made \in Injection(S, Range(made))
  BY DEF Injection, Surjection, IsInjective, Range
<1> QED  BY <1>1, FS_Surjection

\* What is in memory stays finite.
LEMMA LiveFinite ==
  ASSUME IsFiniteSet(live), [Next]_vars
  PROVE  IsFiniteSet(live')
<1>1. ASSUME live' \subseteq live PROVE IsFiniteSet(live')
  BY <1>1, FS_Subset
<1>2. ASSUME NEW t \in Threads, Init_(t) PROVE IsFiniteSet(live')
  <2>0. PICK blocks \in InitBlocks :
          \E made \in Injection((0..blocks - 1) \X Cols, Objects \ live) :
            live' = live \cup Range(made)
    BY <1>2 DEF Init_
  <2>1. PICK made \in Injection((0..blocks - 1) \X Cols, Objects \ live) :
          live' = live \cup Range(made)
    BY <2>0
  <2>2. blocks \in Nat
    BY DEF InitBlocks
  <2>3. IsFiniteSet((0..blocks - 1) \X Cols)
    <3>1. IsFiniteSet(0..blocks - 1) /\ IsFiniteSet(Cols)
      BY <2>2, UpTo
    <3> QED  BY <3>1, FS_Product
  <2>4. IsFiniteSet(Range(made))
    BY <2>3, BlockFinite
  <2> QED  BY <2>1, <2>4, FS_Union
<1>3. ASSUME NEW t \in Threads, GetFromNewBlock(t) PROVE IsFiniteSet(live')
  <2>1. PICK made \in Injection(Cols, Objects \ live) : live' = live \cup Range(made)
    BY <1>3 DEF GetFromNewBlock
  <2>2. IsFiniteSet(Range(made))
    BY UpTo, BlockFinite
  <2> QED  BY <2>1, <2>2, FS_Union
<1>4. ASSUME NEW t \in Threads, GetNew(t) PROVE IsFiniteSet(live')
  <2>1. PICK o \in Objects \ live : live' = live \cup {o}
    BY <1>4 DEF GetNew
  <2> QED  BY <2>1, FS_AddElement
<1>5. ASSUME NEW t \in Threads,
             CallGet(t) \/ CallFree(t) \/ Free(t) \/ GetFromRow(t) \/ GetFromRowBefore(t) \/ GetNothing(t)
      PROVE  live' \subseteq live
  BY <1>5 DEF CallGet, CallFree, Call, Free, FreeDeletes, FreeLoses, FreeStores,
              GetFromRow, GetFromRowBefore, GetNothing
<1>6. DestroyPool \/ UNCHANGED vars => live' \subseteq live
  BY DEF DestroyPool, vars
<1> QED  BY <1>1, <1>2, <1>3, <1>4, <1>5, <1>6 DEF Next, Get

\* The initial objects, or the share of them that a table of blocks blocks keeps.
Enough(some, blocks) ==
  InitObjs * ObjsPerBlock
    <= Cardinality(some) * (IF blocks > ObjsPerBlock THEN blocks ELSE ObjsPerBlock)

\* More objects, or more blocks, are enough as well.
LEMMA EnoughMore ==
  ASSUME NEW some, NEW more, NEW blocks \in Nat, NEW further \in Nat,
         Cardinality(some) \in Nat, Cardinality(more) \in Nat,
         Cardinality(some) <= Cardinality(more), blocks <= further, Enough(some, blocks)
  PROVE  Enough(more, further)
<1> DEFINE m == IF blocks > ObjsPerBlock THEN blocks ELSE ObjsPerBlock
           n == IF further > ObjsPerBlock THEN further ELSE ObjsPerBlock
<1>1. m \in Nat /\ n \in Nat /\ m <= n
  OBVIOUS
<1>2. InitObjs * ObjsPerBlock <= Cardinality(some) * m
  BY DEF Enough
<1> HIDE DEF m, n
<1>3. Cardinality(some) * m <= Cardinality(more) * m
  BY <1>1
<1>4. Cardinality(more) * m <= Cardinality(more) * n
  BY <1>1
<1>5. /\ InitObjs * ObjsPerBlock \in Int /\ Cardinality(some) * m \in Int
      /\ Cardinality(more) * m \in Int /\ Cardinality(more) * n \in Int
  BY <1>1
<1>6. InitObjs * ObjsPerBlock <= Cardinality(more) * n
  BY <1>2, <1>3, <1>4, <1>5
<1> QED  BY <1>6 DEF Enough, n

\* What NumObjsLeft counts against what is listed: row rows of cols objects and rest
\* objects, when blocks has taken the place of cols in the product.
LEMMA CountedAgainst ==
  ASSUME NEW row \in Nat, NEW rest \in Nat, NEW blocks \in Nat, NEW cols \in Nat,
         NEW num \in Nat, num = row * blocks + rest
  PROVE  num * cols <= (row * cols + rest) * (IF blocks > cols THEN blocks ELSE cols)
<1>1. /\ row * blocks \in Nat /\ row * cols \in Nat /\ rest * cols \in Nat
      /\ rest * blocks \in Nat /\ (row * blocks) * cols \in Nat
      /\ (row * cols) * blocks \in Nat /\ (row * cols) * cols \in Nat
  OBVIOUS
<1>2. num * cols = (row * blocks) * cols + rest * cols
  BY <1>1
<1>3. (row * blocks) * cols = (row * cols) * blocks
  OBVIOUS
<1>4. CASE blocks > cols
  <2>1. (row * cols + rest) * blocks = (row * cols) * blocks + rest * blocks
    BY <1>1
  <2>2. rest * cols <= rest * blocks
    BY <1>4
  <2> QED  BY <1>1, <1>2, <1>3, <1>4, <2>1, <2>2
<1>5. CASE blocks <= cols
  <2>1. (row * cols + rest) * cols = (row * cols) * cols + rest * cols
    BY <1>1
  <2>2. (row * cols) * blocks <= (row * cols) * cols
    BY <1>1, <1>5
  <2> QED  BY <1>1, <1>2, <1>3, <1>5, <2>1, <2>2
<1> QED  BY <1>4, <1>5

\* Free deletes an object only while enough others are listed.
LEMMA SurplusListed ==
  ASSUME Inv, NEW t \in Threads, FreeDeletes(t), IsFiniteSet(live')
  PROVE  Enough(live', numBlocksAlloc')
<1>1. ~destroyed
  BY DEF FreeDeletes, Inv, Phases
<1>2. DEFINE free == [q \in ListedPlaces |-> rows[q[1]][q[2]]]
<1>3. free \in Injection(ListedPlaces, live')
  <2>1. arg[t] \in Freeing /\ live' = live \ {arg[t]}
    BY DEF FreeDeletes, Freeing
  <2>2. ASSUME NEW q \in ListedPlaces PROVE free[q] \in live'
    <3>1. q[1] \in Rows /\ q[2] \in Cols /\ Listed(q[1], q[2])
      BY DEF ListedPlaces
    <3>2. rows[q[1]][q[2]] \in live \ (used \cup Freeing)
      BY <1>1, <3>1 DEF Inv, OneOwner
    <3> QED  BY <2>1, <3>2
  <2>3. ASSUME NEW p \in ListedPlaces, NEW q \in ListedPlaces, free[p] = free[q]
        PROVE  p = q
    <3>1. /\ p \in Rows \X Cols /\ Listed(p[1], p[2])
          /\ q \in Rows \X Cols /\ Listed(q[1], q[2])
      BY DEF ListedPlaces
    <3>2. p[1] = q[1] /\ p[2] = q[2]
      BY <1>1, <2>3, <3>1 DEF Inv, OneOwner
    <3> QED  BY <3>1, <3>2
  <2> QED  BY <2>2, <2>3 DEF Injection, IsInjective
<1>4. Cardinality(ListedPlaces) <= Cardinality(live')
  BY <1>3, FS_Injection
<1>5. Cardinality(ListedPlaces) = currentRow * ObjsPerBlock + currentCol
  BY <1>1, ListedCount
<1>6. /\ currentRow \in Nat /\ currentCol \in Nat /\ numBlocksAlloc \in Nat
      /\ numBlocksAlloc' = numBlocksAlloc
      /\ InitObjs = currentRow * numBlocksAlloc + currentCol
  BY DEF FreeDeletes, Surplus, NumObjsLeft, poolVars, Inv, TypeOK
<1>7. Enough(ListedPlaces, numBlocksAlloc)
  BY <1>5, <1>6, CountedAgainst DEF Enough
<1>8. Cardinality(live') \in Nat /\ Cardinality(ListedPlaces) \in Nat
  BY <1>1, ListedCount, FS_CardinalityType
<1> QED  BY <1>4, <1>6, <1>7, <1>8, EnoughMore

\* No step makes them too few.
LEMMA NextKeeps ==
  ASSUME Inv, IsFiniteSet(live), FixedPoolKeeps, [Next]_vars
  PROVE  FixedPoolKeeps'
<1> DEFINE Kept == Enough(live', numBlocksAlloc')
<1>1. IsFiniteSet(live')
  BY LiveFinite
<1>2. SUFFICES ASSUME ~toResize', ~destroyed', init' PROVE Kept
  BY DEF FixedPoolKeeps, Enough
<1>3. Cardinality(live') \in Nat /\ Cardinality(live) \in Nat
  BY <1>1, FS_CardinalityType
<1>4. ASSUME live \subseteq live', numBlocksAlloc <= numBlocksAlloc', numBlocksAlloc' \in Nat,
             ~toResize, ~destroyed, init
      PROVE  Kept
  <2>1. Enough(live, numBlocksAlloc)
    BY <1>4 DEF FixedPoolKeeps, Enough
  <2>2. Cardinality(live) <= Cardinality(live')
    BY <1>1, <1>4, FS_Subset
  <2>3. numBlocksAlloc \in Nat
    BY DEF Inv, TypeOK
  <2> QED  BY <1>3, <1>4, <2>1, <2>2, <2>3, EnoughMore
<1>5. ASSUME NEW t \in Threads, Init_(t) PROVE Kept
  <2>0. PICK blocks \in InitBlocks :
          /\ \E made \in Injection((0..blocks - 1) \X Cols, Objects \ live) :
               live' = live \cup Range(made)
          /\ numBlocksAlloc' = blocks
    BY <1>5 DEF Init_
  <2>1. PICK made \in Injection((0..blocks - 1) \X Cols, Objects \ live) :
          live' = live \cup Range(made)
    BY <2>0
  <2>2. blocks \in Nat /\ InitObjs <= blocks * ObjsPerBlock
    BY DEF InitBlocks
  <2>3. IsFiniteSet((0..blocks - 1) \X Cols)
        /\ Cardinality((0..blocks - 1) \X Cols) = blocks * ObjsPerBlock
    <3>1. /\ IsFiniteSet(0..blocks - 1) /\ Cardinality(0..blocks - 1) = blocks
          /\ IsFiniteSet(Cols) /\ Cardinality(Cols) = ObjsPerBlock
      BY <2>2, UpTo
    <3> QED  BY <3>1, FS_Product, ZenonT(30)
  <2>4. Cardinality(Range(made)) = blocks * ObjsPerBlock
    BY <2>3, BlockFinite
  <2>5. Cardinality(Range(made)) <= Cardinality(live')
    BY <1>1, <2>1, FS_Subset
  <2>6. InitObjs <= Cardinality(live')
    <3>1. blocks * ObjsPerBlock \in Int
      BY <2>2
    <3> QED  BY <1>3, <2>2, <2>4, <2>5, <3>1
  <2>7. Enough(live', 0)
    <3>1. InitObjs * ObjsPerBlock <= Cardinality(live') * ObjsPerBlock
      BY <1>3, <2>6
    <3> QED  BY <3>1 DEF Enough
  <2>8. 0 \in Nat /\ numBlocksAlloc' \in Nat /\ 0 <= numBlocksAlloc'
        /\ Cardinality(live') <= Cardinality(live')
    BY <1>3, <2>0, <2>2
  <2> QED  BY <1>3, <2>7, <2>8, EnoughMore
<1>6. ASSUME NEW t \in Threads, CallGet(t) \/ CallFree(t) \/ Get(t) \/ FreeLoses(t) \/ FreeStores(t)
      PROVE  Kept
  <2>1. live \subseteq live' /\ toResize' = toResize /\ destroyed' = destroyed /\ init' = init
    BY <1>6 DEF CallGet, CallFree, Call, FreeLoses, FreeStores, Get, GetFromRow, GetNew,
                GetFromRowBefore, GetFromNewBlock, GetNothing, Return, flags
  <2>2. numBlocksAlloc \in Nat
    BY DEF Inv, TypeOK
  <2>3. numBlocksAlloc' = numBlocksAlloc \/ numBlocksAlloc' = numBlocksAlloc + 1
    BY <1>6 DEF CallGet, CallFree, Call, FreeLoses, FreeStores, Get, GetFromRow, GetNew,
                GetFromRowBefore, GetFromNewBlock, GetNothing, poolVars
  <2> QED  BY <1>2, <1>4, <2>1, <2>2, <2>3
<1>7. ASSUME NEW t \in Threads, FreeDeletes(t) PROVE Kept
  BY <1>1, <1>7, SurplusListed
<1>8. CASE DestroyPool
  BY <1>2, <1>8 DEF DestroyPool
<1>9. CASE UNCHANGED vars
  <2>1. numBlocksAlloc \in Nat
    BY DEF Inv, TypeOK
  <2> QED  BY <1>2, <1>4, <1>9, <2>1 DEF vars, poolVars, flags
<1> QED  BY <1>5, <1>6, <1>7, <1>8, <1>9 DEF Next, Free

\* A pool of a fixed size keeps the objects it was made for, through every Get and Free
\* of any number of threads, as long as there are no more blocks than objects in a
\* block; and a share of them, which NumObjsLeft (pool_objs.hpp:236) makes smaller with
\* every block, when there are.
THEOREM FixedPool == Spec => []FixedPoolKeeps
<1> DEFINE Keeps == IsFiniteSet(live) /\ FixedPoolKeeps
<1>1. Init => Keeps
  BY FS_EmptySet DEF Init, FixedPoolKeeps
<1>2. Inv /\ Keeps /\ [Next]_vars => Keeps'
  BY LiveFinite, NextKeeps
<1>3. Keeps => FixedPoolKeeps
  OBVIOUS
<1> QED  BY <1>1, <1>2, <1>3, InitInv, NextInv, PTL DEF Spec
=============================================================================
