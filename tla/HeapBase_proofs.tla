--------------------------- MODULE HeapBase_proofs ---------------------------
(***************************************************************************)
(* Proof that the heap keeps its order and finds its signs, that nothing   *)
(* is left of it, and that it implements the priority queue.               *)
(***************************************************************************)
EXTENDS HeapBase, WellFoundedInduction, TLAPS

(* The way of a node through the array goes one way: up, to smaller        *)
(* places, or down.                                                        *)

\* Whether q is further than p.
Further(up, p, q) == IF up THEN q < p ELSE q > p

Leads(next, up) ==
  /\ DOMAIN next \subseteq Int
  /\ \A p \in DOMAIN next : next[p] \in Int /\ Further(up, p, next[p])

\* Going on from a place of the way stays on it, and nothing else is on it.
LEMMA WayGoesOn ==
  ASSUME NEW i, NEW next
  PROVE  /\ i \in Way(i, next)
         /\ \A p \in Way(i, next) \cap DOMAIN next : next[p] \in Way(i, next)
BY DEF Way, Range

LEMMA WayIsLeast ==
  ASSUME NEW i, NEW next, NEW S,
         i \in S, \A p \in S \cap DOMAIN next : next[p] \in S
  PROVE  Way(i, next) \subseteq S
<1> DEFINE all == {i} \cup Range(next)
           T == S \cap all
<1>1. T \in SUBSET all /\ i \in T
  OBVIOUS
<1>2. \A p \in T \cap DOMAIN next : next[p] \in T
  BY DEF Range
<1> QED  BY <1>1, <1>2 DEF Way

LEMMA WayComesFrom ==
  ASSUME NEW i, NEW next, NEW q \in Way(i, next), q # i
  PROVE  \E p \in Way(i, next) \cap DOMAIN next : next[p] = q
<1> SUFFICES ASSUME \A p \in Way(i, next) \cap DOMAIN next : next[p] # q
             PROVE  FALSE
  OBVIOUS
<1> DEFINE S == Way(i, next) \ {q}
<1>1. i \in S /\ \A p \in S \cap DOMAIN next : next[p] \in S
  BY WayGoesOn
<1> HIDE DEF S
<1>2. Way(i, next) \subseteq S
  BY <1>1, WayIsLeast
<1> QED  BY <1>2 DEF S

LEMMA WayWithin ==
  ASSUME NEW i \in Int, NEW next, NEW up \in BOOLEAN, Leads(next, up)
  PROVE  \A p \in Way(i, next) : p \in Int /\ (p = i \/ Further(up, i, p))
<1> DEFINE S == {p \in Int : p = i \/ Further(up, i, p)}
<1>1. i \in S /\ \A p \in S \cap DOMAIN next : next[p] \in S
  BY DEF Leads, Further
<1> HIDE DEF S
<1>2. Way(i, next) \subseteq S
  BY <1>1, WayIsLeast
<1> QED  BY <1>2 DEF S

\* Nothing is on the way between a place and the next.
LEMMA WayIsChain ==
  ASSUME NEW i \in Int, NEW next, NEW up \in BOOLEAN, Leads(next, up),
         NEW p \in Way(i, next) \cap DOMAIN next, NEW q \in Way(i, next)
  PROVE  ~(Further(up, p, q) /\ Further(up, q, next[p]))
<1> DEFINE W == Way(i, next)
           \* Whoever comes before p does not jump over it.
           Met(r) == \A s \in W \cap DOMAIN next :
                       Further(up, s, r) => next[s] = r \/ Further(up, next[s], r)
           M == {r \in W : Met(r)}
<1>1. W \subseteq Int /\ i \in W /\ \A s \in W : s = i \/ Further(up, i, s)
  BY WayWithin, WayGoesOn
<1>2. \A s \in W \cap DOMAIN next : next[s] \in W /\ Further(up, s, next[s])
  BY WayGoesOn DEF Leads
<1> HIDE DEF W
<1>3. ASSUME NEW r \in M \cap DOMAIN next, NEW s \in W
      PROVE  ~(Further(up, r, s) /\ Further(up, s, next[r]))
  <2> DEFINE S == {x \in W : ~(Further(up, r, x) /\ Further(up, x, next[r]))}
  <2>1. i \in S
    BY <1>1 DEF Further
  <2>2. ASSUME NEW x \in S \cap DOMAIN next PROVE next[x] \in S
    <3>1. x \in W \cap DOMAIN next /\ r \in W \cap DOMAIN next /\ Met(r)
      OBVIOUS
    <3>2. next[x] \in W /\ next[r] \in W /\ Further(up, x, next[x])
      BY <1>2, <3>1
    <3>3. x \in Int /\ r \in Int /\ next[x] \in Int /\ next[r] \in Int
      BY <1>1, <3>1, <3>2
    <3>4. CASE x = r
      BY <3>2, <3>3, <3>4 DEF Further
    <3>5. CASE Further(up, x, r)
      <4>1. next[x] = r \/ Further(up, next[x], r)
        BY <3>1, <3>5
      <4> QED  BY <3>2, <3>3, <4>1 DEF Further
    <3>6. CASE Further(up, r, x)
      <4>1. ~Further(up, x, next[r])
        BY <3>6
      <4> QED  BY <3>2, <3>3, <4>1 DEF Further
    <3> QED  BY <3>3, <3>4, <3>5, <3>6 DEF Further
  <2> HIDE DEF S
  <2>3. Way(i, next) \subseteq S
    BY <2>1, <2>2, WayIsLeast
  <2> QED  BY <2>3 DEF S, W
<1>4. i \in M
  <2>1. ASSUME NEW s \in W \cap DOMAIN next PROVE ~Further(up, s, i)
    BY <1>1 DEF Further
  <2> QED  BY <1>1, <2>1
<1>5. ASSUME NEW r \in M \cap DOMAIN next PROVE next[r] \in M
  <2>1. r \in W \cap DOMAIN next /\ Met(r) /\ next[r] \in W
    BY <1>2
  <2>2. ASSUME NEW s \in W \cap DOMAIN next, Further(up, s, next[r])
        PROVE  next[s] = next[r] \/ Further(up, next[s], next[r])
    <3>1. ~(Further(up, r, s) /\ Further(up, s, next[r]))
      BY <1>3
    <3>2. s \in Int /\ r \in Int /\ next[s] \in Int /\ next[r] \in Int
      BY <1>1, <1>2, <2>1
    <3>3. s = r \/ Further(up, s, r)
      BY <2>2, <3>1, <3>2 DEF Further
    <3>4. CASE Further(up, s, r)
      <4>1. next[s] = r \/ Further(up, next[s], r)
        BY <2>1, <3>4
      <4>2. Further(up, r, next[r])
        BY <1>2, <2>1
      <4> QED  BY <3>2, <4>1, <4>2 DEF Further
    <3> QED  BY <3>3, <3>4
  <2> QED  BY <2>1, <2>2
<1>6. W \subseteq M
  <2> HIDE DEF M
  <2> QED  BY <1>4, <1>5, WayIsLeast DEF W
<1>7. p \in M \cap DOMAIN next /\ q \in W
  BY <1>6 DEF W
<1> QED  BY <1>3, <1>7

\* Two places do not lead to the same.
LEMMA WayIsInjective ==
  ASSUME NEW i \in Int, NEW next, NEW up \in BOOLEAN, Leads(next, up),
         NEW p \in Way(i, next) \cap DOMAIN next, NEW q \in Way(i, next) \cap DOMAIN next,
         next[p] = next[q]
  PROVE  p = q
<1>1. /\ p \in Int /\ q \in Int /\ next[p] \in Int
      /\ Further(up, p, next[p]) /\ Further(up, q, next[p])
  BY DEF Leads
<1>2. ~(Further(up, p, q) /\ Further(up, q, next[p]))
  BY WayIsChain
<1>3. ~(Further(up, q, p) /\ Further(up, p, next[p]))
  BY WayIsChain
<1> QED  BY <1>1, <1>2, <1>3 DEF Further

\* The last place: the one from which it does not go on.
EndsAt(e, next, up, W) ==
  /\ e \in W \ DOMAIN next
  /\ \A p \in W : p = e \/ (p \in DOMAIN next /\ Further(up, p, e))

LEMMA WayHasEnd ==
  ASSUME NEW i \in Int, NEW next, NEW up \in BOOLEAN, Leads(next, up),
         NEW n \in Nat, Way(i, next) \subseteq 0..n
  PROVE  \E e : EndsAt(e, next, up, Way(i, next))
<1> DEFINE W == Way(i, next)
           Rest(p) == IF up THEN p ELSE n - p
           rests == {r \in 0..n : \E p \in W : r = Rest(p)}
<1>1. W \subseteq Int /\ i \in W
      /\ \A s \in W \cap DOMAIN next : next[s] \in W /\ Further(up, s, next[s])
  BY WayWithin, WayGoesOn DEF Leads
<1>2. PICK e \in W : \A p \in W : ~Further(up, e, p)
  <2>1. Rest(i) \in rests /\ rests \subseteq Nat
    BY <1>1
  <2> DEFINE R == OpToRel(<, Nat)
  <2>2. IsWellFoundedOn(R, Nat)
    BY NatLessThanWellFounded
  <2>3. \A t, u \in Nat : t < u => <<t, u>> \in R
    BY DEF OpToRel
  <2> HIDE DEF R, rests
  <2>4. rests # {}
    BY <2>1
  <2>5. \E t \in rests : \A u \in rests : ~(<<u, t>> \in R)
    BY <2>1, <2>2, <2>4, WFMin
  <2>6. PICK t \in rests : \A u \in rests : ~(u < t)
    BY <2>1, <2>3, <2>5
  <2>7. PICK e \in W : t = Rest(e)
    BY DEF rests
  <2>8. ASSUME NEW p \in W, Further(up, e, p) PROVE FALSE
    <3>1. p \in 0..n /\ e \in 0..n
      OBVIOUS
    <3>2. Rest(p) \in rests
      BY <3>1 DEF rests
    <3>3. ~(Rest(p) < t)
      BY <2>6, <3>2
    <3> QED  BY <2>7, <2>8, <3>1, <3>3 DEF Further
  <2> QED  BY <2>8
<1> HIDE DEF W
<1>3. e \notin DOMAIN next
  BY <1>1, <1>2
<1>4. ASSUME NEW p \in W PROVE p = e \/ Further(up, p, e)
  BY <1>1, <1>2 DEF Further
<1>5. ASSUME NEW p \in W, p # e PROVE p \in DOMAIN next
  \* All that is on the way is at p or before it, unless the way goes on from p.
  <2> SUFFICES ASSUME p \notin DOMAIN next PROVE FALSE
    OBVIOUS
  <2> DEFINE S == {q \in W : q = p \/ Further(up, q, p)}
  <2>1. i \in S
    BY <1>1, WayWithin DEF W
  <2>2. ASSUME NEW q \in S \cap DOMAIN next PROVE next[q] \in S
    <3>1. q # p /\ Further(up, q, p) /\ q \in W \cap DOMAIN next
      OBVIOUS
    <3>2. ~(Further(up, q, p) /\ Further(up, p, next[q]))
      BY <3>1, WayIsChain DEF W
    <3>3. next[q] \in W /\ next[q] \in Int /\ p \in Int
      BY <1>1, <3>1
    <3> QED  BY <3>1, <3>2, <3>3 DEF Further
  <2> HIDE DEF S
  <2>3. Way(i, next) \subseteq S
    BY <2>1, <2>2, WayIsLeast
  <2>4. e = p \/ Further(up, e, p)
    BY <2>3 DEF S, W
  <2> QED  BY <1>2, <1>5, <2>4
<1> QED  BY <1>3, <1>4, <1>5 DEF W, EndsAt

-----------------------------------------------------------------------------
(* What Moved does to the array.                                           *)

\* The node in i can go the way that next shows.
Open(a, i, next, n, up) ==
  /\ DOMAIN a \subseteq Int /\ Way(i, next) \subseteq DOMAIN a
  /\ Leads(next, up) /\ Way(i, next) \subseteq 0..n

Injective(a) == \A p, q \in DOMAIN a : a[p] = a[q] => p = q

LEMMA MovedIs ==
  ASSUME NEW a, NEW i, NEW next, NEW node, NEW b, b = Moved(a, i, next, node)
  PROVE  /\ DOMAIN b = DOMAIN a
         /\ \A p \in DOMAIN a :
              /\ p \notin Way(i, next) => b[p] = a[p]
              /\ p \in Way(i, next) \cap DOMAIN next => b[p] = a[next[p]]
              /\ p \in Way(i, next) \ DOMAIN next => b[p] = node
BY DEF Moved

\* b has the same nodes as a, in W and outside.
Permutes(a, b, W) ==
  /\ \A p \in DOMAIN a : \E q \in DOMAIN a : b[p] = a[q] /\ (p \in W <=> q \in W)
  /\ \A q \in DOMAIN a : \E p \in DOMAIN a : b[p] = a[q] /\ (p \in W <=> q \in W)

\* It brings every node of the way to another place of it, and no other anywhere.
LEMMA MovedPermutes ==
  ASSUME NEW a, NEW i \in Int, NEW next, NEW n \in Nat, NEW up \in BOOLEAN,
         Open(a, i, next, n, up), NEW b, b = Moved(a, i, next, a[i])
  PROVE  /\ DOMAIN b = DOMAIN a /\ Permutes(a, b, Way(i, next))
         /\ Injective(a) => Injective(b)
<1> DEFINE W == Way(i, next)
<1>1. i \in W /\ W \subseteq DOMAIN a /\ \A p \in W \cap DOMAIN next : next[p] \in W
  BY WayGoesOn DEF Open
<1>2. \A p \in W : p \in Int /\ (p = i \/ Further(up, i, p))
  BY WayWithin DEF Open
<1>3. PICK e \in W \ DOMAIN next :
        \A p \in W : p = e \/ (p \in DOMAIN next /\ Further(up, p, e))
  <2>1. \E e : EndsAt(e, next, up, Way(i, next))
    BY WayHasEnd DEF Open
  <2> QED  BY <2>1 DEF EndsAt
<1>4. \A p, q \in W \cap DOMAIN next : next[p] = next[q] => p = q
  BY WayIsInjective DEF Open
<1>5. \A q \in W : q = i \/ \E p \in W \cap DOMAIN next : next[p] = q
  BY WayComesFrom
<1>6. \A p \in W \cap DOMAIN next : next[p] # i
  BY <1>2 DEF Open, Leads, Further
<1>7. /\ DOMAIN b = DOMAIN a
      /\ \A p \in DOMAIN a : /\ p \notin W => b[p] = a[p]
                             /\ p \in W \cap DOMAIN next => b[p] = a[next[p]]
                             /\ p \in W \ DOMAIN next => b[p] = a[i]
  BY MovedIs
<1> HIDE DEF W
<1> DEFINE From(p) == IF p \notin W THEN p ELSE IF p \in DOMAIN next THEN next[p] ELSE i
<1>8. \A p \in DOMAIN a : From(p) \in DOMAIN a /\ b[p] = a[From(p)] /\ (p \in W <=> From(p) \in W)
  BY <1>1, <1>7
<1>9. \A p, q \in DOMAIN a : From(p) = From(q) => p = q
  <2> SUFFICES ASSUME NEW p \in DOMAIN a, NEW q \in DOMAIN a, From(p) = From(q) PROVE p = q
    OBVIOUS
  <2>1. CASE p \notin W \/ q \notin W
    BY <1>1, <2>1
  <2>2. CASE p \in W /\ q \in W
    <3>1. p \in DOMAIN next \/ p = e
      BY <1>3, <2>2
    <3>2. q \in DOMAIN next \/ q = e
      BY <1>3, <2>2
    <3> QED  BY <1>3, <1>4, <1>6, <2>2, <3>1, <3>2
  <2> QED  BY <2>1, <2>2
<1>10. \A q \in DOMAIN a : \E p \in DOMAIN a : From(p) = q
  <2> SUFFICES ASSUME NEW q \in DOMAIN a PROVE \E p \in DOMAIN a : From(p) = q
    OBVIOUS
  <2>1. CASE q \notin W
    BY <2>1
  <2>2. CASE q = i
    BY <1>1, <1>3, <2>2
  <2>3. CASE q \in W /\ q # i
    <3>1. PICK p \in W \cap DOMAIN next : next[p] = q
      BY <1>5, <2>3
    <3> QED  BY <1>1, <3>1
  <2> QED  BY <2>1, <2>2, <2>3
<1> HIDE DEF From
<1>11. \A q \in DOMAIN a : \E p \in DOMAIN a : b[p] = a[q] /\ (p \in W <=> q \in W)
  BY <1>8, <1>10
<1>12. Injective(a) => Injective(b)
  BY <1>7, <1>8, <1>9 DEF Injective
<1> QED  BY <1>7, <1>8, <1>11, <1>12 DEF W, Permutes

\* Every node that the heap knows is at the place that it knows.
Signed(a, num, ix) ==
  /\ ix \in [DOMAIN ix -> 1..num]
  /\ \A n \in DOMAIN ix : a[ix[n]] = n
  /\ \A p \in 1..num : a[p] \in DOMAIN ix

\* What Placed makes of the places that the nodes know.
Learnt(b, i, next, ix) ==
  [n \in DOMAIN ix |->
     IF \E p \in Way(i, next) : b[p] = n THEN CHOOSE p \in Way(i, next) : b[p] = n ELSE ix[n]]

LEMMA PlacedSigned ==
  ASSUME NEW a, NEW i \in Int, NEW next, NEW n \in Nat, NEW up \in BOOLEAN,
         Open(a, i, next, n, up), NEW b, b = Moved(a, i, next, a[i]),
         NEW num \in Nat, 1..num \subseteq DOMAIN a, Way(i, next) \subseteq 1..num,
         NEW ix, Signed(a, num, ix), NEW jx, jx = Learnt(b, i, next, ix)
  PROVE  DOMAIN jx = DOMAIN ix /\ Signed(b, num, jx)
<1>0. PICK W : W = Way(i, next)
  OBVIOUS
<1>1. DOMAIN jx = DOMAIN ix
  BY DEF Learnt
<1>2. /\ \A p \in DOMAIN a : \E q \in DOMAIN a : b[p] = a[q] /\ (p \in W <=> q \in W)
      /\ \A q \in DOMAIN a : \E p \in DOMAIN a : b[p] = a[q] /\ (p \in W <=> q \in W)
  <2>1. Permutes(a, b, Way(i, next))
    BY MovedPermutes
  <2> QED  BY <1>0, <2>1 DEF Permutes
<1>3. \A p \in DOMAIN a : p \notin W => b[p] = a[p]
  BY <1>0, MovedIs
<1>4. ASSUME NEW m \in DOMAIN ix PROVE jx[m] \in 1..num /\ b[jx[m]] = m
  <2>1. CASE \E p \in W : b[p] = m
    <3>1. jx[m] = CHOOSE p \in W : b[p] = m
      BY <1>0, <2>1 DEF Learnt
    <3> QED  BY <1>0, <2>1, <3>1
  <2>2. CASE ~\E p \in W : b[p] = m
    <3>1. jx[m] = ix[m]
      BY <1>0, <2>2 DEF Learnt
    <3>2. ix[m] \in 1..num /\ a[ix[m]] = m
      BY DEF Signed
    <3>3. ix[m] \notin W
      <4>1. ix[m] \in DOMAIN a
        BY <3>2
      <4>2. PICK p \in DOMAIN a : b[p] = a[ix[m]] /\ (p \in W <=> ix[m] \in W)
        BY <1>2, <4>1
      <4> QED  BY <2>2, <3>2, <4>2
    <3> QED  BY <1>3, <3>1, <3>2, <3>3
  <2> QED  BY <2>1, <2>2
<1>5. ASSUME NEW p \in 1..num PROVE b[p] \in DOMAIN ix
  <2>1. CASE p \in W
    <3>1. PICK q \in DOMAIN a : b[p] = a[q] /\ q \in W
      BY <1>0, <1>2, <2>1
    <3> QED  BY <1>0, <3>1 DEF Signed
  <2>2. CASE p \notin W
    BY <1>3, <2>2 DEF Signed
  <2> QED  BY <2>1, <2>2
<1>6. jx \in [DOMAIN jx -> 1..num]
  <2>1. jx = [m \in DOMAIN ix |-> jx[m]]
    BY DEF Learnt
  <2> QED  BY <1>1, <1>4, <2>1
<1> QED  BY <1>1, <1>4, <1>5, <1>6 DEF Signed

-----------------------------------------------------------------------------
(* The order of the array.                                                 *)

\* No node of a comes before its parent.
Ordered(a, v, num) == \A j \in 2..num : ~Before(v[a[j]], v[a[j \div 2]])

\* So it is but for the node in i, and would be without it.
OrderedBut(a, v, num, i) ==
  \A j \in 2..num :
    /\ j # i /\ j \div 2 # i => ~Before(v[a[j]], v[a[j \div 2]])
    /\ j \div 2 = i /\ i > 1 => ~Before(v[a[j]], v[a[i \div 2]])

Valued(a, v, num) == \A p \in 1..num : v[a[p]] \in Int

LEMMA Half ==
  /\ \A j \in Nat : j > 1 => j \div 2 \in Nat /\ j \div 2 >= 1 /\ j \div 2 < j
  /\ \A j, p \in Nat : j \div 2 = p <=> j = 2 * p \/ j = 2 * p + 1
OBVIOUS

\* Before is the order of the integers, or its reverse.
LEMMA BeforeIsOrder ==
  \A x, y, z \in Int : /\ ~Before(x, x)
                       /\ Before(x, y) => ~Before(y, x)
                       /\ ~Before(x, y) /\ ~Before(y, z) => ~Before(x, z)
                       /\ Before(z, y) /\ ~Before(x, y) => ~Before(x, z)
BY HeapAssumption DEF Before

\* An array with room for num nodes behind place 0.
Holding(a, num) == 1..num \subseteq DOMAIN a /\ DOMAIN a \subseteq Int

LEMMA UpOpen ==
  ASSUME NEW a, NEW v, NEW num \in Nat, NEW i \in 1..num, Holding(a, num),
         NEW node, NEW next, next = Upwards(a, v, node, i)
  PROVE  /\ Leads(next, TRUE) /\ Way(i, next) \subseteq 1..i
         /\ Way(i, next) \subseteq 1..num /\ Open(a, i, next, num, TRUE)
<1>1. /\ \A p : p \in DOMAIN next <=> p \in 2..i /\ Before(v[node], v[a[p \div 2]])
      /\ \A p \in DOMAIN next : next[p] = p \div 2
  BY DEF Upwards
<1>2. Leads(next, TRUE)
  <2>1. ASSUME NEW p \in DOMAIN next PROVE p \in Int /\ next[p] \in Int /\ next[p] < p
    <3>1. p \in 2..i /\ next[p] = p \div 2
      BY <1>1
    <3> QED  BY <3>1, Half
  <2> QED  BY <2>1 DEF Leads, Further
<1>3. Way(i, next) \subseteq 1..i
  <2>1. \A p \in 1..i \cap DOMAIN next : next[p] \in 1..i
    BY <1>1, Half
  <2>2. i \in 1..i
    OBVIOUS
  <2> QED  BY <2>1, <2>2, WayIsLeast
<1>4. Way(i, next) \subseteq 1..num /\ Way(i, next) \subseteq 0..num
  BY <1>3
<1> QED  BY <1>2, <1>3, <1>4 DEF Open, Holding

LEMMA UpOrdered ==
  ASSUME NEW a, NEW v, NEW num \in Nat, NEW i \in 1..num, Holding(a, num),
         Valued(a, v, num), OrderedBut(a, v, num, i),
         2 * i > num \/ (i > 1 /\ Before(v[a[i]], v[a[i \div 2]])),
         NEW next, next = Upwards(a, v, a[i], i), NEW b, b = Moved(a, i, next, a[i])
  PROVE  Ordered(b, v, num)
<1>0. PICK W : W = Way(i, next)
  OBVIOUS
<1>1. /\ \A p : p \in DOMAIN next <=> p \in 2..i /\ Before(v[a[i]], v[a[p \div 2]])
      /\ \A p \in DOMAIN next : next[p] = p \div 2
      /\ Leads(next, TRUE) /\ W \subseteq 1..i /\ Open(a, i, next, num, TRUE)
  <2>1. /\ \A p : p \in DOMAIN next <=> p \in 2..i /\ Before(v[a[i]], v[a[p \div 2]])
        /\ \A p \in DOMAIN next : next[p] = p \div 2
    BY DEF Upwards
  <2>2. Leads(next, TRUE) /\ Way(i, next) \subseteq 1..i /\ Open(a, i, next, num, TRUE)
    BY UpOpen
  <2> QED  BY <1>0, <2>1, <2>2
<1>2. i \in W /\ \A p \in W \cap DOMAIN next : next[p] \in W
  BY <1>0, WayGoesOn
<1>3. \A p \in DOMAIN a : /\ p \notin W => b[p] = a[p]
                          /\ p \in W \cap DOMAIN next => b[p] = a[next[p]]
                          /\ p \in W \ DOMAIN next => b[p] = a[i]
  BY <1>0, MovedIs
<1>4. PICK e \in W \ DOMAIN next :
        \A p \in W : p = e \/ (p \in DOMAIN next /\ Further(TRUE, p, e))
  <2>0. Open(a, i, next, num, TRUE)
    BY <1>1
  <2>1. i \in Int
    OBVIOUS
  <2>4. TRUE \in BOOLEAN
    OBVIOUS
  <2>3. Leads(next, TRUE) /\ Way(i, next) \subseteq 0..num
    BY <2>0, Zenon DEF Open
  <2>2. \E e : EndsAt(e, next, TRUE, Way(i, next))
    BY <2>1, <2>3, <2>4, WayHasEnd
  <2> QED  BY <1>0, <2>2 DEF EndsAt
<1>5. SUFFICES ASSUME NEW j \in 2..num PROVE ~Before(v[b[j]], v[b[j \div 2]])
  BY DEF Ordered
<1>6. PICK h \in 1..num : h = j \div 2 /\ h < j
  BY Half
<1>7. /\ v[a[j]] \in Int /\ v[a[h]] \in Int /\ v[a[i]] \in Int
      /\ j \in DOMAIN a /\ h \in DOMAIN a
      /\ h > 1 => h \div 2 \in 1..num /\ v[a[h \div 2]] \in Int /\ h \div 2 < h
  BY <1>6, Half DEF Valued, Holding
<1>8. ASSUME j # i, h # i PROVE ~Before(v[a[j]], v[a[h]])
  BY <1>6, <1>8 DEF OrderedBut
<1>9. CASE j \in W \cap DOMAIN next
  <2>1. h \in W /\ b[j] = a[h] /\ h < i
    BY <1>1, <1>2, <1>3, <1>6, <1>7, <1>9
  <2>2. CASE h \in DOMAIN next
    <3>1. b[h] = a[h \div 2] /\ h > 1
      BY <1>1, <1>3, <1>7, <2>1, <2>2
    <3>2. h \div 2 # i
      BY <1>7, <2>1, <3>1
    <3>3. ~Before(v[a[h]], v[a[h \div 2]])
      BY <2>1, <3>1, <3>2 DEF OrderedBut
    <3> QED  BY <1>6, <2>1, <3>1, <3>3
  <2>3. CASE h \notin DOMAIN next
    <3>1. b[h] = a[i]
      BY <1>3, <1>7, <2>1, <2>3
    <3>2. Before(v[a[i]], v[a[h]])
      BY <1>1, <1>6, <1>9
    <3> QED  BY <1>6, <1>7, <2>1, <3>1, <3>2, BeforeIsOrder
  <2> QED  BY <2>2, <2>3
<1>10. CASE j \in W \ DOMAIN next
  <2>1. h \notin W
    BY <1>1, <1>4, <1>6, <1>10 DEF Further
  <2>2. b[j] = a[i] /\ b[h] = a[h]
    BY <1>3, <1>7, <1>10, <2>1
  <2>3. j \in 2..i
    BY <1>1, <1>10
  <2> QED  BY <1>1, <1>6, <1>10, <2>2, <2>3
<1>11. CASE j \notin W /\ h \notin W
  <2>1. j # i /\ h # i
    BY <1>2, <1>11
  <2> QED  BY <1>3, <1>6, <1>7, <1>8, <1>11, <2>1
<1>12. CASE j \notin W /\ h \in W
  <2>1. b[j] = a[j] /\ j # i
    BY <1>2, <1>3, <1>7, <1>12
  <2>2. CASE h \in DOMAIN next
    <3>1. b[h] = a[h \div 2] /\ h > 1
      BY <1>1, <1>3, <1>7, <1>12, <2>2
    <3>2. CASE h = i
      BY <1>6, <2>1, <3>1, <3>2 DEF OrderedBut
    <3>3. CASE h # i
      <4>1. h \div 2 # i
        BY <1>1, <1>7, <1>12, <3>1
      <4>2. ~Before(v[a[h]], v[a[h \div 2]])
        BY <3>1, <3>3, <4>1 DEF OrderedBut
      <4> QED  BY <1>6, <1>7, <1>8, <2>1, <3>1, <3>3, <4>2, BeforeIsOrder
    <3> QED  BY <3>2, <3>3
  <2>3. CASE h \notin DOMAIN next
    <3>1. b[h] = a[i]
      BY <1>3, <1>7, <1>12, <2>3
    <3>2. CASE h = i
      <4>1. 2 * i <= num
        BY <1>6, <3>2
      <4> QED  BY <1>1, <2>3, <3>2, <4>1
    <3>3. CASE h # i
      <4>1. PICK q \in W \cap DOMAIN next : next[q] = h
        BY <1>0, <1>12, <3>3, WayComesFrom
      <4>2. Before(v[a[i]], v[a[h]])
        BY <1>1, <4>1
      <4> QED  BY <1>6, <1>7, <1>8, <2>1, <3>1, <3>3, <4>2, BeforeIsOrder
    <3> QED  BY <3>2, <3>3
  <2> QED  BY <2>2, <2>3
<1> QED  BY <1>9, <1>10, <1>11, <1>12

\* The child that FirstChild finds: no child of p comes before it.
LEMMA FirstChildIs ==
  ASSUME NEW a, NEW v, NEW num \in Nat, NEW p \in 1..num, Valued(a, v, num),
         NEW c, c = FirstChild(a, v, num, p)
  PROVE  /\ c # 0 => c \in 2..num /\ c \div 2 = p /\ p < c
         /\ \A j \in 2..num : j \div 2 = p => c # 0 /\ ~Before(v[a[j]], v[a[c]])
<1> DEFINE l == 2 * p
           r == 2 * p + 1
<1>1. \A j \in 2..num : j \div 2 = p <=> j = l \/ j = r
  BY Half
<1>2. \A q \in 1..num : v[a[q]] \in Int
  BY DEF Valued
<1>3. l \in Nat /\ r = l + 1 /\ p < l /\ l > 1
  OBVIOUS
<1> HIDE DEF l, r
<1>4. CASE l > num
  <2>1. c = 0
    BY <1>4 DEF FirstChild, l
  <2>2. \A j \in 2..num : j \div 2 # p
    BY <1>1, <1>3, <1>4
  <2> QED  BY <2>1, <2>2
<1>5. CASE l = num
  <2>1. c = l /\ l \in 2..num
    BY <1>3, <1>5 DEF FirstChild, l
  <2>2. \A j \in 2..num : j \div 2 = p => j = l
    BY <1>1, <1>3, <1>5
  <2>3. c \div 2 = p
    BY <1>1, <2>1
  <2>4. ~Before(v[a[l]], v[a[l]])
    BY <1>2, <1>3, <1>5, BeforeIsOrder
  <2> QED  BY <1>3, <2>1, <2>2, <2>3, <2>4
<1>6. CASE l < num
  <2>1. l \in 2..num /\ r \in 2..num
    BY <1>3, <1>6
  <2>2. c = IF Before(v[a[l]], v[a[r]]) THEN l ELSE r
    BY <1>3, <1>6 DEF FirstChild, l, r
  <2>3. c \in {l, r} /\ c \in 2..num /\ c \div 2 = p /\ p < c /\ c # 0
    BY <1>1, <1>3, <2>1, <2>2
  <2>4. v[a[l]] \in Int /\ v[a[r]] \in Int
    BY <1>2, <2>1
  <2>5. ~Before(v[a[l]], v[a[c]]) /\ ~Before(v[a[r]], v[a[c]])
    <3>1. ~Before(v[a[l]], v[a[l]]) /\ ~Before(v[a[r]], v[a[r]])
      BY <2>4, BeforeIsOrder
    <3>2. Before(v[a[l]], v[a[r]]) => ~Before(v[a[r]], v[a[l]])
      BY <2>4, BeforeIsOrder
    <3> QED  BY <2>2, <3>1, <3>2
  <2> QED  BY <1>1, <2>3, <2>5
<1> QED  BY <1>3, <1>4, <1>5, <1>6

\* The way down: each place leads to its first child, if node does not come before it.
LeadsDown(a, v, num, node, i, next) ==
  /\ \A p \in DOMAIN next :
       /\ p \in i..num /\ next[p] \in 2..num /\ next[p] \div 2 = p /\ p < next[p]
       /\ ~Before(v[node], v[a[next[p]]])
  /\ \A p \in i..num \cap DOMAIN next, j \in 2..num :
       j \div 2 = p => ~Before(v[a[j]], v[a[next[p]]])
  /\ \A p \in i..num \ DOMAIN next, j \in 2..num :
       j \div 2 = p => \E c \in 2..num : /\ Before(v[node], v[a[c]])
                                         /\ ~Before(v[a[j]], v[a[c]])

LEMMA DownIs ==
  ASSUME NEW a, NEW v, NEW num \in Nat, NEW i \in 1..num, Valued(a, v, num),
         NEW node, NEW next, next = Downwards(a, v, num, node, i)
  PROVE  LeadsDown(a, v, num, node, i, next)
<1>0. PICK Child : Child = [p \in i..num |-> FirstChild(a, v, num, p)]
  OBVIOUS
<1>1. ASSUME NEW p \in i..num
      PROVE  /\ Child[p] # 0 => Child[p] \in 2..num /\ Child[p] \div 2 = p /\ p < Child[p]
             /\ \A j \in 2..num : j \div 2 = p => Child[p] # 0 /\ ~Before(v[a[j]], v[a[Child[p]]])
  <2>1. p \in 1..num /\ Child[p] = FirstChild(a, v, num, p)
    BY <1>0
  <2> QED  BY <2>1, FirstChildIs
<1>2. /\ \A p : p \in DOMAIN next <=> /\ p \in i..num /\ Child[p] # 0
                                      /\ ~Before(v[node], v[a[Child[p]]])
      /\ \A p \in DOMAIN next : next[p] = Child[p]
  BY <1>0 DEF Downwards
<1>3. ASSUME NEW p \in DOMAIN next
      PROVE  /\ p \in i..num /\ next[p] \in 2..num /\ next[p] \div 2 = p /\ p < next[p]
             /\ ~Before(v[node], v[a[next[p]]])
  BY <1>1, <1>2
<1>4. ASSUME NEW p \in i..num \cap DOMAIN next, NEW j \in 2..num, j \div 2 = p
      PROVE  ~Before(v[a[j]], v[a[next[p]]])
  BY <1>1, <1>2, <1>4
<1>5. ASSUME NEW p \in i..num \ DOMAIN next, NEW j \in 2..num, j \div 2 = p
      PROVE  \E c \in 2..num : Before(v[node], v[a[c]]) /\ ~Before(v[a[j]], v[a[c]])
  <2>1. Child[p] # 0 /\ ~Before(v[a[j]], v[a[Child[p]]])
    BY <1>1, <1>5
  <2>2. Child[p] \in 2..num
    BY <1>1, <2>1
  <2>3. Before(v[node], v[a[Child[p]]])
    BY <1>2, <2>1
  <2> QED  BY <2>1, <2>2, <2>3
<1> QED  BY <1>3, <1>4, <1>5 DEF LeadsDown

LEMMA DownOpen ==
  ASSUME NEW a, NEW v, NEW num \in Nat, NEW i \in 1..num, Holding(a, num), Valued(a, v, num),
         NEW node, NEW next, next = Downwards(a, v, num, node, i)
  PROVE  /\ Leads(next, FALSE) /\ Way(i, next) \subseteq i..num
         /\ Way(i, next) \subseteq 1..num /\ Open(a, i, next, num, FALSE)
<1>1. \A p \in DOMAIN next : p \in i..num /\ next[p] \in 2..num /\ p < next[p]
  BY DownIs DEF LeadsDown
<1>2. Leads(next, FALSE)
  BY <1>1 DEF Leads, Further
<1>3. Way(i, next) \subseteq i..num
  <2>1. \A p \in i..num \cap DOMAIN next : next[p] \in i..num
    BY <1>1
  <2>2. i \in i..num
    OBVIOUS
  <2> QED  BY <2>1, <2>2, WayIsLeast
<1>4. Way(i, next) \subseteq 1..num /\ Way(i, next) \subseteq 0..num
  BY <1>3
<1> QED  BY <1>2, <1>3, <1>4 DEF Open, Holding

LEMMA DownOrdered ==
  ASSUME NEW a, NEW v, NEW num \in Nat, NEW i \in 1..num, Holding(a, num),
         Valued(a, v, num), OrderedBut(a, v, num, i),
         i > 1 => ~Before(v[a[i]], v[a[i \div 2]]),
         NEW next, next = Downwards(a, v, num, a[i], i), NEW b, b = Moved(a, i, next, a[i])
  PROVE  Ordered(b, v, num)
<1>0. PICK W : W = Way(i, next)
  OBVIOUS
<1>1. W \subseteq i..num
  BY <1>0, DownOpen
<1>2. i \in W /\ \A p \in W \cap DOMAIN next : next[p] \in W
  BY <1>0, WayGoesOn
<1>3. \A p \in DOMAIN a : /\ p \notin W => b[p] = a[p]
                          /\ p \in W \cap DOMAIN next => b[p] = a[next[p]]
                          /\ p \in W \ DOMAIN next => b[p] = a[i]
  BY <1>0, MovedIs
<1>4. /\ \A p \in DOMAIN next :
           /\ p \in i..num /\ next[p] \in 2..num /\ next[p] \div 2 = p /\ p < next[p]
           /\ ~Before(v[a[i]], v[a[next[p]]])
      /\ \A p \in i..num \cap DOMAIN next, j \in 2..num :
           j \div 2 = p => ~Before(v[a[j]], v[a[next[p]]])
      /\ \A p \in i..num \ DOMAIN next, j \in 2..num :
           j \div 2 = p => \E c \in 2..num : /\ Before(v[a[i]], v[a[c]])
                                             /\ ~Before(v[a[j]], v[a[c]])
  <2>1. LeadsDown(a, v, num, a[i], i, next)
    BY DownIs
  <2> QED  BY <2>1 DEF LeadsDown
<1>5. SUFFICES ASSUME NEW j \in 2..num PROVE ~Before(v[b[j]], v[b[j \div 2]])
  BY DEF Ordered
<1>6. PICK h \in 1..num : h = j \div 2 /\ h < j
  BY Half
<1>7. j \in DOMAIN a /\ h \in DOMAIN a
  BY DEF Holding
<1>8. \A p \in 1..num : v[a[p]] \in Int
  BY DEF Valued
<1>9. \A k \in 2..num :
        /\ k # i /\ k \div 2 # i => ~Before(v[a[k]], v[a[k \div 2]])
        /\ k \div 2 = i /\ i > 1 => ~Before(v[a[k]], v[a[i \div 2]])
  BY DEF OrderedBut
<1>10. CASE j \in W /\ j # i
  <2>1. PICK p \in W \cap DOMAIN next : next[p] = j
    BY <1>0, <1>10, WayComesFrom
  <2>2. p = h /\ b[h] = a[j]
    BY <1>3, <1>4, <1>6, <1>7, <2>1
  <2>3. CASE j \in DOMAIN next
    <3>1. PICK k \in 2..num : k = next[j] /\ k \div 2 = j /\ j < k
      BY <1>4, <2>3
    <3>2. k # i
      BY <1>1, <1>10, <3>1
    <3>3. ~Before(v[a[k]], v[a[j]])
      BY <1>9, <1>10, <3>1, <3>2
    <3> QED  BY <1>3, <1>6, <1>7, <1>10, <2>2, <2>3, <3>1, <3>3
  <2>4. CASE j \notin DOMAIN next
    BY <1>3, <1>4, <1>6, <1>7, <1>10, <2>1, <2>2, <2>4
  <2> QED  BY <2>3, <2>4
<1>11. CASE j = i
  <2>1. h \notin W
    BY <1>1, <1>6, <1>11
  <2>2. b[h] = a[h] /\ i > 1
    BY <1>3, <1>6, <1>7, <1>11, <2>1
  <2>3. CASE i \in DOMAIN next
    <3>1. b[i] = a[next[i]]
      BY <1>2, <1>3, <1>7, <1>11, <2>3
    <3> QED  BY <1>4, <1>6, <1>9, <1>11, <2>2, <2>3, <3>1
  <2>4. CASE i \notin DOMAIN next
    <3>1. b[i] = a[i]
      BY <1>2, <1>3, <1>7, <1>11, <2>4
    <3> QED  BY <1>6, <1>11, <2>2, <3>1
  <2> QED  BY <2>3, <2>4
<1>12. CASE j \notin W /\ h \notin W
  <2>1. j # i /\ h # i /\ b[j] = a[j] /\ b[h] = a[h]
    BY <1>2, <1>3, <1>7, <1>12
  <2> QED  BY <1>6, <1>9, <2>1
<1>13. CASE j \notin W /\ h \in W
  <2>1. b[j] = a[j] /\ h \in i..num
    BY <1>1, <1>3, <1>7, <1>13
  <2>2. CASE h \in DOMAIN next
    <3>1. b[h] = a[next[h]]
      BY <1>3, <1>7, <1>13, <2>2
    <3> QED  BY <1>4, <1>6, <2>1, <2>2, <3>1
  <2>3. CASE h \notin DOMAIN next
    <3>1. b[h] = a[i]
      BY <1>3, <1>7, <1>13, <2>3
    <3>2. PICK c \in 2..num : Before(v[a[i]], v[a[c]]) /\ ~Before(v[a[j]], v[a[c]])
      BY <1>4, <1>6, <2>1, <2>3
    <3>3. v[a[i]] \in Int /\ v[a[c]] \in Int /\ v[a[j]] \in Int
      BY <1>8
    <3>4. ~Before(v[a[j]], v[a[i]])
      BY <3>2, <3>3, BeforeIsOrder
    <3> QED  BY <1>6, <2>1, <3>1, <3>4
  <2> QED  BY <2>2, <2>3
<1> QED  BY <1>10, <1>11, <1>12, <1>13

-----------------------------------------------------------------------------
(* The heap as a whole.                                                    *)

\* An array of size places that holds each node once, and knows those of the first num.
Arrayed(a, v, ix, num, size) ==
  /\ a \in [0..size - 1 -> 0..size - 1] /\ Injective(a) /\ Range(a) = 0..size - 1
  /\ num = 0 \/ num < size
  /\ v \in [DOMAIN ix -> Values] /\ Signed(a, num, ix)

Sound(a, v, ix, num, size) == Arrayed(a, v, ix, num, size) /\ Ordered(a, v, num)

LEMMA ArrayedHolds ==
  ASSUME NEW a, NEW v, NEW ix, NEW num \in Nat, NEW size \in Nat, Arrayed(a, v, ix, num, size)
  PROVE  Holding(a, num) /\ Valued(a, v, num)
<1>1. Holding(a, num)
  BY DEF Arrayed, Holding
<1>2. ASSUME NEW p \in 1..num PROVE v[a[p]] \in Int
  <2>1. a[p] \in DOMAIN ix
    BY DEF Arrayed, Signed
  <2>2. v[a[p]] \in Values
    BY <2>1 DEF Arrayed
  <2> QED  BY <2>2, HeapAssumption
<1> QED  BY <1>1, <1>2 DEF Valued

\* Whatever way the node in i goes.
LEMMA PlacedArrayed ==
  ASSUME NEW a, NEW v, NEW ix, NEW num \in Nat, NEW size \in Nat, Arrayed(a, v, ix, num, size),
         NEW i \in 1..num, NEW next, NEW up \in BOOLEAN,
         Open(a, i, next, num, up), Way(i, next) \subseteq 1..num,
         NEW b, b = Moved(a, i, next, a[i]), NEW jx, jx = Learnt(b, i, next, ix)
  PROVE  Arrayed(b, v, jx, num, size) /\ DOMAIN jx = DOMAIN ix
<1>1. i \in Int /\ 1..num \subseteq DOMAIN a /\ Signed(a, num, ix)
  BY ArrayedHolds DEF Holding, Arrayed
<1>2. DOMAIN jx = DOMAIN ix /\ Signed(b, num, jx)
  BY <1>1, PlacedSigned
<1>3. DOMAIN b = DOMAIN a /\ Permutes(a, b, Way(i, next)) /\ (Injective(a) => Injective(b))
  BY <1>1, MovedPermutes
<1>4. /\ \A p \in DOMAIN a : \E q \in DOMAIN a : b[p] = a[q]
      /\ \A q \in DOMAIN a : \E p \in DOMAIN a : b[p] = a[q]
  BY <1>3 DEF Permutes
<1>5. Range(b) = Range(a)
  BY <1>3, <1>4 DEF Range
<1>6. b \in [0..size - 1 -> 0..size - 1]
  <2>1. a \in [0..size - 1 -> 0..size - 1]
    BY DEF Arrayed
  <2>2. b = [p \in DOMAIN a |-> b[p]]
    BY DEF Moved
  <2>3. \A p \in 0..size - 1 : b[p] \in 0..size - 1
    BY <1>4, <2>1
  <2> QED  BY <2>1, <2>2, <2>3
<1> QED  BY <1>2, <1>3, <1>5, <1>6 DEF Arrayed

\* Placed is Moved and Learnt.
LEMMA PlacedIs ==
  ASSUME NEW a, NEW i, NEW next, NEW node, NEW ix, Placed(a, i, next, node, ix)
  PROVE  items' = Moved(a, i, next, node) /\ index' = Learnt(items', i, next, ix)
BY DEF Placed, Learnt

\* The node in i has no child, or comes before its parent.
Rises(a, v, num, i) == 2 * i > num \/ (i > 1 /\ Before(v[a[i]], v[a[i \div 2]]))
\* It does not come before its parent.
Sinks(a, v, i) == i > 1 => ~Before(v[a[i]], v[a[i \div 2]])

\* Up, and down: the order holds again when it held but for the node that moves.
LEMMA UpSound ==
  ASSUME NEW a, NEW v, NEW ix, NEW num \in Nat, NEW size \in Nat, Arrayed(a, v, ix, num, size),
         NEW i \in 1..num, OrderedBut(a, v, num, i),
         Rises(a, v, num, i),
         NEW next, next = Upwards(a, v, a[i], i),
         NEW b, b = Moved(a, i, next, a[i]), NEW jx, jx = Learnt(b, i, next, ix)
  PROVE  Sound(b, v, jx, num, size) /\ DOMAIN jx = DOMAIN ix
<1>1. Holding(a, num) /\ Valued(a, v, num)
  BY ArrayedHolds
<1>2. Open(a, i, next, num, TRUE) /\ Way(i, next) \subseteq 1..num
  BY <1>1, UpOpen
<1>3. \E up \in BOOLEAN : Open(a, i, next, num, up)
  BY <1>2, Zenon
<1>4. Arrayed(b, v, jx, num, size) /\ DOMAIN jx = DOMAIN ix
  BY <1>2, <1>3, PlacedArrayed
<1>5. Ordered(b, v, num)
  BY <1>1, UpOrdered DEF Rises
<1> QED  BY <1>4, <1>5 DEF Sound

LEMMA DownSound ==
  ASSUME NEW a, NEW v, NEW ix, NEW num \in Nat, NEW size \in Nat, Arrayed(a, v, ix, num, size),
         NEW i \in 1..num, OrderedBut(a, v, num, i),
         Sinks(a, v, i),
         NEW next, next = Downwards(a, v, num, a[i], i),
         NEW b, b = Moved(a, i, next, a[i]), NEW jx, jx = Learnt(b, i, next, ix)
  PROVE  Sound(b, v, jx, num, size) /\ DOMAIN jx = DOMAIN ix
<1>1. Holding(a, num) /\ Valued(a, v, num)
  BY ArrayedHolds
<1>2. Open(a, i, next, num, FALSE) /\ Way(i, next) \subseteq 1..num
  BY <1>1, DownOpen
<1>3. \E up \in BOOLEAN : Open(a, i, next, num, up)
  BY <1>2, Zenon
<1>4. Arrayed(b, v, jx, num, size) /\ DOMAIN jx = DOMAIN ix
  BY <1>2, <1>3, PlacedArrayed
<1>5. Ordered(b, v, num)
  BY <1>1, DownOrdered DEF Sinks
<1> QED  BY <1>4, <1>5 DEF Sound

\* AdjustNode_ leaves a sound heap, where one was but for the node in i.
LEMMA Adjusted ==
  ASSUME NEW a, NEW v, NEW ix, NEW num \in Nat, NEW size \in Nat, Arrayed(a, v, ix, num, size),
         NEW i \in 1..num + 1, OrderedBut(a, v, num, i), AdjustNode_(a, v, num, i, ix)
  PROVE  Sound(items', v, index', num, size) /\ DOMAIN index' = DOMAIN ix
<1>1. CASE i > num
  <2>1. items' = a /\ index' = ix
    BY <1>1 DEF AdjustNode_
  <2>2. Ordered(a, v, num)
    <3> SUFFICES ASSUME NEW j \in 2..num PROVE ~Before(v[a[j]], v[a[j \div 2]])
      BY DEF Ordered
    <3>1. j # i /\ j \div 2 # i
      BY <1>1, Half
    <3> QED  BY <3>1 DEF OrderedBut
  <2> QED  BY <2>1, <2>2 DEF Sound
<1>2. CASE i <= num /\ i > 1 /\ Before(v[a[i]], v[a[i \div 2]])
  <2>0. i \in 1..num
    BY <1>2
  <2>1. PICK next : next = Upwards(a, v, a[i], i)
    OBVIOUS
  <2>2. Placed(a, i, next, a[i], ix)
    BY <1>2, <2>1 DEF AdjustNode_
  <2>3. items' = Moved(a, i, next, a[i]) /\ index' = Learnt(items', i, next, ix)
    BY <2>2, PlacedIs
  <2>4. PICK b, jx : b = items' /\ jx = index'
    OBVIOUS
  <2>5. b = Moved(a, i, next, a[i]) /\ jx = Learnt(b, i, next, ix)
    BY <2>3, <2>4
  <2>6. Rises(a, v, num, i)
    BY <1>2 DEF Rises
  <2>7. Sound(b, v, jx, num, size) /\ DOMAIN jx = DOMAIN ix
    BY <2>0, <2>1, <2>5, <2>6, UpSound
  <2> QED  BY <2>4, <2>7
<1>3. CASE i <= num /\ ~(i > 1 /\ Before(v[a[i]], v[a[i \div 2]]))
  <2>0. i \in 1..num
    BY <1>3
  <2>1. PICK next : next = Downwards(a, v, num, a[i], i)
    OBVIOUS
  <2>2. Placed(a, i, next, a[i], ix)
    BY <1>3, <2>1 DEF AdjustNode_
  <2>3. items' = Moved(a, i, next, a[i]) /\ index' = Learnt(items', i, next, ix)
    BY <2>2, PlacedIs
  <2>4. PICK b, jx : b = items' /\ jx = index'
    OBVIOUS
  <2>5. b = Moved(a, i, next, a[i]) /\ jx = Learnt(b, i, next, ix)
    BY <2>3, <2>4
  <2>6. Sinks(a, v, i)
    BY <1>3 DEF Sinks
  <2>7. Sound(b, v, jx, num, size) /\ DOMAIN jx = DOMAIN ix
    BY <2>0, <2>1, <2>5, <2>6, DownSound
  <2> QED  BY <2>4, <2>7
<1> QED  BY <1>1, <1>2, <1>3

-----------------------------------------------------------------------------
(* The inductive invariant.                                                *)

HeapInv ==
  /\ init \in BOOLEAN /\ gone \in BOOLEAN
  /\ sizeContainer \in 0..MaxSize /\ (init <=> sizeContainer # 0)
  /\ numItems \in Nat
  /\ ~gone => /\ nodes = 0..sizeContainer - 1
              /\ Sound(items, val, index, numItems, sizeContainer)
  /\ gone => /\ nodes = {} /\ numItems = 0
             /\ items = <<>> /\ val = <<>> /\ index = <<>>

LEMMA Empty == DOMAIN <<>> = {} /\ \A S : <<>> \in [{} -> S]
OBVIOUS

\* What it says of the heap.
LEMMA InvHolds ==
  ASSUME HeapInv PROVE WellFormed /\ SignsFound /\ NoneLeft
<1>1. CASE gone
  <2>1. TypeOK
    BY <1>1, HeapAssumption, Empty DEF HeapInv, TypeOK, Held, Nodes
  <2>2. HeapOrder /\ SignsFound /\ NoneLeft
    BY <1>1, Empty DEF HeapInv, HeapOrder, SignsFound, NoneLeft, Held, Places
  <2> QED  BY <2>1, <2>2 DEF WellFormed
<1>2. CASE ~gone
  <2>1. /\ numItems \in Nat /\ sizeContainer \in 0..MaxSize
        /\ Arrayed(items, val, index, numItems, sizeContainer)
        /\ Ordered(items, val, numItems) /\ Signed(items, numItems, index)
    BY <1>2 DEF HeapInv, Sound, Arrayed
  <2>2. 1..numItems \subseteq DOMAIN items
    BY <2>1, HeapAssumption, ArrayedHolds DEF Holding
  <2>3. DOMAIN val = DOMAIN index
    BY <2>1 DEF Arrayed
  <2>4. DOMAIN index = {items[i] : i \in Places}
    <3>1. \A n \in DOMAIN index : n \in {items[i] : i \in Places}
      BY <2>1 DEF Signed, Places
    <3>2. \A i \in Places : items[i] \in DOMAIN index
      BY <2>1 DEF Signed, Places
    <3> QED  BY <3>1, <3>2
  <2>5. TypeOK
    <3>1. items \in [0..sizeContainer - 1 -> 0..sizeContainer - 1]
      BY <2>1 DEF Arrayed
    <3>2. 0..sizeContainer - 1 \subseteq Nodes
      BY <2>1, HeapAssumption DEF Nodes
    <3>3. items \in [0..(IF gone THEN 0 ELSE sizeContainer) - 1 -> Nodes]
      BY <1>2, <3>1, <3>2
    <3>4. init \in BOOLEAN /\ gone \in BOOLEAN /\ (init <=> sizeContainer # 0)
      BY DEF HeapInv
    <3>5. numItems = 0 \/ numItems < sizeContainer
      BY <2>1 DEF Arrayed
    <3>6. numItems \in 0..(IF init THEN sizeContainer - 1 ELSE 0)
      BY <2>1, <3>4, <3>5, HeapAssumption
    <3>7. Held \subseteq Nodes
      BY <2>2, <2>3, <2>4, <3>1, <3>2 DEF Held, Places
    <3>8. nodes \subseteq Nodes
      BY <1>2, <3>2 DEF HeapInv
    <3>9. val \in [Held -> Values]
      BY <2>1, <2>3 DEF Arrayed, Held
    <3>10. index \in [Held -> Nodes]
      <4>1. index \in [Held -> 1..numItems]
        BY <2>1, <2>3 DEF Signed, Held
      <4>2. 1..numItems \subseteq Nodes
        BY <2>1, <2>2, <3>1, <3>2
      <4> QED  BY <4>1, <4>2
    <3> QED  BY <2>1, <3>3, <3>4, <3>6, <3>7, <3>8, <3>9, <3>10 DEF TypeOK
  <2>6. HeapOrder
    BY <2>1 DEF Ordered, HeapOrder, Places
  <2>7. SignsFound
    BY <2>1, <2>3, <2>4 DEF SignsFound, Signed, Places, Held
  <2>8. NoneLeft
    BY <1>2, <2>1 DEF NoneLeft, Arrayed, Injective
  <2> QED  BY <2>5, <2>6, <2>7, <2>8 DEF WellFormed
<1> QED  BY <1>1, <1>2

\* What the array is, but for one place, that it was when it was in order.
SameBut(a, v, num, c, w, m, i) ==
  \A p \in 1..m : p # i => p \in 1..num /\ w[c[p]] = v[a[p]]

LEMMA StillOrderedBut ==
  ASSUME NEW a, NEW v, NEW num \in Nat, Ordered(a, v, num), Valued(a, v, num),
         NEW c, NEW w, NEW m \in Nat, NEW i \in Nat, SameBut(a, v, num, c, w, m, i)
  PROVE  OrderedBut(c, w, m, i)
<1> SUFFICES ASSUME NEW j \in 2..m
             PROVE  /\ j # i /\ j \div 2 # i => ~Before(w[c[j]], w[c[j \div 2]])
                    /\ j \div 2 = i /\ i > 1 => ~Before(w[c[j]], w[c[i \div 2]])
  BY DEF OrderedBut
<1>1. PICK h \in 1..m : h = j \div 2 /\ h < j
  BY Half
<1>2. CASE j # i /\ h # i
  BY <1>1, <1>2 DEF SameBut, Ordered
<1>3. CASE h = i /\ i > 1
  <2>1. PICK g \in 1..m : g = i \div 2 /\ g < i
    BY <1>1, <1>3, Half
  <2>2. j \in 2..num /\ w[c[j]] = v[a[j]] /\ w[c[g]] = v[a[g]] /\ i \in 2..num /\ g \in 1..num
    BY <1>1, <1>3, <2>1 DEF SameBut
  <2>3. ~Before(v[a[j]], v[a[i]]) /\ ~Before(v[a[i]], v[a[g]])
    BY <1>1, <1>3, <2>1, <2>2 DEF Ordered
  <2>4. v[a[j]] \in Int /\ v[a[i]] \in Int /\ v[a[g]] \in Int
    BY <2>2 DEF Valued
  <2>5. ~Before(v[a[j]], v[a[g]])
    BY <2>3, <2>4, BeforeIsOrder
  <2> QED  BY <1>1, <1>3, <2>1, <2>2, <2>5
<1> QED  BY <1>1, <1>2, <1>3

-----------------------------------------------------------------------------
(* The operations on a sound heap.                                         *)

\* Places and nodes know each other.
Known(a, v, ix, num, size) ==
  /\ \A p \in 1..num : p \in DOMAIN a /\ a[p] \in DOMAIN ix /\ ix[a[p]] = p
  /\ \A n \in DOMAIN ix : ix[n] \in 1..num /\ a[ix[n]] = n
  /\ DOMAIN v = DOMAIN ix /\ DOMAIN a = 0..size - 1
  /\ \A p, q \in DOMAIN a : a[p] = a[q] => p = q
  /\ \A p \in DOMAIN a : a[p] \in 0..size - 1

LEMMA KnowsPlace ==
  ASSUME NEW a, NEW v, NEW ix, NEW num \in Nat, NEW size \in Nat, Arrayed(a, v, ix, num, size)
  PROVE  Known(a, v, ix, num, size)
<1>1. /\ \A n \in DOMAIN ix : ix[n] \in 1..num /\ a[ix[n]] = n
      /\ \A p \in 1..num : a[p] \in DOMAIN ix
  BY DEF Arrayed, Signed
<1>2. /\ DOMAIN v = DOMAIN ix /\ DOMAIN a = 0..size - 1
      /\ \A p, q \in DOMAIN a : a[p] = a[q] => p = q
      /\ \A p \in DOMAIN a : a[p] \in 0..size - 1
  BY DEF Arrayed, Injective
<1>3. \A p \in 1..num : p \in DOMAIN a
  BY ArrayedHolds DEF Holding
<1>4. \A p \in 1..num : ix[a[p]] = p
  BY <1>1, <1>2, <1>3
<1> QED  BY <1>1, <1>2, <1>3, <1>4 DEF Known

\* Another value for the node in i.
LEMMA Revalued ==
  ASSUME NEW a, NEW v, NEW ix, NEW num \in Nat, NEW size \in Nat, Sound(a, v, ix, num, size),
         NEW i \in 1..num, NEW x \in Values, NEW w, w = [v EXCEPT ![a[i]] = x],
         AdjustNode_(a, w, num, i, ix)
  PROVE  Sound(items', w, index', num, size)
<1>1. Arrayed(a, v, ix, num, size) /\ Ordered(a, v, num)
  BY DEF Sound
<1>2. Valued(a, v, num)
  BY <1>1, ArrayedHolds
<1>3. /\ \A p \in 1..num : p \in DOMAIN a /\ a[p] \in DOMAIN v
      /\ \A p, q \in DOMAIN a : a[p] = a[q] => p = q
  BY <1>1, KnowsPlace DEF Known
<1>4. Arrayed(a, w, ix, num, size)
  BY <1>1, <1>3 DEF Arrayed
<1>5. SameBut(a, v, num, a, w, num, i)
  BY <1>3 DEF SameBut
<1>6. OrderedBut(a, w, num, i)
  BY <1>1, <1>2, <1>5, StillOrderedBut
<1>7. i \in 1..num + 1
  OBVIOUS
<1> QED  BY <1>4, <1>6, <1>7, Adjusted

\* The node in i goes, and the last takes its place.
Removal(a, v, ix, num, i, n, last, c, w, jx, m) ==
  /\ n = a[i] /\ last = a[num] /\ m = num - 1
  /\ c = [a EXCEPT ![i] = last, ![num] = n]
  /\ w = Without(v, n) /\ jx = Without([ix EXCEPT ![last] = i], n)

LEMMA Removed ==
  ASSUME NEW a, NEW v, NEW ix, NEW num \in Nat, NEW size \in Nat, Sound(a, v, ix, num, size),
         NEW i \in 1..num, NEW n, NEW last, NEW c, NEW w, NEW jx, NEW m \in Nat,
         Removal(a, v, ix, num, i, n, last, c, w, jx, m), AdjustNode_(c, w, m, i, jx)
  PROVE  Sound(items', w, index', m, size)
<1>0. n = a[i] /\ last = a[num] /\ m = num - 1
  BY DEF Removal
<1>1. Arrayed(a, v, ix, num, size) /\ Ordered(a, v, num)
  BY DEF Sound
<1>2. Valued(a, v, num)
  BY <1>1, ArrayedHolds
<1>3. /\ \A p \in 1..num : p \in DOMAIN a /\ a[p] \in DOMAIN ix /\ ix[a[p]] = p
      /\ \A k \in DOMAIN ix : ix[k] \in 1..num /\ a[ix[k]] = k
      /\ DOMAIN v = DOMAIN ix /\ DOMAIN a = 0..size - 1
      /\ \A p, q \in DOMAIN a : a[p] = a[q] => p = q
      /\ \A p \in DOMAIN a : a[p] \in 0..size - 1
  BY <1>1, KnowsPlace DEF Known
<1>4. num \in 1..num /\ \A p \in 1..m : p \in 1..num /\ p # num
  BY <1>0
<1>5. /\ DOMAIN c = DOMAIN a /\ c[i] = last /\ c[num] = n
      /\ \A p \in DOMAIN a : p # i /\ p # num => c[p] = a[p]
  <2>1. c = [a EXCEPT ![i] = last, ![num] = n]
    BY DEF Removal
  <2> QED  BY <1>0, <1>3, <1>4, <2>1
<1>6. c \in [0..size - 1 -> 0..size - 1]
  <2>1. c = [a EXCEPT ![i] = last, ![num] = n] /\ a \in [0..size - 1 -> 0..size - 1]
    BY <1>1 DEF Removal, Arrayed
  <2> QED  BY <1>0, <1>3, <1>4, <2>1
<1>7. Injective(c)
  <2>1. i \in DOMAIN a /\ num \in DOMAIN a
    BY <1>3, <1>4
  <2>2. \A p \in DOMAIN a : /\ p = i => c[p] = a[num]
                            /\ p = num => c[p] = a[i]
                            /\ p # i /\ p # num => c[p] = a[p]
    BY <1>0, <1>5
  <2>3. \A p, q \in DOMAIN a : a[p] = a[q] => p = q
    BY <1>3
  <2>4. ASSUME NEW p \in DOMAIN a, NEW q \in DOMAIN a, c[p] = c[q] PROVE p = q
    <3>1. CASE p = i
      BY <2>1, <2>2, <2>3, <2>4, <3>1
    <3>2. CASE p = num
      BY <2>1, <2>2, <2>3, <2>4, <3>2
    <3>3. CASE p # i /\ p # num
      BY <2>1, <2>2, <2>3, <2>4, <3>3
    <3> QED  BY <3>1, <3>2, <3>3
  <2> QED  BY <1>5, <2>4 DEF Injective
<1>8. Range(c) = Range(a)
  <2>1. \A p \in DOMAIN a : \E q \in DOMAIN a : c[p] = a[q]
    BY <1>0, <1>3, <1>4, <1>5
  <2>2. \A q \in DOMAIN a : \E p \in DOMAIN a : c[p] = a[q]
    BY <1>0, <1>3, <1>4, <1>5
  <2>3. DOMAIN c = DOMAIN a
    BY <1>5
  <2> QED  BY <2>1, <2>2, <2>3 DEF Range
<1>9. /\ DOMAIN jx = DOMAIN ix \ {n} /\ DOMAIN w = DOMAIN ix \ {n}
      /\ \A k \in DOMAIN jx : jx[k] = IF k = last THEN i ELSE ix[k]
      /\ \A k \in DOMAIN w : w[k] = v[k]
      /\ jx = [k \in DOMAIN jx |-> jx[k]] /\ w = [k \in DOMAIN w |-> w[k]]
  BY <1>3 DEF Without, Restrict, Removal
<1>10. w \in [DOMAIN jx -> Values]
  <2>1. \A k \in DOMAIN ix : v[k] \in Values
    BY <1>1 DEF Arrayed
  <2>2. DOMAIN w = DOMAIN jx /\ \A k \in DOMAIN w : w[k] \in Values
    BY <1>9, <2>1
  <2> QED  BY <1>9, <2>2
<1>11. ASSUME NEW k \in DOMAIN jx PROVE jx[k] \in 1..m /\ c[jx[k]] = k
  <2>1. CASE k = last
    <3>1. i # num /\ jx[k] = i
      BY <1>0, <1>9, <2>1
    <3>2. i \in 1..m
      BY <1>0, <3>1
    <3> QED  BY <1>5, <2>1, <3>1, <3>2
  <2>2. CASE k # last
    <3>1. ix[k] \in 1..num /\ a[ix[k]] = k /\ jx[k] = ix[k] /\ k # n
      BY <1>3, <1>9, <2>2
    <3>2. ix[k] # num /\ ix[k] # i
      BY <1>0, <2>2, <3>1
    <3>3. ix[k] \in 1..m
      BY <1>0, <3>1, <3>2
    <3> QED  BY <1>3, <1>5, <3>1, <3>2, <3>3
  <2> QED  BY <2>1, <2>2
<1>12. ASSUME NEW p \in 1..m PROVE c[p] \in DOMAIN jx /\ (p # i => c[p] = a[p])
  <2>1. CASE p = i
    <3>1. i # num /\ c[p] = last /\ last \in DOMAIN ix
      BY <1>0, <1>3, <1>4, <1>5, <2>1
    <3>2. last # n
      BY <1>0, <1>3, <1>4, <3>1
    <3> QED  BY <1>9, <2>1, <3>1, <3>2
  <2>2. CASE p # i
    <3>1. c[p] = a[p] /\ a[p] \in DOMAIN ix
      BY <1>3, <1>4, <1>5, <2>2
    <3>2. a[p] # n
      BY <1>0, <1>3, <1>4, <2>2
    <3> QED  BY <1>9, <3>1, <3>2
  <2> QED  BY <2>1, <2>2
<1>13. Signed(c, m, jx)
  <2>1. jx \in [DOMAIN jx -> 1..m]
    BY <1>9, <1>11
  <2> QED  BY <1>11, <1>12, <2>1 DEF Signed
<1>14. Arrayed(c, w, jx, m, size)
  <2>1. Range(c) = 0..size - 1 /\ (m = 0 \/ m < size)
    BY <1>0, <1>1, <1>8 DEF Arrayed
  <2> QED  BY <1>6, <1>7, <1>10, <1>13, <2>1 DEF Arrayed
<1>15. SameBut(a, v, num, c, w, m, i)
  <2>1. ASSUME NEW p \in 1..m, p # i PROVE w[c[p]] = v[a[p]]
    <3>1. c[p] = a[p] /\ c[p] \in DOMAIN w
      BY <1>9, <1>12, <2>1
    <3> QED  BY <1>9, <3>1
  <2> QED  BY <1>4, <2>1 DEF SameBut
<1>16. OrderedBut(c, w, m, i)
  BY <1>1, <1>2, <1>15, StillOrderedBut
<1>17. i \in 1..m + 1
  BY <1>0
<1> QED  BY <1>14, <1>16, <1>17, Adjusted

\* The array with room for one more.
Grows(a, c, more) == c = [p \in 0..more - 1 |-> IF p \in DOMAIN a THEN a[p] ELSE p]

LEMMA Roomy ==
  ASSUME NEW a, NEW size \in Nat, NEW more \in Nat, size <= more,
         a \in [0..size - 1 -> 0..size - 1], Injective(a), Range(a) = 0..size - 1,
         NEW c, Grows(a, c, more)
  PROVE  c \in [0..more - 1 -> 0..more - 1] /\ Injective(c) /\ Range(c) = 0..more - 1
<1>1. /\ \A p \in 0..size - 1 : p \in 0..more - 1 /\ c[p] = a[p] /\ a[p] \in 0..size - 1
      /\ \A p \in 0..more - 1 : p \notin 0..size - 1 => c[p] = p
      /\ DOMAIN c = 0..more - 1 /\ c = [p \in 0..more - 1 |-> c[p]]
  BY DEF Grows
<1>2. \A p \in 0..more - 1 : c[p] \in 0..more - 1
  BY <1>1
<1>3. Injective(c)
  <2>1. ASSUME NEW p \in 0..more - 1, NEW q \in 0..more - 1, c[p] = c[q] PROVE p = q
    <3>1. CASE p \in 0..size - 1 /\ q \in 0..size - 1
      BY <1>1, <2>1, <3>1 DEF Injective
    <3>2. CASE ~(p \in 0..size - 1 /\ q \in 0..size - 1)
      BY <1>1, <2>1, <3>2
    <3> QED  BY <3>1, <3>2
  <2> QED  BY <1>1, <2>1 DEF Injective
<1>4. ASSUME NEW k \in 0..more - 1 PROVE \E p \in DOMAIN c : c[p] = k
  <2>1. CASE k \in 0..size - 1
    <3>1. PICK p \in DOMAIN a : a[p] = k
      BY <2>1 DEF Range
    <3> QED  BY <1>1, <3>1
  <2>2. CASE k \notin 0..size - 1
    BY <1>1, <2>2
  <2> QED  BY <2>1, <2>2
<1>5. Range(c) = 0..more - 1
  <2>1. \A p \in DOMAIN c : c[p] \in 0..more - 1
    BY <1>1, <1>2
  <2>2. DOMAIN c = 0..more - 1
    BY <1>1
  <2>3. \A k \in 0..more - 1 : \E p \in DOMAIN c : c[p] = k
    BY <1>4
  <2> QED  BY <2>1, <2>2, <2>3 DEF Range
<1> QED  BY <1>1, <1>2, <1>3, <1>5

\* A node behind the last, on its way up.
Addition(a, v, ix, num, x, more, m, c, node, w, jx) ==
  /\ m = num + 1 /\ node = c[m]
  /\ Grows(a, c, more)
  /\ w = Set(v, node, x) /\ jx = Set(ix, node, m)

LEMMA Added ==
  ASSUME NEW a, NEW v, NEW ix, NEW num \in Nat, NEW size \in Nat, Sound(a, v, ix, num, size),
         NEW more \in Nat, size <= more, NEW m \in Nat, m < more,
         NEW c, NEW node, NEW x \in Values, NEW w, NEW jx,
         Addition(a, v, ix, num, x, more, m, c, node, w, jx),
         Placed(c, m, Upwards(c, w, node, m), node, jx)
  PROVE  Sound(items', w, index', m, more)
<1>0. m = num + 1 /\ node = c[m] /\ Grows(a, c, more)
  BY DEF Addition
<1>1. Arrayed(a, v, ix, num, size) /\ Ordered(a, v, num)
  BY DEF Sound
<1>2. Valued(a, v, num)
  BY <1>1, ArrayedHolds
<1>3. /\ \A p \in 1..num : p \in DOMAIN a /\ a[p] \in DOMAIN ix /\ ix[a[p]] = p
      /\ \A k \in DOMAIN ix : ix[k] \in 1..num /\ a[ix[k]] = k
      /\ DOMAIN v = DOMAIN ix /\ DOMAIN a = 0..size - 1
      /\ \A p, q \in DOMAIN a : a[p] = a[q] => p = q
  <2>1. Known(a, v, ix, num, size)
    BY <1>1, KnowsPlace
  <2> QED  BY <2>1 DEF Known
<1>4. c \in [0..more - 1 -> 0..more - 1] /\ Injective(c) /\ Range(c) = 0..more - 1
  <2>1. a \in [0..size - 1 -> 0..size - 1] /\ Injective(a) /\ Range(a) = 0..size - 1
    BY <1>1 DEF Arrayed
  <2> QED  BY <1>0, <2>1, Roomy
<1>5. /\ \A p \in 1..num : p \in DOMAIN c /\ c[p] = a[p] /\ c[p] # node
      /\ m \in DOMAIN c /\ c[m] = node
  <2>1. \A p \in 1..num : p # m /\ p \in 0..more - 1
    BY <1>0
  <2>2. \A p \in 1..num : p \in DOMAIN a /\ p \in DOMAIN c /\ p # m
    BY <1>3, <1>4, <2>1
  <2>3. m \in DOMAIN c
    BY <1>0, <1>4
  <2>4. \A p \in 1..num : c[p] = a[p]
    BY <1>0, <1>4, <2>2 DEF Grows
  <2> QED  BY <1>0, <1>4, <2>2, <2>3, <2>4 DEF Injective
<1>6. /\ DOMAIN w = DOMAIN ix \cup {node} /\ DOMAIN jx = DOMAIN ix \cup {node}
      /\ \A k \in DOMAIN w : w[k] = IF k = node THEN x ELSE v[k]
      /\ \A k \in DOMAIN jx : jx[k] = IF k = node THEN m ELSE ix[k]
      /\ jx = [k \in DOMAIN jx |-> jx[k]] /\ w = [k \in DOMAIN w |-> w[k]]
  BY <1>3 DEF Set, Addition
<1>7. w \in [DOMAIN jx -> Values]
  <2>1. \A k \in DOMAIN ix : v[k] \in Values
    BY <1>1 DEF Arrayed
  <2>2. ASSUME NEW k \in DOMAIN w PROVE w[k] \in Values
    <3>1. CASE k = node
      BY <1>6, <3>1
    <3>2. CASE k # node
      <4>1. k \in DOMAIN ix /\ w[k] = v[k]
        BY <1>6, <3>2
      <4> QED  BY <2>1, <4>1
    <3> QED  BY <3>1, <3>2
  <2> QED  BY <1>6, <2>2
<1>8. ASSUME NEW k \in DOMAIN jx PROVE jx[k] \in 1..m /\ c[jx[k]] = k
  <2>1. CASE k = node
    BY <1>0, <1>5, <1>6, <2>1
  <2>2. CASE k # node
    <3>1. k \in DOMAIN ix /\ jx[k] = ix[k]
      BY <1>6, <2>2
    <3>2. ix[k] \in 1..num /\ a[ix[k]] = k
      BY <1>3, <3>1
    <3>3. jx[k] \in 1..m
      BY <1>0, <3>1, <3>2
    <3> QED  BY <1>5, <3>1, <3>2, <3>3
  <2> QED  BY <2>1, <2>2
<1>9. ASSUME NEW p \in 1..m PROVE c[p] \in DOMAIN jx
  <2>1. CASE p = m
    BY <1>5, <1>6, <2>1
  <2>2. CASE p # m
    BY <1>0, <1>3, <1>5, <1>6, <2>2
  <2> QED  BY <2>1, <2>2
<1>10. Arrayed(c, w, jx, m, more)
  <2>1. jx \in [DOMAIN jx -> 1..m]
    BY <1>6, <1>8
  <2>2. Signed(c, m, jx)
    BY <1>8, <1>9, <2>1 DEF Signed
  <2> QED  BY <1>4, <1>7, <2>2 DEF Arrayed
<1>11. SameBut(a, v, num, c, w, m, m)
  <2>1. ASSUME NEW p \in 1..m, p # m PROVE p \in 1..num /\ w[c[p]] = v[a[p]]
    <3>1. p \in 1..num
      BY <1>0, <2>1
    <3> QED  BY <1>3, <1>5, <1>6, <3>1
  <2> QED  BY <2>1 DEF SameBut
<1>12. OrderedBut(c, w, m, m)
  BY <1>1, <1>2, <1>11, StillOrderedBut
<1>13. PICK next : next = Upwards(c, w, node, m)
  OBVIOUS
<1>14. items' = Moved(c, m, next, c[m]) /\ index' = Learnt(items', m, next, jx)
  <2>1. Placed(c, m, next, c[m], jx)
    BY <1>0, <1>13
  <2> QED  BY <2>1, PlacedIs
<1>15. PICK b, kx : b = items' /\ kx = index'
  OBVIOUS
<1>16. b = Moved(c, m, next, c[m]) /\ kx = Learnt(b, m, next, jx)
  BY <1>14, <1>15
<1>17. m \in 1..m /\ Rises(c, w, m, m) /\ next = Upwards(c, w, c[m], m)
  BY <1>0, <1>13 DEF Rises
<1>18. Sound(b, w, kx, m, more)
  BY <1>10, <1>12, <1>16, <1>17, UpSound
<1> QED  BY <1>15, <1>18

-----------------------------------------------------------------------------
(* The steps.                                                              *)

LEMMA EmptySound ==
  ASSUME NEW a, NEW size \in Nat,
         a \in [0..size - 1 -> 0..size - 1], Injective(a), Range(a) = 0..size - 1
  PROVE  Sound(a, <<>>, <<>>, 0, size)
<1>1. Signed(a, 0, <<>>)
  BY Empty DEF Signed
<1>2. <<>> \in [DOMAIN <<>> -> Values]
  BY Empty
<1> QED  BY <1>1, <1>2 DEF Sound, Arrayed, Ordered

LEMMA ArrayIs ==
  ASSUME NEW size \in Nat, NEW a, a = Array(size)
  PROVE  a \in [0..size - 1 -> 0..size - 1] /\ Injective(a) /\ Range(a) = 0..size - 1
BY DEF Array, Injective, Range

LEMMA Init_Step == ASSUME HeapInv, Init_ PROVE HeapInv'
<1>1. ~gone /\ sizeContainer = 0 /\ Sound(items, val, index, numItems, 0)
  BY DEF HeapInv, Init_
<1>2. numItems = 0 /\ val = <<>> /\ index = <<>>
  <2>1. numItems = 0 /\ val \in [DOMAIN index -> Values] /\ index \in [DOMAIN index -> 1..numItems]
    BY <1>1 DEF HeapInv, Sound, Arrayed, Signed
  <2>2. \A n \in DOMAIN index : FALSE
    BY <2>1
  <2> QED  BY <2>1, <2>2, Empty
<1>3. Sound(items', val', index', numItems', sizeContainer')
  <2>1. PICK a : a = items'
    OBVIOUS
  <2>2. a = Array(InitSize) /\ InitSize \in Nat
    BY <2>1, HeapAssumption DEF Init_
  <2>3. Sound(a, <<>>, <<>>, 0, InitSize)
    BY <2>2, ArrayIs, EmptySound
  <2> QED  BY <1>2, <2>1, <2>3 DEF Init_
<1> QED  BY <1>1, <1>3, HeapAssumption DEF HeapInv, Init_

LEMMA InsertStep == ASSUME HeapInv, NEW x \in Values, Insert(x) PROVE HeapInv'
<1>1. /\ ~gone /\ sizeContainer \in Nat /\ numItems \in Nat
      /\ Sound(items, val, index, numItems, sizeContainer)
  BY HeapAssumption DEF HeapInv, Insert
<1>2. PICK more : more = SizeForInsert
  OBVIOUS
<1>3. more \in Nat /\ more <= MaxSize /\ sizeContainer <= more /\ numItems + 1 < more
  <2>1. SizeBefore \in Nat /\ sizeContainer <= SizeBefore /\ numItems + 1 <= SizeBefore
    <3>1. numItems = 0 \/ numItems < sizeContainer
      BY <1>1 DEF Sound, Arrayed
    <3> QED  BY <1>1, <3>1, HeapAssumption DEF HeapInv, SizeBefore
  <2>2. PICK s : s = SizeBefore
    OBVIOUS
  <2>3. more = IF numItems + 1 = s THEN 2 * s ELSE s
    BY <1>2, <2>2 DEF SizeForInsert
  <2> QED  BY <1>1, <1>2, <2>1, <2>2, <2>3 DEF Insert
<1>4. PICK a, v, ix, num, m, c, node, w, jx :
        /\ a = items /\ v = val /\ ix = index /\ num = numItems /\ m = numItems + 1
        /\ c = Grown /\ node = c[m] /\ w = Set(v, node, x) /\ jx = Set(ix, node, m)
  OBVIOUS
<1>5. Grows(a, c, more)
  BY <1>2, <1>4 DEF Grown, Grows
<1>6. val' = w /\ Placed(c, m, Upwards(c, w, node, m), node, jx)
  BY <1>4 DEF Insert
<1>7. Sound(items', w, index', m, more)
  <2>1. num \in Nat /\ m \in Nat /\ m < more
    BY <1>1, <1>3, <1>4
  <2>2. PICK size \in Nat : size = sizeContainer
    BY <1>1
  <2>3. Sound(a, v, ix, num, size) /\ size <= more
    BY <1>1, <1>3, <1>4, <2>2
  <2>4. Addition(a, v, ix, num, x, more, m, c, node, w, jx)
    BY <1>4, <1>5 DEF Addition
  <2> QED  BY <1>3, <1>6, <2>1, <2>3, <2>4, Added
<1> QED  BY <1>1, <1>2, <1>3, <1>4, <1>6, <1>7 DEF HeapInv, Insert

LEMMA RevaluedStep ==
  ASSUME HeapInv, ~gone, NEW i \in 1..numItems, NEW x \in Values,
         val' = [val EXCEPT ![items[i]] = x], AdjustNode_(items, val', numItems, i, index),
         UNCHANGED <<init, numItems, sizeContainer, nodes, gone>>
  PROVE  HeapInv'
<1>1. /\ sizeContainer \in Nat /\ numItems \in Nat
      /\ Sound(items, val, index, numItems, sizeContainer)
  BY HeapAssumption DEF HeapInv
<1>2. PICK w : w = val'
  OBVIOUS
<1>3. w = [val EXCEPT ![items[i]] = x] /\ AdjustNode_(items, w, numItems, i, index)
  BY <1>2
<1>4. Sound(items', w, index', numItems, sizeContainer)
  BY <1>1, <1>3, Revalued
<1> QED  BY <1>2, <1>4 DEF HeapInv

LEMMA UpdateStep == ASSUME HeapInv, NEW n, NEW x \in Values, Update(n, x) PROVE HeapInv'
<1>1. index[n] \in 1..numItems /\ items[index[n]] = n
  <2>1. SignsFound /\ n \in Held
    BY InvHolds DEF Update
  <2> QED  BY <2>1 DEF SignsFound, Places
<1>2. PICK i \in 1..numItems : i = index[n]
  BY <1>1
<1>3. val' = [val EXCEPT ![items[i]] = x] /\ AdjustNode_(items, val', numItems, i, index)
  BY <1>1, <1>2 DEF Update
<1> QED  BY <1>3, RevaluedStep DEF Update

LEMMA UpdateTopStep == ASSUME HeapInv, NEW x \in Values, UpdateTop(x) PROVE HeapInv'
<1>1. PICK i \in 1..numItems : i = 1
  BY DEF UpdateTop, HeapInv
<1>2. val' = [val EXCEPT ![items[i]] = x] /\ AdjustNode_(items, val', numItems, i, index)
  BY <1>1 DEF UpdateTop
<1> QED  BY <1>2, RevaluedStep DEF UpdateTop

LEMMA EraseNodeStep ==
  ASSUME HeapInv, ~gone, NEW n \in Held, EraseNode(n),
         UNCHANGED <<init, sizeContainer, nodes, gone>>
  PROVE  HeapInv'
<1>1. /\ sizeContainer \in Nat /\ numItems \in Nat
      /\ Sound(items, val, index, numItems, sizeContainer)
  BY HeapAssumption DEF HeapInv
<1>2. index[n] \in 1..numItems /\ items[index[n]] = n
  BY InvHolds DEF SignsFound, Places
<1>3. PICK i \in 1..numItems : i = index[n] /\ items[i] = n
  BY <1>2
<1>4. PICK a, v, ix, num, m, last, c, w, jx :
        /\ a = items /\ v = val /\ ix = index /\ num = numItems /\ m = numItems - 1
        /\ last = a[num] /\ c = [a EXCEPT ![i] = last, ![num] = n]
        /\ w = Without(v, n) /\ jx = Without([ix EXCEPT ![last] = i], n)
  OBVIOUS
<1>5. numItems' = m /\ val' = w /\ AdjustNode_(c, w, m, i, jx)
  BY <1>3, <1>4 DEF EraseNode
<1>6. Sound(items', w, index', m, sizeContainer)
  <2>1. num \in Nat /\ m \in Nat /\ i \in 1..num
    BY <1>1, <1>3, <1>4
  <2>2. PICK size \in Nat : size = sizeContainer
    BY <1>1
  <2>3. Sound(a, v, ix, num, size)
    BY <1>1, <1>4, <2>2
  <2>4. Removal(a, v, ix, num, i, n, last, c, w, jx, m)
    BY <1>3, <1>4 DEF Removal
  <2>5. Sound(items', w, index', m, size)
    BY <1>5, <2>1, <2>3, <2>4, Removed
  <2> QED  BY <2>2, <2>5
<1>7. m \in Nat
  BY <1>1, <1>3, <1>4
<1> QED  BY <1>5, <1>6, <1>7 DEF HeapInv

LEMMA PopStep == ASSUME HeapInv, Pop PROVE HeapInv'
<1>1. items[1] \in Held
  <2>1. SignsFound /\ 1 \in Places
    BY InvHolds DEF Places, Pop, HeapInv
  <2> QED  BY <2>1 DEF SignsFound
<1>2. EraseNode(items[1]) /\ ~gone /\ UNCHANGED <<init, sizeContainer, nodes, gone>>
  BY DEF Pop
<1>3. PICK n \in Held : EraseNode(n)
  BY <1>1, <1>2
<1> QED  BY <1>2, <1>3, EraseNodeStep

LEMMA ClearStep == ASSUME HeapInv, Clear PROVE HeapInv'
<1>1. Sound(items, val, index, numItems, sizeContainer) /\ sizeContainer \in Nat
  BY HeapAssumption DEF HeapInv, Clear
<1>2. Sound(items, <<>>, <<>>, 0, sizeContainer)
  BY <1>1, EmptySound DEF Sound, Arrayed
<1> QED  BY <1>2 DEF HeapInv, Clear

LEMMA DestroyStep == ASSUME HeapInv, Destroy PROVE HeapInv'
<1>1. nodes = Range(items)
  BY DEF HeapInv, Sound, Arrayed, Destroy
<1> QED  BY <1>1 DEF HeapInv, Destroy

LEMMA InitIsInv == ASSUME Init PROVE HeapInv
<1>1. PICK size \in Nat : size = 0
  OBVIOUS
<1>2. 0..size - 1 = {}
  BY <1>1
<1>3. Range(<<>>) = 0..size - 1 /\ Injective(<<>>) /\ <<>> \in [0..size - 1 -> 0..size - 1]
  BY <1>2, Empty DEF Range, Injective
<1>4. Sound(<<>>, <<>>, <<>>, 0, size)
  BY <1>3, EmptySound
<1>5. 0 \in 0..MaxSize
  BY HeapAssumption
<1>6. Sound(items, val, index, numItems, sizeContainer) /\ nodes = 0..sizeContainer - 1
  BY <1>1, <1>2, <1>4 DEF Init
<1> QED  BY <1>5, <1>6 DEF HeapInv, Init

LEMMA StepKeepsInv == ASSUME HeapInv, [Next]_vars PROVE HeapInv'
<1>1. CASE Init_
  BY <1>1, Init_Step
<1>2. CASE Pop
  BY <1>2, PopStep
<1>3. CASE Clear
  BY <1>3, ClearStep
<1>4. CASE Destroy
  BY <1>4, DestroyStep
<1>5. ASSUME NEW x \in Values, Insert(x) PROVE HeapInv'
  BY <1>5, InsertStep
<1>6. ASSUME NEW x \in Values, UpdateTop(x) PROVE HeapInv'
  BY <1>6, UpdateTopStep
<1>7. ASSUME NEW x \in Values, NEW n \in Nodes, Update(n, x) PROVE HeapInv'
  BY <1>7, UpdateStep
<1>8. ASSUME NEW n \in Nodes, Erase(n) PROVE HeapInv'
  BY <1>8, EraseNodeStep DEF Erase
<1>9. CASE UNCHANGED vars
  BY <1>9 DEF vars, HeapInv
<1> QED  BY <1>1, <1>2, <1>3, <1>4, <1>5, <1>6, <1>7, <1>8, <1>9 DEF Next

LEMMA InvAlways == Spec => []HeapInv
BY InitIsInv, StepKeepsInv, PTL DEF Spec

\* Whatever calls are made in whatever order, the array keeps its types and its order:
\* no node comes before its parent (AdjustNode_, Insert and Erase).
THEOREM WellFormedAlways == Spec => []WellFormed
<1>1. HeapInv => WellFormed
  BY InvHolds
<1> QED  BY <1>1, InvAlways, PTL

\* Every sign that a client holds leads to its node, and the node to its place: Insert,
\* Erase and AdjustNode_ keep index true for every node that they move.  And the array
\* holds each node once, so that the destructor deletes every node, and none twice.
THEOREM NodesKeptAlways == Spec => []NodesKept
<1>1. HeapInv => NodesKept
  BY InvHolds DEF NodesKept
<1> QED  BY <1>1, InvAlways, PTL

-----------------------------------------------------------------------------
(* The heap implements the queue.                                          *)

\* No node of an ordered array comes before its first: of those that did the one in the
\* least place would come before its parent.
LEMMA NoneBeforeFirst ==
  ASSUME NEW a, NEW v, NEW num \in Nat, Ordered(a, v, num), Valued(a, v, num)
  PROVE  \A p \in 1..num : ~Before(v[a[p]], v[a[1]])
<1> DEFINE bad == {p \in 1..num : Before(v[a[p]], v[a[1]])}
           R == OpToRel(<, Nat)
<1> SUFFICES ASSUME bad # {} PROVE FALSE
  OBVIOUS
<1>1. bad \subseteq Nat
  OBVIOUS
<1>2. IsWellFoundedOn(R, Nat)
  BY NatLessThanWellFounded
<1>3. \A t, u \in Nat : t < u => <<t, u>> \in R
  BY DEF OpToRel
<1>4. \A p \in bad : p \in 1..num /\ Before(v[a[p]], v[a[1]])
  OBVIOUS
<1>5. \A p \in 1..num : p \notin bad => ~Before(v[a[p]], v[a[1]])
  OBVIOUS
<1> HIDE DEF R, bad
<1>6. \E p \in bad : \A q \in bad : ~(<<q, p>> \in R)
  BY <1>1, <1>2, WFMin
<1>7. PICK p \in bad : \A q \in bad : ~(q < p)
  BY <1>1, <1>3, <1>6
<1>8. v[a[p]] \in Int /\ v[a[1]] \in Int /\ p \in 1..num /\ Before(v[a[p]], v[a[1]])
  BY <1>4 DEF Valued
<1>9. p > 1
  BY <1>8, BeforeIsOrder
<1>10. PICK h \in 1..num : h = p \div 2 /\ h < p
  BY <1>8, <1>9, Half
<1>11. ~Before(v[a[h]], v[a[1]])
  BY <1>5, <1>7, <1>10
<1>12. ~Before(v[a[p]], v[a[h]])
  BY <1>8, <1>9, <1>10 DEF Ordered
<1>13. v[a[h]] \in Int
  BY <1>10 DEF Valued
<1> QED  BY <1>8, <1>11, <1>12, <1>13, BeforeIsOrder

\* What the queue calls its top, and what its top has to be when it holds q.
Top == IF numItems = 0 THEN NoNode ELSE items[1]
IsTop(t, q) == IF DOMAIN q = {} THEN t = NoNode ELSE t \in Queue!Firsts(q)

LEMMA SoundTop ==
  ASSUME NEW a, NEW v, NEW ix, NEW num \in Nat, NEW size \in Nat, Sound(a, v, ix, num, size)
  PROVE  IsTop(IF num = 0 THEN NoNode ELSE a[1], v)
<1>1. Arrayed(a, v, ix, num, size) /\ Ordered(a, v, num)
  BY DEF Sound
<1>2. Valued(a, v, num)
  BY <1>1, ArrayedHolds
<1>3. /\ \A p \in 1..num : a[p] \in DOMAIN v
      /\ \A n \in DOMAIN v : ix[n] \in 1..num /\ a[ix[n]] = n
  <2>1. Known(a, v, ix, num, size)
    BY <1>1, KnowsPlace
  <2> QED  BY <2>1 DEF Known
<1>4. CASE num = 0
  <2>1. 1..num = {}
    BY <1>4
  <2>2. DOMAIN v = {}
    BY <1>3, <2>1
  <2> QED  BY <1>4, <2>2 DEF IsTop
<1>5. CASE num # 0
  <2>1. a[1] \in DOMAIN v
    BY <1>3, <1>5
  <2>2. \A p \in 1..num : ~Before(v[a[p]], v[a[1]])
    BY <1>1, <1>2, NoneBeforeFirst
  <2>3. \A n \in DOMAIN v : ~Before(v[n], v[a[1]])
    BY <1>3, <2>2
  <2>4. a[1] \in Queue!Firsts(v)
    BY <2>1, <2>3 DEF Queue!Firsts, Queue!Before, Before
  <2> QED  BY <1>5, <2>1, <2>4 DEF IsTop
<1> QED  BY <1>4, <1>5

LEMMA InvTop == ASSUME HeapInv' PROVE IsTop(Top', val')
<1>1. CASE gone'
  BY <1>1, Empty DEF HeapInv, IsTop, Top
<1>2. CASE ~gone'
  <2>1. /\ numItems' \in Nat /\ sizeContainer' \in Nat
        /\ Sound(items', val', index', numItems', sizeContainer')
    BY <1>2, HeapAssumption DEF HeapInv
  <2> QED  BY <2>1, SoundTop DEF Top
<1> QED  BY <1>1, <1>2

\* The top follows from what the heap holds.
LEMMA HeapBecomes == ASSUME HeapInv', NEW q, val' = q PROVE Queue!Becomes(q)
<1>1. IsTop(Top', q)
  BY InvTop
<1> QED  BY <1>1 DEF IsTop, Top, Queue!Becomes

LEMMA InsertImplements ==
  ASSUME HeapInv, NEW x \in Values, Insert(x), HeapInv' PROVE Queue!Insert
<1>1. /\ ~gone /\ sizeContainer \in Nat /\ numItems \in Nat
      /\ Arrayed(items, val, index, numItems, sizeContainer)
  BY HeapAssumption DEF HeapInv, Insert, Sound
<1>2. PICK more, c : more = SizeForInsert /\ c = Grown
  OBVIOUS
<1>3. more \in Nat /\ more <= MaxSize /\ sizeContainer <= more /\ numItems + 1 < more
  <2>1. SizeBefore \in Nat /\ sizeContainer <= SizeBefore /\ numItems + 1 <= SizeBefore
    <3>1. numItems = 0 \/ numItems < sizeContainer
      BY <1>1 DEF Arrayed
    <3> QED  BY <1>1, <3>1, HeapAssumption DEF HeapInv, SizeBefore
  <2>2. PICK s : s = SizeBefore
    OBVIOUS
  <2>3. more = IF numItems + 1 = s THEN 2 * s ELSE s
    BY <1>2, <2>2 DEF SizeForInsert
  <2> QED  BY <1>1, <1>2, <2>1, <2>2, <2>3 DEF Insert
<1>4. c \in [0..more - 1 -> 0..more - 1] /\ Injective(c)
  <2>1. Grows(items, c, more)
    BY <1>2 DEF Grown, Grows
  <2>2. /\ items \in [0..sizeContainer - 1 -> 0..sizeContainer - 1]
        /\ Injective(items) /\ Range(items) = 0..sizeContainer - 1
    BY <1>1 DEF Arrayed
  <2> QED  BY <1>1, <1>3, <2>1, <2>2, Roomy
<1>5. PICK node : node = c[numItems + 1]
  OBVIOUS
<1>6. node \in Nodes
  BY <1>1, <1>3, <1>4, <1>5, HeapAssumption DEF Nodes
<1>7. node \notin DOMAIN val
  <2>1. SUFFICES ASSUME node \in DOMAIN val PROVE FALSE
    OBVIOUS
  <2>2. PICK p \in 1..numItems : p \in DOMAIN items /\ items[p] = node
    <3>1. Known(items, val, index, numItems, sizeContainer)
      BY <1>1, KnowsPlace
    <3> QED  BY <2>1, <3>1 DEF Known
  <2>3. c[p] = node /\ p \in DOMAIN c /\ numItems + 1 \in DOMAIN c /\ p # numItems + 1
    BY <1>1, <1>2, <1>3, <1>4, <2>2 DEF Grown
  <2> QED  BY <1>5, <2>3, <1>4 DEF Injective
<1>8. val' = [t \in DOMAIN val \cup {node} |-> IF t = node THEN x ELSE val[t]]
  BY <1>2, <1>5 DEF Insert, Set
<1>9. Queue!Becomes([t \in DOMAIN val \cup {node} |-> IF t = node THEN x ELSE val[t]])
  BY <1>8, HeapBecomes
<1> QED  BY <1>6, <1>7, <1>9 DEF Queue!Insert

LEMMA UpdateImplements ==
  ASSUME HeapInv', NEW n \in DOMAIN val, NEW x \in Values, val' = [val EXCEPT ![n] = x]
  PROVE  Queue!Update
<1>1. Queue!Becomes([val EXCEPT ![n] = x])
  BY HeapBecomes
<1> QED  BY <1>1 DEF Queue!Update

LEMMA EraseImplements ==
  ASSUME HeapInv', NEW n \in DOMAIN val, val' = Without(val, n)
  PROVE  Queue!Erase
<1>1. val' = Queue!Restrict(val, DOMAIN val \ {n})
  BY DEF Without, Restrict, Queue!Restrict
<1>2. Queue!Becomes(Queue!Restrict(val, DOMAIN val \ {n}))
  BY <1>1, HeapBecomes
<1> QED  BY <1>2 DEF Queue!Erase

LEMMA ClearImplements == ASSUME HeapInv', val' = <<>> PROVE Queue!Clear
<1>1. Queue!Restrict(val, {}) = <<>>
  BY Empty DEF Queue!Restrict
<1>2. Queue!Becomes(Queue!Restrict(val, {}))
  BY <1>1, HeapBecomes
<1> QED  BY <1>2 DEF Queue!Clear

LEMMA StepImplements ==
  ASSUME HeapInv, HeapInv', [Next]_vars
  PROVE  [Queue!Next]_<<val, Top>>
<1>1. CASE Init_
  <2>1. numItems = 0
    BY <1>1 DEF Init_, HeapInv, Sound, Arrayed
  <2> QED  BY <1>1, <2>1 DEF Init_, Top
<1>2. CASE Pop
  <2>1. items[1] \in DOMAIN val
    <3>1. SignsFound /\ 1 \in Places
      BY <1>2, InvHolds DEF Places, Pop, HeapInv
    <3> QED  BY <3>1 DEF SignsFound, Held
  <2>2. val' = Without(val, items[1])
    BY <1>2 DEF Pop, EraseNode
  <2> QED  BY <2>1, <2>2, EraseImplements DEF Queue!Next
<1>3. CASE Clear
  BY <1>3, ClearImplements DEF Clear, Queue!Next
<1>4. CASE Destroy
  BY <1>4, ClearImplements DEF Destroy, Queue!Next
<1>5. ASSUME NEW x \in Values, Insert(x) PROVE Queue!Insert
  BY <1>5, InsertImplements
<1>6. ASSUME NEW x \in Values, UpdateTop(x) PROVE Queue!Update
  <2>1. items[1] \in DOMAIN val
    <3>1. SignsFound /\ 1 \in Places
      BY <1>6, InvHolds DEF Places, UpdateTop, HeapInv
    <3> QED  BY <3>1 DEF SignsFound, Held
  <2>2. val' = [val EXCEPT ![items[1]] = x]
    BY <1>6 DEF UpdateTop
  <2> QED  BY <2>1, <2>2, UpdateImplements
<1>7. ASSUME NEW x \in Values, NEW n \in Nodes, Update(n, x) PROVE Queue!Update
  <2>1. n \in DOMAIN val /\ val' = [val EXCEPT ![n] = x]
    BY <1>7 DEF Update, Held
  <2> QED  BY <2>1, UpdateImplements
<1>8. ASSUME NEW n \in Nodes, Erase(n) PROVE Queue!Erase
  <2>1. n \in DOMAIN val /\ val' = Without(val, n)
    BY <1>8 DEF Erase, Held, EraseNode
  <2> QED  BY <2>1, EraseImplements
<1>9. CASE UNCHANGED vars
  BY <1>9 DEF vars, Top
<1> QED  BY <1>1, <1>2, <1>3, <1>4, <1>5, <1>6, <1>7, <1>8, <1>9 DEF Next, Queue!Next

\* The heap implements the priority queue: whatever its nodes do in the array, a client
\* sees what it inserts, updates and erases, and at the top always a first one.
THEOREM HeapImplementsQueue == Spec => ImplementsQueue
<1>1. Init => Queue!Init
  BY Empty DEF Init, Queue!Init
<1>2. HeapInv /\ HeapInv' /\ [Next]_vars => [Queue!Next]_<<val, Top>>
  BY StepImplements
<1> QED  BY <1>1, <1>2, InvAlways, PTL DEF Spec, ImplementsQueue, Queue!Spec, Top
=============================================================================
