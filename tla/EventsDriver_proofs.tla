------------------------ MODULE EventsDriver_proofs -------------------------
(***************************************************************************)
(* Proofs about EventsDriver, for any descriptors, contexts, signs and     *)
(* times: the heap and the table of the driver match, the client knows     *)
(* what is registered, and what is ready has a context if the client is    *)
(* careful.                                                                *)
(***************************************************************************)
EXTENDS EventsDriver, WellFoundedInduction, TLAPS

\* The state of the driver, as the records of the calls have it.
Timers == UNION {[S -> [expire : Nat, fd : Fds]] : S \in SUBSET Signs}
Drivers == [context : [Fds -> Contexts \cup {Null}], sign : [Fds -> Signs \cup {NoSign}],
            heap : Timers, watched : SUBSET Fds]

\* Timers and signs are paired; within a call the descriptor may not be watched yet.
Paired(d) ==
  /\ \A s \in DOMAIN d.heap : d.sign[d.heap[s].fd] = s
  /\ \A f \in Fds : d.sign[f] # NoSign =>
       d.sign[f] \in DOMAIN d.heap /\ d.heap[d.sign[f]].fd = f

\* What is watched is known to the client; what it believes to be registered and is not,
\* RemoveTimeouts is about to report.
Known ==
  /\ \A f \in watched : mine[f] # Null /\ context[f] = mine[f] /\ mine[f] \notin expired
  /\ \A f \in Fds : mine[f] # Null /\ f \notin watched => mine[f] \in expired
  /\ pc # "timeouts" => expired = {}

\* No context is registered twice, so that a report is about one descriptor.
Distinct == \A f, g \in Fds : mine[f] # Null /\ mine[f] = mine[g] => f = g

\* A careful client changes nothing that is ready.
Handles == Careful => ready \subseteq watched /\ (pc # "batch" => ready = {})

IInv == TypeOK /\ TimersMatch /\ Known /\ Distinct /\ Handles

-----------------------------------------------------------------------------

\* The heap with timers has a first one: what Wait computes from it is a number.
LEMMA FirstIsTime ==
  ASSUME TypeOK, ~NoTimers
  PROVE  First \in Nat /\ First \in Expires
<1>1. Expires \subseteq Nat /\ Expires # {}
  <2>1. \A s \in DOMAIN heap : heap[s].expire \in Nat
    BY DEF TypeOK
  <2> QED  BY <2>1 DEF NoTimers, Expires
<1>2. \E t \in Expires : \A u \in Expires : t <= u
  <2> DEFINE R == OpToRel(<, Nat)
  <2>1. IsWellFoundedOn(R, Nat)
    BY NatLessThanWellFounded
  <2>2. \A t, u \in Nat : t < u => <<t, u>> \in R
    BY DEF OpToRel
  <2> HIDE DEF R
  <2>3. \E t \in Expires : \A u \in Expires : ~(<<u, t>> \in R)
    BY <1>1, <2>1, WFMin
  <2>4. PICK t \in Expires : \A u \in Expires : ~(<<u, t>> \in R)
    BY <2>3
  <2>5. \A u \in Expires : ~(u < t)
    BY <1>1, <2>2, <2>4
  <2> QED  BY <1>1, <2>5
<1> QED  BY <1>1, <1>2 DEF First

\* RegEventDel leaves signs and timers paired, without those of the descriptors.
LEMMA DelPairs ==
  ASSUME NEW d \in Drivers, NEW F \in SUBSET Fds, Paired(d)
  PROVE  LET e == RegEventDel(d, F)
         IN  /\ e \in Drivers /\ Paired(e)
             /\ e.watched = d.watched \ F
             /\ e.context = [f \in Fds |-> IF f \in F \cap d.watched THEN Null ELSE d.context[f]]
             /\ e.sign = [f \in Fds |-> IF f \in F THEN NoSign ELSE d.sign[f]]
<1> DEFINE e == RegEventDel(d, F)
           kept == DOMAIN d.heap \ {d.sign[f] : f \in F}
<1>1. /\ e.watched = d.watched \ F
      /\ e.context = [f \in Fds |-> IF f \in F \cap d.watched THEN Null ELSE d.context[f]]
      /\ e.sign = [f \in Fds |-> IF f \in F THEN NoSign ELSE d.sign[f]]
      /\ e.heap = [s \in kept |-> d.heap[s]]
  BY DEF RegEventDel, Drivers, Restrict
<1>2. d.heap \in [DOMAIN d.heap -> [expire : Nat, fd : Fds]] /\ DOMAIN d.heap \subseteq Signs
  BY DEF Drivers, Timers
<1>3. e \in Drivers
  <2>1. e.heap \in [kept -> [expire : Nat, fd : Fds]] /\ kept \in SUBSET Signs
    BY <1>1, <1>2
  <2>2. e.heap \in Timers
    BY <2>1 DEF Timers
  <2> QED  BY <1>1, <2>2 DEF RegEventDel, Drivers
<1>4. Paired(e)
  <2>1. ASSUME NEW s \in DOMAIN e.heap
        PROVE  e.sign[e.heap[s].fd] = s
    BY <1>1, <1>2 DEF Paired
  <2>2. ASSUME NEW f \in Fds, e.sign[f] # NoSign
        PROVE  e.sign[f] \in DOMAIN e.heap /\ e.heap[e.sign[f]].fd = f
    BY <1>1, <1>2, <2>2 DEF Paired
  <2> QED  BY <2>1, <2>2 DEF Paired
<1> QED  BY <1>1, <1>3, <1>4

\* A timer is set under the sign of the descriptor, or under a free one if it has none.
LEMMA SetPairs ==
  ASSUME NEW d \in Drivers, NEW f \in Fds, NEW s \in Signs, NEW timeo \in Nat,
         cached \in Nat, Paired(d),
         d.sign[f] = s \/ (d.sign[f] = NoSign /\ s \notin DOMAIN d.heap)
  PROVE  LET e == SetTimer(d, f, s, timeo)
         IN  /\ e \in Drivers /\ Paired(e)
             /\ e.watched = d.watched /\ e.context = d.context
             /\ e.sign = [d.sign EXCEPT ![f] = s]
<1> DEFINE e == SetTimer(d, f, s, timeo)
           timed == DOMAIN d.heap \cup {s}
<1>1. /\ e.watched = d.watched /\ e.context = d.context
      /\ e.sign = [d.sign EXCEPT ![f] = s]
      /\ e.heap = [t \in timed |-> IF t = s THEN [expire |-> cached + timeo, fd |-> f]
                                   ELSE d.heap[t]]
  BY DEF SetTimer, Drivers
<1>2. d.heap \in [DOMAIN d.heap -> [expire : Nat, fd : Fds]] /\ DOMAIN d.heap \subseteq Signs
  BY DEF Drivers, Timers
<1>3. e \in Drivers
  <2>1. e.heap \in [timed -> [expire : Nat, fd : Fds]] /\ timed \in SUBSET Signs
    BY <1>1, <1>2
  <2>2. e.heap \in Timers
    BY <2>1 DEF Timers
  <2> QED  BY <1>1, <2>2 DEF SetTimer, Drivers
<1>4. Paired(e)
  <2> USE DriverAssumption
  <2>1. d.sign \in [Fds -> Signs \cup {NoSign}]
    BY DEF Drivers
  <2>2. ASSUME NEW t \in DOMAIN e.heap
        PROVE  e.sign[e.heap[t].fd] = t
    BY <1>1, <1>2, <2>1 DEF Paired
  <2>3. ASSUME NEW g \in Fds, e.sign[g] # NoSign
        PROVE  e.sign[g] \in DOMAIN e.heap /\ e.heap[e.sign[g]].fd = g
    BY <1>1, <1>2, <2>1, <2>3 DEF Paired, DriverAssumption
  <2> QED  BY <2>2, <2>3 DEF Paired
<1> QED  BY <1>1, <1>3, <1>4

\* The variables of the driver are such a record.
LEMMA DriverPaired ==
  ASSUME TypeOK, TimersMatch
  PROVE  Driver \in Drivers /\ Paired(Driver)
<1>1. heap \in Timers
  BY DEF TypeOK, Timers
<1> QED  BY <1>1 DEF TypeOK, TimersMatch, Driver, Drivers, Paired

\* A step that ends with a record whose timers are those of watched descriptors keeps the
\* types and the match.
LEMMA BecomesMatches ==
  ASSUME NEW d \in Drivers, Paired(d), Becomes(d),
         \A f \in Fds : d.sign[f] # NoSign => f \in d.watched
  PROVE  /\ context' \in [Fds -> Contexts \cup {Null}] /\ sign' \in [Fds -> Signs \cup {NoSign}]
         /\ DOMAIN heap' \subseteq Signs /\ heap' \in [DOMAIN heap' -> [expire : Nat, fd : Fds]]
         /\ watched' \subseteq Fds
         /\ TimersMatch'
<1>1. d.heap \in [DOMAIN d.heap -> [expire : Nat, fd : Fds]] /\ DOMAIN d.heap \subseteq Signs
  BY DEF Drivers, Timers
<1> QED  BY <1>1 DEF Becomes, Drivers, Paired, TimersMatch

-----------------------------------------------------------------------------
(* The calls that change the registration.                                 *)

LEMMA AddInv ==
  ASSUME IInv, NEW f \in Fds, NEW c \in Contexts, NEW timeo \in Timeouts, NEW ok \in BOOLEAN,
         Add(f, c, timeo, ok)
  PROVE  IInv'
<1> USE DriverAssumption
<1> DEFINE named == [Driver EXCEPT !.context[f] = c]
           added == ok /\ f \notin watched
<1>1. PICK s \in Signs \ DOMAIN heap :
        LET timed == IF HasTimeout(timeo) THEN SetTimer(named, f, s, timeo)
                     ELSE [named EXCEPT !.sign[f] = NoSign]
        IN  /\ Becomes(IF added THEN [timed EXCEPT !.watched = @ \cup {f}]
                       ELSE RegEventDel(timed, {f}))
            /\ mine' = [mine EXCEPT ![f] = IF added THEN c ELSE Null]
  BY DEF Add
<1> DEFINE timed == IF HasTimeout(timeo) THEN SetTimer(named, f, s, timeo)
                    ELSE [named EXCEPT !.sign[f] = NoSign]
           d == IF added THEN [timed EXCEPT !.watched = @ \cup {f}] ELSE RegEventDel(timed, {f})
<1>2. /\ pc \in {"idle", "batch"} /\ (Careful /\ pc = "batch" => f \notin ready)
      /\ mine[f] = Null /\ c \notin Range(mine) /\ UNCHANGED <<timeVars, loopVars>>
  BY DEF Add, MayCall
<1>3. f \notin watched /\ expired = {} /\ sign[f] = NoSign
  BY <1>2 DEF IInv, Known, TimersMatch, TypeOK
<1>4. Driver \in Drivers /\ Paired(Driver)
  BY DriverPaired DEF IInv
<1>5. /\ named \in Drivers /\ Paired(named)
      /\ named.watched = watched /\ named.sign = sign
      /\ named.context = [context EXCEPT ![f] = c]
  BY <1>4 DEF Driver, Drivers, Paired
<1>6. /\ timed \in Drivers /\ Paired(timed)
      /\ timed.watched = watched /\ timed.context = [context EXCEPT ![f] = c]
      /\ \A g \in Fds \ {f} : timed.sign[g] = sign[g]
  <2>1. CASE HasTimeout(timeo)
    <3>1. timeo \in Nat /\ cached \in Nat /\ s \notin DOMAIN named.heap
      BY <2>1 DEF HasTimeout, DriverAssumption, IInv, TypeOK, Driver
    <3> HIDE DEF named
    <3>2. /\ SetTimer(named, f, s, timeo) \in Drivers /\ Paired(SetTimer(named, f, s, timeo))
          /\ SetTimer(named, f, s, timeo).watched = watched
          /\ SetTimer(named, f, s, timeo).context = [context EXCEPT ![f] = c]
          /\ SetTimer(named, f, s, timeo).sign = [sign EXCEPT ![f] = s]
      BY <1>3, <1>5, <3>1, SetPairs
    <3> QED  BY <2>1, <3>2 DEF IInv, TypeOK
  <2>2. CASE ~HasTimeout(timeo)
    <3>1. [sign EXCEPT ![f] = NoSign] = sign
      BY <1>3 DEF IInv, TypeOK
    <3>2. [named EXCEPT !.sign[f] = NoSign] = named
      BY <1>5, <3>1 DEF Drivers
    <3> QED  BY <1>5, <2>2, <3>2
  <2> QED  BY <2>1, <2>2
<1> HIDE DEF timed, named
<1>7. /\ d \in Drivers /\ Paired(d)
      /\ d.watched = IF added THEN watched \cup {f} ELSE watched
      /\ \A g \in Fds \ {f} : d.sign[g] = sign[g] /\ d.context[g] = context[g]
      /\ added => d.context[f] = c
      /\ ~added => d.sign[f] = NoSign
  <2>0. timed.context \in [Fds -> Contexts \cup {Null}] /\ context \in [Fds -> Contexts \cup {Null}]
    BY <1>6 DEF IInv, TypeOK, Drivers
  <2>1. CASE added
    <3>1. [timed EXCEPT !.watched = @ \cup {f}] \in Drivers
      BY <1>6 DEF Drivers
    <3>2. Paired([timed EXCEPT !.watched = @ \cup {f}])
      BY <1>6 DEF Paired, Drivers
    <3>3. /\ [timed EXCEPT !.watched = @ \cup {f}].watched = watched \cup {f}
          /\ [timed EXCEPT !.watched = @ \cup {f}].sign = timed.sign
          /\ [timed EXCEPT !.watched = @ \cup {f}].context = timed.context
      BY <1>6 DEF Drivers
    <3> QED  BY <1>6, <2>0, <2>1, <3>1, <3>2, <3>3
  <2>2. CASE ~added
    <3> HIDE DEF added
    <3>1. d = RegEventDel(timed, {f})
      BY <2>2
    <3> HIDE DEF d
    <3>2. /\ d \in Drivers /\ Paired(d) /\ d.watched = watched \ {f}
          /\ d.context = [g \in Fds |-> IF g \in {f} \cap timed.watched THEN Null
                                        ELSE timed.context[g]]
          /\ d.sign = [g \in Fds |-> IF g \in {f} THEN NoSign ELSE timed.sign[g]]
      <4>1. timed \in Drivers /\ Paired(timed) /\ {f} \in SUBSET Fds /\ timed.watched = watched
        BY <1>6
      <4>2. LET e == RegEventDel(timed, {f})
            IN  /\ e \in Drivers /\ Paired(e) /\ e.watched = timed.watched \ {f}
                /\ e.context = [g \in Fds |-> IF g \in {f} \cap timed.watched THEN Null
                                              ELSE timed.context[g]]
                /\ e.sign = [g \in Fds |-> IF g \in {f} THEN NoSign ELSE timed.sign[g]]
        BY <4>1, DelPairs
      <4> QED  BY <3>1, <4>1, <4>2
    <3>3. \A g \in Fds \ {f} : d.sign[g] = sign[g] /\ d.context[g] = context[g]
      BY <1>6, <2>0, <3>2
    <3> QED  BY <1>3, <2>2, <3>2, <3>3
  <2> QED  BY <2>1, <2>2
<1>8. Becomes(d) /\ mine' = [mine EXCEPT ![f] = IF added THEN c ELSE Null]
  BY <1>1 DEF timed, named
<1> HIDE DEF d
<1>9. \A g \in Fds : d.sign[g] # NoSign => g \in d.watched
  BY <1>3, <1>7 DEF IInv, TimersMatch
<1>10. TypeOK' /\ TimersMatch'
  <2>1. mine' \in [Fds -> Contexts \cup {Null}]
    BY <1>8 DEF IInv, TypeOK
  <2>2. /\ context' \in [Fds -> Contexts \cup {Null}] /\ sign' \in [Fds -> Signs \cup {NoSign}]
        /\ DOMAIN heap' \subseteq Signs /\ heap' \in [DOMAIN heap' -> [expire : Nat, fd : Fds]]
        /\ watched' \subseteq Fds /\ TimersMatch'
    BY <1>7, <1>8, <1>9, BecomesMatches
  <2> QED  BY <1>2, <2>1, <2>2 DEF IInv, TypeOK, timeVars, loopVars
<1>11. context' = d.context /\ watched' = d.watched
  BY <1>8 DEF Becomes
<1>12. mine \in [Fds -> Contexts \cup {Null}] /\ Range(mine) = {mine[g] : g \in Fds}
  BY DEF IInv, TypeOK, Range
<1>13. Known'
  <2>1. pc' = pc /\ expired' = {}
    BY <1>2, <1>3 DEF loopVars
  <2>2. ASSUME NEW g \in watched'
        PROVE  mine'[g] # Null /\ context'[g] = mine'[g]
    <3>1. watched \subseteq Fds /\ c # Null
      BY DEF IInv, TypeOK
    <3>2. CASE g = f
      BY <1>3, <1>7, <1>8, <1>11, <1>12, <3>1, <3>2
    <3>3. CASE g # f
      BY <1>7, <1>8, <1>11, <1>12, <3>1, <3>3 DEF IInv, Known
    <3> QED  BY <3>2, <3>3
  <2>3. ASSUME NEW g \in Fds, mine'[g] # Null
        PROVE  g \in watched'
    BY <1>2, <1>3, <1>7, <1>8, <1>11, <1>12, <2>3 DEF IInv, Known
  <2> QED  BY <2>1, <2>2, <2>3 DEF Known
<1>14. Distinct'
  BY <1>2, <1>8, <1>12 DEF IInv, Distinct
<1>15. Handles'
  BY <1>2, <1>7, <1>11 DEF IInv, Handles, loopVars
<1> QED  BY <1>10, <1>13, <1>14, <1>15 DEF IInv

LEMMA ModInv ==
  ASSUME IInv, NEW f \in Fds, NEW timeo \in Timeouts, NEW ok \in BOOLEAN, Mod(f, timeo, ok)
  PROVE  IInv'
<1> USE DriverAssumption
<1> DEFINE modified == ok /\ f \in watched
<1>1. PICK s \in IF sign[f] # NoSign THEN {sign[f]} ELSE Signs \ DOMAIN heap :
        LET timed == IF HasTimeout(timeo) THEN SetTimer(Driver, f, s, timeo) ELSE Driver
        IN  /\ Becomes(IF modified THEN timed ELSE RegEventDel(timed, {f}))
            /\ mine' = IF modified THEN mine ELSE [mine EXCEPT ![f] = Null]
  BY DEF Mod
<1> DEFINE timed == IF HasTimeout(timeo) THEN SetTimer(Driver, f, s, timeo) ELSE Driver
           d == IF modified THEN timed ELSE RegEventDel(timed, {f})
<1>2. /\ pc \in {"idle", "batch"} /\ (Careful /\ pc = "batch" => f \notin ready)
      /\ mine[f] # Null /\ UNCHANGED <<timeVars, loopVars>>
  BY DEF Mod, MayCall
<1>3. f \in watched /\ expired = {}
  BY <1>2 DEF IInv, Known
<1>4. Driver \in Drivers /\ Paired(Driver)
  BY DriverPaired DEF IInv
<1>5. Driver.watched = watched /\ Driver.context = context /\ Driver.sign = sign
  BY DEF Driver
<1>6. /\ timed \in Drivers /\ Paired(timed)
      /\ timed.watched = watched /\ timed.context = context
      /\ \A g \in Fds \ {f} : timed.sign[g] = sign[g]
  <2>1. CASE HasTimeout(timeo)
    <3>1. timeo \in Nat /\ cached \in Nat
      BY <2>1 DEF HasTimeout, DriverAssumption, IInv, TypeOK
    <3>2. /\ s \in Signs
          /\ Driver.sign[f] = s \/ (Driver.sign[f] = NoSign /\ s \notin DOMAIN Driver.heap)
      BY DEF IInv, TypeOK, Driver
    <3>3. /\ SetTimer(Driver, f, s, timeo) \in Drivers /\ Paired(SetTimer(Driver, f, s, timeo))
          /\ SetTimer(Driver, f, s, timeo).watched = watched
          /\ SetTimer(Driver, f, s, timeo).context = context
          /\ SetTimer(Driver, f, s, timeo).sign = [sign EXCEPT ![f] = s]
      BY <1>4, <1>5, <3>1, <3>2, SetPairs
    <3> QED  BY <2>1, <3>3 DEF IInv, TypeOK
  <2>2. CASE ~HasTimeout(timeo)
    BY <1>4, <1>5, <2>2
  <2> QED  BY <2>1, <2>2
<1> HIDE DEF timed
<1>7. /\ d \in Drivers /\ Paired(d)
      /\ d.watched = IF modified THEN watched ELSE watched \ {f}
      /\ \A g \in Fds \ {f} : d.sign[g] = sign[g] /\ d.context[g] = context[g]
      /\ modified => d.context[f] = context[f]
      /\ ~modified => d.sign[f] = NoSign
  <2>1. CASE modified
    BY <1>6, <2>1
  <2>2. CASE ~modified
    <3>1. /\ d = RegEventDel(timed, {f})
          /\ d \in Drivers /\ Paired(d) /\ d.watched = watched \ {f}
          /\ d.context = [g \in Fds |-> IF g \in {f} \cap watched THEN Null ELSE timed.context[g]]
          /\ d.sign = [g \in Fds |-> IF g \in {f} THEN NoSign ELSE timed.sign[g]]
      BY <1>6, <2>2, DelPairs
    <3> QED  BY <1>6, <2>2, <3>1
  <2> QED  BY <2>1, <2>2
<1>8. Becomes(d) /\ mine' = IF modified THEN mine ELSE [mine EXCEPT ![f] = Null]
  BY <1>1 DEF timed
<1> HIDE DEF d
<1>9. \A g \in Fds : d.sign[g] # NoSign => g \in d.watched
  BY <1>3, <1>7 DEF IInv, TimersMatch
<1>10. TypeOK' /\ TimersMatch'
  <2>1. mine' \in [Fds -> Contexts \cup {Null}]
    BY <1>8 DEF IInv, TypeOK
  <2>2. /\ context' \in [Fds -> Contexts \cup {Null}] /\ sign' \in [Fds -> Signs \cup {NoSign}]
        /\ DOMAIN heap' \subseteq Signs /\ heap' \in [DOMAIN heap' -> [expire : Nat, fd : Fds]]
        /\ watched' \subseteq Fds /\ TimersMatch'
    BY <1>7, <1>8, <1>9, BecomesMatches
  <2> QED  BY <1>2, <2>1, <2>2 DEF IInv, TypeOK, timeVars, loopVars
<1>11. context' = d.context /\ watched' = d.watched
  BY <1>8 DEF Becomes
<1>12. mine \in [Fds -> Contexts \cup {Null}]
  BY DEF IInv, TypeOK
<1>13. Known'
  <2>1. pc' = pc /\ expired' = {}
    BY <1>2, <1>3 DEF loopVars
  <2>2. ASSUME NEW g \in watched'
        PROVE  mine'[g] # Null /\ context'[g] = mine'[g]
    <3>1. watched \subseteq Fds
      BY DEF IInv, TypeOK
    <3> QED  BY <1>7, <1>8, <1>11, <1>12, <3>1 DEF IInv, Known
  <2>3. ASSUME NEW g \in Fds, mine'[g] # Null
        PROVE  g \in watched'
    BY <1>2, <1>3, <1>7, <1>8, <1>11, <1>12, <2>3 DEF IInv, Known
  <2> QED  BY <2>1, <2>2, <2>3 DEF Known
<1>14. Distinct'
  BY <1>8, <1>12 DEF IInv, Distinct
<1>15. Handles'
  BY <1>2, <1>7, <1>11 DEF IInv, Handles, loopVars
<1> QED  BY <1>10, <1>13, <1>14, <1>15 DEF IInv

\* RegEventDel of some descriptors, as a step: signs and types are kept, and nothing else
\* loses its context.
LEMMA DelStep ==
  ASSUME IInv, NEW F \in SUBSET Fds, Becomes(RegEventDel(Driver, F))
  PROVE  /\ context' \in [Fds -> Contexts \cup {Null}] /\ sign' \in [Fds -> Signs \cup {NoSign}]
         /\ DOMAIN heap' \subseteq Signs /\ heap' \in [DOMAIN heap' -> [expire : Nat, fd : Fds]]
         /\ TimersMatch'
         /\ watched' = watched \ F
         /\ \A f \in Fds \ F : context'[f] = context[f]
<1> DEFINE d == RegEventDel(Driver, F)
<1>1. Driver \in Drivers /\ Paired(Driver) /\ Driver.watched = watched
      /\ Driver.context = context /\ Driver.sign = sign
  BY DriverPaired DEF IInv, Driver
<1>2. /\ d \in Drivers /\ Paired(d)
      /\ d.watched = Driver.watched \ F
      /\ d.context = [f \in Fds |-> IF f \in F \cap Driver.watched THEN Null
                                    ELSE Driver.context[f]]
      /\ d.sign = [f \in Fds |-> IF f \in F THEN NoSign ELSE Driver.sign[f]]
  BY <1>1, DelPairs
<1> HIDE DEF d
<1>3. Becomes(d)
  BY DEF d
<1>4. \A f \in Fds : d.sign[f] # NoSign => f \in d.watched
  BY <1>1, <1>2 DEF IInv, TimersMatch
<1>5. /\ context' \in [Fds -> Contexts \cup {Null}] /\ sign' \in [Fds -> Signs \cup {NoSign}]
      /\ DOMAIN heap' \subseteq Signs /\ heap' \in [DOMAIN heap' -> [expire : Nat, fd : Fds]]
      /\ TimersMatch'
  BY <1>2, <1>3, <1>4, BecomesMatches
<1> QED  BY <1>1, <1>2, <1>3, <1>5 DEF Becomes

\* The second call of RegEventDel that kDelEvent leads to finds nothing to do.
LEMMA DelTwice ==
  ASSUME IInv, NEW f \in Fds
  PROVE  RegEventDel(RegEventDel(Driver, {f}), {f}) = RegEventDel(Driver, {f})
<1> USE DriverAssumption
<1> DEFINE d == RegEventDel(Driver, {f})
           e == RegEventDel(d, {f})
<1>1. Driver \in Drivers /\ Paired(Driver)
  BY DriverPaired DEF IInv
<1>2. /\ d \in Drivers
      /\ d.watched = Driver.watched \ {f}
      /\ d.sign = [g \in Fds |-> IF g \in {f} THEN NoSign ELSE Driver.sign[g]]
  <2>1. {f} \in SUBSET Fds
    OBVIOUS
  <2> HIDE DEF d
  <2>2. d = RegEventDel(Driver, {f})
    BY DEF d
  <2> QED  BY <1>1, <2>1, <2>2, DelPairs
<1> HIDE DEF d
<1>3. /\ d.context \in [Fds -> Contexts \cup {Null}] /\ d.sign \in [Fds -> Signs \cup {NoSign}]
      /\ DOMAIN d.heap \subseteq Signs /\ d.heap = [s \in DOMAIN d.heap |-> d.heap[s]]
  BY <1>2 DEF Drivers, Timers
<1>4. f \notin d.watched /\ d.sign[f] = NoSign
  BY <1>2
<1>5. {d.sign[g] : g \in {f}} = {NoSign}
  BY <1>4
<1>6. [g \in Fds |-> IF g \in {f} \cap d.watched THEN Null ELSE d.context[g]] = d.context
  BY <1>3, <1>4
<1>7. [g \in Fds |-> IF g \in {f} THEN NoSign ELSE d.sign[g]] = d.sign
  BY <1>3, <1>4
<1>8. DOMAIN d.heap \ {d.sign[g] : g \in {f}} = DOMAIN d.heap
  BY <1>3, <1>5 DEF DriverAssumption
<1>9. Restrict(d.heap, DOMAIN d.heap \ {d.sign[g] : g \in {f}}) = d.heap
  BY <1>3, <1>8 DEF Restrict
<1>10. d.watched \ {f} = d.watched
  BY <1>4
<1>11. e = [d EXCEPT !.context = d.context, !.sign = d.sign, !.heap = d.heap,
                     !.watched = d.watched]
  BY <1>6, <1>7, <1>9, <1>10 DEF RegEventDel
<1> QED  BY <1>2, <1>11 DEF d, Drivers

LEMMA DelInv ==
  ASSUME IInv, NEW f \in Fds, Del(f)
  PROVE  IInv'
<1>1. /\ pc \in {"idle", "batch"} /\ (Careful /\ pc = "batch" => f \notin ready)
      /\ mine' = [mine EXCEPT ![f] = Null] /\ UNCHANGED <<timeVars, loopVars>>
  BY DEF Del, MayCall
<1>2. Becomes(RegEventDel(Driver, {f}))
  BY DelTwice DEF Del
<1>3. /\ context' \in [Fds -> Contexts \cup {Null}] /\ sign' \in [Fds -> Signs \cup {NoSign}]
      /\ DOMAIN heap' \subseteq Signs /\ heap' \in [DOMAIN heap' -> [expire : Nat, fd : Fds]]
      /\ TimersMatch'
      /\ watched' = watched \ {f}
      /\ \A g \in Fds \ {f} : context'[g] = context[g]
  BY <1>2, DelStep
<1>4. TypeOK'
  BY <1>1, <1>3 DEF IInv, TypeOK, timeVars, loopVars
<1>5. Known'
  BY <1>1, <1>3 DEF IInv, TypeOK, Known, loopVars
<1>6. Distinct'
  BY <1>1 DEF IInv, TypeOK, Distinct
<1>7. Handles'
  BY <1>1, <1>3 DEF IInv, Handles, loopVars
<1> QED  BY <1>3, <1>4, <1>5, <1>6, <1>7 DEF IInv

LEMMA ClearAllInv ==
  ASSUME IInv, ClearAll
  PROVE  IInv'
<1> DEFINE named == {f \in Fds : context[f] # Null}
           all == {context[f] : f \in named}
<1>1. /\ pc = "idle" /\ Becomes(RegEventDel(Driver, named)) /\ named \in SUBSET Fds
      /\ mine' = [f \in Fds |-> IF mine[f] \in all THEN Null ELSE mine[f]]
      /\ pc' \in {"idle", "gone"} /\ UNCHANGED <<timeVars, until, ready, expired>>
  BY DEF ClearAll
<1>2. \A f \in watched : f \in named /\ mine[f] \in all
  BY DEF IInv, TypeOK, Known
<1>3. \A f \in Fds : mine'[f] = Null
  BY <1>1, <1>2 DEF IInv, Known
<1> HIDE DEF named
<1>4. /\ context' \in [Fds -> Contexts \cup {Null}] /\ sign' \in [Fds -> Signs \cup {NoSign}]
      /\ DOMAIN heap' \subseteq Signs /\ heap' \in [DOMAIN heap' -> [expire : Nat, fd : Fds]]
      /\ TimersMatch'
      /\ watched' = watched \ named
  BY <1>1, DelStep
<1>5. watched' = {}
  BY <1>2, <1>4
<1>6. mine' \in [Fds -> Contexts \cup {Null}]
  BY <1>1 DEF IInv, TypeOK
<1>7. TypeOK'
  BY <1>1, <1>4, <1>5, <1>6 DEF IInv, TypeOK, timeVars
<1>8. Known' /\ Distinct' /\ Handles'
  BY <1>1, <1>3, <1>5 DEF IInv, Known, Distinct, Handles
<1> QED  BY <1>4, <1>7, <1>8 DEF IInv

LEMMA RemoveFirstInv ==
  ASSUME IInv, RemoveFirst
  PROVE  IInv'
<1>1. PICK s \in DOMAIN heap : /\ Becomes(RegEventDel(Driver, {heap[s].fd}))
                               /\ expired' = expired \cup ({context[heap[s].fd]} \ {Null})
  BY DEF RemoveFirst
<1>2. pc = "timeouts" /\ UNCHANGED <<timeVars, pc, until, ready, mine>>
  BY DEF RemoveFirst
<1> DEFINE f == heap[s].fd
<1>3. f \in Fds /\ s \in Signs
  BY DEF IInv, TypeOK
<1>4. f \in watched
  BY <1>3, DriverAssumption DEF IInv, TimersMatch, DriverAssumption
<1>5. context[f] = mine[f] /\ mine[f] # Null /\ mine[f] \in Contexts
  BY <1>3, <1>4 DEF IInv, TypeOK, Known
<1> HIDE DEF f
<1>6. Becomes(RegEventDel(Driver, {f})) /\ expired' = expired \cup {mine[f]}
  BY <1>1, <1>5 DEF f
<1>7. /\ context' \in [Fds -> Contexts \cup {Null}] /\ sign' \in [Fds -> Signs \cup {NoSign}]
      /\ DOMAIN heap' \subseteq Signs /\ heap' \in [DOMAIN heap' -> [expire : Nat, fd : Fds]]
      /\ TimersMatch'
      /\ watched' = watched \ {f}
      /\ \A g \in Fds \ {f} : context'[g] = context[g]
  BY <1>3, <1>6, DelStep
<1>8. TypeOK'
  BY <1>2, <1>5, <1>6, <1>7 DEF IInv, TypeOK, timeVars
<1>9. Known'
  <2>1. \A g \in watched' : mine[g] # Null /\ context'[g] = mine[g] /\ mine[g] \notin expired
    BY <1>7 DEF IInv, TypeOK, Known
  <2>2. \A g \in watched' : mine[g] # mine[f]
    BY <1>3, <1>5, <1>7 DEF IInv, TypeOK, Distinct
  <2>3. \A g \in Fds : mine[g] # Null /\ g \notin watched' => mine[g] \in expired'
    BY <1>6, <1>7 DEF IInv, Known
  <2> QED  BY <1>2, <1>6, <2>1, <2>2, <2>3 DEF Known
<1>10. Distinct' /\ Handles'
  BY <1>2, <1>7 DEF IInv, Distinct, Handles
<1> QED  BY <1>7, <1>8, <1>9, <1>10 DEF IInv

-----------------------------------------------------------------------------
(* The loop.                                                               *)

LEMMA WaitInv ==
  ASSUME IInv, NEW timeo \in Timeouts, Wait(timeo)
  PROVE  IInv'
<1>1. timeo \in Int /\ clock \in Nat /\ cached \in Nat
  BY DriverAssumption DEF DriverAssumption, IInv, TypeOK
<1>2. TimeToWait(timeo) \in Int
  BY <1>1, FirstIsTime DEF TimeToWait, Least, IInv
<1>3. until' \in Nat \cup {Forever}
  BY <1>1, <1>2 DEF Wait
<1>4. pc = "idle" /\ pc' = "sleep" /\ UNCHANGED <<driverVars, timeVars, ready, expired, mine>>
  BY DEF Wait
<1>5. TypeOK' /\ TimersMatch'
  BY <1>3, <1>4 DEF IInv, TypeOK, TimersMatch, driverVars, timeVars
<1> QED  BY <1>4, <1>5 DEF IInv, Known, Distinct, Handles, driverVars

LEMMA WokenInv ==
  ASSUME IInv, NEW events \in SUBSET watched, Woken(events)
  PROVE  IInv'
<1>1. /\ pc = "sleep" /\ ready' = events /\ cached' = clock /\ until' = Forever /\ pc' = "batch"
      /\ UNCHANGED <<driverVars, clock, expired, mine>>
  BY DEF Woken
<1>2. TypeOK' /\ TimersMatch'
  BY <1>1, DriverAssumption DEF DriverAssumption, IInv, TypeOK, TimersMatch, driverVars
<1> QED  BY <1>1, <1>2 DEF IInv, Known, Distinct, Handles, driverVars

LEMMA LoopInv ==
  ASSUME IInv,
         \/ WaitsForEvents \/ EpollFinds \/ EpollTimesOut \/ EpollInterrupted
         \/ ChecksEvents \/ RemoveTimeouts \/ Tick \/ UNCHANGED vars
  PROVE  IInv'
<1>1. CASE WaitsForEvents
  BY <1>1, WaitInv DEF WaitsForEvents
<1>2. CASE EpollFinds
  BY <1>2, WokenInv DEF EpollFinds
<1>3. CASE EpollTimesOut \/ EpollInterrupted
  BY <1>3, WokenInv DEF EpollTimesOut, EpollInterrupted
<1>4. CASE ChecksEvents
  <2>1. PICK f \in Fds : CheckReadyEvent(f)
    BY <1>4 DEF ChecksEvents
  <2> QED  BY <2>1 DEF CheckReadyEvent, IInv, TypeOK, TimersMatch, Known, Distinct, Handles,
                       driverVars, timeVars
<1>5. CASE RemoveTimeouts
  BY <1>5 DEF RemoveTimeouts, IInv, TypeOK, TimersMatch, Known, Distinct, Handles,
              driverVars, timeVars
<1>6. CASE Tick
  <2>1. clock' \in 0..MaxTime /\ cached' \in 0..clock'
    BY <1>6, DriverAssumption DEF Tick, DriverAssumption, IInv, TypeOK
  <2> QED  BY <1>6, <2>1 DEF Tick, IInv, TypeOK, TimersMatch, Known, Distinct, Handles,
                             driverVars, loopVars
<1>7. CASE UNCHANGED vars
  BY <1>7 DEF vars, IInv, TypeOK, TimersMatch, Known, Distinct, Handles,
              driverVars, timeVars, loopVars
<1> QED  BY <1>1, <1>2, <1>3, <1>4, <1>5, <1>6, <1>7

LEMMA ReturnsInv ==
  ASSUME IInv, RemoveTimeoutsReturns
  PROVE  IInv'
<1>1. /\ pc = "timeouts" /\ expired' = {} /\ pc' = IF ready = {} THEN "idle" ELSE "batch"
      /\ mine' = [f \in Fds |-> IF mine[f] \in expired THEN Null ELSE mine[f]]
      /\ UNCHANGED <<driverVars, timeVars, until, ready>>
  BY DEF RemoveTimeoutsReturns
<1>2. TypeOK' /\ TimersMatch'
  BY <1>1 DEF IInv, TypeOK, TimersMatch, driverVars, timeVars
<1>3. Known'
  BY <1>1 DEF IInv, TypeOK, Known, driverVars
<1>4. Distinct' /\ Handles'
  BY <1>1 DEF IInv, Distinct, Handles, driverVars
<1> QED  BY <1>2, <1>3, <1>4 DEF IInv

\* The invariant holds at the start, and every step keeps it.
LEMMA Invariance == Spec => []IInv
<1>1. Init => IInv
  BY DriverAssumption DEF DriverAssumption, Init, IInv, TypeOK, TimersMatch, Known, Distinct,
                          Handles, Forever
<1>2. IInv /\ [Next]_vars => IInv'
  <2> SUFFICES ASSUME IInv, [Next]_vars PROVE IInv'
    OBVIOUS
  <2>1. CASE Register
    BY <2>1, AddInv, ModInv, DelInv DEF Register
  <2>2. CASE ClearAll
    BY <2>2, ClearAllInv
  <2>3. CASE RemoveFirst
    BY <2>3, RemoveFirstInv
  <2>4. CASE RemoveTimeoutsReturns
    BY <2>4, ReturnsInv
  <2> QED  BY <2>1, <2>2, <2>3, <2>4, LoopInv DEF Next
<1> QED  BY <1>1, <1>2, PTL DEF Spec

-----------------------------------------------------------------------------

\* The timers in the heap and the signs in the table are each other's, and the types hold:
\* no sign is used after the heap has given it away, and no timer is left that RemoveTimeouts
\* could not take out.
THEOREM TimersKept == Spec => []WellFormed
<1>1. IInv => WellFormed
  BY DEF IInv, WellFormed
<1> QED  BY <1>1, Invariance, PTL

\* What the client believes to be registered is watched, with its context, whatever
\* calls failed and whatever timeouts were reported.
THEOREM Agreement == Spec => []InStep
<1>1. IInv => InStep
  <2> SUFFICES ASSUME IInv, pc # "timeouts"
               PROVE  watched = {f \in Fds : mine[f] # Null} /\ \A f \in watched : context[f] = mine[f]
    BY DEF InStep
  <2>1. watched \subseteq Fds
    BY DEF IInv, TypeOK
  <2> QED  BY <2>1 DEF IInv, Known
<1> QED  BY <1>1, Invariance, PTL

\* CheckReadyEvent finds a context for whatever is ready, if the client does not change
\* what is left of a batch.
THEOREM Handled == ASSUME Careful PROVE Spec => []ReadyHasContext
<1>1. IInv => ReadyHasContext
  BY DEF IInv, TypeOK, Handles, Known, ReadyHasContext
<1> QED  BY <1>1, Invariance, PTL
=============================================================================
