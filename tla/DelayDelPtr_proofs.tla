------------------------- MODULE DelayDelPtr_proofs -------------------------
(***************************************************************************)
(* Proof that the object a reader has got without a lock is not deleted    *)
(* within the delay, less the wait of the writer that replaced it, and that *)
(* every object has one owner.                                             *)
(***************************************************************************)
EXTENDS DelayDelPtr, TLAPS

\* Clocks: no writer has read a time, and no reader got an object, that is to come.
Times ==
  /\ \A w \in Writers : wtime[w] <= now
  /\ \A r \in Readers : gotAt[r] <= now

\* A writer has an object in hand until it has put it in place.
InHand == \A w \in Writers : wpc[w] \in {"lock", "swap"} <=> wobj[w] # NoObj

\* Why SafeToUse holds: what a reader has got is still current, or it was retired
\* after the reader got it, under a time that is older by the wait of the writer.
Kept(r) ==
  \/ got[r] = obj
  \/ \E e \in retired : e.obj = got[r] /\ e.time + late[e.obj] >= gotAt[r]
Relied(r) == rpc[r] = "current" /\ got[r] # NoObj /\ now + late[got[r]] <= gotAt[r] + Delay
Held == \A r \in Readers : Relied(r) => Kept(r)

Inv == TypeOK /\ Owned /\ Times /\ InHand /\ Held

USE PointerAssumption

\* The strengthened invariant holds of a new pointer.
LEMMA InitInv == Init => Inv
<1> SUFFICES ASSUME Init PROVE Inv
  OBVIOUS
<1>1. TypeOK
  BY DEF Init, TypeOK, Latest
<1>2. Owned
  BY DEF Init, Owned
<1>3. Times /\ InHand /\ Held
  BY DEF Init, Times, InHand, Held, Relied
<1> QED  BY <1>1, <1>2, <1>3 DEF Inv

\* A new object is in the hands of one writer, and nowhere else.
LEMMA ChangeInv == ASSUME Inv, NEW w \in Writers, Change(w) PROVE Inv'
<1>1. PICK o \in Objects \ live :
        wobj' = [wobj EXCEPT ![w] = o] /\ live' = live \cup {o}
  BY DEF Change
<1>2. TypeOK /\ Owned /\ wpc[w] = "idle" /\ wobj[w] = NoObj /\ o # NoObj
  BY DEF Change, Inv, InHand
<1>3. TypeOK'
  BY <1>1, <1>2 DEF Change, historyVars, pointerVars, readerVars, TypeOK
<1>4. Owned'
  <2>1. /\ o # obj
        /\ \A e \in retired : e.obj # o
        /\ \A x \in Writers : wobj[x] # o
    BY <1>1, <1>2 DEF Owned
  <2>2. \A x \in Writers : wobj'[x] = IF x = w THEN o ELSE wobj[x]
    BY <1>1, <1>2 DEF TypeOK
  <2>3. obj' = obj /\ retired' = retired
    BY DEF Change, historyVars, pointerVars
  <2>4. {wobj'[x] : x \in Writers} \ {NoObj} = ({wobj[x] : x \in Writers} \cup {o}) \ {NoObj}
    BY <1>2, <2>2
  <2>5. live' = ({obj} \cup {e.obj : e \in retired} \cup {wobj'[x] : x \in Writers}) \ {NoObj}
    BY <1>1, <1>2, <2>4 DEF Owned
  <2> QED  BY <1>2, <2>1, <2>2, <2>3, <2>5 DEF Owned
<1>5. Times' /\ InHand'
  BY <1>1, <1>2 DEF Change, historyVars, readerVars, Inv, Times, InHand, TypeOK
<1>6. Held'
  BY DEF Change, historyVars, pointerVars, readerVars, Inv, Held, Relied, Kept
<1> QED  BY <1>3, <1>4, <1>5, <1>6 DEF Inv

\* What has expired was got too long ago for a reader still to rely on it.
LEMMA LockAndDeleteInv == ASSUME Inv, NEW w \in Writers, LockAndDelete(w) PROVE Inv'
<1> DEFINE old == {e \in retired : Expired(e, wtime[w])}
<1>1. /\ retired' = retired \ old /\ live' = live \ {e.obj : e \in old}
      /\ obj' = obj /\ wobj' = wobj /\ wpc[w] = "lock" /\ TypeOK /\ Owned /\ Times
  BY DEF LockAndDelete, Inv
<1>2. old \subseteq retired
  OBVIOUS
<1>3. TypeOK'
  BY <1>1 DEF LockAndDelete, historyVars, readerVars, TypeOK
<1>4. Owned'
  <2>1. \A e \in old : /\ e.obj # obj
                       /\ \A f \in retired \ old : e.obj # f.obj
                       /\ \A x \in Writers : wobj[x] # NoObj => wobj[x] # e.obj
    BY <1>1, <1>2 DEF Owned
  <2>2. live' = ({obj} \cup {e.obj : e \in retired \ old} \cup {wobj[x] : x \in Writers}) \ {NoObj}
    <3>1. \A e \in retired : e.obj # NoObj
      BY <1>1 DEF TypeOK, Entries
    <3> HIDE DEF old
    <3> QED  BY <1>1, <1>2, <2>1, <3>1 DEF Owned
  <2> QED  BY <1>1, <2>2 DEF Owned
<1>5. Times' /\ InHand'
  BY <1>1 DEF LockAndDelete, historyVars, readerVars, Inv, Times, InHand, TypeOK
<1>6. Held'
  <2> SUFFICES ASSUME NEW r \in Readers, Relied(r)' PROVE Kept(r)'
    BY DEF Held
  <2>1. UNCHANGED <<readerVars, now, late>>
    BY DEF LockAndDelete, historyVars
  <2>2. Relied(r) /\ Kept(r)
    BY <2>1 DEF Relied, Inv, Held, readerVars
  <2>3. CASE got[r] = obj
    BY <1>1, <2>1, <2>3 DEF Kept, historyVars, readerVars
  <2>4. CASE \E e \in retired : e.obj = got[r] /\ e.time + late[e.obj] >= gotAt[r]
    <3>1. PICK e \in retired : e.obj = got[r] /\ e.time + late[e.obj] >= gotAt[r]
      BY <2>4
    <3>2. /\ wtime[w] \in Nat /\ gotAt[r] \in Nat /\ e.time \in Nat /\ late[got[r]] \in Nat
          /\ now \in Nat /\ wtime[w] <= now /\ now + late[got[r]] <= gotAt[r] + Delay
      BY <1>1, <2>2, <3>1 DEF Times, TypeOK, Entries, Relied
    <3>3. e \notin old
      BY <3>1, <3>2 DEF Expired
    <3> QED  BY <1>1, <2>1, <3>1, <3>3 DEF Kept, readerVars
  <2> QED  BY <2>2, <2>3, <2>4 DEF Kept
<1> QED  BY <1>3, <1>4, <1>5, <1>6 DEF Inv

\* The object that is replaced goes to the map with the time that the writer has read,
\* which is older by its wait.
LEMMA SwapInv == ASSUME Inv, NEW w \in Writers, Swap(w) PROVE Inv'
<1> DEFINE new == [ver |-> version, obj |-> obj, time |-> wtime[w]]
<1>1. /\ obj' = wobj[w] /\ wobj[w] # NoObj /\ wobj[w] \in Objects
      /\ live' = live /\ wobj' = [wobj EXCEPT ![w] = NoObj]
      /\ wpc[w] = "swap" /\ wtime[w] <= now /\ wtime[w] \in Nat /\ now \in Nat
      /\ late' = IF obj # NoObj THEN [late EXCEPT ![obj] = now - wtime[w]] ELSE late
      /\ retired' = IF obj # NoObj THEN retired \cup {new} ELSE retired
      /\ TypeOK /\ Owned
  BY DEF Swap, Inv, InHand, Times, TypeOK
<1>2. /\ obj # NoObj => new \in Entries
      /\ new.obj = obj /\ new.time = wtime[w]
  BY <1>1 DEF TypeOK, Entries
<1> HIDE DEF new
<1>3. TypeOK'
  <2>1. wpc' \in [Writers -> {"idle", "lock", "swap", "bump", "gone"}] /\ locked' \in BOOLEAN
    BY <1>1 DEF Swap, TypeOK
  <2>2. installed' \in [Objects -> Nat] /\ late' \in [Objects -> Nat]
    BY <1>1 DEF Swap, TypeOK
  <2>3. wobj' \in [Writers -> Objects \cup {NoObj}] /\ retired' \subseteq Entries
    BY <1>1, <1>2 DEF TypeOK
  <2> QED  BY <1>1, <2>1, <2>2, <2>3 DEF Swap, historyVars, readerVars, TypeOK
<1>4. Owned'
  <2>1. \A x \in Writers : wobj'[x] = IF x = w THEN NoObj ELSE wobj[x]
    BY <1>1 DEF TypeOK
  <2>2. {wobj[x] : x \in Writers} \ {NoObj} = ({wobj'[x] : x \in Writers} \cup {wobj[w]}) \ {NoObj}
    BY <2>1
  <2>3. {e.obj : e \in retired'} \ {NoObj} = ({e.obj : e \in retired} \cup {obj}) \ {NoObj}
    <3>1. CASE obj = NoObj
      BY <1>1, <3>1
    <3>2. CASE obj # NoObj
      BY <1>1, <1>2, <3>2
    <3> QED  BY <3>1, <3>2
  <2>4. live' = ({obj'} \cup {e.obj : e \in retired'} \cup {wobj'[x] : x \in Writers}) \ {NoObj}
    BY <1>1, <2>2, <2>3 DEF Owned
  <2>5. \A e \in retired' : e.obj # obj' /\ \A f \in retired' : e.obj = f.obj => e = f
    BY <1>1, <1>2 DEF Owned
  <2>6. \A x \in Writers : wobj'[x] # NoObj =>
          /\ wobj'[x] # obj' /\ \A e \in retired' : wobj'[x] # e.obj
          /\ \A y \in Writers : wobj'[x] = wobj'[y] => x = y
    BY <1>1, <1>2, <2>1 DEF Owned
  <2> QED  BY <2>4, <2>5, <2>6 DEF Owned
<1>5. Times' /\ InHand'
  <2>1. \A x \in Writers : wpc'[x] \in {"lock", "swap"} => x # w /\ wpc[x] \in {"lock", "swap"}
    BY <1>1 DEF Swap, TypeOK
  <2>2. \A x \in Writers : x # w => wpc'[x] = wpc[x]
    BY <1>1 DEF Swap, TypeOK
  <2>3. Times'
    BY <1>1, <2>1 DEF Swap, historyVars, readerVars, Inv, Times
  <2>4. InHand'
    BY <1>1, <2>1, <2>2 DEF Inv, InHand, TypeOK
  <2> QED  BY <2>3, <2>4
<1>6. Held'
  <2> SUFFICES ASSUME NEW r \in Readers, Relied(r)' PROVE Kept(r)'
    BY DEF Held
  <2>1. /\ UNCHANGED <<readerVars, now>> /\ got[r] \in Objects
        /\ gotAt[r] \in Nat /\ gotAt[r] <= now
    BY <1>1 DEF Swap, Relied, readerVars, Inv, Times, TypeOK
  <2>2. CASE got[r] = obj
    <3>1. new \in retired' /\ late'[obj] = now - wtime[w]
      BY <1>1, <2>1, <2>2 DEF TypeOK
    <3>2. new.time + late'[new.obj] >= gotAt[r]
      BY <1>1, <1>2, <2>1, <3>1
    <3> QED  BY <1>2, <2>1, <2>2, <3>1, <3>2 DEF Kept, readerVars
  <2>3. CASE got[r] # obj
    <3>1. late'[got[r]] = late[got[r]]
      BY <1>1, <2>1, <2>3 DEF TypeOK
    <3>2. Relied(r)
      BY <2>1, <3>1 DEF Relied, readerVars
    <3>3. PICK e \in retired : e.obj = got[r] /\ e.time + late[e.obj] >= gotAt[r]
      BY <2>3, <3>2 DEF Inv, Held, Kept
    <3>4. e \in retired' /\ e.time + late'[e.obj] >= gotAt[r]
      BY <1>1, <3>1, <3>3
    <3> QED  BY <2>1, <3>3, <3>4 DEF Kept, readerVars
  <2> QED  BY <2>2, <2>3
<1> QED  BY <1>3, <1>4, <1>5, <1>6 DEF Inv

\* The second store of a Change moves no object.
LEMMA BumpInv == ASSUME Inv, NEW w \in Writers, BumpAndUnlock(w) PROVE Inv'
<1>1. TypeOK'
  <2>1. wpc' \in [Writers -> {"idle", "lock", "swap", "bump", "gone"}]
    BY DEF BumpAndUnlock, Inv, TypeOK
  <2>2. version \in Nat /\ version' = version + 1
    BY DEF BumpAndUnlock, Inv, TypeOK
  <2>3. version' \in Nat
    BY <2>2
  <2>4. locked' \in BOOLEAN
    BY DEF BumpAndUnlock
  <2> QED  BY <2>1, <2>3, <2>4 DEF BumpAndUnlock, historyVars, readerVars, Inv, TypeOK
<1>2. Owned'
  BY DEF BumpAndUnlock, Inv, Owned
<1>3. Times' /\ InHand'
  BY DEF BumpAndUnlock, historyVars, readerVars, Inv, Times, InHand, TypeOK
<1>4. Held'
  BY DEF BumpAndUnlock, historyVars, readerVars, Inv, Held, Relied, Kept
<1> QED  BY <1>1, <1>2, <1>3, <1>4 DEF Inv

\* What a reader gets is the current object.
LEMMA ReaderInv == ASSUME Inv, NEW r \in Readers, ReaderStep(r) PROVE Inv'
<1>1. UNCHANGED <<pointerVars, now, live, writerVars, historyVars>>
  BY DEF ReaderStep, Get, LoadVersion, LoadObj, Find, Forget
<1>2. TypeOK'
  <2>1. got' \in [Readers -> Objects \cup {NoObj}] /\ gotAt' \in [Readers -> Nat]
    BY DEF ReaderStep, Get, LoadVersion, LoadObj, Find, Forget, Inv, TypeOK, Entries, Found
  <2>2. want' \in [Readers -> Nat \cup {Latest}]
    BY DEF ReaderStep, Get, LoadVersion, LoadObj, Find, Forget, Inv, TypeOK
  <2>3. rpc' \in [Readers -> {"idle", "version", "load", "find", "current", "found", "gone"}]
    BY DEF ReaderStep, Get, LoadVersion, LoadObj, Find, Forget, Inv, TypeOK
  <2> QED  BY <1>1, <2>1, <2>2, <2>3 DEF historyVars, pointerVars, writerVars, Inv, TypeOK
<1>3. Owned' /\ InHand'
  BY <1>1 DEF historyVars, pointerVars, writerVars, Inv, Owned, InHand
<1>4. Times'
  BY <1>1 DEF ReaderStep, Get, LoadVersion, LoadObj, Find, Forget, historyVars, writerVars, Inv, Times, TypeOK
<1>5. Held'
  <2> SUFFICES ASSUME NEW q \in Readers, Relied(q)' PROVE Kept(q)'
    BY DEF Held
  <2>1. CASE q # r
    BY <1>1, <2>1 DEF ReaderStep, Get, LoadVersion, LoadObj, Find, Forget, historyVars, pointerVars,
                      Inv, Held, Relied, Kept, TypeOK
  <2>2. CASE q = r
    <3>1. LoadObj(r)
      BY <2>2 DEF Relied, ReaderStep, Get, LoadVersion, Find, Forget, Inv, TypeOK
    <3> QED  BY <1>1, <2>2, <3>1 DEF LoadObj, historyVars, pointerVars, Kept, Inv, TypeOK
  <2> QED  BY <2>1, <2>2
<1> QED  BY <1>2, <1>3, <1>4, <1>5 DEF Inv

\* The destructor leaves no object behind.
LEMMA DestroyInv == ASSUME Inv, Destroy PROVE Inv'
<1>1. TypeOK'
  BY DEF Destroy, historyVars, Inv, TypeOK
<1>2. Owned'
  <2>1. \A w \in Writers : wobj[w] = NoObj
    BY DEF Destroy, Inv, InHand
  <2>2. live = ({obj} \cup {e.obj : e \in retired}) \ {NoObj}
    BY <2>1 DEF Inv, Owned
  <2> QED  BY <2>1, <2>2 DEF Destroy, Owned
<1>3. Times' /\ InHand' /\ Held'
  BY DEF Destroy, Inv, Times, InHand, Held, Relied
<1> QED  BY <1>1, <1>2, <1>3 DEF Inv

\* Time passes: what a reader relies on becomes less.
LEMMA TickInv == ASSUME Inv, Tick PROVE Inv'
<1>1. TypeOK'
  BY DEF Tick, historyVars, pointerVars, writerVars, readerVars, Inv, TypeOK
<1>2. Owned' /\ InHand'
  BY DEF Tick, historyVars, pointerVars, writerVars, Inv, Owned, InHand
<1>3. Times' /\ Held'
  BY DEF Tick, historyVars, pointerVars, writerVars, readerVars, Inv, TypeOK, Times, Held, Relied, Kept
<1> QED  BY <1>1, <1>2, <1>3 DEF Inv

\* Every step preserves the strengthened invariant.
LEMMA NextInv == Inv /\ [Next]_vars => Inv'
<1> SUFFICES ASSUME Inv, [Next]_vars PROVE Inv'
  OBVIOUS
<1>1. ASSUME NEW w \in Writers, WriterStep(w) PROVE Inv'
  BY <1>1, ChangeInv, LockAndDeleteInv, SwapInv, BumpInv DEF WriterStep
<1>2. ASSUME NEW r \in Readers, ReaderStep(r) PROVE Inv'
  BY <1>2, ReaderInv
<1>3. CASE Destroy
  BY <1>3, DestroyInv
<1>4. CASE Tick
  BY <1>4, TickInv
<1>5. CASE UNCHANGED vars
  BY <1>5 DEF vars, historyVars, pointerVars, writerVars, readerVars, Inv, TypeOK,
         Owned, Times, InHand, Held, Relied, Kept
<1> QED  BY <1>1, <1>2, <1>3, <1>4, <1>5 DEF Next

\* A reader may use the current object for the length of the delay, less the wait of
\* the writer that replaces it between the clock (58) and the swap (78), whatever any
\* number of writers do meanwhile and however time passes.
THEOREM Safety == Spec => []SafeToUse
<1>1. Inv => SafeToUse
  BY DEF Inv, Owned, Held, Relied, Kept, SafeToUse
<1> QED  BY <1>1, InitInv, NextInv, PTL DEF Spec

\* Every object that is not deleted is in one place: no object is deleted twice, and
\* none is forgotten.
THEOREM Ownership == Spec => []Owned
<1>1. Inv => Owned
  BY DEF Inv
<1> QED  BY <1>1, InitInv, NextInv, PTL DEF Spec

-----------------------------------------------------------------------------
(* Versions.                                                               *)

\* Between the lock and the unlock there is one writer.
Within(w) == wpc[w] \in {"swap", "bump"}
Bumping == \E w \in Writers : wpc[w] = "bump"
Locking ==
  /\ \A w \in Writers : Within(w) => locked
  /\ \A w, x \in Writers : Within(w) /\ Within(x) => w = x

\* What is in the map is older than version_, but for what the writer has put there that is
\* about to give version_ its next value; no reader wants a version that is to come.
Older == \A e \in retired : e.ver < IF Bumping THEN version + 1 ELSE version
Wanted == \A r \in Readers : want[r] <= version

VersionInv == MapVersions /\ Locking /\ Older /\ Wanted /\ NeverOlder

\* The versions of a new pointer.
LEMMA InitVersions == Init => VersionInv
  BY DEF Init, VersionInv, MapVersions, Locking, Within, Bumping, Older, Wanted, NeverOlder, Latest

\* Nobody is at the second store while another writer has the lock, or nobody has.
LEMMA NotBumping ==
  ASSUME Locking, NEW w \in Writers, Within(w) \/ ~locked, wpc[w] # "bump"
  PROVE  ~Bumping
  BY DEF Locking, Within, Bumping

\* Steps that change no version, neither in the map nor of the current object.
LEMMA SameVersions ==
  ASSUME Inv, VersionInv, Locking',
         UNCHANGED <<obj, version, installed, readerVars>>,
         retired' \subseteq retired, Bumping' <=> Bumping
  PROVE  VersionInv'
<1>1. MapVersions'
  BY DEF VersionInv, MapVersions, Bumping
<1>2. Older' /\ Wanted'
  BY DEF VersionInv, Older, Wanted, historyVars, readerVars
<1>3. NeverOlder'
  BY DEF VersionInv, NeverOlder, readerVars
<1> QED  BY <1>1, <1>2, <1>3 DEF VersionInv

\* A writer that waits for the lock or takes it changes no version.
LEMMA LockVersions ==
  ASSUME Inv, VersionInv, NEW w \in Writers, Change(w) \/ LockAndDelete(w)
  PROVE  VersionInv'
<1>1. /\ UNCHANGED <<obj, version, installed, readerVars, now>>
      /\ retired' \subseteq retired /\ wpc[w] \in {"idle", "lock"}
  BY DEF Change, LockAndDelete, historyVars, pointerVars
<1>2. \A x \in Writers : x # w => wpc'[x] = wpc[x]
  BY DEF Change, LockAndDelete, Inv, TypeOK
<1>3. /\ wpc'[w] # "bump"
      /\ wpc'[w] = "swap" => ~locked /\ locked'
      /\ locked => locked'
  BY DEF Change, LockAndDelete, historyVars, pointerVars, Inv, TypeOK
<1>4. Locking'
  BY <1>2, <1>3 DEF VersionInv, Locking, Within
<1>5. Bumping' <=> Bumping
  BY <1>1, <1>2, <1>3 DEF Bumping
<1> QED  BY <1>1, <1>4, <1>5, SameVersions DEF Inv, TypeOK

\* The old object goes to the map under version_, where there is none yet, and the new one
\* is ahead of version_ until that follows.
LEMMA SwapVersions ==
  ASSUME Inv, VersionInv, NEW w \in Writers, Swap(w)
  PROVE  VersionInv'
<1> DEFINE new == [ver |-> version, obj |-> obj, time |-> wtime[w]]
           next == IF obj # NoObj THEN version + 1 ELSE version
<1>1. /\ wpc[w] = "swap" /\ wobj[w] \in Objects /\ wobj[w] # NoObj /\ obj' = wobj[w]
      /\ retired' = IF obj # NoObj THEN retired \cup {new} ELSE retired
      /\ installed' = [installed EXCEPT ![wobj[w]] = next]
      /\ UNCHANGED <<version, now, readerVars>>
      /\ TypeOK /\ Owned /\ version \in Nat
  BY DEF Swap, Inv, InHand, TypeOK
<1>2. ~Bumping /\ locked
  BY <1>1, NotBumping DEF VersionInv, Locking, Within
<1>3. \A x \in Writers : x # w => wpc'[x] = wpc[x] /\ ~Within(x)
  BY <1>1 DEF Swap, TypeOK, VersionInv, Locking, Within
<1>4. /\ obj # NoObj => wpc'[w] = "bump" /\ locked' = locked
      /\ obj = NoObj => wpc'[w] = "idle"
  BY <1>1 DEF Swap, TypeOK
<1>5. Locking' /\ (Bumping' <=> obj # NoObj)
  BY <1>2, <1>3, <1>4 DEF Locking, Within, Bumping
<1>6. /\ \A e \in retired : e \in Entries /\ e.obj # wobj[w] /\ e.ver < version
      /\ obj # wobj[w]
  BY <1>1, <1>2 DEF Owned, VersionInv, Older, TypeOK
<1>7. \A o \in Objects : installed'[o] = IF o = wobj[w] THEN next ELSE installed[o]
  BY <1>1 DEF TypeOK
<1>8. new.ver = version /\ new.obj = obj
  OBVIOUS
<1> HIDE DEF new
<1>9. MapVersions'
  <2>1. ASSUME NEW e \in retired' PROVE installed'[e.obj] = e.ver
    <3>1. CASE e \in retired
      BY <1>6, <1>7, <3>1 DEF VersionInv, MapVersions, Entries
    <3>2. CASE e = new /\ obj # NoObj
      BY <1>1, <1>2, <1>6, <1>7, <1>8, <3>2 DEF VersionInv, MapVersions, Bumping, TypeOK
    <3> QED  BY <1>1, <2>1, <3>1, <3>2
  <2>2. ASSUME NEW e \in retired', NEW f \in retired', e.ver = f.ver PROVE e = f
    <3>1. \A x \in retired : x.ver # new.ver
      BY <1>1, <1>6, <1>8 DEF Entries
    <3> QED  BY <1>1, <2>2, <3>1 DEF VersionInv, MapVersions
  <2>3. installed'[obj'] = IF Bumping' THEN version' + 1 ELSE version'
    BY <1>1, <1>5, <1>7
  <2> QED  BY <2>1, <2>2, <2>3 DEF MapVersions, Bumping
<1>10. Older'
  <2>1. \A e \in retired' : e.ver <= version /\ (obj = NoObj => e.ver < version)
    BY <1>1, <1>6, <1>8 DEF Entries
  <2> QED  BY <1>1, <1>5, <1>6, <1>8, <2>1 DEF Older, Entries
<1>11. Wanted'
  BY <1>1 DEF VersionInv, Wanted, historyVars, readerVars
<1>12. NeverOlder'
  <2> SUFFICES ASSUME NEW r \in Readers, rpc[r] = "current", got[r] # NoObj
               PROVE  installed'[got[r]] >= want[r]
    BY <1>1 DEF NeverOlder, readerVars
  <2>1. got[r] \in Objects /\ next >= version /\ want[r] <= version /\ want[r] \in Int
    BY <1>1 DEF TypeOK, Latest, VersionInv, Wanted
  <2> QED  BY <1>1, <1>7, <2>1 DEF VersionInv, NeverOlder
<1> QED  BY <1>5, <1>9, <1>10, <1>11, <1>12 DEF VersionInv

\* version_ comes up to the version of the current object.
LEMMA BumpVersions ==
  ASSUME Inv, VersionInv, NEW w \in Writers, BumpAndUnlock(w)
  PROVE  VersionInv'
<1>1. /\ Bumping /\ version \in Nat /\ version' = version + 1
      /\ UNCHANGED <<obj, retired, installed, readerVars, now>> /\ TypeOK
  BY DEF BumpAndUnlock, Bumping, historyVars, Inv, TypeOK
<1>2. \A x \in Writers : ~Within(x)'
  BY DEF BumpAndUnlock, VersionInv, Locking, Within, Inv, TypeOK
<1>3. Locking' /\ ~Bumping'
  BY <1>2 DEF Locking, Within, Bumping
<1>4. MapVersions'
  BY <1>1, <1>3 DEF VersionInv, MapVersions, Bumping
<1>5. Older'
  BY <1>1, <1>3 DEF VersionInv, Older
<1>6. Wanted'
  BY <1>1 DEF VersionInv, Wanted, historyVars, readerVars, TypeOK, Latest
<1>7. NeverOlder'
  BY <1>1 DEF VersionInv, NeverOlder, historyVars, readerVars
<1> QED  BY <1>3, <1>4, <1>5, <1>6, <1>7 DEF VersionInv

\* What a reader gets as current is as new as what it wants, or newer.
LEMMA ReaderVersions ==
  ASSUME Inv, VersionInv, NEW r \in Readers, ReaderStep(r)
  PROVE  VersionInv'
<1>1. UNCHANGED <<pointerVars, now, writerVars, historyVars>>
  BY DEF ReaderStep, Get, LoadVersion, LoadObj, Find, Forget
<1>2. MapVersions' /\ Locking' /\ Older'
  BY <1>1 DEF historyVars, pointerVars, writerVars, VersionInv, MapVersions, Locking, Within, Older, Bumping
<1>3. Wanted'
  <2>1. want'[r] <= version
    BY DEF ReaderStep, Get, LoadVersion, LoadObj, Find, Forget, VersionInv, Wanted, Inv, TypeOK, Latest
  <2>2. \A q \in Readers : q # r => want'[q] = want[q]
    BY DEF ReaderStep, Get, LoadVersion, LoadObj, Find, Forget, Inv, TypeOK
  <2> QED  BY <1>1, <2>1, <2>2 DEF historyVars, pointerVars, VersionInv, Wanted
<1>4. NeverOlder'
  <2> SUFFICES ASSUME NEW q \in Readers, rpc'[q] = "current", got'[q] # NoObj
               PROVE  installed'[got'[q]] >= want'[q]
    BY DEF NeverOlder
  <2>1. CASE q # r
    BY <1>1, <2>1 DEF ReaderStep, Get, LoadVersion, LoadObj, Find, Forget, VersionInv, NeverOlder,
                      historyVars, Inv, TypeOK
  <2>2. CASE q = r
    <3>1. LoadObj(r)
      BY <2>2 DEF ReaderStep, Get, LoadVersion, Find, Forget, Inv, TypeOK
    <3>2. got'[r] = obj /\ want'[r] = want[r]
      BY <3>1 DEF LoadObj, Inv, TypeOK
    <3>3. /\ installed[obj] = IF Bumping THEN version + 1 ELSE version
          /\ want[r] <= version /\ version \in Nat /\ want[r] \in Int
      BY <2>2, <3>2 DEF VersionInv, MapVersions, Bumping, Wanted, Inv, TypeOK, Latest
    <3> QED  BY <1>1, <2>2, <3>2, <3>3 DEF historyVars
  <2> QED  BY <2>1, <2>2
<1> QED  BY <1>2, <1>3, <1>4 DEF VersionInv

\* Every step preserves what is said of versions.
LEMMA NextVersions == Inv /\ VersionInv /\ [Next]_vars => VersionInv'
<1> SUFFICES ASSUME Inv, VersionInv, [Next]_vars PROVE VersionInv'
  OBVIOUS
<1>1. ASSUME NEW w \in Writers, WriterStep(w) PROVE VersionInv'
  BY <1>1, LockVersions, SwapVersions, BumpVersions DEF WriterStep
<1>2. ASSUME NEW r \in Readers, ReaderStep(r) PROVE VersionInv'
  BY <1>2, ReaderVersions
<1>3. CASE Destroy
  <2>1. ~Bumping' /\ Locking'
    BY <1>3 DEF Destroy, Bumping, Locking, Within
  <2>2. MapVersions' /\ Older' /\ NeverOlder'
    BY <1>3, <2>1 DEF Destroy, MapVersions, Older, NeverOlder
  <2>3. Wanted'
    BY <1>3 DEF Destroy, VersionInv, Wanted
  <2> QED  BY <2>1, <2>2, <2>3 DEF VersionInv
<1>4. CASE Tick
  <2>1. Locking' /\ (Bumping' <=> Bumping)
    BY <1>4 DEF Tick, historyVars, pointerVars, writerVars, VersionInv, Locking, Within, Bumping
  <2> QED  BY <1>4, <2>1, SameVersions DEF Tick, historyVars, pointerVars
<1>5. CASE UNCHANGED vars
  BY <1>5 DEF vars, historyVars, pointerVars, writerVars, readerVars, VersionInv, MapVersions, Locking, Within,
              Bumping, Older, Wanted, NeverOlder
<1> QED  BY <1>1, <1>2, <1>3, <1>4, <1>5 DEF Next

\* Get never answers a version with an older object as current, though it reads the version
\* and the object in two steps, and Change replaces them in two.
THEOREM Current == Spec => []NeverOlder
<1>1. VersionInv => NeverOlder
  BY DEF VersionInv
<1> QED  BY <1>1, InitInv, NextInv, InitVersions, NextVersions, PTL DEF Spec

\* The map has one object for a version, the one that was current then, and the current
\* object is one ahead of version_ between the two stores only.
THEOREM Versions == Spec => []WellFormed
<1>1. Inv /\ VersionInv => WellFormed
  BY DEF Inv, VersionInv, WellFormed
<1> QED  BY <1>1, InitInv, NextInv, InitVersions, NextVersions, PTL DEF Spec
=============================================================================
