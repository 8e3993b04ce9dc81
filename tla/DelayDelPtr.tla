----------------------------- MODULE DelayDelPtr -----------------------------
(***************************************************************************)
(* The pointer of src/src/delay_del_ptr.hpp.  Writers replace the object   *)
(* under a spin lock; a replaced object stays in a map, under its version, *)
(* and a later Change deletes it when it has been there for longer than    *)
(* the delay.  Readers take the current object without the lock: they      *)
(* compare the version, then load the pointer.                             *)
(*                                                                         *)
(* Loads and stores of version_ and obj_ are steps, in the order of the    *)
(* program; what happens to the map happens under the lock, in one step.   *)
(***************************************************************************)
EXTENDS Integers, FiniteSets

CONSTANTS
  Writers, Readers,
  Objects,         \* addresses; one that has been deleted may be given out again
  NoObj,           \* NULL
  Delay,           \* delay_del_time_in_sec_
  MaxTime,         \* bound: the clock stops there
  MaxVersion       \* bound: no Change beyond it

ASSUME PointerAssumption ==
  /\ Delay \in Nat /\ MaxTime \in Nat /\ MaxVersion \in Nat
  /\ NoObj \notin Objects

Latest == -1       \* size_t(-1), the version a reader passes for "whatever is current"

VARIABLES
  obj, version,    \* obj_, version_
  retired,         \* delay_del_ptr_map_
  locked,          \* lock_map_
  now,             \* the clock, in seconds
  live,            \* objects that are not deleted
  wpc, wtime, wobj,            \* writers: where in Change, current_time, the argument
  rpc, want, got, gotAt,       \* readers: where in Get, the argument, the result, since when
  installed,       \* history: the version under which an object was put in place
  late             \* history: how long before it was replaced the time was read under
                   \* which an object is in the map

pointerVars == <<obj, version, retired, locked>>
writerVars == <<wpc, wtime, wobj>>
readerVars == <<rpc, want, got, gotAt>>
historyVars == <<installed, late>>
vars == <<pointerVars, now, live, writerVars, readerVars, historyVars>>

\* The constructor takes the object, and owns it: to_delete_.
Init ==
  /\ obj \in Objects \cup {NoObj}
  /\ version = 0 /\ retired = {} /\ locked = FALSE
  /\ now = 0
  /\ live = {obj} \ {NoObj}
  /\ wpc = [w \in Writers |-> "idle"]
  /\ wtime = [w \in Writers |-> 0]
  /\ wobj = [w \in Writers |-> NoObj]
  /\ rpc = [r \in Readers |-> "idle"]
  /\ want = [r \in Readers |-> Latest]
  /\ got = [r \in Readers |-> NoObj]
  /\ gotAt = [r \in Readers |-> 0]
  /\ installed = [o \in Objects |-> 0]
  /\ late = [o \in Objects |-> 0]

(* Change.                                                                 *)

\* The client passes a new object; the time is read before the lock is taken.
Change(w) ==
  /\ wpc[w] = "idle"
  /\ \E o \in Objects \ live :
       /\ wobj' = [wobj EXCEPT ![w] = o]
       /\ live' = live \cup {o}
  /\ wtime' = [wtime EXCEPT ![w] = now]
  /\ wpc' = [wpc EXCEPT ![w] = "lock"]
  /\ UNCHANGED <<pointerVars, now, readerVars, historyVars>>

\* Mutant of Expired: a second early.
ExpiredEarly(e, time) == time - e.time >= Delay
Expired(e, time) == time - e.time > Delay

\* Mutant of LockAndDelete: the new version is out before the new object.
LockDeleteAndBump(w) ==
  LET old == {e \in retired : Expired(e, wtime[w])}
  IN  /\ wpc[w] = "lock" /\ ~locked /\ version < MaxVersion
      /\ locked' = TRUE
      /\ version' = version + 1
      /\ retired' = retired \ old
      /\ live' = live \ {e.obj : e \in old}
      /\ wpc' = [wpc EXCEPT ![w] = "swap"]
      /\ UNCHANGED <<obj, now, wtime, wobj, readerVars, historyVars>>

LockAndDelete(w) ==
  LET old == {e \in retired : Expired(e, wtime[w])}
  IN  /\ wpc[w] = "lock" /\ ~locked /\ version < MaxVersion
      /\ locked' = TRUE
      /\ retired' = retired \ old
      /\ live' = live \ {e.obj : e \in old}
      /\ wpc' = [wpc EXCEPT ![w] = "swap"]
      /\ UNCHANGED <<obj, version, now, wtime, wobj, readerVars, historyVars>>

\* Mutants of Swap: the old object goes under the version of the new one; it is not kept.
SwapNextVersion(w) ==
  /\ wpc[w] = "swap"
  /\ obj' = wobj[w]
  /\ IF obj # NoObj
     THEN /\ retired' = retired \cup {[ver |-> version + 1, obj |-> obj, time |-> wtime[w]]}
          /\ installed' = [installed EXCEPT ![wobj[w]] = version + 1]
          /\ late' = [late EXCEPT ![obj] = now - wtime[w]]
          /\ wpc' = [wpc EXCEPT ![w] = "bump"]
          /\ UNCHANGED locked
     ELSE /\ installed' = [installed EXCEPT ![wobj[w]] = version]
          /\ wpc' = [wpc EXCEPT ![w] = "idle"]
          /\ locked' = FALSE
          /\ UNCHANGED <<retired, late>>
  /\ wobj' = [wobj EXCEPT ![w] = NoObj]
  /\ UNCHANGED <<version, now, live, wtime, readerVars>>
SwapForgets(w) ==
  /\ wpc[w] = "swap"
  /\ obj' = wobj[w]
  /\ installed' = [installed EXCEPT ![wobj[w]] = version + 1]
  /\ wpc' = [wpc EXCEPT ![w] = "bump"]
  /\ wobj' = [wobj EXCEPT ![w] = NoObj]
  /\ UNCHANGED <<retired, locked, version, now, live, wtime, readerVars, late>>

\* The first object, in place of NULL, does not get a version of its own.
Swap(w) ==
  /\ wpc[w] = "swap"
  /\ obj' = wobj[w]
  /\ IF obj # NoObj
     THEN /\ retired' = retired \cup {[ver |-> version, obj |-> obj, time |-> wtime[w]]}
          /\ installed' = [installed EXCEPT ![wobj[w]] = version + 1]
          /\ late' = [late EXCEPT ![obj] = now - wtime[w]]
          /\ wpc' = [wpc EXCEPT ![w] = "bump"]
          /\ UNCHANGED locked
     ELSE /\ installed' = [installed EXCEPT ![wobj[w]] = version]
          /\ wpc' = [wpc EXCEPT ![w] = "idle"]
          /\ locked' = FALSE
          /\ UNCHANGED <<retired, late>>
  /\ wobj' = [wobj EXCEPT ![w] = NoObj]
  /\ UNCHANGED <<version, now, live, wtime, readerVars>>

BumpAndUnlock(w) ==
  /\ wpc[w] = "bump"
  /\ version' = version + 1
  /\ locked' = FALSE
  /\ wpc' = [wpc EXCEPT ![w] = "idle"]
  /\ UNCHANGED <<obj, retired, now, live, wtime, wobj, readerVars, historyVars>>

(* Get.                                                                    *)

\* A client asks for what is current, or for a version it has heard of.
Get(r) ==
  /\ rpc[r] = "idle"
  /\ \E v \in {Latest} \cup 0..version : want' = [want EXCEPT ![r] = v]
  /\ rpc' = [rpc EXCEPT ![r] = "version"]
  /\ UNCHANGED <<pointerVars, now, live, writerVars, got, gotAt, historyVars>>

LoadVersion(r) ==
  /\ rpc[r] = "version"
  /\ rpc' = [rpc EXCEPT ![r] = IF want[r] \in {version, Latest} THEN "load" ELSE "find"]
  /\ UNCHANGED <<pointerVars, now, live, writerVars, want, got, gotAt, historyVars>>

LoadObj(r) ==
  /\ rpc[r] = "load"
  /\ got' = [got EXCEPT ![r] = obj]
  /\ gotAt' = [gotAt EXCEPT ![r] = now]
  /\ rpc' = [rpc EXCEPT ![r] = "current"]
  /\ UNCHANGED <<pointerVars, now, live, writerVars, want, historyVars>>

Found(v) == {e \in retired : e.ver = v}

Find(r) ==
  /\ rpc[r] = "find" /\ ~locked
  /\ \/ \E e \in Found(want[r]) : got' = [got EXCEPT ![r] = e.obj]
     \/ Found(want[r]) = {} /\ got' = [got EXCEPT ![r] = NoObj]
  /\ gotAt' = [gotAt EXCEPT ![r] = now]
  /\ rpc' = [rpc EXCEPT ![r] = "found"]
  /\ UNCHANGED <<pointerVars, now, live, writerVars, want, historyVars>>

\* The client has done with the object.
Forget(r) ==
  /\ rpc[r] \in {"current", "found"}
  /\ rpc' = [rpc EXCEPT ![r] = "idle"]
  /\ want' = [want EXCEPT ![r] = Latest]
  /\ got' = [got EXCEPT ![r] = NoObj]
  /\ gotAt' = [gotAt EXCEPT ![r] = 0]
  /\ UNCHANGED <<pointerVars, now, live, writerVars, historyVars>>

-----------------------------------------------------------------------------
\* The destructor, with nobody in a call.
Destroy ==
  /\ \A w \in Writers : wpc[w] = "idle"
  /\ \A r \in Readers : rpc[r] = "idle"
  /\ live' = live \ ({obj} \cup {e.obj : e \in retired})
  /\ obj' = NoObj /\ retired' = {}
  /\ wpc' = [w \in Writers |-> "gone"] /\ rpc' = [r \in Readers |-> "gone"]
  /\ UNCHANGED <<version, locked, now, wtime, wobj, want, got, gotAt, historyVars>>

\* Time passes wherever the threads are, also between the reading of the time (58)
\* and the lock (60).
Tick ==
  /\ now < MaxTime
  /\ now' = now + 1
  /\ UNCHANGED <<pointerVars, live, writerVars, readerVars, historyVars>>

WriterStep(w) == Change(w) \/ LockAndDelete(w) \/ Swap(w) \/ BumpAndUnlock(w)
ReaderStep(r) == Get(r) \/ LoadVersion(r) \/ LoadObj(r) \/ Find(r) \/ Forget(r)

Next ==
  \/ \E w \in Writers : WriterStep(w)
  \/ \E r \in Readers : ReaderStep(r)
  \/ Destroy
  \/ Tick

Spec == Init /\ [][Next]_vars

-----------------------------------------------------------------------------
(* Properties.                                                             *)

Entries == [ver : Nat, obj : Objects, time : Nat]

\* The type of every variable.
TypeOK ==
  /\ obj \in Objects \cup {NoObj} /\ version \in Nat
  /\ retired \subseteq Entries /\ locked \in BOOLEAN
  /\ now \in Nat /\ live \subseteq Objects
  /\ wpc \in [Writers -> {"idle", "lock", "swap", "bump", "gone"}]
  /\ wtime \in [Writers -> Nat] /\ wobj \in [Writers -> Objects \cup {NoObj}]
  /\ rpc \in [Readers -> {"idle", "version", "load", "find", "current", "found", "gone"}]
  /\ want \in [Readers -> Nat \cup {Latest}] /\ got \in [Readers -> Objects \cup {NoObj}]
  /\ gotAt \in [Readers -> Nat]
  /\ installed \in [Objects -> Nat] /\ late \in [Objects -> Nat]

\* The current object that Get has returned is not deleted within the delay, less the
\* time for which the writer that replaced it had waited for the lock since it read
\* the clock (58): the object seems to be retired for that much longer (65).  The
\* reader holds no lock, and its object may be replaced at once.
SafeToUse ==
  \A r \in Readers :
    rpc[r] = "current" /\ got[r] # NoObj /\ now + late[got[r]] <= gotAt[r] + Delay
      => got[r] \in live

\* The objects in memory are the current one, the retired ones, and those that
\* Change has not put in place yet; each is in one of these places only.  The
\* destructor leaves none behind.
Owned ==
  /\ live = ({obj} \cup {e.obj : e \in retired} \cup {wobj[w] : w \in Writers}) \ {NoObj}
  /\ \A e \in retired : e.obj # obj
  /\ \A e, f \in retired : e.obj = f.obj => e = f
  /\ \A w \in Writers : wobj[w] # NoObj =>
       /\ wobj[w] # obj
       /\ \A e \in retired : wobj[w] # e.obj
       /\ \A x \in Writers : wobj[w] = wobj[x] => w = x

\* Get(version) returns the object of that version, or a newer one if there is a
\* Change under way: never an older one.
NeverOlder ==
  \A r \in Readers : rpc[r] = "current" /\ got[r] # NoObj => installed[got[r]] >= want[r]

\* The map keeps an object under the version it was current as, one object for a
\* version (the insert of 78 does not overwrite); the current object is one ahead of
\* version_ between the two stores (79, 80) and at no other time.
MapVersions ==
  /\ \A e \in retired : installed[e.obj] = e.ver
  /\ \A e, f \in retired : e.ver = f.ver => e = f
  /\ obj # NoObj =>
       installed[obj] = IF \E w \in Writers : wpc[w] = "bump" THEN version + 1 ELSE version

\* Types, and the versions in the map and of the current object.
WellFormed == TypeOK /\ MapVersions
=============================================================================
