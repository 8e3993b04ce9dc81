----------------------------- MODULE LockPolicy -----------------------------
(***************************************************************************)
(* The locks of src/src/lock_policy.hpp: ThreadMutex and SpinLock, which   *)
(* are the same code around two kinds of pthread locks.  A lock is         *)
(* initialised by the first call of Lock, and nothing keeps two threads    *)
(* from both being first.                                                  *)
(***************************************************************************)
EXTENDS FiniteSets, Naturals

CONSTANTS Threads

VARIABLES
  lockInit,        \* init_
  locked,          \* the state of the pthread lock, once it is initialised
  lpc              \* where every thread is in Lock, or that it has the lock ("in")

lockVars == <<lockInit, locked, lpc>>

LockStart ==
  /\ lockInit \in BOOLEAN /\ locked = FALSE
  /\ lpc = [t \in Threads |-> "out"]

LockGo(t, label) == lpc' = [lpc EXCEPT ![t] = label]

\* Enters Lock.
Lock(t) == LockGo(t, "test") /\ UNCHANGED <<lockInit, locked>>

TestLockInit(t) ==
  /\ lpc[t] = "test"
  /\ LockGo(t, IF lockInit THEN "acquire" ELSE "init")
  /\ UNCHANGED <<lockInit, locked>>

\* pthread_mutex_init makes a free lock, also of one that another thread holds.
InitLock(t) ==
  /\ lpc[t] = "init"
  /\ locked' = FALSE
  /\ LockGo(t, "mark")
  /\ UNCHANGED lockInit

MarkLockInit(t) ==
  /\ lpc[t] = "mark"
  /\ lockInit' = TRUE
  /\ LockGo(t, "acquire")
  /\ UNCHANGED locked

\* Mutant of Acquire: does not wait.
AcquireAnyhow(t) ==
  /\ lpc[t] = "acquire"
  /\ locked' = TRUE
  /\ LockGo(t, "in")
  /\ UNCHANGED lockInit

Acquire(t) ==
  /\ lpc[t] = "acquire"
  /\ ~locked
  /\ locked' = TRUE
  /\ LockGo(t, "in")
  /\ UNCHANGED lockInit

\* A thread that has the lock finds init_ set.
Unlock(t) ==
  /\ lpc[t] = "in"
  /\ locked' = FALSE
  /\ LockGo(t, "out")
  /\ UNCHANGED lockInit

LockStep(t) == TestLockInit(t) \/ InitLock(t) \/ MarkLockInit(t) \/ Acquire(t)

-----------------------------------------------------------------------------
LockTypeOK ==
  /\ lockInit \in BOOLEAN /\ locked \in BOOLEAN
  /\ lpc \in [Threads -> {"out", "test", "init", "mark", "acquire", "in"}]

\* One thread at a time is between Lock and Unlock.
OneInside == \A t, u \in Threads : lpc[t] = "in" /\ lpc[u] = "in" => t = u
=============================================================================
