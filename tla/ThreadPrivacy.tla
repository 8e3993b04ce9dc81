---------------------------- MODULE ThreadPrivacy ----------------------------
(***************************************************************************)
(* Data of which every thread has its own                                  *)
(* (src/src/thread_privacy/thread_privacy.h, details/thread_privacy.cpp).  *)
(* A thread finds its table of privacies in its slot of key_, and makes it *)
(* in its first Get; the table also goes into privacies_set_, under lock_, *)
(* for the destructor to find it.  The first Get of all creates key_.      *)
(* lock_ is shared by all the ThreadPrivacy of a program.                  *)
(***************************************************************************)
EXTENDS LockPolicy

CONSTANTS Nos      \* the indexes that clients ask for

ASSUME PrivacyAssumption == Nos \subseteq Nat

VARIABLES
  init, key,       \* init_, key_
  keys,            \* how many keys have been created
  tables,          \* the tables, by key and thread: which of their places hold a privacy
  registered,      \* privacies_set_
  pc, arg,         \* where every thread is in Get, and the index that it asks for
  table,           \* the local privacies
  seen,            \* what push_back has found in privacies_set_
  alone,           \* whether the client makes the first call while no other is under way
  lockGiven,       \* whether another ThreadPrivacy has already used lock_
  given,           \* history: the tables from which a thread got the privacy of an index
  gone             \* whether the destructor has run

client == <<alone, lockGiven>>
locals == <<arg, table, seen>>
keyVars == <<init, key, keys>>
privacyVars == <<keyVars, tables, registered, pc, locals, client, given, gone>>
vars == <<lockVars, privacyVars>>

NoKey == 0
Tables == Nat \X Threads
NoTable == <<>>

Init ==
  /\ LockStart
  /\ init = FALSE /\ key = NoKey /\ keys = 0
  /\ tables = [id \in {} |-> {}] /\ registered = {}
  /\ pc = [t \in Threads |-> "idle"]
  /\ arg = [t \in Threads |-> 0]
  /\ table = [t \in Threads |-> NoTable]
  /\ seen = [t \in Threads |-> {}]
  /\ alone \in BOOLEAN /\ lockGiven = lockInit
  /\ given = [t \in Threads |-> [n \in Nos |-> {}]]
  /\ gone = FALSE

Go(t, label) == pc' = [pc EXCEPT ![t] = label]
Return(t) == Go(t, "idle") /\ arg' = [arg EXCEPT ![t] = 0] /\ table' = [table EXCEPT ![t] = NoTable]
Give(t, id, n) == given' = [given EXCEPT ![t][n] = @ \cup {id}]

-----------------------------------------------------------------------------
(* XFC_RAII_INIT and Init_.  Init_ does not look at init_ again.           *)

Get(t) ==
  /\ ~gone /\ pc[t] = "idle"
  /\ alone => init \/ \A u \in Threads : pc[u] = "idle"
  /\ \E n \in Nos : arg' = [arg EXCEPT ![t] = n]
  /\ Go(t, "get")
  /\ UNCHANGED <<lockVars, keyVars, tables, registered, table, seen, client, given, gone>>

TestInit(t) ==
  /\ pc[t] = "get"
  /\ \/ init /\ Go(t, "find") /\ UNCHANGED lockVars
     \/ ~init /\ Go(t, "init") /\ Lock(t)
  /\ UNCHANGED <<keyVars, tables, registered, locals, client, given, gone>>

\* Mutant of CreateKey: returns from a failure with the lock.
CreateKeyReturns(t) ==
  /\ pc[t] = "init" /\ lpc[t] = "in"
  /\ \/ keys' = keys + 1 /\ key' = keys' /\ Go(t, "mark") /\ UNCHANGED <<arg, table>>
     \/ Return(t) /\ UNCHANGED <<keys, key>>
  /\ UNCHANGED <<lockVars, init, tables, registered, seen, client, given, gone>>

CreateKey(t) ==
  /\ pc[t] = "init" /\ lpc[t] = "in"
  /\ \/ keys' = keys + 1 /\ key' = keys' /\ Go(t, "mark")
     \/ Go(t, "fail") /\ UNCHANGED <<keys, key>>
  /\ UNCHANGED <<lockVars, init, tables, registered, locals, client, given, gone>>

MarkInit(t) ==
  /\ pc[t] = "mark"
  /\ init' = TRUE
  /\ Go(t, "made")
  /\ UNCHANGED <<lockVars, keys, key, tables, registered, locals, client, given, gone>>

InitUnlock(t) ==
  /\ \/ pc[t] = "made" /\ Go(t, "find") /\ UNCHANGED <<arg, table>>
     \/ pc[t] = "fail" /\ Return(t)
  /\ Unlock(t)
  /\ UNCHANGED <<keyVars, tables, registered, seen, client, given, gone>>

-----------------------------------------------------------------------------
(* Get_ and the rest of Get.  pthread_getspecific and pthread_setspecific  *)
(* each read key_.                                                         *)

\* Mutant of Has: any place of the table.
HasPlace(id, n) == id \in DOMAIN tables /\ n \in DOMAIN tables[id]
Has(id, n) == id \in DOMAIN tables /\ n \in DOMAIN tables[id] /\ tables[id][n]

Find(t) ==
  LET id == <<key, t>>
  IN  /\ pc[t] = "find"
      /\ \/ Has(id, arg[t]) /\ Give(t, id, arg[t]) /\ Return(t)
         \/ /\ ~Has(id, arg[t])
            /\ Go(t, IF id \in DOMAIN tables THEN "create" ELSE "set")
            /\ table' = [table EXCEPT ![t] = id]
            /\ UNCHANGED <<arg, given>>
      /\ UNCHANGED <<lockVars, keyVars, tables, registered, seen, client, gone>>

\* Mutant of SetTable: does not register the table.
SetTableOnly(t) ==
  LET id == <<key, t>>
  IN  /\ pc[t] = "set"
      /\ \/ /\ tables' = [i \in DOMAIN tables \cup {id} |-> IF i = id THEN <<>> ELSE tables[i]]
            /\ table' = [table EXCEPT ![t] = id]
            /\ Go(t, "create") /\ UNCHANGED <<lockVars, arg>>
         \/ Return(t) /\ UNCHANGED <<lockVars, tables>>
      /\ UNCHANGED <<keyVars, registered, seen, client, given, gone>>

\* A new table that pthread_setspecific refuses is deleted.
SetTable(t) ==
  LET id == <<key, t>>
  IN  /\ pc[t] = "set"
      /\ \/ /\ tables' = [i \in DOMAIN tables \cup {id} |-> IF i = id THEN <<>> ELSE tables[i]]
            /\ table' = [table EXCEPT ![t] = id]
            /\ Go(t, "register") /\ Lock(t) /\ UNCHANGED arg
         \/ Return(t) /\ UNCHANGED <<lockVars, tables>>
      /\ UNCHANGED <<keyVars, registered, seen, client, given, gone>>

\* push_back: reads where the set ends, and writes there.
PushReads(t) ==
  /\ pc[t] = "register" /\ lpc[t] = "in"
  /\ seen' = [seen EXCEPT ![t] = registered]
  /\ Go(t, "push")
  /\ UNCHANGED <<lockVars, keyVars, tables, registered, arg, table, client, given, gone>>

PushWrites(t) ==
  /\ pc[t] = "push"
  /\ registered' = seen[t] \cup {table[t]}
  /\ seen' = [seen EXCEPT ![t] = {}]
  /\ Go(t, "pushed")
  /\ UNCHANGED <<lockVars, keyVars, tables, arg, table, client, given, gone>>

RegisterUnlock(t) ==
  /\ pc[t] = "pushed"
  /\ Unlock(t)
  /\ Go(t, "create")
  /\ UNCHANGED <<keyVars, tables, registered, locals, client, given, gone>>

\* The table is made longer for an index behind its end, with nothing in between.
Filled(tab, n) ==
  [i \in DOMAIN tab \cup 0..n |-> i = n \/ (i \in DOMAIN tab /\ tab[i])]

Create(t) ==
  /\ pc[t] = "create"
  /\ tables' = [tables EXCEPT ![table[t]] = Filled(@, arg[t])]
  /\ Give(t, table[t], arg[t])
  /\ Return(t)
  /\ UNCHANGED <<lockVars, keyVars, registered, seen, client, gone>>

\* The const Get gives what there is, and creates nothing.
Look(t) ==
  /\ ~gone /\ pc[t] = "idle" /\ init
  /\ \E n \in Nos : Has(<<key, t>>, n) /\ Give(t, <<key, t>>, n)
  /\ UNCHANGED <<lockVars, keyVars, tables, registered, pc, locals, client, gone>>

\* The destructor, when no call is under way: deletes the tables that are registered.
Destroy ==
  /\ ~gone /\ \A t \in Threads : pc[t] = "idle"
  /\ gone' = TRUE
  /\ IF init
     THEN tables' = [id \in DOMAIN tables \ registered |-> tables[id]] /\ registered' = {}
     ELSE UNCHANGED <<tables, registered>>
  /\ UNCHANGED <<lockVars, keyVars, pc, locals, client, given>>

-----------------------------------------------------------------------------
GetStep(t) ==
  \/ TestInit(t) \/ CreateKey(t) \/ MarkInit(t) \/ InitUnlock(t)
  \/ Find(t) \/ SetTable(t) \/ PushReads(t) \/ PushWrites(t) \/ RegisterUnlock(t) \/ Create(t)

\* What a thread does next in Get, or in Lock.
GoesOn(t) == GetStep(t) \/ (LockStep(t) /\ UNCHANGED privacyVars)

Next == (\E t \in Threads : Get(t) \/ Look(t) \/ GoesOn(t)) \/ Destroy

Spec == Init /\ [][Next]_vars

\* Threads run; one that waits for a lock which is free again and again gets it.
FairSpec ==
  /\ Spec
  /\ \A t \in Threads : WF_vars(GoesOn(t)) /\ SF_vars(Acquire(t) /\ UNCHANGED privacyVars)

-----------------------------------------------------------------------------
(* Properties.                                                             *)

FlagTypes == {init, alone, lockGiven, gone} \subseteq BOOLEAN
KeyTypes == keys \in Nat /\ key \in 0..keys
TableTypes ==
  /\ DOMAIN tables \subseteq Tables /\ registered \subseteq Tables
  /\ \A id \in DOMAIN tables : tables[id] \in [DOMAIN tables[id] -> BOOLEAN]
ThreadTypes ==
  /\ pc \in [Threads -> {"idle", "get", "init", "mark", "made", "fail", "find", "set",
                         "register", "push", "pushed", "create"}]
  /\ arg \in [Threads -> Nos \cup {0}] /\ table \in [Threads -> Tables \cup {NoTable}]
  /\ seen \in [Threads -> SUBSET Tables]
  /\ given \in [Threads -> [Nos -> SUBSET Tables]]
TypeOK == LockTypeOK /\ FlagTypes /\ KeyTypes /\ TableTypes /\ ThreadTypes

\* lock_ excludes, if it was initialised before or by a call that was alone; a thread
\* that writes the key or the set has it.
Exclusive ==
  /\ alone \/ lockGiven => OneInside
  /\ \A t \in Threads :
       pc[t] \in {"mark", "made", "fail", "push", "pushed"} => lpc[t] = "in"
WellFormed == TypeOK /\ Exclusive

\* A thread gets the same privacy for an index every time, and nobody else gets it,
\* if the first call of all was made alone.  (Two first calls create two keys, and what is
\* in the slots of the first is not found any more.)
Stable ==
  alone => \A t \in Threads, n \in Nos :
             /\ Cardinality(given[t][n]) <= 1
             /\ ~gone => \A id \in given[t][n] :
                  id[2] = t /\ id \in DOMAIN tables /\ n \in DOMAIN tables[id] /\ tables[id][n]

\* The destructor leaves nothing behind: a table is in privacies_set_ or on its way there,
\* whatever has failed, and also if a second key has hidden it from its thread.
NothingLost ==
  alone \/ lockGiven =>
    \A id \in DOMAIN tables :
      \/ id \in registered
      \/ \E t \in Threads : pc[t] \in {"register", "push"} /\ table[t] = id

\* Every Get returns, whatever fails.
GetReturns == \A t \in Threads : pc[t] # "idle" ~> pc[t] = "idle"
=============================================================================
