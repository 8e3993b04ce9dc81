------------------------ MODULE ThreadPrivacy_proofs ------------------------
(***************************************************************************)
(* Proofs about ThreadPrivacy, for any number of threads and indexes: the  *)
(* lock, although it is initialised lazily, excludes if it was used before *)
(* or if the first call was made alone, and then no table is lost.         *)
(***************************************************************************)
EXTENDS ThreadPrivacy, FiniteSetTheorems, TLAPS

\* The client keeps one of the two conditions under which the lock excludes.
Safe == alone \/ lockGiven

\* Where a thread is in Get and where it is in Lock.
InLock == {"init", "mark", "made", "fail", "register", "push", "pushed"}
Together ==
  /\ \A t \in Threads : lpc[t] # "out" <=> pc[t] \in InLock
  /\ \A t \in Threads :
       pc[t] \in {"mark", "made", "fail", "push", "pushed"} => lpc[t] = "in"

\* A thread that is about to use its table has one.
HasTable ==
  \A t \in Threads : pc[t] \in {"register", "push", "pushed", "create"} => table[t] \in Tables

\* The lock is initialised once: by a thread that is alone, if it was not before.
InitOnce ==
  /\ \A t \in Threads : lpc[t] \in {"acquire", "in"} => lockInit
  /\ init \/ lockGiven => lockInit
  /\ alone /\ ~lockInit => \A t, u \in Threads : pc[t] # "idle" /\ pc[u] # "idle" => t = u
  /\ Safe => \A t \in Threads : lpc[t] \in {"init", "mark"} => ~lockInit

\* Who is inside has locked it, and is the only one.
Held ==
  Safe => /\ \A t \in Threads : lpc[t] = "in" => locked
          /\ OneInside

\* What push_back has read is still so when it writes.
SeenIsCurrent == Safe => \A t \in Threads : pc[t] = "push" => seen[t] = registered

IInv == TypeOK /\ HasTable /\ Together /\ InitOnce /\ Held /\ SeenIsCurrent /\ NothingLost

-----------------------------------------------------------------------------
\* A ThreadPrivacy that nobody has used yet satisfies the invariant.
LEMMA InitInv == Init => IInv
<1> SUFFICES ASSUME Init PROVE IInv
  OBVIOUS
<1> USE DEF Init, LockStart
<1>1. TypeOK
  <2>1. LockTypeOK /\ FlagTypes
    BY DEF LockTypeOK, FlagTypes
  <2>2. KeyTypes
    BY DEF KeyTypes, NoKey
  <2>3. TableTypes /\ ThreadTypes
    BY DEF TableTypes, ThreadTypes
  <2> QED
    BY <2>1, <2>2, <2>3 DEF TypeOK
<1>2. HasTable /\ Together /\ InitOnce
  BY DEF HasTable, Together, InLock, InitOnce, Safe
<1>3. Held /\ SeenIsCurrent /\ NothingLost
  BY DEF Held, OneInside, SeenIsCurrent, NothingLost, Safe
<1> QED
  BY <1>1, <1>2, <1>3 DEF IInv

USE DEF Go, Return, Give, LockGo, lockVars, keyVars, privacyVars, locals, client

\* A Give leaves the history well typed, whatever the index.
LEMMA GiveType ==
  ASSUME TypeOK, NEW t \in Threads, NEW n, NEW id \in Tables, Give(t, id, n)
  PROVE  given' \in [Threads -> [Nos -> SUBSET Tables]]
<1>1. given[t] \in [Nos -> SUBSET Tables]
  BY DEF TypeOK, ThreadTypes
<1>2. [given[t] EXCEPT ![n] = @ \cup {id}] \in [Nos -> SUBSET Tables]
  <2>1. CASE n \in Nos
    <3>1. given[t][n] \cup {id} \in SUBSET Tables
      BY <1>1, <2>1
    <3> QED
      BY <1>1, <2>1, <3>1
  <2>2. CASE n \notin Nos
    BY <1>1, <2>2
  <2> QED
    BY <2>1, <2>2
<1>3. given' = [given EXCEPT ![t] = [given[t] EXCEPT ![n] = @ \cup {id}]]
  BY DEF TypeOK, ThreadTypes
<1> QED
  BY <1>2, <1>3 DEF TypeOK, ThreadTypes

\* The place of a thread's table under the key of the moment is one for a table.
LEMMA CurrentTable == ASSUME TypeOK, NEW t \in Threads PROVE <<key, t>> \in Tables
<1>1. key \in Nat
  BY DEF TypeOK, KeyTypes
<1> QED
  BY <1>1 DEF Tables

\* Types.
LEMMA TypeStep == ASSUME TypeOK, HasTable, [Next]_vars PROVE TypeOK'
<1> USE DEF TypeOK, LockTypeOK, FlagTypes, KeyTypes, TableTypes, ThreadTypes
<1>1. ASSUME NEW t \in Threads, Get(t) PROVE TypeOK'
  BY <1>1 DEF Get
<1>2. ASSUME NEW t \in Threads, Look(t) PROVE TypeOK'
  <2>1. given' \in [Threads -> [Nos -> SUBSET Tables]]
    BY <1>2, GiveType, CurrentTable DEF Look
  <2> QED
    BY <1>2, <2>1 DEF Look
<1>3. ASSUME NEW t \in Threads, TestInit(t) PROVE TypeOK'
  BY <1>3 DEF TestInit, Lock
<1>4. ASSUME NEW t \in Threads, CreateKey(t) PROVE TypeOK'
  <2>1. KeyTypes'
    BY <1>4 DEF CreateKey
  <2> QED
    BY <1>4, <2>1 DEF CreateKey
<1>5. ASSUME NEW t \in Threads, MarkInit(t) PROVE TypeOK'
  BY <1>5 DEF MarkInit
<1>6. ASSUME NEW t \in Threads, InitUnlock(t) PROVE TypeOK'
  BY <1>6 DEF InitUnlock, Unlock
<1>7. ASSUME NEW t \in Threads, Find(t) PROVE TypeOK'
  <2>1. <<key, t>> \in Tables
    BY CurrentTable
  <2>2. CASE Has(<<key, t>>, arg[t]) /\ Give(t, <<key, t>>, arg[t]) /\ Return(t)
    <3>1. given' \in [Threads -> [Nos -> SUBSET Tables]]
      BY <2>1, <2>2, GiveType
    <3> QED
      BY <1>7, <2>2, <3>1 DEF Find
  <2>3. CASE ~(Has(<<key, t>>, arg[t]) /\ Give(t, <<key, t>>, arg[t]) /\ Return(t))
    BY ZenonT(60), <1>7, <2>1, <2>3 DEF Find
  <2> QED
    BY <2>2, <2>3
<1>8. ASSUME NEW t \in Threads, SetTable(t) PROVE TypeOK'
  <2> DEFINE id == <<key, t>>
  <2>1. id \in Tables
    BY CurrentTable
  <2> HIDE DEF id
  <2>2. CASE Return(t) /\ UNCHANGED <<lockVars, tables>>
    BY <1>8, <2>2 DEF SetTable
  <2>3. CASE /\ tables' = [i \in DOMAIN tables \cup {id} |-> IF i = id THEN <<>> ELSE tables[i]]
             /\ table' = [table EXCEPT ![t] = id]
             /\ Go(t, "register") /\ Lock(t) /\ UNCHANGED arg
    <3>1. UNCHANGED <<keyVars, registered, seen, client, given, gone>>
      BY <1>8 DEF SetTable
    <3>2. \A i \in DOMAIN tables' : tables'[i] \in [DOMAIN tables'[i] -> BOOLEAN]
      <4>1. tables'[id] = <<>> /\ DOMAIN tables'[id] = {}
        BY <2>3
      <4>2. \A i \in DOMAIN tables \ {id} : tables'[i] = tables[i]
        BY <2>3
      <4>3. tables'[id] \in [DOMAIN tables'[id] -> BOOLEAN]
        BY <4>1
      <4> QED
        BY <2>3, <4>2, <4>3
    <3>3. TableTypes'
      BY <2>1, <2>3, <3>1, <3>2
    <3>4. ThreadTypes'
      BY <2>1, <2>3, <3>1
    <3>5. LockTypeOK' /\ FlagTypes' /\ KeyTypes'
      BY <2>3, <3>1 DEF Lock
    <3> QED
      BY <3>3, <3>4, <3>5
  <2> QED
    BY <1>8, <2>2, <2>3 DEF SetTable, id
<1>9. ASSUME NEW t \in Threads, PushReads(t) PROVE TypeOK'
  BY <1>9 DEF PushReads
<1>10. ASSUME NEW t \in Threads, PushWrites(t) PROVE TypeOK'
  <2>1. table[t] \in Tables /\ seen[t] \in SUBSET Tables
    BY <1>10 DEF PushWrites, HasTable
  <2>2. registered' \subseteq Tables
    BY <1>10, <2>1 DEF PushWrites
  <2> QED
    BY <1>10, <2>2 DEF PushWrites
<1>11. ASSUME NEW t \in Threads, RegisterUnlock(t) PROVE TypeOK'
  BY <1>11 DEF RegisterUnlock, Unlock
<1>12. ASSUME NEW t \in Threads, Create(t) PROVE TypeOK'
  <2>1. table[t] \in Tables
    BY <1>12 DEF Create, HasTable
  <2>2. given' \in [Threads -> [Nos -> SUBSET Tables]]
    BY <1>12, <2>1, GiveType DEF Create
  <2>3. tables' = [tables EXCEPT ![table[t]] = Filled(tables[table[t]], arg[t])]
    BY <1>12 DEF Create
  <2>4. \A i \in DOMAIN tables' : tables'[i] \in [DOMAIN tables'[i] -> BOOLEAN]
    <3> SUFFICES ASSUME NEW i \in DOMAIN tables
                 PROVE  tables'[i] \in [DOMAIN tables'[i] -> BOOLEAN]
      BY <2>3
    <3>1. CASE i = table[t]
      <4>1. tables'[i] = Filled(tables[i], arg[t])
        BY <2>3, <3>1
      <4>2. Filled(tables[i], arg[t]) \in [DOMAIN tables[i] \cup 0..arg[t] -> BOOLEAN]
        BY DEF Filled
      <4> QED
        BY <4>1, <4>2
    <3>2. CASE i # table[t]
      BY <2>3, <3>2
    <3> QED
      BY <3>1, <3>2
  <2>5. DOMAIN tables' = DOMAIN tables
    BY <2>3
  <2> QED
    BY <1>12, <2>2, <2>4, <2>5 DEF Create
<1>13. ASSUME NEW t \in Threads, LockStep(t), UNCHANGED privacyVars PROVE TypeOK'
  BY <1>13 DEF LockStep, TestLockInit, InitLock, MarkLockInit, Acquire
<1>14. ASSUME Destroy PROVE TypeOK'
  BY <1>14 DEF Destroy
<1>15. ASSUME UNCHANGED vars PROVE TypeOK'
  BY <1>15 DEF vars
<1> QED
  BY <1>1, <1>2, <1>3, <1>4, <1>5, <1>6, <1>7, <1>8, <1>9, <1>10, <1>11, <1>12, <1>13, <1>14, <1>15
     DEF Next, GoesOn, GetStep

\* A thread has its table before it comes to the code that uses it.
LEMMA HasTableStep ==
  ASSUME TypeOK, HasTable, [Next]_vars PROVE HasTable'
<1> USE DEF TypeOK, LockTypeOK, ThreadTypes, HasTable
<1>1. ASSUME NEW t \in Threads, Get(t) PROVE HasTable'
  BY <1>1 DEF Get
<1>2. ASSUME NEW t \in Threads, Look(t) PROVE HasTable'
  BY <1>2 DEF Look
<1>3. ASSUME NEW t \in Threads, TestInit(t) PROVE HasTable'
  BY <1>3 DEF TestInit, Lock
<1>4. ASSUME NEW t \in Threads, CreateKey(t) PROVE HasTable'
  BY <1>4 DEF CreateKey
<1>5. ASSUME NEW t \in Threads, MarkInit(t) PROVE HasTable'
  BY <1>5 DEF MarkInit
<1>6. ASSUME NEW t \in Threads, InitUnlock(t) PROVE HasTable'
  BY <1>6 DEF InitUnlock, Unlock
<1>7. ASSUME NEW t \in Threads, Find(t) PROVE HasTable'
  BY <1>7, CurrentTable DEF Find
<1>8. ASSUME NEW t \in Threads, SetTable(t) PROVE HasTable'
  BY <1>8, CurrentTable DEF SetTable, Lock
<1>9. ASSUME NEW t \in Threads, PushReads(t) PROVE HasTable'
  BY <1>9 DEF PushReads
<1>10. ASSUME NEW t \in Threads, PushWrites(t) PROVE HasTable'
  BY <1>10 DEF PushWrites
<1>11. ASSUME NEW t \in Threads, RegisterUnlock(t) PROVE HasTable'
  BY <1>11 DEF RegisterUnlock, Unlock
<1>12. ASSUME NEW t \in Threads, Create(t) PROVE HasTable'
  BY <1>12 DEF Create
<1>13. ASSUME NEW t \in Threads, TestLockInit(t), UNCHANGED privacyVars PROVE HasTable'
  BY <1>13 DEF TestLockInit
<1>14. ASSUME NEW t \in Threads, InitLock(t), UNCHANGED privacyVars PROVE HasTable'
  BY <1>14 DEF InitLock
<1>15. ASSUME NEW t \in Threads, MarkLockInit(t), UNCHANGED privacyVars PROVE HasTable'
  BY <1>15 DEF MarkLockInit
<1>16. ASSUME NEW t \in Threads, Acquire(t), UNCHANGED privacyVars PROVE HasTable'
  BY <1>16 DEF Acquire
<1>17. ASSUME Destroy PROVE HasTable'
  BY <1>17 DEF Destroy
<1>18. ASSUME UNCHANGED vars PROVE HasTable'
  BY <1>18 DEF vars
<1> QED
  BY <1>1, <1>2, <1>3, <1>4, <1>5, <1>6, <1>7, <1>8, <1>9,
     <1>10, <1>11, <1>12, <1>13, <1>14, <1>15, <1>16, <1>17, <1>18
     DEF Next, GoesOn, GetStep, LockStep

\* Lock and Unlock surround the writes of the key and of the set.
LEMMA TogetherStep ==
  ASSUME TypeOK, Together, [Next]_vars PROVE Together'
<1> USE DEF TypeOK, LockTypeOK, ThreadTypes, Together, InLock
<1>1. ASSUME NEW t \in Threads, Get(t) PROVE Together'
  BY <1>1 DEF Get
<1>2. ASSUME NEW t \in Threads, Look(t) PROVE Together'
  BY <1>2 DEF Look
<1>3. ASSUME NEW t \in Threads, TestInit(t) PROVE Together'
  BY <1>3 DEF TestInit, Lock
<1>4. ASSUME NEW t \in Threads, CreateKey(t) PROVE Together'
  BY <1>4 DEF CreateKey
<1>5. ASSUME NEW t \in Threads, MarkInit(t) PROVE Together'
  BY <1>5 DEF MarkInit
<1>6. ASSUME NEW t \in Threads, InitUnlock(t) PROVE Together'
  BY <1>6 DEF InitUnlock, Unlock
<1>7. ASSUME NEW t \in Threads, Find(t) PROVE Together'
  BY <1>7 DEF Find
<1>8. ASSUME NEW t \in Threads, SetTable(t) PROVE Together'
  BY ZenonT(60), <1>8 DEF SetTable, Lock
<1>9. ASSUME NEW t \in Threads, PushReads(t) PROVE Together'
  BY <1>9 DEF PushReads
<1>10. ASSUME NEW t \in Threads, PushWrites(t) PROVE Together'
  BY <1>10 DEF PushWrites
<1>11. ASSUME NEW t \in Threads, RegisterUnlock(t) PROVE Together'
  BY <1>11 DEF RegisterUnlock, Unlock
<1>12. ASSUME NEW t \in Threads, Create(t) PROVE Together'
  BY <1>12 DEF Create
<1>13. ASSUME NEW t \in Threads, TestLockInit(t), UNCHANGED privacyVars PROVE Together'
  BY <1>13 DEF TestLockInit
<1>14. ASSUME NEW t \in Threads, InitLock(t), UNCHANGED privacyVars PROVE Together'
  BY <1>14 DEF InitLock
<1>15. ASSUME NEW t \in Threads, MarkLockInit(t), UNCHANGED privacyVars PROVE Together'
  BY <1>15 DEF MarkLockInit
<1>16. ASSUME NEW t \in Threads, Acquire(t), UNCHANGED privacyVars PROVE Together'
  BY <1>16 DEF Acquire
<1>17. ASSUME Destroy PROVE Together'
  BY <1>17 DEF Destroy
<1>18. ASSUME UNCHANGED vars PROVE Together'
  BY <1>18 DEF vars
<1> QED
  BY <1>1, <1>2, <1>3, <1>4, <1>5, <1>6, <1>7, <1>8, <1>9,
     <1>10, <1>11, <1>12, <1>13, <1>14, <1>15, <1>16, <1>17, <1>18
     DEF Next, GoesOn, GetStep, LockStep

\* Nobody is in the initialisation of the lock when it is initialised.
LEMMA InitOnceStep ==
  ASSUME TypeOK, Together, InitOnce, [Next]_vars PROVE InitOnce'
<1> USE DEF TypeOK, LockTypeOK, ThreadTypes, FlagTypes, Together, InLock, InitOnce, Safe
<1>1. ASSUME NEW t \in Threads, Get(t) PROVE InitOnce'
  BY <1>1 DEF Get
<1>2. ASSUME NEW t \in Threads, Look(t) PROVE InitOnce'
  BY <1>2 DEF Look
<1>3. ASSUME NEW t \in Threads, TestInit(t) PROVE InitOnce'
  <2>1. UNCHANGED <<keyVars, client, lockInit>>
    BY <1>3 DEF TestInit, Lock
  <2>2. \A u \in Threads : pc'[u] # "idle" => pc[u] # "idle"
    BY <1>3 DEF TestInit, Lock
  <2>3. \A u \in Threads : lpc'[u] \in {"acquire", "in", "init", "mark"} => lpc'[u] = lpc[u]
    BY <1>3 DEF TestInit, Lock
  <2>4. \A u \in Threads : lpc'[u] \in {"acquire", "in"} => lockInit'
    BY <2>1, <2>3
  <2>5. init' \/ lockGiven' => lockInit'
    BY <2>1
  <2>6. alone' /\ ~lockInit' =>
          \A v, w \in Threads : pc'[v] # "idle" /\ pc'[w] # "idle" => v = w
    <3>1. alone /\ ~lockInit =>
            \A v, w \in Threads : pc[v] # "idle" /\ pc[w] # "idle" => v = w
      BY DEF InitOnce
    <3> QED
      BY <2>1, <2>2, <3>1, Zenon
  <2>7. alone' \/ lockGiven' =>
          \A u \in Threads : lpc'[u] \in {"init", "mark"} => ~lockInit'
    BY <2>1, <2>3
  <2> QED
    BY <2>4, <2>5, <2>6, <2>7
<1>4. ASSUME NEW t \in Threads, CreateKey(t) PROVE InitOnce'
  BY <1>4 DEF CreateKey
<1>5. ASSUME NEW t \in Threads, MarkInit(t) PROVE InitOnce'
  BY <1>5 DEF MarkInit
<1>6. ASSUME NEW t \in Threads, InitUnlock(t) PROVE InitOnce'
  BY <1>6 DEF InitUnlock, Unlock
<1>7. ASSUME NEW t \in Threads, Find(t) PROVE InitOnce'
  BY <1>7 DEF Find
<1>8. ASSUME NEW t \in Threads, SetTable(t) PROVE InitOnce'
  BY SMTT(30), <1>8 DEF SetTable, Lock
<1>9. ASSUME NEW t \in Threads, PushReads(t) PROVE InitOnce'
  BY <1>9 DEF PushReads
<1>10. ASSUME NEW t \in Threads, PushWrites(t) PROVE InitOnce'
  BY <1>10 DEF PushWrites
<1>11. ASSUME NEW t \in Threads, RegisterUnlock(t) PROVE InitOnce'
  BY <1>11 DEF RegisterUnlock, Unlock
<1>12. ASSUME NEW t \in Threads, Create(t) PROVE InitOnce'
  BY <1>12 DEF Create
<1>13. ASSUME NEW t \in Threads, TestLockInit(t), UNCHANGED privacyVars PROVE InitOnce'
  BY <1>13 DEF TestLockInit
<1>14. ASSUME NEW t \in Threads, InitLock(t), UNCHANGED privacyVars PROVE InitOnce'
  BY <1>14 DEF InitLock
<1>15. ASSUME NEW t \in Threads, MarkLockInit(t), UNCHANGED privacyVars PROVE InitOnce'
  BY <1>15 DEF MarkLockInit
<1>16. ASSUME NEW t \in Threads, Acquire(t), UNCHANGED privacyVars PROVE InitOnce'
  BY <1>16 DEF Acquire
<1>17. ASSUME Destroy PROVE InitOnce'
  BY <1>17 DEF Destroy
<1>18. ASSUME UNCHANGED vars PROVE InitOnce'
  BY <1>18 DEF vars
<1> QED
  BY <1>1, <1>2, <1>3, <1>4, <1>5, <1>6, <1>7, <1>8, <1>9,
     <1>10, <1>11, <1>12, <1>13, <1>14, <1>15, <1>16, <1>17, <1>18
     DEF Next, GoesOn, GetStep, LockStep

\* A lock that is initialised once excludes.
LEMMA HeldStep ==
  ASSUME TypeOK, InitOnce, Held, [Next]_vars PROVE Held'
<1> USE DEF TypeOK, LockTypeOK, ThreadTypes, FlagTypes, InitOnce, Held, OneInside, Safe
<1>1. ASSUME NEW t \in Threads, Get(t) PROVE Held'
  BY <1>1 DEF Get
<1>2. ASSUME NEW t \in Threads, Look(t) PROVE Held'
  BY <1>2 DEF Look
<1>3. ASSUME NEW t \in Threads, TestInit(t) PROVE Held'
  BY <1>3 DEF TestInit, Lock
<1>4. ASSUME NEW t \in Threads, CreateKey(t) PROVE Held'
  BY <1>4 DEF CreateKey
<1>5. ASSUME NEW t \in Threads, MarkInit(t) PROVE Held'
  BY <1>5 DEF MarkInit
<1>6. ASSUME NEW t \in Threads, InitUnlock(t) PROVE Held'
  BY <1>6 DEF InitUnlock, Unlock
<1>7. ASSUME NEW t \in Threads, Find(t) PROVE Held'
  BY <1>7 DEF Find
<1>8. ASSUME NEW t \in Threads, SetTable(t) PROVE Held'
  BY <1>8 DEF SetTable, Lock
<1>9. ASSUME NEW t \in Threads, PushReads(t) PROVE Held'
  BY <1>9 DEF PushReads
<1>10. ASSUME NEW t \in Threads, PushWrites(t) PROVE Held'
  BY <1>10 DEF PushWrites
<1>11. ASSUME NEW t \in Threads, RegisterUnlock(t) PROVE Held'
  BY <1>11 DEF RegisterUnlock, Unlock
<1>12. ASSUME NEW t \in Threads, Create(t) PROVE Held'
  BY <1>12 DEF Create
<1>13. ASSUME NEW t \in Threads, TestLockInit(t), UNCHANGED privacyVars PROVE Held'
  BY <1>13 DEF TestLockInit
<1>14. ASSUME NEW t \in Threads, InitLock(t), UNCHANGED privacyVars PROVE Held'
  BY <1>14 DEF InitLock
<1>15. ASSUME NEW t \in Threads, MarkLockInit(t), UNCHANGED privacyVars PROVE Held'
  BY <1>15 DEF MarkLockInit
<1>16. ASSUME NEW t \in Threads, Acquire(t), UNCHANGED privacyVars PROVE Held'
  BY <1>16 DEF Acquire
<1>17. ASSUME Destroy PROVE Held'
  BY <1>17 DEF Destroy
<1>18. ASSUME UNCHANGED vars PROVE Held'
  BY <1>18 DEF vars
<1> QED
  BY <1>1, <1>2, <1>3, <1>4, <1>5, <1>6, <1>7, <1>8, <1>9,
     <1>10, <1>11, <1>12, <1>13, <1>14, <1>15, <1>16, <1>17, <1>18
     DEF Next, GoesOn, GetStep, LockStep

\* Nobody else writes the set between push_back's read and its write.
LEMMA SeenStep ==
  ASSUME TypeOK, Together, Held, SeenIsCurrent, [Next]_vars PROVE SeenIsCurrent'
<1> USE DEF TypeOK, LockTypeOK, ThreadTypes, Together, Held, OneInside, SeenIsCurrent, Safe
<1>1. ASSUME NEW t \in Threads, Get(t) PROVE SeenIsCurrent'
  BY <1>1 DEF Get
<1>2. ASSUME NEW t \in Threads, Look(t) PROVE SeenIsCurrent'
  BY <1>2 DEF Look
<1>3. ASSUME NEW t \in Threads, TestInit(t) PROVE SeenIsCurrent'
  BY <1>3 DEF TestInit, Lock
<1>4. ASSUME NEW t \in Threads, CreateKey(t) PROVE SeenIsCurrent'
  BY <1>4 DEF CreateKey
<1>5. ASSUME NEW t \in Threads, MarkInit(t) PROVE SeenIsCurrent'
  BY <1>5 DEF MarkInit
<1>6. ASSUME NEW t \in Threads, InitUnlock(t) PROVE SeenIsCurrent'
  BY <1>6 DEF InitUnlock, Unlock
<1>7. ASSUME NEW t \in Threads, Find(t) PROVE SeenIsCurrent'
  BY <1>7 DEF Find
<1>8. ASSUME NEW t \in Threads, SetTable(t) PROVE SeenIsCurrent'
  BY <1>8 DEF SetTable, Lock
<1>9. ASSUME NEW t \in Threads, PushReads(t) PROVE SeenIsCurrent'
  BY <1>9 DEF PushReads
<1>10. ASSUME NEW t \in Threads, PushWrites(t) PROVE SeenIsCurrent'
  BY <1>10 DEF PushWrites
<1>11. ASSUME NEW t \in Threads, RegisterUnlock(t) PROVE SeenIsCurrent'
  BY <1>11 DEF RegisterUnlock, Unlock
<1>12. ASSUME NEW t \in Threads, Create(t) PROVE SeenIsCurrent'
  BY <1>12 DEF Create
<1>13. ASSUME NEW t \in Threads, TestLockInit(t), UNCHANGED privacyVars PROVE SeenIsCurrent'
  BY <1>13 DEF TestLockInit
<1>14. ASSUME NEW t \in Threads, InitLock(t), UNCHANGED privacyVars PROVE SeenIsCurrent'
  BY <1>14 DEF InitLock
<1>15. ASSUME NEW t \in Threads, MarkLockInit(t), UNCHANGED privacyVars PROVE SeenIsCurrent'
  BY <1>15 DEF MarkLockInit
<1>16. ASSUME NEW t \in Threads, Acquire(t), UNCHANGED privacyVars PROVE SeenIsCurrent'
  BY <1>16 DEF Acquire
<1>17. ASSUME Destroy PROVE SeenIsCurrent'
  BY <1>17 DEF Destroy
<1>18. ASSUME UNCHANGED vars PROVE SeenIsCurrent'
  BY <1>18 DEF vars
<1> QED
  BY <1>1, <1>2, <1>3, <1>4, <1>5, <1>6, <1>7, <1>8, <1>9,
     <1>10, <1>11, <1>12, <1>13, <1>14, <1>15, <1>16, <1>17, <1>18
     DEF Next, GoesOn, GetStep, LockStep

\* A table is registered by the thread that has made it.
LEMMA LostStep ==
  ASSUME TypeOK, SeenIsCurrent, NothingLost, [Next]_vars PROVE NothingLost'
<1> USE DEF TypeOK, LockTypeOK, ThreadTypes, SeenIsCurrent, NothingLost, Safe
<1>1. ASSUME NEW t \in Threads, Get(t) PROVE NothingLost'
  BY <1>1 DEF Get
<1>2. ASSUME NEW t \in Threads, Look(t) PROVE NothingLost'
  BY <1>2 DEF Look
<1>3. ASSUME NEW t \in Threads, TestInit(t) PROVE NothingLost'
  BY <1>3 DEF TestInit, Lock
<1>4. ASSUME NEW t \in Threads, CreateKey(t) PROVE NothingLost'
  BY <1>4 DEF CreateKey
<1>5. ASSUME NEW t \in Threads, MarkInit(t) PROVE NothingLost'
  BY <1>5 DEF MarkInit
<1>6. ASSUME NEW t \in Threads, InitUnlock(t) PROVE NothingLost'
  BY <1>6 DEF InitUnlock, Unlock
<1>7. ASSUME NEW t \in Threads, Find(t) PROVE NothingLost'
  BY <1>7 DEF Find
<1>8. ASSUME NEW t \in Threads, SetTable(t) PROVE NothingLost'
  <2>1. \A u \in Threads : pc[u] \in {"register", "push"} =>
          pc'[u] = pc[u] /\ table'[u] = table[u]
    BY <1>8 DEF SetTable, Lock
  <2>2. \A id \in DOMAIN tables' : id \in DOMAIN tables \/ (pc'[t] = "register" /\ table'[t] = id)
    BY SMTT(30), <1>8 DEF SetTable, Lock
  <2>3. UNCHANGED <<registered, client>>
    BY <1>8 DEF SetTable
  <2> QED
    BY ZenonT(60), <2>1, <2>2, <2>3
<1>9. ASSUME NEW t \in Threads, PushReads(t) PROVE NothingLost'
  BY <1>9 DEF PushReads
<1>10. ASSUME NEW t \in Threads, PushWrites(t) PROVE NothingLost'
  BY <1>10 DEF PushWrites
<1>11. ASSUME NEW t \in Threads, RegisterUnlock(t) PROVE NothingLost'
  BY <1>11 DEF RegisterUnlock, Unlock
<1>12. ASSUME NEW t \in Threads, Create(t) PROVE NothingLost'
  BY <1>12 DEF Create
<1>13. ASSUME NEW t \in Threads, TestLockInit(t), UNCHANGED privacyVars PROVE NothingLost'
  BY <1>13 DEF TestLockInit
<1>14. ASSUME NEW t \in Threads, InitLock(t), UNCHANGED privacyVars PROVE NothingLost'
  BY <1>14 DEF InitLock
<1>15. ASSUME NEW t \in Threads, MarkLockInit(t), UNCHANGED privacyVars PROVE NothingLost'
  BY <1>15 DEF MarkLockInit
<1>16. ASSUME NEW t \in Threads, Acquire(t), UNCHANGED privacyVars PROVE NothingLost'
  BY <1>16 DEF Acquire
<1>17. ASSUME Destroy PROVE NothingLost'
  BY <1>17 DEF Destroy
<1>18. ASSUME UNCHANGED vars PROVE NothingLost'
  BY <1>18 DEF vars
<1> QED
  BY <1>1, <1>2, <1>3, <1>4, <1>5, <1>6, <1>7, <1>8, <1>9,
     <1>10, <1>11, <1>12, <1>13, <1>14, <1>15, <1>16, <1>17, <1>18
     DEF Next, GoesOn, GetStep, LockStep

\* Every step of Get, of the lock and of the destructor preserves the invariant.
LEMMA InvStep == IInv /\ [Next]_vars => IInv'
BY TypeStep, HasTableStep, TogetherStep, InitOnceStep, HeldStep, SeenStep, LostStep DEF IInv

-----------------------------------------------------------------------------
\* So the invariant always holds.
LEMMA Invariance == Spec => []IInv
BY InitInv, InvStep, PTL DEF Spec

\* lock_ excludes wherever the key and the set are written, if another ThreadPrivacy has
\* initialised it or the client made the first call alone (LockPolicy, Init_, AddNewPrivacies_).
THEOREM Exclusion == Spec => []WellFormed
<1>1. IInv => WellFormed
  BY DEF IInv, WellFormed, Exclusive, Held, Together, Safe
<1> QED
  BY <1>1, Invariance, PTL

\* Under the same condition no table is lost to the destructor, whatever fails on the way.
THEOREM Registered == Spec => []NothingLost
<1>1. IInv => NothingLost
  BY DEF IInv
<1> QED
  BY <1>1, Invariance, PTL

-----------------------------------------------------------------------------
(* What a thread gets stays the same.                                      *)

\* With a first call that is alone there is one key: nobody is where it is created when it
\* is there, and nobody is behind that before.
OneKey ==
  alone =>
    /\ ~init => \A t, u \in Threads : pc[t] # "idle" /\ pc[u] # "idle" => t = u
    /\ init => \A t \in Threads : pc[t] \notin {"init", "mark", "fail"}
    /\ ~init => \A t \in Threads : pc[t] \in {"idle", "get", "init", "mark", "fail"}

\* What a thread was given is in the one table that it has, and the table is made once.
HasOne(t) ==
  /\ pc[t] = "set" => <<key, t>> \notin DOMAIN tables
  /\ pc[t] \in {"register", "push", "pushed", "create"} =>
       table[t] = <<key, t>> /\ <<key, t>> \in DOMAIN tables
  /\ \A n \in Nos : /\ given[t][n] \subseteq {<<key, t>>}
                    /\ ~gone /\ given[t][n] # {} => Has(<<key, t>>, n)

OneTable ==
  alone =>
    /\ ~init => \A t \in Threads, n \in Nos : given[t][n] = {}
    /\ gone => \A t \in Threads : pc[t] = "idle"
    /\ \A t \in Threads : HasOne(t)

LEMMA OneKeyStep ==
  ASSUME TypeOK, OneKey, [Next]_vars PROVE OneKey'
<1> USE DEF TypeOK, LockTypeOK, ThreadTypes, FlagTypes, OneKey
<1>1. ASSUME NEW t \in Threads, Get(t) PROVE OneKey'
  BY <1>1 DEF Get
<1>2. ASSUME NEW t \in Threads, Look(t) PROVE OneKey'
  BY <1>2 DEF Look
<1>3. ASSUME NEW t \in Threads, TestInit(t) PROVE OneKey'
  BY <1>3 DEF TestInit, Lock
<1>4. ASSUME NEW t \in Threads, CreateKey(t) PROVE OneKey'
  BY <1>4 DEF CreateKey
<1>5. ASSUME NEW t \in Threads, MarkInit(t) PROVE OneKey'
  BY <1>5 DEF MarkInit
<1>6. ASSUME NEW t \in Threads, InitUnlock(t) PROVE OneKey'
  BY <1>6 DEF InitUnlock, Unlock
<1>7. ASSUME NEW t \in Threads, Find(t) PROVE OneKey'
  BY <1>7 DEF Find
<1>8. ASSUME NEW t \in Threads, SetTable(t) PROVE OneKey'
  BY <1>8 DEF SetTable, Lock
<1>9. ASSUME NEW t \in Threads, PushReads(t) PROVE OneKey'
  BY <1>9 DEF PushReads
<1>10. ASSUME NEW t \in Threads, PushWrites(t) PROVE OneKey'
  BY <1>10 DEF PushWrites
<1>11. ASSUME NEW t \in Threads, RegisterUnlock(t) PROVE OneKey'
  BY <1>11 DEF RegisterUnlock, Unlock
<1>12. ASSUME NEW t \in Threads, Create(t) PROVE OneKey'
  BY <1>12 DEF Create
<1>13. ASSUME NEW t \in Threads, LockStep(t), UNCHANGED privacyVars PROVE OneKey'
  BY <1>13
<1>14. ASSUME Destroy PROVE OneKey'
  BY <1>14 DEF Destroy
<1>15. ASSUME UNCHANGED vars PROVE OneKey'
  BY <1>15 DEF vars
<1> QED
  BY <1>1, <1>2, <1>3, <1>4, <1>5, <1>6, <1>7, <1>8, <1>9,
     <1>10, <1>11, <1>12, <1>13, <1>14, <1>15
     DEF Next, GoesOn, GetStep

\* A step that leaves the table of a thread alone, and what the thread was given.
LEMMA KeepsOne ==
  ASSUME NEW t \in Threads, HasOne(t), UNCHANGED <<key, gone>>, given'[t] = given[t],
         \/ pc'[t] = pc[t] /\ table'[t] = table[t]
         \/ pc'[t] \notin {"set", "register", "push", "pushed", "create"}
         \/ /\ {pc[t], pc'[t]} \subseteq {"register", "push", "pushed", "create"}
            /\ table'[t] = table[t],
         <<key, t>> \in DOMAIN tables' <=> <<key, t>> \in DOMAIN tables,
         <<key, t>> \in DOMAIN tables => tables'[<<key, t>>] = tables[<<key, t>>]
  PROVE  HasOne(t)'
BY DEF HasOne, Has

\* To give a thread what is in its table, under the key of the moment.
LEMMA GiveMine ==
  ASSUME given \in [Threads -> [Nos -> SUBSET Tables]], NEW t \in Threads, NEW id, NEW m,
         \A n \in Nos : given[t][n] \subseteq {id},
         given' = [given EXCEPT ![t][m] = given[t][m] \cup {id}]
  PROVE  /\ \A u \in Threads \ {t} : given'[u] = given[u]
         /\ \A n \in Nos : /\ given'[t][n] \subseteq {id}
                           /\ n # m => given'[t][n] = given[t][n]
<1>1. \A n \in Nos : given'[t][n] = IF n = m THEN given[t][n] \cup {id} ELSE given[t][n]
  OBVIOUS
<1>2. \A u \in Threads \ {t} : given'[u] = given[u]
  OBVIOUS
<1> QED  BY <1>1, <1>2

LEMMA HasOneStep ==
  ASSUME TypeOK, OneKey, OneTable, alone, NEW v \in Threads, [Next]_vars
  PROVE  HasOne(v)'
<1>types. /\ pc \in [Threads -> {"idle", "get", "init", "mark", "made", "fail", "find", "set",
                             "register", "push", "pushed", "create"}]
      /\ arg \in [Threads -> Nos \cup {0}] /\ table \in [Threads -> Tables \cup {NoTable}]
      /\ given \in [Threads -> [Nos -> SUBSET Tables]]
  BY DEF TypeOK, ThreadTypes
<1>one. \A u \in Threads : HasOne(u)
  BY DEF OneTable
<1>mine. \A u \in Threads, n \in Nos : given[u][n] \subseteq {<<key, u>>}
  BY <1>one DEF HasOne
<1>1. ASSUME NEW t \in Threads, Get(t) PROVE HasOne(v)'
  BY <1>types, <1>one, <1>1, KeepsOne DEF Get
<1>2. ASSUME NEW t \in Threads, Look(t) PROVE HasOne(v)'
  <2>1. PICK m \in Nos : Has(<<key, t>>, m) /\ Give(t, <<key, t>>, m)
    BY <1>2 DEF Look
  <2>2. UNCHANGED <<key, tables, table, pc, gone>>
    BY <1>2 DEF Look
  <2>3. /\ \A u \in Threads \ {t} : given'[u] = given[u]
        /\ \A n \in Nos : /\ given'[t][n] \subseteq {<<key, t>>}
                          /\ n # m => given'[t][n] = given[t][n]
    <3>1. given' = [given EXCEPT ![t][m] = given[t][m] \cup {<<key, t>>}]
      BY <2>1
    <3> QED  BY <1>types, <1>mine, <3>1, GiveMine
  <2>4. CASE v # t
    BY <1>one, <2>2, <2>3, <2>4, KeepsOne
  <2>5. CASE v = t
    BY <1>one, <2>1, <2>2, <2>3, <2>5 DEF HasOne, Has
  <2> QED  BY <2>4, <2>5
<1>3. ASSUME NEW t \in Threads, TestInit(t) PROVE HasOne(v)'
  <2>1. UNCHANGED <<key, tables, table, given, gone>> /\ (v # t => pc'[v] = pc[v])
    BY <1>types, <1>3 DEF TestInit
  <2>2. pc'[t] \in {"find", "init"}
    BY <1>types, <1>3 DEF TestInit
  <2> QED  BY <1>one, <2>1, <2>2, KeepsOne
<1>4. ASSUME NEW t \in Threads, CreateKey(t) PROVE HasOne(v)'
  <2>1. ~init /\ UNCHANGED given
    BY <1>4 DEF CreateKey, OneKey
  <2>2. pc'[v] \notin {"set", "register", "push", "pushed", "create"}
    BY <1>types, <1>4, <2>1 DEF CreateKey, OneKey
  <2>3. \A n \in Nos : given'[v][n] = {}
    BY <2>1 DEF OneTable
  <2> QED  BY <2>2, <2>3 DEF HasOne
<1>5. ASSUME NEW t \in Threads, MarkInit(t) PROVE HasOne(v)'
  BY <1>types, <1>one, <1>5, KeepsOne DEF MarkInit
<1>6. ASSUME NEW t \in Threads, InitUnlock(t) PROVE HasOne(v)'
  <2>1. UNCHANGED <<key, tables, given, gone>>
    BY <1>6 DEF InitUnlock
  <2>2. pc'[t] \in {"find", "idle"} /\ (v # t => pc'[v] = pc[v] /\ table'[v] = table[v])
    BY <1>types, <1>6 DEF InitUnlock
  <2> QED  BY <1>one, <2>1, <2>2, KeepsOne
<1>7. ASSUME NEW t \in Threads, Find(t) PROVE HasOne(v)'
  <2>1. UNCHANGED <<key, tables, gone>>
    BY <1>7 DEF Find
  <2>2. CASE Has(<<key, t>>, arg[t]) /\ Give(t, <<key, t>>, arg[t]) /\ Return(t)
    <3>1. /\ \A u \in Threads \ {t} : given'[u] = given[u]
          /\ \A n \in Nos : /\ given'[t][n] \subseteq {<<key, t>>}
                            /\ n # arg[t] => given'[t][n] = given[t][n]
      <4>1. given' = [given EXCEPT ![t][arg[t]] = given[t][arg[t]] \cup {<<key, t>>}]
        BY <2>2
      <4> QED  BY <1>types, <1>mine, <4>1, GiveMine
    <3>2. pc'[t] = "idle" /\ (v # t => pc'[v] = pc[v] /\ table'[v] = table[v])
      BY <1>types, <2>2
    <3>3. CASE v # t
      BY <1>one, <2>1, <3>1, <3>2, <3>3, KeepsOne
    <3>4. CASE v = t
      BY <1>one, <2>1, <2>2, <3>1, <3>2, <3>4 DEF HasOne, Has
    <3> QED  BY <3>3, <3>4
  <2>3. CASE /\ Go(t, IF <<key, t>> \in DOMAIN tables THEN "create" ELSE "set")
             /\ table' = [table EXCEPT ![t] = <<key, t>>]
             /\ UNCHANGED <<arg, given>>
    <3>1. /\ pc'[t] = IF <<key, t>> \in DOMAIN tables THEN "create" ELSE "set"
          /\ table'[t] = <<key, t>>
          /\ v # t => pc'[v] = pc[v] /\ table'[v] = table[v]
      BY <1>types, <2>3
    <3>2. CASE v # t
      BY <1>one, <2>1, <2>3, <3>1, <3>2, KeepsOne
    <3>3. CASE v = t
      BY <1>one, <2>1, <2>3, <3>1, <3>3 DEF HasOne, Has
    <3> QED  BY <3>2, <3>3
  <2> QED  BY <1>7, <2>2, <2>3 DEF Find
<1>8. ASSUME NEW t \in Threads, SetTable(t) PROVE HasOne(v)'
  <2>1. UNCHANGED <<key, given, gone>> /\ pc[t] = "set" /\ ~gone
    BY <1>8 DEF SetTable, OneTable
  <2>2. CASE Return(t) /\ UNCHANGED tables
    <3>1. pc'[t] = "idle" /\ (v # t => pc'[v] = pc[v] /\ table'[v] = table[v])
      BY <1>types, <2>2
    <3> QED  BY <1>one, <2>1, <2>2, <3>1, KeepsOne
  <2>3. CASE /\ tables' = [i \in DOMAIN tables \cup {<<key, t>>} |->
                             IF i = <<key, t>> THEN <<>> ELSE tables[i]]
             /\ table' = [table EXCEPT ![t] = <<key, t>>]
             /\ Go(t, "register")
    <3>1. /\ pc'[t] = "register" /\ table'[t] = <<key, t>> /\ <<key, t>> \in DOMAIN tables'
          /\ v # t => pc'[v] = pc[v] /\ table'[v] = table[v]
      BY <1>types, <2>3
    <3>2. CASE v # t
      <4>1. /\ <<key, v>> \in DOMAIN tables' <=> <<key, v>> \in DOMAIN tables
            /\ <<key, v>> \in DOMAIN tables => tables'[<<key, v>>] = tables[<<key, v>>]
        BY <2>3, <3>2
      <4> QED  BY <1>one, <2>1, <3>1, <3>2, <4>1, KeepsOne
    <3>3. CASE v = t
      <4>1. <<key, t>> \notin DOMAIN tables
        BY <1>one, <2>1 DEF HasOne
      <4>2. \A n \in Nos : given[t][n] = {}
        BY <1>one, <2>1, <4>1 DEF HasOne, Has
      <4> QED  BY <2>1, <3>1, <3>3, <4>2 DEF HasOne
    <3> QED  BY <3>2, <3>3
  <2> QED  BY <1>8, <2>2, <2>3 DEF SetTable
<1>9. ASSUME NEW t \in Threads, PushReads(t) PROVE HasOne(v)'
  BY <1>types, <1>one, <1>9, KeepsOne DEF PushReads
<1>10. ASSUME NEW t \in Threads, PushWrites(t) PROVE HasOne(v)'
  BY <1>types, <1>one, <1>10, KeepsOne DEF PushWrites
<1>11. ASSUME NEW t \in Threads, RegisterUnlock(t) PROVE HasOne(v)'
  <2>1. UNCHANGED <<key, tables, table, given, gone>>
    BY <1>11 DEF RegisterUnlock
  <2>2. pc[t] = "pushed" /\ pc'[t] = "create" /\ (v # t => pc'[v] = pc[v])
    BY <1>types, <1>11 DEF RegisterUnlock, Unlock, Together
  <2> QED  BY <1>one, <2>1, <2>2, KeepsOne
<1>12. ASSUME NEW t \in Threads, Create(t) PROVE HasOne(v)'
  <2>1. UNCHANGED <<key, gone>> /\ pc[t] = "create"
    BY <1>12 DEF Create
  <2>2. table[t] = <<key, t>> /\ <<key, t>> \in DOMAIN tables
    BY <1>one, <2>1 DEF HasOne
  <2>3. /\ tables' = [tables EXCEPT ![<<key, t>>] = Filled(tables[<<key, t>>], arg[t])]
        /\ Give(t, <<key, t>>, arg[t]) /\ Return(t)
    BY <1>12, <2>2 DEF Create
  <2>4. /\ \A u \in Threads \ {t} : given'[u] = given[u]
        /\ \A n \in Nos : /\ given'[t][n] \subseteq {<<key, t>>}
                          /\ n # arg[t] => given'[t][n] = given[t][n]
    <3>1. given' = [given EXCEPT ![t][arg[t]] = given[t][arg[t]] \cup {<<key, t>>}]
      BY <2>3
    <3> QED  BY <1>types, <1>mine, <3>1, GiveMine
  <2>5. pc'[t] = "idle" /\ (v # t => pc'[v] = pc[v] /\ table'[v] = table[v])
    BY <1>types, <2>3
  <2>6. CASE v # t
    <3>1. DOMAIN tables' = DOMAIN tables /\ tables'[<<key, v>>] = tables[<<key, v>>]
      BY <2>2, <2>3, <2>6
    <3> QED  BY <1>one, <2>1, <2>4, <2>5, <2>6, <3>1, KeepsOne
  <2>7. CASE v = t
    <3>1. DOMAIN tables' = DOMAIN tables
          /\ tables'[<<key, t>>] = Filled(tables[<<key, t>>], arg[t])
      BY <2>2, <2>3
    <3>2. arg[t] \in Nat
      <4>1. arg[t] \in Nos \cup {0}
        BY <1>types
      <4>2. Nos \subseteq Nat
        BY PrivacyAssumption DEF PrivacyAssumption
      <4>3. CASE arg[t] \in Nos
        BY <4>2, <4>3
      <4>4. CASE arg[t] = 0
        BY <4>4
      <4> QED  BY <4>1, <4>3, <4>4
    <3>3. ASSUME NEW n \in Nos, n = arg[t] \/ Has(<<key, t>>, n)
          PROVE  n \in DOMAIN tables'[<<key, t>>] /\ tables'[<<key, t>>][n]
      <4>1. n \in DOMAIN tables[<<key, t>>] \cup 0..arg[t]
        BY <3>2, <3>3 DEF Has
      <4>2. n = arg[t] \/ (n \in DOMAIN tables[<<key, t>>] /\ tables[<<key, t>>][n])
        BY <3>3 DEF Has
      <4> QED  BY <3>1, <4>1, <4>2, Zenon DEF Filled
    <3>4. \A n \in Nos : n = arg[t] \/ Has(<<key, t>>, n) => Has(<<key, t>>, n)'
      BY <2>1, <2>2, <3>1, <3>3 DEF Has
    <3> HIDE DEF Has
    <3> QED  BY <1>one, <2>1, <2>4, <2>5, <2>7, <3>4 DEF HasOne
  <2> QED  BY <2>6, <2>7
<1>13. ASSUME NEW t \in Threads, LockStep(t), UNCHANGED privacyVars PROVE HasOne(v)'
  BY <1>one, <1>13, KeepsOne
<1>14. ASSUME Destroy PROVE HasOne(v)'
  BY <1>one, <1>14 DEF Destroy, HasOne
<1>15. ASSUME UNCHANGED vars PROVE HasOne(v)'
  BY <1>one, <1>15, KeepsOne DEF vars
<1> QED
  BY <1>1, <1>2, <1>3, <1>4, <1>5, <1>6, <1>7, <1>8, <1>9,
     <1>10, <1>11, <1>12, <1>13, <1>14, <1>15
     DEF Next, GoesOn, GetStep

\* Before there is a key nobody is given anything, and after the destructor nobody runs.
LEMMA OneTableStep ==
  ASSUME TypeOK, OneKey, OneTable, [Next]_vars PROVE OneTable'
<1>1. alone' = alone /\ (init => init')
  <2>1. ASSUME NEW t \in Threads, Get(t) \/ Look(t) \/ GetStep(t)
        PROVE  alone' = alone /\ (init' = init \/ init' = TRUE)
    BY <2>1 DEF Get, Look, GetStep, TestInit, CreateKey, MarkInit, InitUnlock, Find, SetTable,
                PushReads, PushWrites, RegisterUnlock, Create
  <2>2. ASSUME Destroy \/ UNCHANGED privacyVars
        PROVE  alone' = alone /\ init' = init
    BY <2>2 DEF Destroy
  <2>3. CASE \E t \in Threads : Get(t) \/ Look(t) \/ GetStep(t)
    BY <2>1, <2>3
  <2>4. CASE Destroy \/ UNCHANGED privacyVars
    BY <2>2, <2>4
  <2> QED  BY <2>3, <2>4 DEF Next, GoesOn, vars
<1>2. ASSUME alone, ~init' PROVE given' = given
  <2>1. ~init
    BY <1>1, <1>2
  <2> QED  BY <1>2, <2>1 DEF Next, Get, Look, GoesOn, GetStep, TestInit, CreateKey, MarkInit,
         InitUnlock, Find, SetTable, PushReads, PushWrites, RegisterUnlock, Create, Destroy, vars,
         OneKey
<1>3. ASSUME alone, gone' PROVE \A t \in Threads : pc'[t] = "idle"
  <2>1. gone => \A t \in Threads : pc[t] = "idle"
    BY <1>3 DEF OneTable
  <2>2. (gone /\ UNCHANGED pc) \/ Destroy
    BY <1>3, <2>1 DEF Next, Get, Look, GoesOn, GetStep, TestInit, CreateKey, MarkInit,
         InitUnlock, Find, SetTable, PushReads, PushWrites, RegisterUnlock, Create, vars
  <2> QED  BY <2>1, <2>2 DEF Destroy
<1> QED  BY <1>1, <1>2, <1>3, HasOneStep DEF OneTable

\* A thread gets the same privacy for an index every time, and no other thread gets it, if
\* the client made the first call alone (Get, Get_, Init_).
THEOREM SameEveryTime == Spec => []Stable
<1>1. Init => OneKey /\ OneTable
  BY DEF Init, OneKey, OneTable, HasOne, NoKey
<1>2. TypeOK /\ OneKey /\ OneTable /\ [Next]_vars => (OneKey /\ OneTable)'
  BY OneKeyStep, OneTableStep
<1>3. OneTable => Stable
  <2> SUFFICES ASSUME OneTable, alone, NEW t \in Threads, NEW n \in Nos
               PROVE  /\ Cardinality(given[t][n]) <= 1
                      /\ ~gone => \A id \in given[t][n] :
                           id[2] = t /\ id \in DOMAIN tables /\ n \in DOMAIN tables[id]
                             /\ tables[id][n]
    BY DEF Stable
  <2>1. given[t][n] \subseteq {<<key, t>>}
    BY DEF OneTable, HasOne
  <2>2. given[t][n] = {} \/ given[t][n] = {<<key, t>>}
    BY <2>1
  <2>3. Cardinality(given[t][n]) <= 1
    <3>1. Cardinality({}) = 0 /\ Cardinality({<<key, t>>}) = 1
      BY FS_EmptySet, FS_Singleton
    <3>2. CASE given[t][n] = {}
      BY <3>1, <3>2
    <3>3. CASE given[t][n] = {<<key, t>>}
      BY <3>1, <3>3
    <3> QED  BY <2>2, <3>2, <3>3
  <2> QED  BY <2>1, <2>3 DEF OneTable, HasOne, Has
<1>4. IInv => TypeOK
  BY DEF IInv
<1> QED  BY <1>1, <1>2, <1>3, <1>4, Invariance, PTL DEF Spec
=============================================================================
