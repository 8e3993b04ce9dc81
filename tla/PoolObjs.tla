------------------------------ MODULE PoolObjs ------------------------------
(***************************************************************************)
(* The object pool of src/src/pool_objs/pool_objs.hpp, locked by a mutex   *)
(* or a spin lock.  Free objects lie in the rows of a table, in the places *)
(* before (current_row_, current_col_); a row is allocated when it is      *)
(* first needed and kept.  A call tests init_ and, the first time, runs    *)
(* Init_, both without the lock; the rest of it runs under the lock and is *)
(* one step.                                                               *)
(***************************************************************************)
EXTENDS Integers, FiniteSets, Functions

CONSTANTS
  Threads,
  Objects,           \* addresses of objects; a deleted one may be given out again
  NoObj, Junk,       \* NULL; what memory holds before it is written
  MaxBlocks,         \* max_num_blocks_
  ObjsPerBlock,      \* num_objs_per_block_
  InitObjs           \* init_num_objs_

\* A block holds an object (mem_per_block > 0) and the initial ones find room:
\* otherwise Init_ does not end, or fails in every call.
ASSUME PoolAssumption ==
  /\ MaxBlocks \in Nat \ {0} /\ ObjsPerBlock \in Nat \ {0} /\ InitObjs \in Nat
  /\ InitObjs <= MaxBlocks * ObjsPerBlock
  /\ NoObj \notin Objects /\ Junk \notin Objects

Rows == 0..MaxBlocks - 1
Cols == 0..ObjsPerBlock - 1
NoRow == [c \in {} |-> Junk]
JunkRow == [c \in Cols |-> Junk]

VARIABLES
  rows,              \* pool_objs_: NoRow for a row that is not allocated
  currentRow, currentCol, numObjsAlloc, numBlocksAlloc,
  init,              \* init_
  lockInit,          \* init_ of the lock, which its first Lock sets
  toResize, newIfNoResize,     \* to_resize_, new_if_no_resize_
  destroyed,
  pc, arg,           \* every thread: where it is, what it frees
  live,              \* the objects in memory
  used               \* those in the hands of clients

poolVars == <<rows, currentRow, currentCol, numObjsAlloc, numBlocksAlloc>>
flags == <<toResize, newIfNoResize>>
vars == <<poolVars, flags, init, lockInit, destroyed, pc, arg, live, used>>

Init ==
  /\ rows = [r \in Rows |-> NoRow]
  /\ currentRow = 0 /\ currentCol = 0 /\ numObjsAlloc = 0 /\ numBlocksAlloc = 0
  /\ toResize \in BOOLEAN /\ newIfNoResize \in BOOLEAN
  /\ init = FALSE /\ lockInit = FALSE /\ destroyed = FALSE
  /\ pc = [t \in Threads |-> "idle"]
  /\ arg = [t \in Threads |-> NoObj]
  /\ live = {} /\ used = {}

-----------------------------------------------------------------------------
(* Calls.  XFC_RAII_INIT tests init_ without the lock.                     *)

Call(t, op, o) ==
  /\ ~destroyed /\ pc[t] = "idle"
  /\ pc' = [pc EXCEPT ![t] = op]
  /\ arg' = [arg EXCEPT ![t] = o]
  /\ UNCHANGED <<poolVars, flags, init, lockInit, destroyed, live>>

CallGet(t) == Call(t, "get", NoObj) /\ UNCHANGED used

\* A client frees, once, what Get has given out.
CallFree(t) == \E o \in used : Call(t, "free", o) /\ used' = used \ {o}

\* The loop of Init_ ends with the first number of blocks that holds the initial
\* objects.
InitBlocks ==
  {k \in 0..MaxBlocks : /\ InitObjs <= k * ObjsPerBlock
                        /\ k > 0 => (k - 1) * ObjsPerBlock < InitObjs}

Init_(t) ==
  /\ pc[t] # "idle" /\ ~init
  /\ \E blocks \in InitBlocks :
       /\ \E objs \in Injection((0..blocks - 1) \X Cols, Objects \ live) :
            /\ rows' = [r \in Rows |->
                          IF r < blocks THEN [c \in Cols |-> objs[<<r, c>>]] ELSE NoRow]
            /\ live' = live \cup Range(objs)
       /\ currentRow' = blocks /\ numBlocksAlloc' = blocks
       /\ numObjsAlloc' = blocks * ObjsPerBlock
  /\ init' = TRUE
  /\ UNCHANGED <<currentCol, flags, lockInit, destroyed, pc, arg, used>>

\* The call has had the lock.
Return(t) ==
  /\ pc' = [pc EXCEPT ![t] = "idle"]
  /\ arg' = [arg EXCEPT ![t] = NoObj]
  /\ lockInit' = TRUE
  /\ UNCHANGED <<flags, init, destroyed>>

(* Get.                                                                    *)

GetFromRow(t) ==
  /\ pc[t] = "get" /\ init
  /\ currentCol # 0
  /\ currentCol' = currentCol - 1
  /\ used' = used \cup {rows[currentRow][currentCol - 1]}
  /\ Return(t)
  /\ UNCHANGED <<rows, currentRow, numObjsAlloc, numBlocksAlloc, live>>

\* Mutant of GetFromRowBefore: the object from its start.
GetFromRowBeforeShort(t) ==
  /\ pc[t] = "get" /\ init
  /\ currentCol = 0 /\ currentRow # 0
  /\ currentRow' = currentRow - 1
  /\ currentCol' = ObjsPerBlock - 1
  /\ used' = used \cup {rows[currentRow - 1][0]}
  /\ Return(t)
  /\ UNCHANGED <<rows, numObjsAlloc, numBlocksAlloc, live>>

GetFromRowBefore(t) ==
  /\ pc[t] = "get" /\ init
  /\ currentCol = 0 /\ currentRow # 0
  /\ currentRow' = currentRow - 1
  /\ currentCol' = ObjsPerBlock - 1
  /\ used' = used \cup {rows[currentRow - 1][ObjsPerBlock - 1]}
  /\ Return(t)
  /\ UNCHANGED <<rows, numObjsAlloc, numBlocksAlloc, live>>

NoneFree == currentRow = 0 /\ currentCol = 0
CanGrow == toResize /\ numBlocksAlloc < MaxBlocks

\* Mutant of GetFromNewBlock: the new objects go into the new row.
GetFromNewBlockAtEnd(t) ==
  /\ pc[t] = "get" /\ init
  /\ NoneFree /\ CanGrow
  /\ \E objs \in Injection(Cols, Objects \ live) :
       /\ rows' = [rows EXCEPT ![numBlocksAlloc] = objs]
       /\ live' = live \cup Range(objs)
       /\ used' = used \cup {rows'[0][ObjsPerBlock - 1]}
  /\ numBlocksAlloc' = numBlocksAlloc + 1
  /\ numObjsAlloc' = numObjsAlloc + ObjsPerBlock
  /\ currentCol' = ObjsPerBlock - 1
  /\ Return(t)
  /\ UNCHANGED currentRow

\* AllocABlock_ adds a row at the end, and puts the new objects into the current one.
GetFromNewBlock(t) ==
  /\ pc[t] = "get" /\ init
  /\ NoneFree /\ CanGrow
  /\ \E objs \in Injection(Cols, Objects \ live) :
       /\ rows' = [rows EXCEPT ![numBlocksAlloc] = JunkRow, ![0] = objs]
       /\ live' = live \cup Range(objs)
       /\ used' = used \cup {objs[ObjsPerBlock - 1]}
  /\ numBlocksAlloc' = numBlocksAlloc + 1
  /\ numObjsAlloc' = numObjsAlloc + ObjsPerBlock
  /\ currentCol' = ObjsPerBlock - 1
  /\ Return(t)
  /\ UNCHANGED currentRow

GetNew(t) ==
  /\ pc[t] = "get" /\ init
  /\ NoneFree /\ ~CanGrow /\ newIfNoResize
  /\ \E o \in Objects \ live : live' = live \cup {o} /\ used' = used \cup {o}
  /\ Return(t)
  /\ UNCHANGED poolVars

GetNothing(t) ==
  /\ pc[t] = "get" /\ init
  /\ NoneFree /\ ~CanGrow /\ ~newIfNoResize
  /\ Return(t)
  /\ UNCHANGED <<poolVars, live, used>>

(* Free.                                                                   *)

\* The product is of the number of blocks, not of the objects in a block.
NumObjsLeft == currentRow * numBlocksAlloc + currentCol

\* Mutant of Surplus: deletes while objects are missing.
SurplusBelow == ~toResize /\ NumObjsLeft < InitObjs
Surplus == ~toResize /\ NumObjsLeft = InitObjs
RowsFull == currentRow = numBlocksAlloc

FreeDeletes(t) ==
  /\ pc[t] = "free" /\ init
  /\ Surplus
  /\ live' = live \ {arg[t]}
  /\ Return(t)
  /\ UNCHANGED <<poolVars, used>>

\* Nobody has the object any more, and it is not deleted.
FreeLoses(t) ==
  /\ pc[t] = "free" /\ init
  /\ ~Surplus /\ RowsFull /\ numBlocksAlloc = MaxBlocks
  /\ Return(t)
  /\ UNCHANGED <<poolVars, live, used>>

\* Mutant of FreeStores: counts the rows when one is full, not when one is begun.
FreeStoresUncounted(t) ==
  /\ pc[t] = "free" /\ init
  /\ ~Surplus /\ (RowsFull => numBlocksAlloc < MaxBlocks)
  /\ LET table == IF RowsFull THEN [rows EXCEPT ![numBlocksAlloc] = JunkRow] ELSE rows
     IN  rows' = [table EXCEPT ![currentRow][currentCol] = arg[t]]
  /\ IF currentCol < ObjsPerBlock - 1
     THEN currentCol' = currentCol + 1 /\ UNCHANGED <<currentRow, numBlocksAlloc>>
     ELSE currentCol' = 0 /\ currentRow' = currentRow + 1 /\ numBlocksAlloc' = currentRow + 1
  /\ Return(t)
  /\ UNCHANGED <<numObjsAlloc, live, used>>

FreeStores(t) ==
  /\ pc[t] = "free" /\ init
  /\ ~Surplus /\ (RowsFull => numBlocksAlloc < MaxBlocks)
  /\ LET table == IF RowsFull THEN [rows EXCEPT ![numBlocksAlloc] = JunkRow] ELSE rows
     IN  rows' = [table EXCEPT ![currentRow][currentCol] = arg[t]]
  /\ numBlocksAlloc' = IF RowsFull THEN numBlocksAlloc + 1 ELSE numBlocksAlloc
  /\ IF currentCol < ObjsPerBlock - 1
     THEN currentCol' = currentCol + 1 /\ UNCHANGED currentRow
     ELSE currentCol' = 0 /\ currentRow' = currentRow + 1
  /\ Return(t)
  /\ UNCHANGED <<numObjsAlloc, live, used>>

(* The destructor, when no call is under way.                              *)

\* Whether a place holds a free object.
Listed(r, c) == r < currentRow \/ (r = currentRow /\ c < currentCol)
FreeObjects ==
  {rows[p[1]][p[2]] : p \in {q \in Rows \X Cols : Listed(q[1], q[2])}}

DestroyPool ==
  /\ ~destroyed /\ \A t \in Threads : pc[t] = "idle"
  /\ live' = live \ FreeObjects
  /\ rows' = [r \in Rows |-> NoRow]
  /\ destroyed' = TRUE /\ lockInit' = TRUE
  /\ UNCHANGED <<currentRow, currentCol, numObjsAlloc, numBlocksAlloc, flags, init,
                 pc, arg, used>>

-----------------------------------------------------------------------------
Get(t) ==
  \/ GetFromRow(t) \/ GetFromRowBefore(t) \/ GetFromNewBlock(t) \/ GetNew(t) \/ GetNothing(t)

Free(t) == FreeDeletes(t) \/ FreeLoses(t) \/ FreeStores(t)

\* What is assumed of the clients, and no code sees to: the first call is made alone,
\* and has returned before another one begins.  Of two first calls both would run
\* Init_, and the second would replace the table of the first; or both would initialise
\* the lock, and both have it.
FirstAlone == lockInit \/ \A t \in Threads : pc[t] = "idle"

Next ==
  \/ \E t \in Threads : \/ FirstAlone /\ (CallGet(t) \/ CallFree(t))
                        \/ Init_(t) \/ Get(t) \/ Free(t)
  \/ DestroyPool

Spec == Init /\ [][Next]_vars

-----------------------------------------------------------------------------
(* Properties.                                                             *)

\* The objects that calls of Free have in hand.
Freeing == {arg[t] : t \in {u \in Threads : pc[u] = "free"}}

FlagsOK == toResize \in BOOLEAN /\ newIfNoResize \in BOOLEAN /\ lockInit \in BOOLEAN

TypeOK ==
  /\ FlagsOK
  /\ rows \in [Rows -> {NoRow} \cup [Cols -> Objects \cup {Junk}]]
  /\ currentRow \in 0..MaxBlocks /\ currentCol \in Cols
  /\ numObjsAlloc \in Nat /\ numBlocksAlloc \in 0..MaxBlocks
  /\ init \in BOOLEAN /\ destroyed \in BOOLEAN
  /\ pc \in [Threads -> {"idle", "get", "free"}]
  /\ arg \in [Threads -> Objects \cup {NoObj}]
  /\ live \subseteq Objects /\ used \subseteq Objects

\* An object has one owner: a place of the free list, a client, or a call of Free.
\* Whatever Get takes off the list next is an object that nobody else has.
OneOwner ==
  ~destroyed =>
    /\ \A r \in Rows, c \in Cols : Listed(r, c) => rows[r][c] \in live \ (used \cup Freeing)
    /\ \A r1, r2 \in Rows, c1, c2 \in Cols :
         Listed(r1, c1) /\ Listed(r2, c2) /\ rows[r1][c1] = rows[r2][c2] => r1 = r2 /\ c1 = c2
    /\ \A t, u \in Threads : pc[t] = "free" /\ pc[u] = "free" /\ arg[t] = arg[u] => t = u
    /\ Freeing \subseteq live \ used /\ used \subseteq live

\* The cursor stays among the rows that are allocated, or at the start of the
\* next one: neither Get nor Free follows a row pointer that was never set.
RowsAllocated ==
  ~destroyed =>
    /\ \A r \in Rows : rows[r] # NoRow <=> r < numBlocksAlloc
    /\ currentRow < numBlocksAlloc \/ (currentRow = numBlocksAlloc /\ currentCol = 0)

\* Types, and the shape of the table: the run checks them together.
WellFormed == TypeOK /\ RowsAllocated

\* No object is lost, neither listed, used nor being freed, unless the table is
\* as large as it may get; the destructor deletes all that are listed.
NothingLost ==
  numBlocksAlloc < MaxBlocks =>
    live = IF destroyed THEN used ELSE FreeObjects \cup used \cup Freeing

\* A pool of a fixed size keeps the objects it was made for, though Free deletes what
\* it takes for surplus: all of them as long as there are no more blocks than objects in
\* a block, and after that, when NumObjsLeft (236) counts more than there are, the share
\* of a block's objects in the number of blocks.
FixedPoolKeeps ==
  ~toResize /\ ~destroyed /\ init =>
    InitObjs * ObjsPerBlock
      <= Cardinality(live) * (IF numBlocksAlloc > ObjsPerBlock THEN numBlocksAlloc
                                                               ELSE ObjsPerBlock)

=============================================================================
