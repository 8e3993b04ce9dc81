# Formal models of public-cpp

public-cpp (namespace `xforce`) is a library of C++ building blocks: pools, heaps,
hash maps, an epoll driver, a lock-free message pipe, thread-private data. This
directory holds TLA+ models of it, the TLC configurations that check them, and
theorems about them that TLAPS proves. Paths below are relative to
`src/src/`; `mpsc` stands for `mpsc_fixed_pipe/mpsc_fixed_pipe.hpp`.

## Inventory

| Component | State | Operations | Shared with | What makes it correct |
|---|---|---|---|---|
| `MPSCFixedPipe` (`mpsc`) | byte ring, `receiver_pace_`, `sender_pace_from_`, `sender_pace_to_` (pointer and 16-bit version in a word) | `SendMsg` by any thread; `ReceiveMsg`, `MsgConsumed` by one | lock-free, compare-and-swap on two words; `Notifier` | each message is received once, whole, in the order of reservation; every finished message is published; a reservation never takes bytes in use |
| `DefaultNotifier` (`mpsc_fixed_pipe/details/default_notifier.cpp`) | epoll set, one unix pipe per notifying thread, a spin lock | `Notify` by senders, `Wait` by the receiver | called by the pipe | a sleeping receiver with something to receive is woken; no caller hangs |
| `PoolObjs` (`pool_objs/pool_objs.hpp`) | table of blocks, rows of free objects, counters, `init_` | `Get`, `Free`, counters | `LockPolicy`, any thread | an object is handed out to one user at a time; counters agree with the free list |
| `LockPolicy` (`lock_policy.hpp`) | `init_`, the pthread lock | `Lock`, `Unlock` | everything that locks | one holder, also among the first users |
| `DelayDelPtr` (`delay_del_ptr.hpp`) | current object and version, list of retired objects with times | `Change`, `Get` | readers and one writer | a reader's object lives for the delay, less a writer's wait for the lock; version and object match |
| `HeapBase` (`heap.hpp`) | array of elements, sign (index) in every element, size | `Insert`, `Erase`, `Update`, `Pop`, `Top` | `EventsDriver` | heap order; a sign is the index of its element |
| `EventsDriver` (`events_driver.hpp`) | event per descriptor, heap of timers, epoll set | `RegEvent`, `Wait`, `CheckReadyEvent`, `RemoveTimeouts`, `ClearAll` | kernel | a timer exists exactly for the descriptors registered with one; timeouts are removed |
| `CloseHashmap` (`close_hashmap.hpp`) | table of buckets (blank, used, deleted), counts | `Insert`, `Upsert`, `Erase`, `Get`, `Copy`, iterator | one thread | behaves as a map; a probe ends |
| `ThreadPrivacy`, `ThreadPrivatePool` (`thread_privacy/`, `thread_private_pool.hpp`) | pthread key, per-thread table; a pool per thread and category | `Get`, `Free` | threads | one instance per thread and key |
| `JsonType` (`jsontype/`) | pointer to a value with a count, shared by its copies; pools of strings, lists and dicts | copy, assign, `operator[]`, `ParseJson`, `DumpJson` | one thread | a value lives while it is referenced, and no longer; a copy is not changed through another; what is printed can be read, where the printer loses nothing |
| `IOHelper` | none | blocking and non-blocking reads and writes | kernel | - |
| `Buffer`, `Slice`, `StrHelper`, `MultiArrayHelper`, `Time`, `Timer`, `gmonitor`, `mem_profile`, `common.h`, `mp_tools.hpp` | local | helpers | - | - |

The components meet by direct calls: the pipe calls its notifier, the driver its
heap, the pools their lock. What is hard in them is concurrency without locks (the
pipe), locks around sleeping calls (the notifier), lazy initialisation without
synchronisation (locks, pools, thread-private data), and long sequences of legal calls
on shared indices (heap, driver, hash map). There is no persistence and no
network protocol. `PROJECT.json` lists each hazard at its line.

## Plan

1. `MPSCFixedPipe` with `FifoChannel` as what it promises (done), its type
   correctness proved (done).
2. `DefaultNotifier` and, composed with the channel, `PipeNotify` (done).
3. `PoolObjs`, and the proof that an object has one owner (done).
4. `DelayDelPtr`, and the proof of how long a reader's object lives (done).
5. `HeapBase`, with the `PriorityQueue` that it implements, and `EventsDriver` over
   that queue (done).
6. `CloseHashmap`, with the `KeyValueMap` that it implements (done).
7. `LockPolicy` (lazy initialisation of a lock) with `ThreadPrivacy`, which uses it (done).
8. `JsonType`: reference counts and copy on write over a heap, with the `JsonValues` that it
   implements, and `JsonText`, its parser and printer (done).
9. Proofs: every safety invariant of the pipe and that it implements `FifoChannel`, under the timing
   assumptions; the invariants of `PoolObjs`, `DelayDelPtr`, `PipeNotify`, `EventsDriver` and
   `ThreadPrivacy`, those of the heap and that it implements `PriorityQueue`, those of the hash map and that it
   implements `KeyValueMap`, and `Lifetimes` and `OthersKept` of `JsonType` (done). Left: `HeapSpec` as an implementation of `JsonValues`,
   for which `ValueIn` would have to be defined without `RECURSIVE`.

## The pipe

### Modules

`MPSCFixedPipe` models a pipe opened with threshold 0. The bytes are cells: a
message of content size *n* is `MsgOffset + n` cells, the last of the header cells being
the size word. A cell is `Blank` (every byte 255), a sender (bytes that it has written),
or a number (a size word). A size word read where content is returns any of
`StrayWords`, one read behind the end of the pipe any of `BehindWords`.

Each access to shared memory is an action; the local computation after it belongs to
it. `LoadTo`, `LoadReceiver`, `CasTo` are `ReserveSpaceForSend_`, `WriteMsg` the
header, size and content of `SendMsg_`, and `MarkReady`, `LoadFrom`, `Spin`, `StoreFrom`,
`LoadSize`, `CasFrom`, `CheckTo`, `CheckReady` are `JustSendMsg_` (the last four its
loop). The receiver's are `LoadFromForReceive` and `HasTodo` (`ReceiveMsg_`; the
loops around it only repeat it), `MsgConsumed` and `BlankConsumed`. The history
variable `queue` lists the reservations that have not been consumed.

Writing a message and blanking one are one action each: no other thread may
look at those bytes in between except at the size word, which is one word.

`FifoChannel` is the promise: places in order, finishing in any order, publication in
order, delivery of the oldest. `ImplementsFifo` maps `sender_pace_from_` to the number
of visible messages (`Published`) and the ready bits to "finished".

### Timing assumptions

The code is not correct for every scheduling. `Spec` allows all of it; `TimelySpec`
leaves out the reservations that come too early for a thread which sleeps in the
middle of its work (`TimelyCasTo`):

- `BeforeBlank`: the reservation takes bytes that `MsgConsumed` has passed (mpsc:183)
  but not blanked (184). The receiver then wipes the new message. The run
  `MCPipe_blank` leaves just this one in and finds a sender about to flag a blank word.
- `Overtakes`: a sender has flagged its message and sleeps before it loads
  `sender_pace_from_` (323); another publishes the message, the receiver consumes it, and
  the ring comes round. When the sender wakes up it finds the pace at its old place
  (326), takes the message there for its own and publishes it, written or not: the version
  it decodes (325) is not compared with the one it reserved under. `WritingLooksWriting`
  fails in the same way if only this one is left in.
- `ReusesVersion`: a sender sleeps between a load and its compare-and-swap for
  2^16 rewinds, and the pace has its old value again.

The memory behind the pipe is assumed not to look like a ready message
(`BehindWords`): a sender that has published up to fewer than a header before the end
reads the size word there (347), while the receiver has a guard for that case (367).

### Runs

| Run | Question | Instance |
|---|---|---|
| `MCPipe_safety` | `FifoChannel` implemented; reservations disjoint, published messages whole, the oldest delivered, blank bytes blank, publication handed from sender to sender so that nothing finished is stranded, a drained pipe accepts | 2 senders, 7 cells, sizes 0, 1 and the illegal 2 |
| `MCPipe_live` | every message delivered, every `SendMsg` returns | 2 senders, 7 cells, size 0 |
| `MCPipe_blank` | the finding about `MsgConsumed` (183) | as `MCPipe_safety` |

With a header of 2 cells, 7 cells hold three of the smallest messages and two of the
largest, all rewinds occur (at the end exactly, one cell before it, where no header
fits, and at a blank size word), and a message may overlap the places of several of the
lap before. `EmptyAccepts` needs the pipe to be at least twice as large as its largest
message: `Init` (131) demands only that one fits, and a pipe between the two can be
empty and refuse. Three versions are enough to tell a stale pace from a current one, and
one more rewind wraps them. The state space is finite without other bounds, since the
versions wrap and the queue is limited by the ring. Senders are interchangeable (they
only occur as owners), hence the symmetry of the safety runs; the liveness run has none.

`FairSpec` has weak fairness for each sender's next step within `SendMsg` (also for its
compare-and-swap) and for the receiver: threads are scheduled, and the client polls
and consumes. No one has to call `SendMsg`. The busy wait (`Spin`) needs nothing more
because the place it waits for cannot be passed before the waiting thread has moved it.

## The notifier

`DefaultNotifier` has an action per system call and lock operation of `Notify` and
`Wait`. The byte written is counted up to `PipeBytes`, which stands for the capacity of a
unix pipe. The calls `pipe`, `epoll_ctl` and `pthread_setspecific` of the senders in `Failing`
may fail, `MaxFails` times in all (`fails` counts them). The spin lock is
mutually exclusive here; its lazy initialisation is in `LockPolicy`.

`PipeNotify` composes it with `FifoChannel`: `SendMsg` of a pipe with a threshold
decides from the space it sees (158) whether it will notify, sends, and notifies;
`ReceiveMsg` polls twice, waits and polls once more. The ring is measured in
messages (`Capacity`, `Threshold`).

| Run | Question | Instance |
|---|---|---|
| `MCPipeNotify` | a receiver sleeps over messages only because one of them was published by a `SendMsg` that decided not to notify; no thread notifies into a pipe that epoll does not watch; every message is delivered, every `Notify` returns | 2 senders, 2 messages, threshold 1; one call of one sender fails |

What `WokenUnlessSilent` shows of the design: the wake-up is not guaranteed. `silent` records, for each
published message, whether its publisher notifies. A sender that saw a backlog stays
silent though the receiver empties the pipe before the message is sent (158), and a
sender that publishes for another one does so after the other's notification (346). In
both cases the receiver sleeps until its timeout. A notification whose system calls fail is
lost as well, so the property is stated while none has failed.

Fairness is per thread: each sender goes on within its call (`SenderGoesOn`), and so does the
receiver (`ReceiverGoesOn`), which means that its timeout ends; with an infinite one
`Delivered` fails, by the code. `NotifyReturns` needs strong fairness of `NotifyLock`,
since the first `Notify` of a thread spins on the lock that `Wait` holds while it sleeps, and
gets it only between two calls. Both hold whatever call fails, but for one: a failed
`EPOLL_CTL_ADD` returns with the lock held (38), and every later `Wait` and every first
`Notify` spins for ever (`LockLost`). The program can then stop altogether, so the run does
not check deadlock.

## The pool

`PoolObjs` models `PoolObjsBase` with a lock policy that locks. A call of `Get` or `Free`
is `CallGet` or `CallFree` (the test of `init_`, outside the lock), `Init_` if it is
the first, and one action for the rest, which runs under the lock: `GetFromRow`,
`GetFromRowBefore`, `GetFromNewBlock`, `GetNew`, `GetNothing`; `FreeDeletes`,
`FreeLoses`, `FreeStores`. `to_resize_` and `new_if_no_resize_` are what the
constructor was told: `Init` lets them be anything. Objects are addresses, and an
address that has been deleted may be given out again. Clients free what they have
got, once; the destructor runs when nobody is in a call.

`FirstAlone` is what is assumed of the clients, and no code sees to: the first call is made while no other is
under way, and has returned before another one begins. The test of `init_` is outside the lock, so
two first calls can both run `Init_`, and the second replaces the table of the first. The lock is
initialised in the same way, by the first call that takes it (`lockInit`): of two that do, both may have it
(`LockPolicy`). It is a conjunct of `Next`, not of the actions.

What the model shows of the code: `AllocABlock_` puts the new objects into the
*current* row (row 0, when the pool is empty) and allocates the *next* row for
the objects that will come back; `OneOwner` and `WellFormed` (which has `RowsAllocated`) say that
this works out. `Free` drops an object when every row is full (`FreeLoses`), so `NothingLost` is
stated below that limit. `NumObjsLeft` counts `current_row_ * num_blocks_alloc_`
where a row has `num_objs_per_block_` objects. With more blocks than objects in a block that is too much:
`Free` takes an object for surplus while others are missing, and deletes it. `FixedPoolKeeps` says what is left
of the objects that a pool of a fixed size was made for: all of them up to as many blocks as a block has
objects; beyond, `InitObjs * ObjsPerBlock / numBlocksAlloc` of them, the share of a block's objects in the number
of blocks. The number of blocks is that of the moment: it grows when objects that `GetNew` has made come back.

`MCPool`: two threads, up to four rows of two places, five initial objects (three rows), nine objects. Three rows are
more than the objects in one from the start: `NumObjsLeft` comes to 3 and 4 with two and three objects free, to 6
with four, and never to 5, so the pool keeps what `GetNew` makes until its rows are full and it begins the fourth.
There `NumObjsLeft` is 5 with three objects free, and a client that frees the others gets them deleted:
three are left, as many as the property says (`5 * 2 <= 3 * 4`, not `2 * 4`). Four rows can be filled and a ninth object comes
from `GetNew`, so that `Free` meets the full table, and every policy occurs. Calls do not interleave within the
lock; two threads are enough for two calls that hold different objects. `Shape` is what the run tells states
apart by: the cursor, the counters, the rows that are allocated, how many objects are in memory and used, where
the threads are, and whether the invariants that name objects hold. The pool compares and computes no
addresses, and reads no place that is not listed before it has written it, so that while
`OneOwner` holds two states of the same shape differ in the names of objects and in junk only.

## The pointer

`DelayDelPtr` has an action per access to `version_` or `obj_`, which readers load
without the lock; what happens to the map, under the lock, belongs to the
action before or after it. The model is of a pointer that owns its objects
(`to_delete_`), and a writer passes a new object each time. `installed` is a history
variable: the version under which an object was put in place.

`Tick` is the clock, which runs wherever the threads are. A writer reads it (58) before it takes the lock (60):
one that waits for the lock for *n* seconds retires an object that seems to be *n* seconds older than it is, and
it is deleted that much early. `late` is a history variable: for an object in the map, how long that was. Nothing
bounds it, so the delay alone is no promise. `SafeToUse` is the promise that the code does keep: the delay, less that wait of the
one writer that replaced the object, whatever other writers wait for; with `late` left out of it TLC finds it violated.

`SafeToUse` protects what a reader got as current. A reader that asks for an
older version gets no such promise: what it finds may be at the end of its delay
and be deleted by the next `Change`. `NeverOlder` and `WellFormed` (types and `MapVersions`) are
about versions: the object is stored before the version, so that a reader may get a newer
object than it asked for, never an older one.

`MCDelayDelPtr`: two writers, one reader, four objects, delay 2, three versions and five
seconds: an object can be current, replaced, reach the delay and pass it while
the reader has it, a writer can wait for less than the delay, for as long and for longer, and addresses are reused.

## The heap

`HeapBase` is the array: `items` (place to node), of which the first `numItems` from place 1
are the heap; `index` and `val` of the nodes whose signs a client holds. A node is named
by the place for which it was allocated. What is in a node that nobody holds is not
modelled, since it is never read. The loops of `Insert` and `AdjustNode_` shift nodes along a way
through the array and put the moved one at its end. `Upwards` and `Downwards` say from which place
the loop goes on, and where to; `Way` is what it visits, the least set that has the first place and all that
follow; `Moved` is the array after it, `Placed` also what the nodes know of it. None of them is recursive, so that
they can be reasoned about.
The initial size is at least 1 (with 0, doubling stays at 0). Clients use a sign only
while they hold it; the code cannot tell. `EventsDriver` keeps to this (`TimersMatch`).

`WellFormed` is the types and `HeapOrder`. `PriorityQueue` is the promise: a map of signs to values with one of the first at the
top. `MCHeap` checks that the heap implements it (`ImplementsQueue`), with the array growing
from 1 to 8, two values (so that equal ones occur) and up to six items: with six, the node
that replaces an erased one in the left half can come from the right half and
have to move up.

## The hash map

`CloseHashmap` is the table: `items` (place to `Blank`, `Erased` or a pair), `numElm`,
`sizeArray`. The places at which a search looks are `Place`; `GetItemOrNull_` and
`GetItemOrFree_` are the first of them at which it stops, `Moved` and `Resized` the new table
of `Resize`. They are functions of a table and a hash function `h`; the operations pass `hash`. An operation that would write through `NULL` returns `Crash`, which `WellFormed`
excludes. `hash` is any function from keys to `Hashes`, chosen by `Init`, and so is
`toResize`. An iterator is not used any more after `Insert` or `Upsert`, but it may be after
`Erase`; `met` records the keys it has come to (`MetSoFar`, in `WellFormed`).

`KeyValueMap` is the promise: a map, and the answers of its operations. `room` is whether it
takes another key; a map that does not grow refuses when it is full.

Two assumptions limit this:

- `HashmapAssumption`: the sizes that a table comes to, up to `MaxSize`, are legal, that is no multiples of a
  prime (`GrowsWithin`). `Init` (163) asks this of the first size, `Resize` (311) of none. With the primes of the code
  it holds of the first sizes 1 to 7, 9, 10 and 13 for every `MaxSize` below 2^48; 16 comes to 3079 in its 13th
  `Resize`, 100 to 1117558 = 53 * 21086 in its 23rd, 71 to 106 = 2 * 53 in its first. There
  a step of 53 leads from a place to one other only: elements that find both taken
  are dropped by `Resize`, and `Insert` writes through `NULL`.
- `Copy` takes the first `num_elm_` items (242), wherever the elements are, and so does the action. `CopiedWhenFull`
  in `Next` is assumed of the client, which copies full tables only. A copy of another one lacks some of the elements and counts them
  all; and what is behind them has never been set when the copy has grown.

`MCHashmap`: three keys, three hashes of which each two collide in a table of some size, primes 5 and 7
in place of those from 53 up, first sizes 1, 2 and 3. The table grows from 1 to 2, 3 and 4 (which are
legal for 5 and 7), so that growth by one, growth by half, chains over erased items, a full table
that does not grow, and one without any blank item occur. `MaxSize` bounds the growth; with three
keys it is never in the way of an operation.

## Locks and thread-private data

`LockPolicy` is one lock: `init_` is tested and set without synchronisation around the pthread
lock, whose initialisation makes it free whoever holds it. `ThreadMutex` and `SpinLock`
are the same code. `ThreadPrivacy` uses it as its `lock_`: a call of `Get` is `Get`, `TestInit`, the
lock and `CreateKey`, `MarkInit`, `InitUnlock` if it is the first, then `Find`, and, for
the first of its thread, `SetTable` and the registration under the lock (`push_back` reads and
writes: `PushReads`, `PushWrites`), and `Create`. A table is named by the key and the
thread in whose slot it is. `CreateKey` and `SetTable` may fail.

`Init` leaves open what the client does: `alone` is whether it makes the first call while no
other is under way, `lockGiven` whether another `ThreadPrivacy` of the program has used the
lock, which they share, before. The properties say who can rely on what:

- the lock excludes, and no table is lost to the destructor, if one of the two is so
  (`WellFormed`, `NothingLost`), also when two first calls create two keys and the second hides
  the tables of the first;
- a thread finds its privacy again (`Stable`) only if the first call was made alone: `Init_` takes
  the lock but does not look at `init_` again, and what is in the slots of the
  first key is not found any more;
- every `Get` returns (`GetReturns`), under weak fairness of each thread and strong fairness of the lock,
  in every case.

`MCPrivacy`: two threads (each race here is between two), two indexes, of which the second
leaves an empty place before it when it is asked for first.

## The driver

`EventsDriver` is a client in one thread: `Wait`, then `CheckReadyEvent` for each
of the events, then `RemoveTimeouts`, with registrations between waits or while it
handles an event. The table (`context`, `sign`), the timers (`heap`, as the abstract
queue: a set of signs with expire time and descriptor, any first one at the top), and what
epoll knows (`watched`) are the driver's; `mine` is what the client believes to be
registered. `clock` is the time, `cached` the one that `Wait` has read last, with which
expire and waiting times are computed. `epoll_wait` may find any set of the watched
descriptors, time out, or be interrupted. `ok` lets `epoll_ctl` fail. `kDelEvent` takes
the success of `RegEventDel` for failure (162) and calls it again: `Del` has both calls,
and the result is not modelled. The lock that the driver takes is assumed to succeed.

Assumed of the client: it adds only descriptors that it has not registered. Another
`kAddEvent` with a timeout puts a second timer into the heap, whose sign the table forgets
or overwrites: when that timer expires, `RemoveTimeouts` erases the other one, and does not
end. `Careful`: while events are left of what `Wait` has found, the client changes no
registration of their descriptors and removes no timeouts. A client that does so gets a
`NULL` context, which `XFC_BUG` (204) excludes: `MCDriver_batch` is that run.

After a failed `EPOLL_CTL_ADD`, the `EPOLL_CTL_DEL` of the clean-up fails as well, and the
context stays in the table, where `ClearAll` finds it. `InStep` is therefore stated of
the watched descriptors only.

`MCDriver_live`: two descriptors and two contexts, timeouts -1, 0 and 2, time up to 3:
timers expire before, at and after a wait, two can be due at a time, and both
descriptors can be ready together. The bound on time is a bound on `RegEvent` too
(`InTime`): a timeout that the client pushes back for ever does not fire. Fairness: the client keeps to its loop (`WaitsForEvents`,
`ChecksEvents`, `RemoveTimeouts` and its steps), `epoll_wait` honours its timeout
(`EpollTimesOut`), and time passes (`Tick`). `Wait(-1)` with timers in the heap is
clamped to 0 and polls: it does not sleep through them, but it does not sleep either.

## JSON values

### The heap

`JsonType` models what a client's `JsonType`s point to. `objs` is the pointer of each variable and
of the static `null_val`, `mem` the `SharedJsonVal`s with type, `ref_cnt` and data, `pool` the lists and
dicts that were given back. The elements of a list or dict are `JsonType`s too, so a node's data maps
indexes or keys to nodes. The operators take a heap and give the one after, in the order of the code:
`DecRefCnt`, `Retyped` and `Left` (`Reset_`), `New`, `Copied`, `Normalize_`, `ElementOf` (the brackets of
a `JsonType`, which `Walk` applies one after the other), `ConstElement` and `Find` (those of a const one), `Assigned`,
`AssignedFrom`. An action is a statement of the
client: `x[..] = v`, `x[..] = y[..]` (both orders of evaluation), `x[..]`, construction, destruction. `HeapSpec` is a
client that does these; in `JsonText` it parses as well.

A container goes back to the pool with its elements, which live on there until the pool gives it out
again and it is cleared (`Parked`, `Taken`); but a destructor deletes its value's container at once
(`Cleared`): with it goes what nobody else points to, and what nobody points to then, and so on (`Gone`, wave by wave; the
code does it depth first, with the same outcome). The pool gives out the last container first, as `PoolObjs` does. Where
a value is in memory has no meaning: the run looks at the states through `Nameless`, which renames the nodes in the
order in which they are found from the variables and the pool.

`JsonValues` is the promise: each variable has a value of its own, and an assignment changes one. The
mapping reads the values behind the pointers (`ValueIn`).

What the client must not do, since nothing in the repository says that it works: put a value into itself
(`InItself`: the count never falls to 0), and keep a reference over a step that moves what it
refers to (`Stays`). `Indexes` of one place do not make a list longer than that twice. A list that
grows constructs each new element (C++11).

What the model shows of the code:

- `Normalize_` gives up the old value (307) and then copies it, and `Copy` takes its container from the pool
  first, which clears it. If that held the last other reference to the value, `Copy` reads what has been
  deleted: after `x["a"] = 1`, `x = x["a"]` with a dict, `x["a"] = 1`. `crashed` is that state, which the
  run reaches. `ReadsLive` says that nothing else leads there: with a pool whose containers are
  empty, nothing deleted is read.
- an assignment of the type that is there already (`x = 1; x = 2`) forgets the old value without
  deleting it (jsontype.cpp:347; `Assigned` drops the node). The count of every other value is
  right, and it is deleted when the last `JsonType` goes (`RefCounts`).
- `ref_cnt` has 16 bits. `CountsFit` excludes a client that could have as many `JsonType`s at a time, those in its
  variables, in its values and in the pool: `RefLimit` is 65536, as in the code, and the run comes nowhere near it.

`Lifetimes` speaks of all `JsonType`s (`Slots`): the variables, the elements of what is in memory, and those of what is
in the pool. Each points to a value that is in memory (`ElementsLive`), and `ref_cnt` is their number (`RefCounts`).

`OthersKept` is what copy on write is for. A statement is about one variable, and everything behind the others and
`null_val` (`Behind`, the least set with the value and the elements of its nodes) has after it the type and the data that it
had. `ImplementsValues` says more (what the variable itself becomes), but in terms of `ValueIn`, of which nothing can be
proved.

### The texts

`JsonText` is `DumpJson` and the parser. A text is a sequence of tokens: brackets, comma, colon, blank, the words, a
number, a sign, a string (a key, the empty one, one that is not closed), and any other character; `End` is the
terminating 0. The parser makes its values on the same heap. Where the code holds a `JsonType*`, `objs` has an
entry whose name is the depth of the call, so a pointer that is never deleted is one that is left. A call ends in
one of five ways: it has read a value; it is refused (`NULL`); it has thrown (`err.erase(20)` of fewer characters,
176); it reads outside the text (`*str++` at the end, 246 and 271, leaves the place behind the 0); it does not
end (`strtol` reads nothing of a sign without digits, 276). `ParseJson` is the client's
`x = *p; delete p`. `LengthLeft` is `kLengthLeft` in tokens.

| Run | Question | Instance |
|---|---|---|
| `MCJson` | variables have values of their own (`ImplementsValues`), and a statement about one leaves in memory, as it is, all that the others lead to (`OthersKept`); counts are right and nothing deleted is read (`Lifetimes`); what is printed, with a blank anywhere, is read back, if it has no bool, no empty key, and no quote or last backslash in a string, and is not if it has (`ReadsBack`); a parse that returns leaves nothing behind, ends unless a sign has no digits, and stays inside a text whose brackets are closed (`FailsWell`) | 2 variables, 1 key, 1 index, 1 scalar; 1440 damaged texts |

Bounds: two brackets after a variable, one on either side of an assignment between variables (`MaxPath`,
`MaxPathFrom`), four values in memory with that of `null_val` (`MaxNodes`), one container in the pool (`MaxPool`). That
is enough for a value that two variables, a list or dict and one in the pool share, for a copy at two levels, and
for a container with leftovers. The documents have up to three levels and two elements; a damaged text is one
with a token replaced or missing, or its end. Every outcome occurs: of the 1440 texts, 658 are
refused, 302 throw, 296 are read all the same, 152 lead outside and 32 do not end. A client parses
while it has no other value (`Idle`), since a parse touches the pool only, and keeps what has
the scalars that it uses itself (`Familiar`).

`ReadsBack` says which values survive being printed and read: exactly those that are `Faithful`. A bool is printed as
a number (87) and read as one; an empty key is printed (114) and refused (318); a quote in a string is printed as
it is (96), and the parser takes it for the end (296); a backslash at the end of a string, for which the
parser looks before a quote, hides the quote that ends it. `Quoted` is what becomes of these as tokens: the string of one quote
is printed as `"""`, an empty string and one that begins, that of one backslash as one that does not end. `Printed` has
the documents that a client writes and, with each of these faults, scalars, elements and keys up to two levels deep
(`Awkward`); an empty string that is not a key is among them, and is read back.

## What is proved

| Module | Theorem | Statement |
|---|---|---|
| `MPSCFixedPipe_proofs` | `TypeCorrect` | `Spec => []TypeOK` |
| | `ReservationsDisjoint`, `OutsideIsBlank`, `PublishedMessagesIntact`, `OldestDelivered`, `NoneStranded`, `WritingSeenAsWriting` | `TimelySpec => []Disjoint`, and so for `BlankElsewhere`, `PublishedIntact`, `Delivery`, `Handoff`, `WritingLooksWriting`; if `QuietBehind` |
| | `DrainedAccepts` | `TimelySpec => []EmptyAccepts`; if `QuietBehind` and `SizePipe >= 2 * (MaxSizeContent + MsgOffset)` |
| | `PipeImplementsFifo` | `TimelySpec => ImplementsFifo`; if `QuietBehind` |
| `PipeNotify_proofs` | `Seen`, `Woken` | `Spec => []WellFormed`, `Spec => []WokenUnlessSilent` |
| `JsonPools_proofs` | `LifetimesAlways`, `OthersKeptAlways` | `HeapSpec => []Lifetimes`, `HeapSpec => OthersKept` |
| | `Ownership`, `TableShape`, `NoLeaks`, `FixedPool` | `Spec => []OneOwner`, `Spec => []WellFormed`, `Spec => []NothingLost`; `Spec => []FixedPoolKeeps` |
| `HeapBase_proofs` | `WellFormedAlways`, `NodesKeptAlways`, `HeapImplementsQueue` | `Spec => []WellFormed`, `Spec => []NodesKept`, `Spec => ImplementsQueue` |
| `CloseHashmap_proofs` | `WellFormedAlways`, `TableImplementsMap` | `Spec => []WellFormed`, `Spec => ImplementsMap` |
| `DelayDelPtr_proofs` | `Safety`, `Ownership`, `Current`, `Versions` | `Spec => []SafeToUse`, `Spec => []Owned`, `Spec => []NeverOlder`, `Spec => []WellFormed` |
| `ThreadPrivacy_proofs` | `Exclusion`, `Registered`, `SameEveryTime` | `Spec => []WellFormed`, `Spec => []NothingLost`, `Spec => []Stable` |
| `EventsDriver_proofs` | `TimersKept`, `Agreement`, `Handled` | `Spec => []WellFormed`, `Spec => []InStep`; `Spec => []ReadyHasContext` if `Careful` |

Each holds for every value of the constants that the module's assumption allows.

`TypeCorrect` holds for any number of senders, any size of pipe and message, and
every scheduling (no timing assumption). `TypeOK` is
not inductive by itself: the size that a sender writes into a size word has to stay below
the ready bit, which the module gets from `LegalSizes` (a sender that has passed
the check at 292 carries a size up to `max_size_content_`). The proof has a lemma for
the words a load may return (`SizeWordsType`), one for the operations on them (`WordOps`),
one for each kind of local record, and a step per action.

The other theorems about the pipe rest on one inductive invariant, `PipeInv` (in `MPSCFixedPipe_inv`), of the
steps of `TimelySpec`. Each part is there because a step of another thread needs it:

- `Placed`: the reservations lie in at most two runs, from the receiver upwards and from 0 to below the
  receiver (`Row`); `sender_pace_to_` is behind the last one, `sender_pace_from_` behind the last
  published one or at the next (`FromAt`: the two differ only across a rewind), and their versions differ,
  by one, when only one of them is below the receiver (`Versions`). `Disjoint` is its first
  consequence. That `SizePipe` exceeds the largest message is enough; nothing else is asked of the sizes.
- `Holds`, `Reserving`: a sender holds no pace that is still to come, so a compare-and-swap that succeeds has
  compared with a pace of this lap, and the room that was computed from an older `receiver_pace_` is still
  there, since the receiver has moved away from it only. This is where `ReusesVersion` is needed.
- `Fills`, `Finished`: what is reserved and not whole is being written, by its sender, which has no other message
  behind it (`Current`), and it is not published yet.
- `Loads`: a sender about to load `sender_pace_from_` has its message in the pipe, or its place is not used again.
  This is where `Overtakes` is needed: otherwise the sender would take another one's message for its own.
- `Rewinds`, `Awaits`: one sender at a time is to set `sender_pace_from_` to 0, namely that of the message at
  0 which is next, and while it waits, the messages before it end where it waits for; nobody else moves
  the pace meanwhile.
- `Publishes`, `Handled`: who holds the pace as it is has found a whole message there; and if the next message is
  whole, a sender carries it: its own, which is still to look at the pace, or one that has just
  moved the pace and is still to look for more. `CheckTo` and `CheckReady` are where it could be dropped; the one
  that fails its test leaves it to a sender which has yet to flag the message.
- `Receives`: what the receiver concludes from a `sender_pace_from_` that it loaded some steps ago is still so.
- `BlankElsewhere`: with it a blank size word at the receiver's place means that the next message is at 0.
  This is where `BeforeBlank` is needed.

The invariance proof (`TimelyInvStep`) has a lemma per action, over lemmas about rows of reservations in which no
variable occurs (`Apart`, `LastOfRow`, and so on). `QuietBehind` says that no word of `BehindWords` reads
as a ready message, the case in which 347 has no guard. TLC checks `PipeInv` exhaustively on the instance of
`MCPipe_safety` (2,578,221 states), and by simulation with three senders and ten cells.

`PipeImplementsFifo` maps the row to a sequence of messages (`ChannelIs`). `CasTo` is `Reserve`, `MarkReady` is
`Finish`, a successful `CasFrom` is `Publish`, `HasTodo` with a message is `Deliver`, and `MsgConsumed` is
`Consume`; every other step leaves all of it as it is (`Stutters`), among them `StoreFrom`, which moves
`sender_pace_from_` back to 0, and `BlankConsumed`.

For `WokenUnlessSilent`, which speaks of a receiver asleep, `SomebodyWakes` says the same of a receiver that has
found nothing and has not looked again (`Blind`): it got there when nothing was published, so the first message
since then has a publisher who is on its way to `Notify` (`OnItsWay`) or, being silent, is in `silent`; and who
has written has made a registered pipe readable (`Visible`). The lock is not part of the argument. It needs the second
look of `ReceiveMsg`: a receiver that waits again after a wait has read the byte that was meant for it.

`JsonPools_proofs` has the theorems about JSON values and about the pool that their lists and dicts come from. The invariant of
the values, `LifeInv`, is `Sound(Heap) /\ Small(Heap)`, with `crashed => ~Bare(Heap)`: once something deleted has been read, a
container in the pool has elements. An operation is not one step but a sequence of operators on a heap, and between two of these
the counts are not right: a `JsonType` that is about to be changed has given up its value and points to it all the
same. So the lemmas speak of a heap that is `Right` but for one `JsonType` *s*: every other one points to a value in
memory, and each `ref_cnt`, none of which is 0, is the number of the others that do. `Sound` is `Right` with
*s* nowhere. From there:

- `DecRefCnt` leads from a heap that is right to one that is right but for *s*, and so does
  `Retyped`; `New`, a count of one more with `Point`, and `Copied` lead back. If the container is the last one, it
  goes to the pool with its elements, so that they are `JsonType`s after it as before (`Parked`).
- What falls with a container (`Gone`) is a least fixed point: the waves grow, and there are no more of them than
  nodes, so that the last adds nothing. Hence what is left has a holder that is left, and what falls has none
  (the lemmas before `Cleared`). Nothing falls with a container without elements (`Bare`), which is all that `Taken` needs for
  what `Copied` reads to be there still: the value that `Normalize_` gave up has a second holder, which is not in the pool.
- `Walk` is a recursive function over the brackets. That the heap is right after each of them is shown by the least bracket
  after which it is not; likewise `Find`.
- The value of *y* in `x[..] = y[..]` lives through what the left side does to *x*, since the `JsonType` that points to it
  stays (`Stays`) or is looked up afterwards. If it does not, `AssignedFrom` finds it deleted with a container that had
  elements, or `crashed`.
- A count is below `RefLimit` since there are no more `JsonType`s than `Most`, between two statements, and a bracket adds one
  container of elements at most (`SlotsCounted`); this is where `CountsFit` is used.

`OthersKeptAlways` is about the same operators. The nodes of the others, *F*, are those that the variables other than *x*
lead to without it (`Rest`); within a statement the `JsonType` *s* that is at hand takes the place of *x*, and *F* stays what
the others reach without *s* (`Others`). Each operator is shown to lead to a heap that is the `Same` for them, and in which *F* is
still that:

- What the operator writes to has one holder, *s*. A node of *F* has one that is another variable or in *F*, so if
  `DecRefCnt`, `Retyped` or `Normalize_` found a count of 1, *s* is not what leads to *F*; if it found more, the node is
  given up, and only its count changes. This is where the counts of `Lifetimes` are needed.
- What falls with a container is nothing that anybody else leads to (`Cleared`), so nothing of *F*. This is the
  same least fixed point as above, seen from the other side.
- A bracket leads from *s* to an element of its node. `Normalize_` has made the node its own before, so neither the
  node nor the element is in the way to *F* (`Walk`, by the least bracket after which this is not so).
- `null_val`, and what is copied from another variable, are shared by a count and stay as they are.

The two proofs have a module in common, and the definitions of `JsonType` and `PoolObjs` different names; neither uses
the other.

The invariant of the pool is `TypeOK /\ RowsAllocated /\ OneOwner /\ Phases`. `OneOwner`
alone is not inductive: that `Free` stores into a place which is not listed, and that a row
is there to be written, is `RowsAllocated`; `Phases` says that nothing is in the table before
`Init_`, so that the first call may write it. `TakeInv` is the argument for the two
actions of `Get` that take an object off the list, `ReturnFrees` what every call does to its argument
when it ends. For `NothingLost` each action is shown to change the list by one place at most: `OneListedLess` (what
is taken off goes to the caller), `OneListedMore` (what is freed and a new block, whose objects are all
listed but the one that is returned).
`FixedPool` counts the places that are listed (`ListedCount`): what `Free` deletes is not among them. `CountedAgainst`
compares `NumObjsLeft` with the places listed, row by row: it counts at most `numBlocksAlloc / ObjsPerBlock` times as many, and
no more where blocks are the fewer; so there are `Enough` when `Free` deletes one (`SurplusListed`). In between no object is deleted
and `numBlocksAlloc` only grows, so that there stay enough (`EnoughMore`, `NextKeeps`). It has no hypothesis but the module's assumption.

The invariant of the pointer is `TypeOK /\ Owned /\ Times /\ InHand /\ Held`. `Held` carries the
argument for `SafeToUse`: what a reader relies on is either still current, or in the
map with a time that is, `late` added, not before the reader's; a `Change` that finds it expired has read a time later
by more than the delay, and no later than the present (`Times`). It assumes nothing of how time passes: `Tick`
may come between any two steps.

The versions have an invariant on top of it, `MapVersions /\ Locking /\ Older /\ Wanted /\ NeverOlder`. That the
map has no other object under `version_` when `Swap` puts one there is `Older`; it speaks of the writer between the
two stores, of which there is one by `Locking`. `NeverOlder` holds because no reader wants a version that is
to come (`Wanted`), and the current object is as new as `version_` or one ahead.

The invariant of `ThreadPrivacy` is `TypeOK /\ HasTable /\ Together /\ InitOnce /\ Held /\
SeenIsCurrent /\ NothingLost`. `InitOnce` carries the argument: as long as the lock is not
initialised, a client that makes its first call alone has one thread in `Get` at most, so
no thread is in `InitLock` while another has the lock; `Held` follows, and with it that what
`push_back` has read is still the set when it writes (`SeenIsCurrent`), from which
no table is lost. Without the condition (`Safe`) only the types and `Together` are left.

For `Stable`, `OneKey` says that nobody is at the creation of the key when there is one, and nobody behind it
before; so the key, once there, stays, and a thread has one table (`HasOne`): it is made where none is, and
what the thread was given is in it.

The invariant of the driver is `TypeOK /\ TimersMatch /\ Known /\ Distinct /\ Handles`. `InStep` is not inductive: within
`RemoveTimeouts` the client believes to be registered what is not any more. `Known` says that these are the
contexts in `expired`, and `Distinct`, that no two descriptors have the same context, is why the report about one
is not taken for another. A call is a sequence of operators on a record, so the lemmas are about those: `DelPairs`
(`RegEventDel`, of a driver whose new descriptor is not watched yet) and `SetPairs` (a timer, under the sign of its
descriptor or a free one). That `Wait` computes a number rests on the heap having a least time, by well-foundedness
(`FirstIsTime`).

The invariant of the heap, `HeapInv`, has of an array that is in use that it is `Sound`: it holds each node of `nodes` once
(also behind the heap, where `Insert` takes the next one from), the first `numItems` of them and the places that
nodes know are each other's (`Signed`), and they are in order (`Ordered`). TLC checks it on the instance of `MCHeap`. The
lemmas are about a way through an array, in which no variable occurs: a way goes one way (`WayWithin`), skips
nothing (`WayIsChain`), and ends (`WayHasEnd`, by well-foundedness), so that moving along it permutes the nodes (`MovedPermutes`).
`UpOrdered` and `DownOrdered` say that the order is whole after it, if it was but for the first place
(`OrderedBut`), which is what a new value, a new node or the replacement of an erased one leaves
(`StillOrderedBut`). The top is a first one because the least place of a node that came before it would have a parent
in a lesser one (`NoneBeforeFirst`).

The invariant of the hash map, `Inv`, has of the table that it is `Kept`: its size is legal, a key is there once, and on
the way of a key to its item there is no blank one (`Reached`, over the `Open` ways). `Findable` alone says
as much of a table, but not of what an operation makes of it: it is in terms of a search, which is a minimum over the places
it looks at. TLC checks `Inv` on an instance of two keys. The proof goes in four steps, of which the first three speak of any
table, with no variable:

- A way leads through the whole table (`Spots`): if two of its places were the same, the size would divide a number of steps
  less than the size, times the step (`Apart`), and since the step is a prime, it would have to divide the size (`NotBack`, by the least such
  number of steps). So the places are all different, and by counting they are all places.
- A search for a key ends at its item, or nowhere (`NullFound`, `NullNowhere`), and for a new key it ends at the first place
  of the way that is free, if any is (`FreeElse`, `FreeNone`). What an operation does with this place keeps the table `Kept`
  (`StoreKeeps`, `ReplaceKeeps`, `EraseKeeps`): an erased item still is in the way, and the next one only takes its place when
  the key is nowhere.
- `Resized` is a recursive function. It is defined because a function with its equation exists (`MovesExist`), and
  what is in the new table after *m* places are the elements of these (`MovedSo`, `MovesOn`); both by the least *m* for
  which it is not so. That the new table is larger (`Grows`) is why each element finds a place, and `Resize`, which ignores
  an element that finds none, drops nothing.
- Each operation is one of those on the set of elements (`InsertActs` and so on), as which the map is read:
  `Contents` says of each key what the elements say (`ElementsAre`), so that an operation on them is one of the map
  (`MapInsert` and so on). `Copy` and the iterator leave the elements alone.

Liveness is model-checked only: `Drains`, `SendReturns`, `Delivered`, `NotifyReturns`, `GetReturns` and
`TimersFire` need fairness. So is what is said of JSON texts (`ReadsBack`, `FailsWell`), the refinement of `JsonValues`, and
`Lifetimes` and `OthersKept` of a client that also parses: the parser, the printer and `ValueIn` descend to any depth, and are
`RECURSIVE` operators, which the provers cannot reason about.

## What is not modelled

- Weak memory: the code is built for x86 (`mfence` in `MB()`), stores are in order, and
  the one store-load order that matters is fenced (321).
- Times: `ReceiveMsg` and `Wait` may return empty-handed at any poll.
- Failure of a lock, and of memory allocation.
- Of `JsonType`: `CreateConf`, which reads a file into a string and parses it; doubles; the pool of strings,
  which hold no references; the pools' limits (`PoolObjs` has them) and their owner by thread.
- `ThreadPrivatePool`: a `PoolObjs` per thread and category in a `ThreadPrivacy`, both of which are modelled. Its threads
  share the counter `num_objs_` (37, 54), which is not atomic and which only the client reads.
- `IOHelper`: loops over `read`, `write` and `writev` on one descriptor, with no state between two calls.
- The components marked `not_modelled` in `PROJECT.json`, with the reason for each.
