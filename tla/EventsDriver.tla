---------------------------- MODULE EventsDriver ----------------------------
(***************************************************************************)
(* The driver of src/src/events_driver.hpp, used by one thread in a loop:  *)
(* Wait, CheckReadyEvent for what is ready, RemoveTimeouts.  Descriptors   *)
(* are registered with a context and, perhaps, a timeout, whose timer is   *)
(* in a heap; the heap is the queue of PriorityQueue, which HeapBase       *)
(* implements.  Time is read from a clock that only Wait sets              *)
(* (Time::GetCurrentMsec(false), Time::UpdateTimer).                       *)
(***************************************************************************)
EXTENDS Integers, FiniteSets, Functions

CONSTANTS
  Fds, Contexts, Null,     \* descriptors, contexts, NULL
  Signs, NoSign,           \* signs of the heap; sign_timeo 0
  Timeouts,                \* what a client passes as timeo_ms
  MaxTime,                 \* bound: time ends there
  Careful                  \* while events are left of what Wait has found, the client
                           \* changes no registration of theirs and removes no timeouts

ASSUME DriverAssumption ==
  /\ Timeouts \subseteq Nat \cup {-1} /\ MaxTime \in Nat /\ Careful \in BOOLEAN
  /\ Null \notin Contexts /\ NoSign \notin Signs

VARIABLES
  context, sign,           \* fd_to_event_ctx_, as long as need be
  heap,                    \* heap_timeo_: of every sign in it, the expire time and fd
  watched,                 \* the descriptors that epoll knows
  clock, cached,           \* the time, and Time::time_
  pc,                      \* where the loop of the client is
  until,                   \* when epoll_wait gives up
  ready,                   \* what is left of events_ready_
  expired,                 \* tmp_timeo_contexts_
  mine                     \* the client: the context of what it has registered

driverVars == <<context, sign, heap, watched>>
timeVars == <<clock, cached>>
loopVars == <<pc, until, ready, expired>>
vars == <<driverVars, timeVars, loopVars, mine>>

Forever == -1

Init ==
  /\ context = [f \in Fds |-> Null] /\ sign = [f \in Fds |-> NoSign]
  /\ heap = [s \in {} |-> Null] /\ watched = {}
  /\ clock = 0 /\ cached = 0
  /\ pc = "idle" /\ until = Forever /\ ready = {} /\ expired = {}
  /\ mine = [f \in Fds |-> Null]

-----------------------------------------------------------------------------
(* Registration.  The state of the driver in the course of a call is a     *)
(* record d.                                                               *)

Driver == [context |-> context, sign |-> sign, heap |-> heap, watched |-> watched]

Becomes(d) ==
  /\ context' = d.context /\ sign' = d.sign /\ heap' = d.heap /\ watched' = d.watched

\* RegEventDel of the descriptors F.  EPOLL_CTL_DEL fails for one that epoll does not
\* know, and its context is kept.
\* Mutants of RegEventDel: the sign is kept; epoll is not told.
RegEventDelKeepsSign(d, F) ==
  [d EXCEPT !.context = [f \in Fds |-> IF f \in F \cap d.watched THEN Null ELSE @[f]],
            !.heap = Restrict(@, DOMAIN @ \ {d.sign[f] : f \in F}),
            !.watched = @ \ F]
RegEventDelWatches(d, F) ==
  [d EXCEPT !.context = [f \in Fds |-> IF f \in F \cap d.watched THEN Null ELSE @[f]],
            !.sign = [f \in Fds |-> IF f \in F THEN NoSign ELSE @[f]],
            !.heap = Restrict(@, DOMAIN @ \ {d.sign[f] : f \in F})]
RegEventDel(d, F) ==
  [d EXCEPT !.context = [f \in Fds |-> IF f \in F \cap d.watched THEN Null ELSE @[f]],
            !.sign = [f \in Fds |-> IF f \in F THEN NoSign ELSE @[f]],
            !.heap = Restrict(@, DOMAIN @ \ {d.sign[f] : f \in F}),
            !.watched = @ \ F]

\* A timer of f with the sign s: a new one, or one that is given a new time.
SetTimer(d, f, s, timeo) ==
  [d EXCEPT !.heap = [t \in DOMAIN @ \cup {s} |->
                        IF t = s THEN [expire |-> cached + timeo, fd |-> f] ELSE @[t]],
            !.sign[f] = s]

HasTimeout(timeo) == timeo >= 0

\* The client calls between waits, or while it handles what is ready.  Timeouts are
\* short enough to expire before time ends.
MayCall(f) == pc = "idle" \/ (pc = "batch" /\ (Careful => f \notin ready))
InTime(timeo) == cached + timeo < MaxTime

\* kAddEvent of a descriptor that the client has not registered.  EPOLL_CTL_ADD may
\* fail (ok), and then what was done is undone.
Add(f, c, timeo, ok) ==
  /\ MayCall(f) /\ InTime(timeo)
  /\ mine[f] = Null /\ c \notin Range(mine)
  /\ \E s \in Signs \ DOMAIN heap :
       LET named == [Driver EXCEPT !.context[f] = c]
           timed == IF HasTimeout(timeo) THEN SetTimer(named, f, s, timeo)
                    ELSE [named EXCEPT !.sign[f] = NoSign]
           added == ok /\ f \notin watched
       IN  /\ Becomes(IF added THEN [timed EXCEPT !.watched = @ \cup {f}]
                      ELSE RegEventDel(timed, {f}))
           /\ mine' = [mine EXCEPT ![f] = IF added THEN c ELSE Null]
  /\ UNCHANGED <<timeVars, loopVars>>

\* kModEvent of a registered descriptor; -1 leaves its timer as it is.
Mod(f, timeo, ok) ==
  /\ MayCall(f) /\ InTime(timeo)
  /\ mine[f] # Null
  /\ \E s \in IF sign[f] # NoSign THEN {sign[f]} ELSE Signs \ DOMAIN heap :
       LET timed == IF HasTimeout(timeo) THEN SetTimer(Driver, f, s, timeo) ELSE Driver
           modified == ok /\ f \in watched
       IN  /\ Becomes(IF modified THEN timed ELSE RegEventDel(timed, {f}))
           /\ mine' = IF modified THEN mine ELSE [mine EXCEPT ![f] = Null]
  /\ UNCHANGED <<timeVars, loopVars>>

\* RegEventDel, or kDelEvent: it takes success for failure (162), and then calls
\* RegEventDel once more, which finds nothing to do.
Del(f) ==
  /\ MayCall(f)
  /\ mine[f] # Null
  /\ Becomes(RegEventDel(RegEventDel(Driver, {f}), {f}))
  /\ mine' = [mine EXCEPT ![f] = Null]
  /\ UNCHANGED <<timeVars, loopVars>>

\* ClearAll; and the destructor, which calls it.
ClearAll ==
  LET named == {f \in Fds : context[f] # Null}
      all == {context[f] : f \in named}
  IN  /\ pc = "idle"
      /\ Becomes(RegEventDel(Driver, named))
      /\ mine' = [f \in Fds |-> IF mine[f] \in all THEN Null ELSE mine[f]]
      /\ pc' \in {"idle", "gone"}
      /\ UNCHANGED <<timeVars, until, ready, expired>>

-----------------------------------------------------------------------------
(* The loop.                                                               *)

NoTimers == DOMAIN heap = {}
Expires == {heap[s].expire : s \in DOMAIN heap}
First == CHOOSE t \in Expires : \A u \in Expires : t <= u

Least(t, u) == IF t < u THEN t ELSE u

\* Mutant of TimeToWait: a negative time is not set to 0, and epoll waits forever.
TimeToWaitRaw(timeo) == IF NoTimers THEN timeo ELSE Least(First - cached, timeo)
TimeToWait(timeo) ==
  CASE NoTimers -> timeo
    [] ~NoTimers /\ Least(First - cached, timeo) < 0 -> 0
    [] OTHER -> Least(First - cached, timeo)

Wait(timeo) ==
  /\ pc = "idle"
  /\ until' = IF TimeToWait(timeo) < 0 THEN Forever ELSE clock + TimeToWait(timeo)
  /\ pc' = "sleep"
  /\ UNCHANGED <<driverVars, timeVars, ready, expired, mine>>

Woken(events) ==
  /\ pc = "sleep"
  /\ ready' = events
  /\ cached' = clock
  /\ until' = Forever
  /\ pc' = "batch"
  /\ UNCHANGED <<driverVars, clock, expired, mine>>

EpollFinds == \E events \in SUBSET watched : events # {} /\ Woken(events)
EpollTimesOut ==
  /\ until # Forever /\ (clock >= until \/ clock = MaxTime)
  /\ Woken({})
EpollInterrupted == Woken({})

CheckReadyEvent(f) ==
  /\ pc = "batch" /\ f \in ready
  /\ ready' = ready \ {f}
  /\ UNCHANGED <<driverVars, timeVars, pc, until, expired, mine>>

RemoveTimeouts ==
  /\ pc = "batch" /\ (Careful => ready = {})
  /\ pc' = "timeouts"
  /\ UNCHANGED <<driverVars, timeVars, until, ready, expired, mine>>

IsDue == ~NoTimers /\ First < cached

\* Mutant of RemoveFirst: the context is read when it is no longer there.
RemoveFirstUnread ==
  /\ pc = "timeouts" /\ IsDue
  /\ \E s \in DOMAIN heap :
       /\ heap[s].expire = First
       /\ Becomes(RegEventDel(Driver, {heap[s].fd}))
       /\ expired' = expired \cup ({context'[heap[s].fd]} \ {Null})
  /\ UNCHANGED <<timeVars, pc, until, ready, mine>>
RemoveFirst ==
  /\ pc = "timeouts" /\ IsDue
  /\ \E s \in DOMAIN heap :
       /\ heap[s].expire = First
       /\ Becomes(RegEventDel(Driver, {heap[s].fd}))
       /\ expired' = expired \cup ({context[heap[s].fd]} \ {Null})
  /\ UNCHANGED <<timeVars, pc, until, ready, mine>>

\* The client learns from the result what is not registered any more, and goes on
\* with what is ready, if that is how it works.
RemoveTimeoutsReturns ==
  /\ pc = "timeouts" /\ ~IsDue
  /\ mine' = [f \in Fds |-> IF mine[f] \in expired THEN Null ELSE mine[f]]
  /\ expired' = {}
  /\ pc' = IF ready = {} THEN "idle" ELSE "batch"
  /\ UNCHANGED <<driverVars, timeVars, until, ready>>

Tick ==
  /\ clock < MaxTime
  /\ clock' = clock + 1
  /\ UNCHANGED <<driverVars, cached, loopVars, mine>>

Register ==
  \E f \in Fds :
    \/ \E timeo \in Timeouts, ok \in BOOLEAN :
         Mod(f, timeo, ok) \/ \E c \in Contexts : Add(f, c, timeo, ok)
    \/ Del(f)

WaitsForEvents == \E timeo \in Timeouts : Wait(timeo)
ChecksEvents == \E f \in Fds : CheckReadyEvent(f)

Next ==
  \/ Register \/ ClearAll
  \/ WaitsForEvents \/ EpollFinds \/ EpollTimesOut \/ EpollInterrupted
  \/ ChecksEvents \/ RemoveTimeouts \/ RemoveFirst \/ RemoveTimeoutsReturns
  \/ Tick

Spec == Init /\ [][Next]_vars

\* The client keeps to its loop, and epoll_wait to its timeout.
FairSpec ==
  /\ Spec
  /\ WF_vars(WaitsForEvents) /\ WF_vars(EpollTimesOut) /\ WF_vars(ChecksEvents)
  /\ WF_vars(RemoveTimeouts) /\ WF_vars(RemoveFirst) /\ WF_vars(RemoveTimeoutsReturns)
  /\ WF_vars(Tick)

-----------------------------------------------------------------------------
(* Properties.                                                             *)

TypeOK ==
  /\ context \in [Fds -> Contexts \cup {Null}] /\ sign \in [Fds -> Signs \cup {NoSign}]
  /\ DOMAIN heap \subseteq Signs /\ heap \in [DOMAIN heap -> [expire : Nat, fd : Fds]]
  /\ watched \subseteq Fds /\ clock \in 0..MaxTime /\ cached \in 0..clock
  /\ pc \in {"idle", "sleep", "batch", "timeouts", "gone"}
  /\ until \in Nat \cup {Forever} /\ ready \subseteq Fds
  /\ expired \subseteq Contexts /\ mine \in [Fds -> Contexts \cup {Null}]

\* The timers in the heap are those of the descriptors: a sign is never used after
\* its timer is gone, when the heap may have given it to another one, and no timer is
\* left without a descriptor that could remove it.
TimersMatch ==
  /\ \A s \in DOMAIN heap : sign[heap[s].fd] = s
  /\ \A f \in Fds : sign[f] # NoSign =>
       /\ sign[f] \in DOMAIN heap /\ heap[sign[f]].fd = f
       /\ f \in watched

\* What the driver keeps is well-formed: timers and table match.
WellFormed == TypeOK /\ TimersMatch

\* Between two calls a client knows what is registered: what epoll watches, with the
\* client's context.  Failures, timeouts and ClearAll are no exception.
InStep ==
  pc # "timeouts" =>
    /\ watched = {f \in Fds : mine[f] # Null}
    /\ \A f \in watched : context[f] = mine[f]

\* CheckReadyEvent never finds a descriptor without a context (204).
ReadyHasContext == \A f \in ready : context[f] # Null

\* Every timeout is noticed: Wait does not sleep through it, RemoveTimeouts gets at it,
\* and ends when it has removed all that are due.
TimersFire == \A f \in Fds : sign[f] # NoSign ~> sign[f] = NoSign /\ pc # "timeouts"

=============================================================================
