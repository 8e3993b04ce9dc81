-------------------------- MODULE DefaultNotifier --------------------------
(***************************************************************************)
(* How the senders of a pipe wake its receiver                             *)
(* (src/src/mpsc_fixed_pipe/details/default_notifier.cpp).  Every thread   *)
(* that notifies gets a unix pipe of its own, made by its first Notify and *)
(* registered with the epoll set of the receiver; a notification is a byte *)
(* written to it, and Wait reads all there is.  One spin lock guards the   *)
(* epoll set, and Wait holds it while it sleeps.  The lock is taken as     *)
(* mutually exclusive here; a system call is one step.                     *)
(***************************************************************************)
EXTENDS Naturals, FiniteSets

CONSTANTS
  Senders, Receiver, NoThread,
  PipeBytes,       \* what a unix pipe holds; a write beyond it fails
  Failing,         \* the senders whose pipe, epoll_ctl, pthread_setspecific may fail
  MaxFails         \* bound: how often they do

ASSUME NotifierAssumption ==
  /\ Receiver \notin Senders
  /\ NoThread \notin Senders \cup {Receiver}
  /\ PipeBytes \in Nat \ {0}
  /\ Failing \subseteq Senders /\ MaxFails \in Nat

VARIABLES
  holder,          \* the thread that holds lock_fd_epoll_
  hasFd,           \* the senders whose pthread_key_ slot is set
  registered,      \* the senders whose pipe is in the epoll set
  bytes,           \* unread bytes of every sender's pipe
  npc,             \* where every sender is in Notify
  wpc,             \* where the receiver is in Wait
  events,          \* what epoll_wait returned and Wait has not read yet
  fails            \* how many calls have failed

notifierVars == <<holder, hasFd, registered, bytes, npc, wpc, events, fails>>

NotifierInit ==
  /\ holder = NoThread
  /\ hasFd = {} /\ registered = {}
  /\ bytes = [s \in Senders |-> 0]
  /\ npc = [s \in Senders |-> "out"]
  /\ wpc = "out" /\ events = {}
  /\ fails = 0

NotifyGo(s, label) == npc' = [npc EXCEPT ![s] = label]
WaitGo(label) == wpc' = label

CallWorks == UNCHANGED fails
CallFails(s) == s \in Failing /\ fails < MaxFails /\ fails' = fails + 1

(* Notify.                                                                 *)

\* pthread_getspecific, and pipe for a thread that has none.
NotifyBegin(s) ==
  /\ npc[s] = "begin"
  /\ \/ s \in hasFd /\ NotifyGo(s, "write") /\ UNCHANGED fails
     \/ s \notin hasFd /\ NotifyGo(s, "lock") /\ CallWorks
     \/ s \notin hasFd /\ NotifyGo(s, "out") /\ CallFails(s)
  /\ UNCHANGED <<holder, hasFd, registered, bytes, wpc, events>>

NotifyLock(s) ==
  /\ npc[s] = "lock"
  /\ holder = NoThread
  /\ holder' = s
  /\ NotifyGo(s, "add")
  /\ UNCHANGED <<hasFd, registered, bytes, wpc, events, fails>>

\* Mutant of NotifyAdd: goes on after a failure.
NotifyAddGoesOn(s) ==
  /\ npc[s] = "add"
  /\ \/ registered' = registered \cup {s} /\ CallWorks
     \/ UNCHANGED registered /\ CallFails(s)
  /\ NotifyGo(s, "unlock")
  /\ UNCHANGED <<holder, hasFd, bytes, wpc, events>>

\* EPOLL_CTL_ADD.  A failure returns at once (38), with the lock held.
NotifyAdd(s) ==
  /\ npc[s] = "add"
  /\ \/ registered' = registered \cup {s} /\ NotifyGo(s, "unlock") /\ CallWorks
     \/ UNCHANGED registered /\ NotifyGo(s, "out") /\ CallFails(s)
  /\ UNCHANGED <<holder, hasFd, bytes, wpc, events>>

\* Mutant of NotifyUnlock: keeps the lock.
NotifyKeepsLock(s) ==
  /\ npc[s] = "unlock"
  /\ NotifyGo(s, "setKey")
  /\ UNCHANGED <<holder, hasFd, registered, bytes, wpc, events, fails>>

NotifyUnlock(s) ==
  /\ npc[s] = "unlock"
  /\ holder' = NoThread
  /\ NotifyGo(s, "setKey")
  /\ UNCHANGED <<hasFd, registered, bytes, wpc, events, fails>>

\* pthread_setspecific.  A failure asks epoll to drop the writing end, which it
\* does not have: the reading end stays registered.
NotifySetKey(s) ==
  /\ npc[s] = "setKey"
  /\ \/ hasFd' = hasFd \cup {s} /\ NotifyGo(s, "write") /\ CallWorks
     \/ UNCHANGED hasFd /\ NotifyGo(s, "out") /\ CallFails(s)
  /\ UNCHANGED <<holder, registered, bytes, wpc, events>>

NotifyWrite(s) ==
  /\ npc[s] = "write"
  /\ bytes' = IF bytes[s] < PipeBytes THEN [bytes EXCEPT ![s] = @ + 1] ELSE bytes
  /\ NotifyGo(s, "out")
  /\ UNCHANGED <<holder, hasFd, registered, wpc, events, fails>>

NotifyStep(s) ==
  \/ NotifyBegin(s) \/ NotifyLock(s) \/ NotifyAdd(s) \/ NotifyUnlock(s)
  \/ NotifySetKey(s) \/ NotifyWrite(s)

(* Wait.                                                                   *)

WaitLock ==
  /\ wpc = "lock"
  /\ holder = NoThread
  /\ holder' = Receiver
  /\ WaitGo("poll")
  /\ UNCHANGED <<hasFd, registered, bytes, npc, events, fails>>

Readable == {s \in registered : bytes[s] > 0}

EpollReturns ==
  /\ wpc = "poll"
  /\ Readable # {}
  /\ events' = Readable
  /\ WaitGo("read")
  /\ UNCHANGED <<holder, hasFd, registered, bytes, npc, fails>>

\* The timeout, or a signal.
EpollTimesOut ==
  /\ wpc = "poll"
  /\ Readable = {}
  /\ WaitGo("unlock")
  /\ UNCHANGED <<holder, hasFd, registered, bytes, npc, events, fails>>

\* Reads one pipe until there is nothing left in it.
ReadEvents ==
  /\ wpc = "read"
  /\ \E s \in events :
       /\ bytes' = [bytes EXCEPT ![s] = 0]
       /\ events' = events \ {s}
  /\ WaitGo(IF events' = {} THEN "unlock" ELSE "read")
  /\ UNCHANGED <<holder, hasFd, registered, npc, fails>>

\* Mutant of WaitUnlock: keeps the lock.
WaitKeepsLock ==
  /\ wpc = "unlock"
  /\ WaitGo("out")
  /\ UNCHANGED <<holder, hasFd, registered, bytes, npc, events, fails>>

WaitUnlock ==
  /\ wpc = "unlock"
  /\ holder' = NoThread
  /\ WaitGo("out")
  /\ UNCHANGED <<hasFd, registered, bytes, npc, events, fails>>

WaitStep == WaitLock \/ EpollReturns \/ EpollTimesOut \/ ReadEvents \/ WaitUnlock

\* A failed EPOLL_CTL_ADD has left the lock with a thread that will not unlock it.
LockLost == fails > 0 /\ holder \in Senders /\ npc[holder] \notin {"add", "unlock"}

-----------------------------------------------------------------------------
(* Properties.                                                             *)

\* The notifier's variables have their types, and the thread inside the lock is
\* its holder (a failed EPOLL_CTL_ADD leaves a holder that is outside).
NotifierTypeOK ==
  /\ holder \in Senders \cup {Receiver, NoThread}
  /\ hasFd \subseteq Senders /\ registered \subseteq Senders
  /\ bytes \in [Senders -> 0..PipeBytes]
  /\ npc \in [Senders -> {"out", "begin", "lock", "add", "unlock", "setKey", "write"}]
  /\ wpc \in {"out", "lock", "poll", "read", "unlock"}
  /\ events \subseteq registered
  /\ fails \in 0..MaxFails

\* A byte that was written can be seen by epoll_wait: the pipe is registered
\* before its thread can find it in its slot and write to it.
NotificationsVisible ==
  \A s \in Senders : bytes[s] > 0 \/ npc[s] = "write" \/ s \in hasFd => s \in registered
=============================================================================
