---------------------------- MODULE PipeNotify ----------------------------
(***************************************************************************)
(* A pipe opened with a threshold: SendMsg, ReceiveMsg and MsgConsumed of  *)
(* src/src/mpsc_fixed_pipe/mpsc_fixed_pipe.hpp on top of DefaultNotifier.  *)
(* The bytes of the pipe are abstracted to the FIFO channel that           *)
(* MPSCFixedPipe is shown to implement.  A sender decides whether it will  *)
(* notify before it sends, from how full the pipe is then; the receiver    *)
(* looks twice, waits for a notification, and looks once more.             *)
(***************************************************************************)
EXTENDS DefaultNotifier, Sequences

CONSTANTS
  Capacity,        \* how many messages the pipe takes
  Threshold        \* threshold_sender_notify_, in messages

TimesBusyQuery == 2

ASSUME ThresholdAssumption == Capacity \in Nat \ {0} /\ Threshold \in Nat \ {0}

VARIABLES
  chan, out, held,     \* the channel, see FifoChannel
  spc,                 \* where every sender is in SendMsg
  notify,              \* the local of that name
  tries,               \* how often it has tried SendMsg_
  rpc,                 \* where the receiver is in ReceiveMsg
  polls,               \* how often it has found nothing
  silent               \* history: which of the published messages were published by
                       \* a SendMsg that does not notify

sendVars == <<spc, notify, tries>>
receiveVars == <<rpc, polls>>
vars == <<notifierVars, chan, out, held, sendVars, receiveVars, silent>>

Channel == INSTANCE FifoChannel WITH Sizes <- {1}

Init ==
  /\ NotifierInit
  /\ Channel!Init
  /\ spc = [s \in Senders |-> "idle"]
  /\ notify = [s \in Senders |-> FALSE]
  /\ tries = [s \in Senders |-> 0]
  /\ rpc = "idle" /\ polls = 0
  /\ silent = <<>>

SendGo(s, label) == spc' = [spc EXCEPT ![s] = label]

(* SendMsg.                                                                *)

\* size_pipe_ - SizeSpace() is what is reserved and not consumed.
SendMsg(s) ==
  /\ spc[s] = "idle"
  /\ notify' = [notify EXCEPT ![s] = Len(chan) <= Threshold]
  /\ SendGo(s, "reserve")
  /\ UNCHANGED <<notifierVars, chan, out, held, tries, receiveVars, silent>>

LastTry(n) == n + 1 >= TimesBusyQuery

\* ReserveSpaceForSend_ also fails when another sender moves first.
SendMsg_(s) ==
  /\ spc[s] = "reserve"
  /\ \/ /\ Len(chan) < Capacity
        /\ Channel!Reserve(s, 1)
        /\ tries' = [tries EXCEPT ![s] = 0]
        /\ SendGo(s, "finish")
        /\ UNCHANGED notify
     \/ /\ IF LastTry(tries[s])
           THEN /\ tries' = [tries EXCEPT ![s] = 0]
                /\ notify' = [notify EXCEPT ![s] = FALSE]
                /\ SendGo(s, "idle")
           ELSE tries' = [tries EXCEPT ![s] = @ + 1] /\ UNCHANGED <<spc, notify>>
        /\ UNCHANGED <<chan, out, held>>
  /\ UNCHANGED <<notifierVars, receiveVars, silent>>

FinishMsg(s) ==
  /\ spc[s] = "finish"
  /\ \E i \in DOMAIN chan : chan[i].from = s /\ Channel!Finish(i)
  /\ SendGo(s, "publish")
  /\ UNCHANGED <<notifierVars, notify, tries, receiveVars, silent>>

\* JustSendMsg_ moves sender_pace_from_ over finished messages, its own or not.
PublishMsg(s) ==
  /\ spc[s] = "publish"
  /\ Channel!Publish
  /\ silent' = Append(silent, ~notify[s])
  /\ UNCHANGED <<notifierVars, sendVars, receiveVars>>

\* It returns when nothing is left to publish or when another sender is at it.
SentMsg(s) ==
  /\ spc[s] = "publish"
  /\ \/ ~Channel!CanPublish
     \/ \E t \in Senders \ {s} : spc[t] = "publish"
  /\ IF notify[s]
     THEN SendGo(s, "notify") /\ NotifyGo(s, "begin")
     ELSE SendGo(s, "idle") /\ UNCHANGED npc
  /\ notify' = [notify EXCEPT ![s] = FALSE]
  /\ UNCHANGED <<holder, hasFd, registered, bytes, wpc, events, fails, chan, out, held, tries,
                 receiveVars, silent>>

Notified(s) ==
  /\ spc[s] = "notify"
  /\ npc[s] = "out"
  /\ SendGo(s, "idle")
  /\ UNCHANGED <<notifierVars, chan, out, held, notify, tries, receiveVars, silent>>

(* ReceiveMsgWithNotify_ and MsgConsumed.                                  *)

ReceiveMsg ==
  /\ rpc = "idle"
  /\ rpc' = "poll" /\ polls' = 0
  /\ UNCHANGED <<notifierVars, chan, out, held, sendVars, silent>>

Poll ==
  /\ rpc = "poll"
  /\ \/ Channel!Deliver /\ rpc' = "have" /\ polls' = 0
     \/ /\ out = 0
        /\ polls' = IF polls < TimesBusyQuery THEN polls + 1 ELSE 0
        /\ rpc' = IF polls + 1 < TimesBusyQuery THEN "poll"
                  ELSE IF polls + 1 = TimesBusyQuery THEN "polled"
                  ELSE "idle"
        /\ UNCHANGED <<chan, out, held>>
  /\ UNCHANGED <<notifierVars, sendVars, silent>>

\* Returns NULL for a timeout of 0, else waits.
Polled ==
  /\ rpc = "polled"
  /\ \/ rpc' = "idle" /\ polls' = 0 /\ UNCHANGED wpc
     \/ rpc' = "wait" /\ WaitGo("lock") /\ UNCHANGED polls
  /\ UNCHANGED <<holder, hasFd, registered, bytes, npc, events, fails, chan, out, held, sendVars,
                 silent>>

\* Mutant of Waited: waits again instead of looking.
WaitsAgain ==
  /\ rpc = "wait"
  /\ wpc = "out"
  /\ rpc' = "polled"
  /\ UNCHANGED <<notifierVars, chan, out, held, sendVars, polls, silent>>

Waited ==
  /\ rpc = "wait"
  /\ wpc = "out"
  /\ rpc' = "poll"
  /\ UNCHANGED <<notifierVars, chan, out, held, sendVars, polls, silent>>

MsgConsumed ==
  /\ rpc = "have"
  /\ Channel!Consume
  /\ silent' = Tail(silent)
  /\ rpc' = "idle"
  /\ UNCHANGED <<notifierVars, sendVars, polls>>

-----------------------------------------------------------------------------
SenderStep(s) ==
  \/ SendMsg_(s) \/ FinishMsg(s) \/ PublishMsg(s) \/ SentMsg(s) \/ Notified(s)

ReceiverStep == ReceiveMsg \/ Poll \/ Polled \/ Waited \/ MsgConsumed

pipeVars == <<chan, out, held, sendVars, receiveVars, silent>>

\* What a thread does next, in SendMsg or in Notify; in ReceiveMsg or in Wait.
SenderGoesOn(s) == SenderStep(s) \/ (NotifyStep(s) /\ UNCHANGED pipeVars)
ReceiverGoesOn == ReceiverStep \/ (WaitStep /\ UNCHANGED pipeVars)

Next ==
  \/ \E s \in Senders : SendMsg(s) \/ SenderGoesOn(s)
  \/ ReceiverGoesOn

Spec == Init /\ [][Next]_vars

\* Threads run; epoll_wait ends (the timeout is finite); a thread that spins on
\* the lock gets it when it is free again and again.
Fairness ==
  /\ \A s \in Senders :
       WF_vars(SenderGoesOn(s)) /\ SF_vars(NotifyLock(s) /\ UNCHANGED pipeVars)
  /\ WF_vars(ReceiverGoesOn)

FairSpec == Spec /\ Fairness

-----------------------------------------------------------------------------
(* Properties.                                                             *)

TypeOK ==
  /\ NotifierTypeOK
  /\ chan \in Seq([from : Senders, size : {1}, ready : BOOLEAN]) /\ Len(chan) <= Capacity
  /\ out \in 0..Len(chan) /\ held \in BOOLEAN
  /\ spc \in [Senders -> {"idle", "reserve", "finish", "publish", "notify"}]
  /\ notify \in [Senders -> BOOLEAN]
  /\ tries \in [Senders -> 0..TimesBusyQuery - 1]
  /\ rpc \in {"idle", "poll", "polled", "wait", "have"}
  /\ polls \in 0..TimesBusyQuery
  /\ silent \in Seq(BOOLEAN) /\ Len(silent) = out

\* A notification that is written reaches the receiver: with types that hold, no thread
\* writes to a pipe that epoll does not watch.
WellFormed == TypeOK /\ NotificationsVisible

\* The receiver sleeps and nothing that has happened will wake it.
Asleep == wpc = "poll" /\ Readable = {}

\* While the receiver sleeps over messages it could have, a sender is still on
\* its way to wake it, or a message was published by a sender that does not
\* notify.  That happens in two ways: the sender saw a backlog above the
\* threshold that the receiver has consumed meanwhile (158: the decision comes
\* before the message), or it published, with its own, the message of a sender
\* whose notification came too early (346: helpers do not notify for others).
\* (A notification whose system calls fail is lost as well.)
WokenUnlessSilent ==
  Asleep /\ out > 0 /\ fails = 0 =>
    \/ \E s \in Senders : spc[s] \in {"publish", "notify"}
    \/ \E i \in DOMAIN silent : silent[i]

\* A published message is delivered, at the latest after a timeout, whatever calls
\* have failed, unless the lock is lost.
Delivered == out > 0 ~> held \/ LockLost

\* Every Notify returns, also the first of a thread, that has to get the lock
\* which the receiver holds in its sleep.
NotifyReturns == \A s \in Senders : npc[s] # "out" ~> npc[s] = "out" \/ LockLost
=============================================================================
