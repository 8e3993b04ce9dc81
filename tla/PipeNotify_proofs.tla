------------------------- MODULE PipeNotify_proofs --------------------------
(***************************************************************************)
(* Proofs about PipeNotify, for any number of senders, any capacity and    *)
(* threshold, and any failures: what is written for the receiver it can    *)
(* see, and it sleeps over a message only if that was published silently   *)
(* or a call has failed.                                                   *)
(***************************************************************************)
EXTENDS PipeNotify, TLAPS

Messages == [from : Senders, size : {1}, ready : BOOLEAN]

\* The conjuncts of the type invariant, by what they are about.
ChanTypes ==
  /\ chan \in Seq(Messages) /\ Len(chan) <= Capacity
  /\ out \in 0..Len(chan) /\ held \in BOOLEAN
  /\ held => out > 0
SendTypes ==
  /\ spc \in [Senders -> {"idle", "reserve", "finish", "publish", "notify"}]
  /\ notify \in [Senders -> BOOLEAN]
  /\ tries \in [Senders -> 0..TimesBusyQuery - 1]
ReceiveTypes ==
  /\ rpc \in {"idle", "poll", "polled", "wait", "have"}
  /\ polls \in 0..TimesBusyQuery
SilentTypes == silent \in Seq(BOOLEAN) /\ Len(silent) = out

\* What is watched: a pipe from the moment that its thread is done with the epoll set.
Visible ==
  \A s \in Senders :
    bytes[s] > 0 \/ npc[s] \in {"unlock", "setKey", "write"} \/ s \in hasFd => s \in registered

\* The receiver is in Wait only where ReceiveMsg has called it.
CallsWait == wpc # "out" => rpc = "wait"

\* The receiver has found nothing and has not looked again, nor read a notification.
Blind == rpc = "polled" \/ (rpc = "wait" /\ wpc \in {"lock", "poll"})

OnItsWay(s) ==
  \/ spc[s] = "publish" /\ notify[s]
  \/ spc[s] = "notify" /\ npc[s] # "out"

\* What has been published since then, and not silently, has somebody who wakes the
\* receiver, or has woken it.
SomebodyWakes ==
  Blind /\ out > 0 /\ fails = 0 /\ (\A i \in DOMAIN silent : ~silent[i]) =>
    Readable # {} \/ \E s \in Senders : OnItsWay(s)

Types == NotifierTypeOK /\ ChanTypes /\ SendTypes /\ ReceiveTypes /\ SilentTypes
IInv == Types /\ Visible /\ CallsWait /\ SomebodyWakes

-----------------------------------------------------------------------------

LEMMA InitInv == Init => IInv
<1> SUFFICES ASSUME Init PROVE IInv
  OBVIOUS
<1> USE NotifierAssumption, ThresholdAssumption
        DEF NotifierAssumption, ThresholdAssumption, Init, NotifierInit, Channel!Init
<1>1. NotifierTypeOK
  BY DEF NotifierTypeOK
<1>2. ChanTypes /\ SilentTypes
  <2>1. chan = <<>> /\ silent = <<>> /\ out = 0 /\ held = FALSE /\ Capacity \in Nat
    OBVIOUS
  <2>2. <<>> \in Seq(Messages) /\ <<>> \in Seq(BOOLEAN) /\ Len(<<>>) = 0
    OBVIOUS
  <2>3. held \in BOOLEAN /\ (held => out > 0)
    BY <2>1
  <2>4. chan \in Seq(Messages) /\ Len(chan) <= Capacity /\ out \in 0..Len(chan)
    BY <2>1, <2>2
  <2>5. silent \in Seq(BOOLEAN) /\ Len(silent) = out
    BY <2>1, <2>2
  <2> QED  BY <2>3, <2>4, <2>5, Zenon DEF ChanTypes, SilentTypes
<1>3. SendTypes /\ ReceiveTypes
  BY DEF SendTypes, ReceiveTypes, TimesBusyQuery
<1>4. Visible /\ CallsWait /\ SomebodyWakes
  BY DEF Visible, CallsWait, SomebodyWakes
<1> QED  BY <1>1, <1>2, <1>3, <1>4 DEF IInv, Types

-----------------------------------------------------------------------------
(* The notifier.                                                           *)

LEMMA NotifyTypes ==
  ASSUME NotifierTypeOK, Visible, NEW s \in Senders, NotifyStep(s)
  PROVE  NotifierTypeOK' /\ Visible'
<1> USE NotifierAssumption
        DEF NotifierAssumption, NotifierTypeOK, Visible, NotifyGo, CallWorks, CallFails
<1>1. CASE NotifyBegin(s)
  BY <1>1 DEF NotifyBegin
<1>2. CASE NotifyLock(s)
  BY <1>2 DEF NotifyLock
<1>3. CASE NotifyAdd(s)
  BY <1>3 DEF NotifyAdd
<1>4. CASE NotifyUnlock(s)
  BY <1>4 DEF NotifyUnlock
<1>5. CASE NotifySetKey(s)
  BY <1>5 DEF NotifySetKey
<1>6. CASE NotifyWrite(s)
  BY <1>6 DEF NotifyWrite
<1> QED  BY <1>1, <1>2, <1>3, <1>4, <1>5, <1>6 DEF NotifyStep

LEMMA WaitTypes ==
  ASSUME NotifierTypeOK, Visible, WaitStep
  PROVE  NotifierTypeOK' /\ Visible'
<1> USE NotifierAssumption DEF NotifierAssumption, NotifierTypeOK, Visible, WaitGo
<1>1. CASE WaitLock
  BY <1>1 DEF WaitLock
<1>2. CASE EpollReturns
  BY <1>2 DEF EpollReturns, Readable
<1>3. CASE EpollTimesOut
  BY <1>3 DEF EpollTimesOut
<1>4. CASE ReadEvents
  BY <1>4 DEF ReadEvents
<1>5. CASE WaitUnlock
  BY <1>5 DEF WaitUnlock
<1> QED  BY <1>1, <1>2, <1>3, <1>4, <1>5 DEF WaitStep

\* A sender that is in Notify stays on its way until there is something to read.
LEMMA NotifyWakes ==
  ASSUME Types, Visible, SomebodyWakes, NEW s \in Senders, NotifyStep(s), UNCHANGED pipeVars
  PROVE  SomebodyWakes'
<1> USE DEF Types, NotifierTypeOK, SendTypes, NotifyGo, CallWorks, CallFails,
            pipeVars, sendVars, receiveVars
<1>1. UNCHANGED <<wpc, rpc, out, silent, spc, notify>>
  BY DEF NotifyStep, NotifyBegin, NotifyLock, NotifyAdd, NotifyUnlock, NotifySetKey, NotifyWrite
<1>2. \A t \in Senders \ {s} : npc'[t] = npc[t]
  BY DEF NotifyStep, NotifyBegin, NotifyLock, NotifyAdd, NotifyUnlock, NotifySetKey, NotifyWrite
<1>3. fails \in Nat /\ (fails' = fails \/ fails' = fails + 1)
  BY NotifierAssumption DEF NotifierAssumption, NotifyStep, NotifyBegin, NotifyLock, NotifyAdd,
     NotifyUnlock, NotifySetKey, NotifyWrite
<1>4. CASE NotifyWrite(s)
  <2>1. s \in registered /\ registered' = registered
    BY <1>4 DEF NotifyWrite, Visible
  <2>2. bytes'[s] > 0
    BY <1>4, NotifierAssumption DEF NotifyWrite, NotifierAssumption
  <2> QED  BY <2>1, <2>2 DEF Readable, SomebodyWakes
<1>5. CASE ~NotifyWrite(s)
  <2>1. bytes' = bytes /\ registered \subseteq registered'
    BY <1>5 DEF NotifyStep, NotifyBegin, NotifyLock, NotifyAdd, NotifyUnlock, NotifySetKey
  <2>2. fails' = 0 => fails = 0 /\ npc'[s] # "out"
    BY <1>3, <1>5 DEF NotifyStep, NotifyBegin, NotifyLock, NotifyAdd, NotifyUnlock, NotifySetKey
  <2>3. Readable \subseteq Readable'
    BY <2>1 DEF Readable
  <2>4. fails' = 0 => \A t \in Senders : OnItsWay(t) => OnItsWay(t)'
    BY <1>1, <1>2, <2>2 DEF OnItsWay
  <2> QED  BY <1>1, <2>2, <2>3, <2>4 DEF SomebodyWakes, Blind
<1> QED  BY <1>4, <1>5

\* Wait ends the blindness, or leaves all as it is.
LEMMA WaitWakes ==
  ASSUME Types, CallsWait, SomebodyWakes, WaitStep, UNCHANGED pipeVars
  PROVE  CallsWait' /\ SomebodyWakes'
<1> USE DEF WaitGo
<1>0. UNCHANGED <<rpc, spc, notify, out, silent>>
  BY DEF pipeVars, sendVars, receiveVars
<1>1. rpc = "wait" /\ rpc' = "wait"
  BY <1>0 DEF CallsWait, WaitStep, WaitLock, EpollReturns, EpollTimesOut, ReadEvents, WaitUnlock
<1>2. CASE WaitLock
  <2>1. /\ wpc = "lock" /\ wpc' = "poll" /\ UNCHANGED <<registered, bytes, npc, fails>>
    BY <1>2 DEF WaitLock
  <2>2. Readable' = Readable /\ \A s \in Senders : OnItsWay(s) <=> OnItsWay(s)'
    BY <1>0, <2>1 DEF Readable, OnItsWay
  <2> QED  BY <1>0, <1>1, <2>1, <2>2 DEF SomebodyWakes, Blind, CallsWait
<1>3. CASE ~WaitLock
  <2>1. wpc' \notin {"lock", "poll"}
    BY <1>3 DEF WaitStep, EpollReturns, EpollTimesOut, ReadEvents, WaitUnlock
  <2> QED  BY <1>1, <2>1 DEF SomebodyWakes, Blind, CallsWait
<1> QED  BY <1>1, <1>2, <1>3 DEF CallsWait

-----------------------------------------------------------------------------
(* SendMsg.                                                                *)

LEMMA SendTypesStep ==
  ASSUME IInv, NEW s \in Senders,
         SendMsg(s) \/ SendMsg_(s) \/ FinishMsg(s) \/ PublishMsg(s) \/ SentMsg(s) \/ Notified(s)
  PROVE  Types' /\ Visible' /\ CallsWait'
<1> USE ThresholdAssumption
        DEF ThresholdAssumption, IInv, Types, SendTypes, ReceiveTypes, SendGo, TimesBusyQuery,
            receiveVars
<1>1. CASE SendMsg(s)
  <2>1. UNCHANGED <<notifierVars, chan, out, held, receiveVars, silent>> /\ SendTypes'
    BY <1>1 DEF SendMsg
  <2> QED  BY <2>1 DEF NotifierTypeOK, Visible, CallsWait, notifierVars, ChanTypes, SilentTypes
<1>2. CASE SendMsg_(s)
  <2>1. UNCHANGED <<notifierVars, receiveVars, silent, out, held>>
    BY <1>2 DEF SendMsg_, Channel!Reserve
  <2>2. SendTypes'
    <3>1. tries' \in [Senders -> 0..TimesBusyQuery - 1]
      <4>1. tries' = [tries EXCEPT ![s] = 0]
              \/ (~LastTry(tries[s]) /\ tries' = [tries EXCEPT ![s] = @ + 1])
        BY <1>2 DEF SendMsg_
      <4> QED  BY <4>1 DEF LastTry
    <3>2. spc' \in [Senders -> {"idle", "reserve", "finish", "publish", "notify"}]
      BY <1>2 DEF SendMsg_
    <3>3. notify' \in [Senders -> BOOLEAN]
      <4>1. notify' = notify \/ notify' = [notify EXCEPT ![s] = FALSE]
        BY <1>2 DEF SendMsg_
      <4> QED  BY <4>1
    <3> QED  BY <3>1, <3>2, <3>3
  <2>3. ChanTypes'
    <3>1. CASE chan' = chan
      BY <2>1, <3>1 DEF ChanTypes
    <3>2. CASE chan' # chan
      <4>1. Len(chan) < Capacity /\ chan' = Append(chan, [from |-> s, size |-> 1, ready |-> FALSE])
        BY <1>2, <3>2 DEF SendMsg_, Channel!Reserve
      <4>2. [from |-> s, size |-> 1, ready |-> FALSE] \in Messages
        BY DEF Messages
      <4>3. chan' \in Seq(Messages) /\ Len(chan') = Len(chan) + 1 /\ Len(chan) \in Nat
        BY <4>1, <4>2 DEF ChanTypes
      <4> QED  BY <2>1, <4>1, <4>3 DEF ChanTypes
    <3> QED  BY <3>1, <3>2
  <2> QED  BY <2>1, <2>2, <2>3 DEF NotifierTypeOK, Visible, CallsWait, notifierVars, SilentTypes
<1>3. CASE FinishMsg(s)
  <2>1. UNCHANGED <<notifierVars, notify, tries, receiveVars, silent, out, held>> /\ SendTypes'
    BY <1>3 DEF FinishMsg, Channel!Finish
  <2>2. ChanTypes'
    <3>1. PICK i \in DOMAIN chan : chan' = [chan EXCEPT ![i].ready = TRUE]
      BY <1>3 DEF FinishMsg, Channel!Finish
    <3>2. [chan[i] EXCEPT !.ready = TRUE] \in Messages
      <4>1. chan[i] \in Messages
        BY DEF ChanTypes
      <4> QED  BY <4>1 DEF Messages
    <3>3. chan' = [chan EXCEPT ![i] = [chan[i] EXCEPT !.ready = TRUE]]
      BY <3>1
    <3>4. chan' \in Seq(Messages) /\ Len(chan') = Len(chan)
      BY <3>2, <3>3 DEF ChanTypes
    <3> QED  BY <2>1, <3>4 DEF ChanTypes
  <2> QED  BY <2>1, <2>2 DEF NotifierTypeOK, Visible, CallsWait, notifierVars, SilentTypes
<1>4. CASE PublishMsg(s)
  <2>1. /\ UNCHANGED <<notifierVars, sendVars, receiveVars, chan, held>>
        /\ out < Len(chan) /\ out' = out + 1 /\ silent' = Append(silent, ~notify[s])
    BY <1>4 DEF PublishMsg, Channel!Publish, Channel!CanPublish
  <2>2. ChanTypes' /\ SendTypes'
    BY <2>1 DEF ChanTypes, sendVars
  <2>3. SilentTypes'
    BY <2>1 DEF SilentTypes, ChanTypes
  <2> QED  BY <2>1, <2>2, <2>3 DEF NotifierTypeOK, Visible, CallsWait, notifierVars
<1>5. CASE SentMsg(s)
  <2>1. /\ UNCHANGED <<holder, hasFd, registered, bytes, wpc, events, fails, chan, out, held,
                       tries, receiveVars, silent>>
        /\ SendTypes' /\ (npc' = npc \/ npc' = [npc EXCEPT ![s] = "begin"])
    BY <1>5 DEF SentMsg, NotifyGo
  <2> QED  BY <2>1 DEF NotifierTypeOK, Visible, CallsWait, ChanTypes, SilentTypes
<1>6. CASE Notified(s)
  <2>1. UNCHANGED <<notifierVars, chan, out, held, receiveVars, silent>> /\ SendTypes'
    BY <1>6 DEF Notified
  <2> QED  BY <2>1 DEF NotifierTypeOK, Visible, CallsWait, notifierVars, ChanTypes, SilentTypes
<1> QED  BY <1>1, <1>2, <1>3, <1>4, <1>5, <1>6

\* Who publishes with a notification is on its way to wake the receiver, and stays so
\* until it is in Notify.
LEMMA SendWakes ==
  ASSUME IInv, NEW s \in Senders,
         SendMsg(s) \/ SendMsg_(s) \/ FinishMsg(s) \/ PublishMsg(s) \/ SentMsg(s) \/ Notified(s)
  PROVE  SomebodyWakes'
<1> USE DEF IInv, Types, SendTypes, SendGo, receiveVars
<1>1. UNCHANGED <<wpc, rpc, fails, bytes, registered>>
  BY DEF SendMsg, SendMsg_, FinishMsg, PublishMsg, SentMsg, Notified, notifierVars
<1>2. CASE PublishMsg(s)
  <2>1. spc'[s] = "publish" /\ notify'[s] = notify[s] /\ silent' = Append(silent, ~notify[s])
    BY <1>2 DEF PublishMsg, sendVars
  <2>2. Len(silent) + 1 \in DOMAIN silent' /\ silent'[Len(silent) + 1] = ~notify[s]
    BY <2>1 DEF SilentTypes
  <2>3. (\A i \in DOMAIN silent' : ~silent'[i]) => OnItsWay(s)'
    BY <2>1, <2>2 DEF OnItsWay
  <2> QED  BY <2>3 DEF SomebodyWakes
<1>3. CASE ~PublishMsg(s)
  <2>1. UNCHANGED <<out, silent>>
    BY <1>3 DEF SendMsg, SendMsg_, FinishMsg, SentMsg, Notified, Channel!Reserve, Channel!Finish
  <2>2. \A t \in Senders \ {s} : OnItsWay(t) => OnItsWay(t)'
    BY <1>3 DEF SendMsg, SendMsg_, FinishMsg, SentMsg, Notified, OnItsWay, NotifyGo,
                NotifierTypeOK, notifierVars
  <2>3. OnItsWay(s) => OnItsWay(s)'
    BY <1>3 DEF SendMsg, SendMsg_, FinishMsg, SentMsg, Notified, OnItsWay, NotifyGo,
                NotifierTypeOK, notifierVars
  <2>4. Readable' = Readable
    BY <1>1 DEF Readable
  <2> QED  BY <1>1, <2>1, <2>2, <2>3, <2>4 DEF SomebodyWakes, Blind
<1> QED  BY <1>2, <1>3

-----------------------------------------------------------------------------
(* ReceiveMsg.                                                             *)

LEMMA ReceiverInv ==
  ASSUME IInv, ReceiverStep
  PROVE  IInv'
<1> USE DEF IInv, Types, ReceiveTypes, TimesBusyQuery, sendVars
<1>1. CASE ReceiveMsg
  <2>1. /\ UNCHANGED <<notifierVars, chan, out, held, sendVars, silent>>
        /\ rpc = "idle" /\ rpc' = "poll" /\ polls' = 0
    BY <1>1 DEF ReceiveMsg
  <2> QED  BY <2>1 DEF NotifierTypeOK, Visible, CallsWait, notifierVars, ChanTypes, SendTypes,
                       SilentTypes, SomebodyWakes, Blind
<1>2. CASE Poll
  <2>1. UNCHANGED <<notifierVars, sendVars, silent, chan, out>> /\ rpc = "poll"
    BY <1>2 DEF Poll, Channel!Deliver
  <2>2. ReceiveTypes' /\ rpc' # "wait" /\ (rpc' = "polled" => out = 0)
    BY <1>2 DEF Poll
  <2>3. ChanTypes'
    <3>1. held' = held \/ (held' = TRUE /\ out > 0)
      BY <1>2 DEF Poll, Channel!Deliver
    <3>2. held' \in BOOLEAN /\ (held' => out' > 0)
      <4>1. held \in BOOLEAN /\ (held => out > 0) /\ out' = out
        BY <2>1 DEF ChanTypes
      <4>2. CASE held' = held
        BY <4>1, <4>2
      <4>3. CASE held' = TRUE /\ out > 0
        BY <4>1, <4>3
      <4> QED  BY <3>1, <4>2, <4>3
    <3> QED  BY <2>1, <3>2 DEF ChanTypes
  <2>4. CallsWait' /\ SomebodyWakes'
    BY <2>1, <2>2 DEF CallsWait, SomebodyWakes, Blind, notifierVars, ChanTypes
  <2> QED  BY <2>1, <2>2, <2>3, <2>4 DEF NotifierTypeOK, Visible, notifierVars, SendTypes,
                                         SilentTypes
<1>3. CASE Polled
  <2>1. /\ UNCHANGED <<holder, hasFd, registered, bytes, npc, events, fails, chan, out, held,
                       sendVars, silent>>
        /\ rpc = "polled"
        /\ \/ rpc' = "idle" /\ polls' = 0 /\ UNCHANGED wpc
           \/ rpc' = "wait" /\ wpc' = "lock" /\ UNCHANGED polls
    BY <1>3 DEF Polled, WaitGo
  <2>2. Types' /\ Visible' /\ CallsWait'
    BY <2>1 DEF NotifierTypeOK, Visible, CallsWait, ChanTypes, SendTypes, SilentTypes
  <2>3. SomebodyWakes'
    BY <2>1 DEF SomebodyWakes, Blind, OnItsWay, Readable
  <2> QED  BY <2>2, <2>3
<1>4. CASE Waited
  <2>1. /\ UNCHANGED <<notifierVars, chan, out, held, sendVars, polls, silent>>
        /\ wpc = "out" /\ rpc' = "poll"
    BY <1>4 DEF Waited
  <2> QED  BY <2>1 DEF NotifierTypeOK, Visible, CallsWait, notifierVars, ChanTypes, SendTypes,
                       SilentTypes, SomebodyWakes, Blind
<1>5. CASE MsgConsumed
  <2>1. /\ UNCHANGED <<notifierVars, sendVars, polls>>
        /\ held /\ held' = FALSE /\ chan' = Tail(chan) /\ out' = out - 1
        /\ silent' = Tail(silent) /\ rpc = "have" /\ rpc' = "idle"
    BY <1>5 DEF MsgConsumed, Channel!Consume
  <2>2. out > 0 /\ out \in Nat /\ Len(chan) \in Nat /\ out <= Len(chan)
    BY <2>1 DEF ChanTypes
  <2>3. chan' \in Seq(Messages) /\ Len(chan') = Len(chan) - 1
    BY <2>1, <2>2 DEF ChanTypes
  <2>4. ChanTypes'
    <3>1. Len(chan') <= Capacity
      BY <2>2, <2>3, ThresholdAssumption DEF ChanTypes, ThresholdAssumption
    <3>2. out' \in 0..Len(chan') /\ held' = FALSE
      BY <2>1, <2>2, <2>3
    <3> QED  BY <2>3, <3>1, <3>2 DEF ChanTypes
  <2>5. SilentTypes'
    BY <2>1, <2>2 DEF SilentTypes
  <2> QED  BY <2>1, <2>4, <2>5 DEF NotifierTypeOK, Visible, CallsWait, notifierVars, SendTypes,
                                   SomebodyWakes, Blind
<1> QED  BY <1>1, <1>2, <1>3, <1>4, <1>5 DEF ReceiverStep

\* The invariant holds at the start, and every step keeps it.
LEMMA Invariance == Spec => []IInv
<1>1. IInv /\ [Next]_vars => IInv'
  <2> SUFFICES ASSUME IInv, [Next]_vars PROVE IInv'
    OBVIOUS
  <2>1. ASSUME NEW s \in Senders, SendMsg(s) \/ SenderStep(s)
        PROVE  IInv'
    BY <2>1, SendTypesStep, SendWakes DEF SenderStep, IInv
  <2>2. ASSUME NEW s \in Senders, NotifyStep(s), UNCHANGED pipeVars
        PROVE  IInv'
    <3>1. NotifierTypeOK' /\ Visible' /\ SomebodyWakes'
      BY <2>2, NotifyTypes, NotifyWakes DEF IInv, Types
    <3>2. wpc' = wpc
      BY <2>2 DEF NotifyStep, NotifyBegin, NotifyLock, NotifyAdd, NotifyUnlock, NotifySetKey,
                  NotifyWrite
    <3> QED  BY <2>2, <3>1, <3>2 DEF IInv, Types, CallsWait, ChanTypes, SendTypes, ReceiveTypes,
                                     SilentTypes, pipeVars, sendVars, receiveVars
  <2>3. ASSUME WaitStep, UNCHANGED pipeVars
        PROVE  IInv'
    <3>1. NotifierTypeOK' /\ Visible' /\ CallsWait' /\ SomebodyWakes'
      BY <2>3, WaitTypes, WaitWakes DEF IInv, Types
    <3> QED  BY <2>3, <3>1 DEF IInv, Types, ChanTypes, SendTypes, ReceiveTypes,
                               SilentTypes, pipeVars, sendVars, receiveVars
  <2>4. CASE UNCHANGED vars
    BY <2>4 DEF vars, notifierVars, sendVars, receiveVars, IInv, Types, NotifierTypeOK, ChanTypes,
                SendTypes, ReceiveTypes, SilentTypes, Visible, CallsWait, SomebodyWakes, Blind,
                OnItsWay, Readable
  <2> QED  BY <2>1, <2>2, <2>3, <2>4, ReceiverInv DEF Next, SenderGoesOn, ReceiverGoesOn
<1> QED  BY <1>1, InitInv, PTL DEF Spec

-----------------------------------------------------------------------------

\* The types hold, and a byte that was written is in a pipe that epoll watches, whatever
\* calls have failed.
THEOREM Seen == Spec => []WellFormed
<1>1. IInv => WellFormed
  BY DEF IInv, Types, WellFormed, TypeOK, NotificationsVisible, ChanTypes, SendTypes,
         ReceiveTypes, SilentTypes, Visible, Messages
<1> QED  BY <1>1, Invariance, PTL

\* The receiver sleeps over messages only while somebody comes to wake it, or if one of them
\* was published silently.
THEOREM Woken == Spec => []WokenUnlessSilent
<1>1. IInv => WokenUnlessSilent
  BY DEF IInv, CallsWait, SomebodyWakes, Blind, OnItsWay, WokenUnlessSilent, Asleep
<1> QED  BY <1>1, Invariance, PTL
=============================================================================
