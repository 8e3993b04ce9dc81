--------------------------- MODULE MPSCFixedPipe ---------------------------
(***************************************************************************)
(* The multi-producer single-consumer byte pipe of                         *)
(* src/src/mpsc_fixed_pipe/mpsc_fixed_pipe.hpp, opened with the default    *)
(* threshold (0: no notifier).  Any number of sender threads reserve space *)
(* by moving sender_pace_to_ with a compare-and-swap, fill it in, and      *)
(* publish it by moving sender_pace_from_; one receiver thread reads at    *)
(* receiver_pace_, and turns what it has consumed back into blank bytes.   *)
(*                                                                         *)
(* Every load, store and compare-and-swap of a shared word is a step of    *)
(* its own; what a thread does on its own variables between two of them    *)
(* belongs to the step before.  The processors the code is built for       *)
(* (mfence, x86) keep stores in order, so steps are sequentially           *)
(* consistent.  A cell of the model is the unit the sizes are given in.    *)
(***************************************************************************)
EXTENDS Integers, Sequences

CONSTANTS
  Senders,          \* sender threads; a thread is also the content of its messages
  SizePipe,         \* size_pipe_, in cells
  MaxSizeContent,   \* max_size_content_
  MsgOffset,        \* kMsgOffset: header cells, the last one the size word
  ContentSizes,     \* the content sizes that clients ask for
  NumVersions,      \* kNumVersions, 2^16 in the code
  MaskNotWriting,   \* kMaskNotWriting, 2^31 in the code
  StrayWords,       \* what content or header bytes may read as, taken for a size word
  BehindWords       \* what the memory behind the pipe may read as

TimesBusyQuery == 2
Blank == 2 * MaskNotWriting - 1     \* uint32_t(-1), every byte 255

\* What Init demands (131), and that a size never reaches the ready bit.
ASSUME PipeAssumption ==
  /\ SizePipe \in Nat
  /\ MaxSizeContent \in Nat
  /\ MsgOffset \in Nat /\ MsgOffset >= 2
  /\ SizePipe > MaxSizeContent + MsgOffset
  /\ ContentSizes \subseteq Nat
  /\ NumVersions \in Nat /\ NumVersions >= 2
  /\ MaskNotWriting \in Nat /\ MaskNotWriting > SizePipe
  /\ StrayWords \subseteq 0..Blank
  /\ BehindWords \subseteq 0..Blank
  /\ Senders \cap Int = {}

VARIABLES
  mem,              \* pipe_: the cells
  receiverPace,     \* receiver_pace_
  senderPaceFrom,   \* sender_pace_from_, decoded
  senderPaceTo,     \* sender_pace_to_, decoded
  pc, loc,          \* control and locals of every sender
  rpc, rfrom,       \* control of the receiver, its tmp_sender_pace_from
  unblanked,        \* orig_receiver_pace of MsgConsumed
  queue             \* history: reservations not consumed yet, in order

senderVars == <<pc, loc>>
receiverVars == <<rpc, rfrom, unblanked>>
vars == <<mem, receiverPace, senderPaceFrom, senderPaceTo, senderVars,
          receiverVars, queue>>

-----------------------------------------------------------------------------
(* Size words, places and paces.                                           *)

IsBlank(w) == w = Blank
IsNotWriting(w) == w >= MaskNotWriting
\* Mutant of IsReady: takes whatever has been written for ready.
IsWritten(w) == ~IsBlank(w)
IsReady(w) == ~IsBlank(w) /\ IsNotWriting(w)
SetReady(w) == IF IsNotWriting(w) THEN w ELSE w + MaskNotWriting
GetMsgSize(w) ==
  IF IsBlank(w) THEN Blank
  ELSE MsgOffset + (IF IsNotWriting(w) THEN w - MaskNotWriting ELSE w)

SizeAt(p) == p + MsgOffset - 1

\* The values a load of the size word of a message at p may return.
SizeWords(p) ==
  IF SizeAt(p) >= SizePipe THEN BehindWords
  ELSE IF mem[SizeAt(p)] \in Int THEN {mem[SizeAt(p)]}
  ELSE StrayWords

\* Mutants of SetBlank: a byte short, a byte too far.
SetBlankShort(m, from, to) ==
  [c \in DOMAIN m |-> IF from <= c /\ c < to - 1 THEN Blank ELSE m[c]]
SetBlankFar(m, from, to) ==
  [c \in DOMAIN m |-> IF from <= c /\ c <= to THEN Blank ELSE m[c]]
SetBlank(m, from, to) ==
  [c \in DOMAIN m |-> IF from <= c /\ c < to THEN Blank ELSE m[c]]

\* Mutants of Fits and FitsRewound: a full pipe looks empty; a drained one has
\* nothing before the receiver.
FitsTight(to, need, receiver) ==
  IF to >= receiver THEN to + need <= SizePipe ELSE to + need <= receiver
FitsRewoundBehind(to, need, receiver) ==
  to > receiver /\ to + need > SizePipe /\ need < receiver

\* Where ReserveSpaceForSend_ finds room, from the two paces it has loaded.
Fits(to, need, receiver) ==
  IF to >= receiver THEN to + need <= SizePipe ELSE to + need < receiver
FitsRewound(to, need, receiver) ==
  to >= receiver /\ to + need > SizePipe /\ need < receiver

Pace(ptr, ver) == [ptr |-> ptr, ver |-> ver]
\* Mutant of NextVersion: no wrap.
NextVersionUnwrapped(ver) == ver + 1
NextVersion(ver) == (ver + 1) % NumVersions

NotRewound == -1
Fresh == [n |-> 0, try |-> 0, pace |-> Pace(0, 0), next |-> 0, msg |-> 0,
          rewind |-> NotRewound]

-----------------------------------------------------------------------------
Init ==
  /\ mem = [c \in 0..SizePipe - 1 |-> Blank]
  /\ receiverPace = 0
  /\ senderPaceFrom = Pace(0, 0)
  /\ senderPaceTo = Pace(0, 0)
  /\ pc = [s \in Senders |-> "idle"]
  /\ loc = [s \in Senders |-> Fresh]
  /\ rpc = "idle" /\ rfrom = 0 /\ unblanked = 0
  /\ queue = <<>>

Go(s, label, locals) ==
  /\ pc' = [pc EXCEPT ![s] = label]
  /\ loc' = [loc EXCEPT ![s] = locals]

Return(s) == Go(s, "idle", Fresh)

\* SendMsg_ has returned false: SendMsg tries again, or gives up.
Fail(s) ==
  IF loc[s].try + 1 < TimesBusyQuery
  THEN Go(s, "loadTo", [Fresh EXCEPT !.n = loc[s].n, !.try = loc[s].try + 1])
  ELSE Return(s)

(* SendMsg, ReserveSpaceForSend_.                                          *)

SendMsg(s, n) ==
  /\ pc[s] = "idle"
  /\ Go(s, "loadTo", [Fresh EXCEPT !.n = n])
  /\ UNCHANGED <<mem, receiverPace, senderPaceFrom, senderPaceTo, receiverVars, queue>>

LoadTo(s) ==
  /\ pc[s] = "loadTo"
  /\ IF loc[s].n > MaxSizeContent
     THEN Fail(s)
     ELSE Go(s, "loadReceiver", [loc[s] EXCEPT !.pace = senderPaceTo])
  /\ UNCHANGED <<mem, receiverPace, senderPaceFrom, senderPaceTo, receiverVars, queue>>

LoadReceiver(s) ==
  LET to == loc[s].pace.ptr
      need == MsgOffset + loc[s].n
  IN  /\ pc[s] = "loadReceiver"
      /\ IF Fits(to, need, receiverPace)
         THEN Go(s, "casTo", [loc[s] EXCEPT !.msg = to, !.next = to + need])
         ELSE IF FitsRewound(to, need, receiverPace)
         THEN Go(s, "casTo", [loc[s] EXCEPT !.next = need, !.rewind = to])
         ELSE Fail(s)
      /\ UNCHANGED <<mem, receiverPace, senderPaceFrom, senderPaceTo, receiverVars, queue>>

CasTo(s) ==
  LET l == loc[s]
      ver == IF l.rewind = NotRewound THEN l.pace.ver ELSE NextVersion(l.pace.ver)
  IN  /\ pc[s] = "casTo"
      /\ IF senderPaceTo = l.pace
         THEN /\ senderPaceTo' = Pace(l.next, ver)
              /\ queue' = Append(queue, [from |-> s, size |-> l.n, pos |-> l.msg])
              /\ Go(s, "write", [Fresh EXCEPT !.n = l.n, !.msg = l.msg, !.rewind = l.rewind])
         ELSE Fail(s) /\ UNCHANGED <<senderPaceTo, queue>>
      /\ UNCHANGED <<mem, receiverPace, senderPaceFrom, receiverVars>>

(* SendMsg_: the header, the size, then the content.                       *)
WriteMsg(s) ==
  LET p == loc[s].msg
      n == loc[s].n
  IN  /\ pc[s] = "write"
      /\ mem' = [c \in DOMAIN mem |->
                   IF c = SizeAt(p) THEN n
                   ELSE IF p <= c /\ c < p + MsgOffset + n THEN s
                   ELSE mem[c]]
      /\ Go(s, "setReady", loc[s])
      /\ UNCHANGED <<receiverPace, senderPaceFrom, senderPaceTo, receiverVars, queue>>

(* JustSendMsg_.                                                           *)

MarkReady(s) ==
  LET p == loc[s].msg
  IN  /\ pc[s] = "setReady"
      /\ \E w \in SizeWords(p) : mem' = [mem EXCEPT ![SizeAt(p)] = SetReady(w)]
      /\ Go(s, "loadFrom", [Fresh EXCEPT !.msg = p, !.rewind = loc[s].rewind])
      /\ UNCHANGED <<receiverPace, senderPaceFrom, senderPaceTo, receiverVars, queue>>

\* Mutant of LoadFrom: leaves the first message of a lap to others.
LoadFromNoRewind(s) ==
  LET p == loc[s].msg
  IN  /\ pc[s] = "loadFrom"
      /\ IF senderPaceFrom.ptr = p
         THEN Go(s, "loadSize", [Fresh EXCEPT !.pace = senderPaceFrom])
         ELSE Return(s)
      /\ UNCHANGED <<mem, receiverPace, senderPaceFrom, senderPaceTo, receiverVars, queue>>

LoadFrom(s) ==
  LET p == loc[s].msg
  IN  /\ pc[s] = "loadFrom"
      /\ IF senderPaceFrom.ptr = p
         THEN Go(s, "loadSize", [Fresh EXCEPT !.pace = senderPaceFrom])
         ELSE IF p = 0
         THEN Go(s, "spin", [Fresh EXCEPT !.pace = senderPaceFrom, !.rewind = loc[s].rewind])
         ELSE Return(s)
      /\ UNCHANGED <<mem, receiverPace, senderPaceFrom, senderPaceTo, receiverVars, queue>>

\* Leaves the busy wait once every message before the rewind is published.
Spin(s) ==
  /\ pc[s] = "spin"
  /\ senderPaceFrom.ptr = loc[s].rewind
  /\ Go(s, "storeFrom", [Fresh EXCEPT !.pace = loc[s].pace])
  /\ UNCHANGED <<mem, receiverPace, senderPaceFrom, senderPaceTo, receiverVars, queue>>

\* Mutant of StoreFrom: rewinds without a new version.
StoreFromSameVersion(s) ==
  LET pace == Pace(0, loc[s].pace.ver)
  IN  /\ pc[s] = "storeFrom"
      /\ senderPaceFrom' = pace
      /\ Go(s, "loadSize", [Fresh EXCEPT !.pace = pace])
      /\ UNCHANGED <<mem, receiverPace, senderPaceTo, receiverVars, queue>>

StoreFrom(s) ==
  LET pace == Pace(0, NextVersion(loc[s].pace.ver))
  IN  /\ pc[s] = "storeFrom"
      /\ senderPaceFrom' = pace
      /\ Go(s, "loadSize", [Fresh EXCEPT !.pace = pace])
      /\ UNCHANGED <<mem, receiverPace, senderPaceTo, receiverVars, queue>>

LoadSize(s) ==
  LET pace == loc[s].pace
  IN  /\ pc[s] = "loadSize"
      /\ \E w \in SizeWords(pace.ptr) :
           IF IsBlank(w)
           THEN Return(s)
           ELSE Go(s, "casFrom", [Fresh EXCEPT !.pace = pace, !.next = pace.ptr + GetMsgSize(w)])
      /\ UNCHANGED <<mem, receiverPace, senderPaceFrom, senderPaceTo, receiverVars, queue>>

CasFrom(s) ==
  LET l == loc[s]
      pace == Pace(l.next, l.pace.ver)
  IN  /\ pc[s] = "casFrom"
      /\ IF senderPaceFrom = l.pace
         THEN senderPaceFrom' = pace /\ Go(s, "checkTo", [Fresh EXCEPT !.pace = pace])
         ELSE Return(s) /\ UNCHANGED senderPaceFrom
      /\ UNCHANGED <<mem, receiverPace, senderPaceTo, receiverVars, queue>>

\* Mutant of CheckTo: publishes its own message only.
CheckToReturns(s) ==
  /\ pc[s] = "checkTo"
  /\ Return(s)
  /\ UNCHANGED <<mem, receiverPace, senderPaceFrom, senderPaceTo, receiverVars, queue>>

CheckTo(s) ==
  /\ pc[s] = "checkTo"
  /\ IF loc[s].pace.ptr = senderPaceTo.ptr THEN Return(s) ELSE Go(s, "checkReady", loc[s])
  /\ UNCHANGED <<mem, receiverPace, senderPaceFrom, senderPaceTo, receiverVars, queue>>

CheckReady(s) ==
  /\ pc[s] = "checkReady"
  /\ \E w \in SizeWords(loc[s].pace.ptr) :
       IF IsReady(w) THEN Go(s, "loadSize", loc[s]) ELSE Return(s)
  /\ UNCHANGED <<mem, receiverPace, senderPaceFrom, senderPaceTo, receiverVars, queue>>

(* ReceiveMsg: a poll, of which the code makes as many as the timeout lets it. *)

LoadFromForReceive ==
  /\ rpc = "idle"
  /\ rfrom' = senderPaceFrom.ptr
  /\ rpc' = "poll"
  /\ UNCHANGED <<mem, receiverPace, senderPaceFrom, senderPaceTo, senderVars, unblanked, queue>>

\* The rest of HasTodoMPSCFixedPipeMsg_; in "have" the client holds the message
\* at receiverPace.
HasTodo ==
  /\ rpc = "poll"
  /\ rfrom' = 0
  /\ \/ /\ receiverPace <= rfrom
        /\ rpc' = IF receiverPace = rfrom THEN "idle" ELSE "have"
        /\ UNCHANGED receiverPace
     \/ /\ receiverPace > rfrom
        /\ \E w \in SizeWords(receiverPace) :
             IF receiverPace + MsgOffset > SizePipe \/ IsBlank(w)
             THEN receiverPace' = 0 /\ rpc' = IF rfrom = 0 THEN "idle" ELSE "have"
             ELSE UNCHANGED receiverPace /\ rpc' = "have"
  /\ UNCHANGED <<mem, senderPaceFrom, senderPaceTo, senderVars, unblanked, queue>>

(* MsgConsumed moves receiver_pace_ first, then blanks what it passed.     *)

MsgConsumed ==
  /\ rpc = "have"
  /\ \E w \in SizeWords(receiverPace) : receiverPace' = receiverPace + GetMsgSize(w)
  /\ unblanked' = receiverPace
  /\ rpc' = "blank"
  /\ queue' = SubSeq(queue, 2, Len(queue))
  /\ UNCHANGED <<mem, senderPaceFrom, senderPaceTo, senderVars, rfrom>>

BlankConsumed ==
  /\ rpc = "blank"
  /\ mem' = SetBlank(mem, unblanked, receiverPace)
  /\ rpc' = "idle" /\ unblanked' = 0
  /\ UNCHANGED <<receiverPace, senderPaceFrom, senderPaceTo, senderVars, rfrom, queue>>

-----------------------------------------------------------------------------
\* The steps of a sender but SendMsg and CasTo.
SenderStep(s) ==
  \/ LoadTo(s) \/ LoadReceiver(s) \/ WriteMsg(s) \/ MarkReady(s)
  \/ LoadFrom(s) \/ Spin(s) \/ StoreFrom(s) \/ LoadSize(s) \/ CasFrom(s)
  \/ CheckTo(s) \/ CheckReady(s)

ReceiverStep == LoadFromForReceive \/ HasTodo \/ MsgConsumed \/ BlankConsumed

OtherSteps ==
  \/ \E s \in Senders : SenderStep(s) \/ \E n \in ContentSizes : SendMsg(s, n)
  \/ ReceiverStep

Next == OtherSteps \/ \E s \in Senders : CasTo(s)

Spec == Init /\ [][Next]_vars

-----------------------------------------------------------------------------
(* A reservation may come too early for a thread that sleeps in the middle *)
(* of its work.  The code does not prevent any of these; the README tells  *)
(* what becomes of the pipe after each.                                    *)

Reserves(s) == pc[s] = "casTo" /\ senderPaceTo = loc[s].pace

\* The bytes are those that MsgConsumed has passed but not blanked yet.
BeforeBlank(s) ==
  /\ rpc = "blank"
  /\ loc[s].msg < receiverPace /\ unblanked < loc[s].msg + MsgOffset + loc[s].n

\* The bytes reach the old place of a message that others have published and
\* the receiver has consumed while its sender slept before LoadFrom.
Overtakes(s) ==
  \E t \in Senders :
    /\ pc[t] = "loadFrom" /\ \A i \in DOMAIN queue : queue[i].from # t
    /\ loc[t].msg \in loc[s].msg..loc[s].next

\* The pace gets a version that a sender still holds from kNumVersions rewinds ago.
HoldsPace == {"loadReceiver", "casTo", "spin", "storeFrom", "loadSize", "casFrom",
              "checkTo", "checkReady"}
ReusesVersion(s) ==
  /\ loc[s].rewind # NotRewound
  /\ \E t \in Senders : pc[t] \in HoldsPace /\ loc[t].pace.ver = NextVersion(loc[s].pace.ver)

TimelyCasTo(s) ==
  CasTo(s) /\ (Reserves(s) => ~BeforeBlank(s) /\ ~Overtakes(s) /\ ~ReusesVersion(s))

TimelyNext == OtherSteps \/ \E s \in Senders : TimelyCasTo(s)

TimelySpec == Init /\ [][TimelyNext]_vars

\* The first of them left in.
BeforeBlankSpec ==
  Init /\ [][\/ OtherSteps
             \/ \E s \in Senders :
                  CasTo(s) /\ (Reserves(s) => ~Overtakes(s) /\ ~ReusesVersion(s))]_vars

\* No thread stops in the middle of an operation, the receiver keeps receiving
\* and its client consumes what it gets; nobody has to send.
Fairness ==
  /\ \A s \in Senders : WF_vars(SenderStep(s)) /\ WF_vars(TimelyCasTo(s))
  /\ WF_vars(ReceiverStep)

FairSpec == TimelySpec /\ Fairness

-----------------------------------------------------------------------------
(* Properties.                                                             *)

Need(r) == MsgOffset + r.size
End(r) == r.pos + Need(r)

\* How many of the reservations sender_pace_from_ has passed: it stands behind
\* the last of them or, when that one was the last before a rewind, at the next.
Published ==
  LET Passed(k) == \/ k > 0 /\ End(queue[k]) = senderPaceFrom.ptr
                   \/ k < Len(queue) /\ queue[k + 1].pos = senderPaceFrom.ptr
  IN  IF \E k \in 0..Len(queue) : Passed(k)
      THEN CHOOSE k \in 0..Len(queue) : Passed(k)
      ELSE 0

\* The message is there in full, with the ready bit, and nobody else's bytes.
Intact(r) ==
  \A c \in r.pos..End(r) - 1 :
    mem[c] = IF c = SizeAt(r.pos) THEN MaskNotWriting + r.size ELSE r.from

Places == Nat
PaceType == [ptr : Places, ver : 0..NumVersions - 1]
LocalType == [n : Nat, try : 0..TimesBusyQuery - 1, pace : PaceType,
              next : Places, msg : Places, rewind : Places \cup {NotRewound}]
Labels == HoldsPace \cup {"idle", "loadTo", "write", "setReady", "loadFrom"}

\* The type of every variable (mpsc_fixed_pipe.hpp:107-119 and the locals).
TypeOK ==
  /\ mem \in [0..SizePipe - 1 -> (0..Blank) \cup Senders]
  /\ receiverPace \in Places
  /\ senderPaceFrom \in PaceType
  /\ senderPaceTo \in PaceType
  /\ pc \in [Senders -> Labels]
  /\ loc \in [Senders -> LocalType]
  /\ rpc \in {"idle", "poll", "have", "blank"}
  /\ rfrom \in Places /\ unblanked \in Places
  /\ queue \in Seq([from : Senders, size : Nat, pos : Places])

\* What ReceiveMsg returns is the oldest message not consumed yet, whole, in
\* place and with nobody else's bytes in it, whatever the senders are doing.
Delivery ==
  rpc = "have" => /\ queue # <<>>
                  /\ Head(queue).pos = receiverPace
                  /\ Intact(Head(queue))

\* sender_pace_from_ never passes a message some sender is still writing, and
\* what it has passed stays whole until it is consumed (JustSendMsg_ publishes
\* other senders' messages on the strength of their ready bits).
PublishedIntact == \A k \in 1..Published : Intact(queue[k])

\* While the next message to publish has its ready bit, some sender is in the
\* middle of JustSendMsg_: of two senders that finish side by side, one always sees the
\* other's ready bit or the other sees its sender_pace_from_ (the MB() at 321), and
\* none returns and leaves a message to nobody.
Publishing == {"loadFrom", "spin", "storeFrom", "loadSize", "casFrom", "checkTo", "checkReady"}
Handoff ==
  LET next == Published + 1
  IN  next <= Len(queue) /\ IsReady(mem[SizeAt(queue[next].pos)])
        => \E s \in Senders : pc[s] \in Publishing

\* ReserveSpaceForSend_ never gives out bytes of a message not consumed yet.
Disjoint ==
  \A i, j \in DOMAIN queue :
    i < j => End(queue[i]) <= queue[j].pos \/ End(queue[j]) <= queue[i].pos

\* Outside the reservations every byte is blank or about to be blanked: a
\* reader that looks there takes it neither for a ready message nor for one
\* being written.
BlankElsewhere ==
  \A c \in DOMAIN mem :
    \/ mem[c] = Blank
    \/ \E i \in DOMAIN queue : queue[i].pos <= c /\ c < End(queue[i])
    \/ rpc = "blank" /\ unblanked <= c /\ c < receiverPace

\* A pipe that has been drained takes a message of any legal size.  (Only of a
\* pipe at least twice as large as its largest message, which Init does not
\* demand.)
EmptyAccepts ==
  (queue = <<>> /\ rpc = "idle") =>
     \A n \in ContentSizes :
       n <= MaxSizeContent =>
         \/ Fits(senderPaceTo.ptr, MsgOffset + n, receiverPace)
         \/ FitsRewound(senderPaceTo.ptr, MsgOffset + n, receiverPace)

\* A size word that its sender is about to flag as ready is in the state
\* "writing": neither ready nor blank (the comment at 84).
WritingLooksWriting ==
  \A s \in Senders :
    pc[s] = "setReady" => \A w \in SizeWords(loc[s].msg) : ~IsNotWriting(w)

\* Every reservation leads to a message in the receiver's hands: no order of
\* steps leaves a finished message unpublished while the senders go on.
Drains == queue # <<>> ~> rpc = "have"

\* Every SendMsg returns: the busy wait for the messages before a rewind ends,
\* and nobody can be kept publishing the messages of others for more than a lap,
\* since that loop stops at the blank bytes before the next rewind.
SendReturns == \A s \in Senders : pc[s] # "idle" ~> pc[s] = "idle"

\* The pipe implements a FIFO channel.
chan ==
  [i \in DOMAIN queue |->
     [from |-> queue[i].from, size |-> queue[i].size,
      ready |-> \A w \in SizeWords(queue[i].pos) : IsReady(w)]]
Fifo == INSTANCE FifoChannel WITH
          Sizes <- {n \in ContentSizes : n <= MaxSizeContent},
          out <- Published, held <- rpc = "have"
ImplementsFifo == Fifo!Spec
=============================================================================
