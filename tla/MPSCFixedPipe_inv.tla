------------------------- MODULE MPSCFixedPipe_inv -------------------------
(***************************************************************************)
(* The inductive invariant of MPSCFixedPipe under TimelySpec.              *)
(***************************************************************************)
EXTENDS MPSCFixedPipe

Reservation == [from : Senders, size : Nat, pos : Places]

-----------------------------------------------------------------------------
(* The reservations lie in the pipe in at most two runs: the first begins  *)
(* at the receiver, at r, and goes up; the second begins at 0 and ends     *)
(* before r.  What lies below r is in the second.                          *)

Comes(a, b, r) ==
  \/ a.pos >= r /\ b.pos < r
  \/ (a.pos >= r <=> b.pos >= r) /\ End(a) <= b.pos

Follows(a, b, r) == b.pos = End(a) \/ (b.pos = 0 /\ a.pos >= r /\ r > 0)

Row(q, r) ==
  /\ \A i \in DOMAIN q : End(q[i]) <= SizePipe /\ (q[i].pos >= r \/ End(q[i]) < r)
  /\ \A i, j \in DOMAIN q : i < j => Comes(q[i], q[j], r)
  /\ \A i \in DOMAIN q : i + 1 \in DOMAIN q => Follows(q[i], q[i + 1], r)
  /\ q # <<>> => q[1].pos = r \/ (q[1].pos = 0 /\ r > 0)

\* sender_pace_to_ stands behind the last reservation, sender_pace_from_
\* behind the k-th, or at the next one.
ToAt(q, r, to) == to = IF q = <<>> THEN r ELSE End(q[Len(q)])
FromAt(q, r, from, k) ==
  \/ k = 0 /\ from = r
  \/ k > 0 /\ from = End(q[k])
  \/ k < Len(q) /\ from = q[k + 1].pos

Layout(q, r, from, to, k) ==
  /\ r <= SizePipe
  /\ Row(q, r) /\ ToAt(q, r, to)
  /\ k \in 0..Len(q) /\ FromAt(q, r, from, k)

\* Published, of a queue and a place.
Behind(q, from) ==
  LET Passed(k) == (k > 0 /\ End(q[k]) = from) \/ (k < Len(q) /\ q[k + 1].pos = from)
  IN  IF \E k \in 0..Len(q) : Passed(k)
      THEN CHOOSE k \in 0..Len(q) : Passed(k)
      ELSE 0

\* The versions differ by one rewind, when only one of the two is below r.
Versions(r, from, to) ==
  to.ver = IF from.ptr >= r /\ to.ptr < r THEN NextVersion(from.ver) ELSE from.ver

Placed ==
  /\ Layout(queue, receiverPace, senderPaceFrom.ptr, senderPaceTo.ptr, Published)
  /\ Versions(receiverPace, senderPaceFrom, senderPaceTo)

-----------------------------------------------------------------------------
ToHolders == {"loadReceiver", "casTo"}
FromHolders == HoldsPace \ ToHolders

\* No sender holds a pace that is still to come.
Holds(s) ==
  /\ pc[s] \in ToHolders =>
       (loc[s].pace.ver = senderPaceTo.ver => loc[s].pace.ptr <= senderPaceTo.ptr)
  /\ pc[s] \in FromHolders =>
       /\ loc[s].pace.ver = senderPaceFrom.ver => loc[s].pace.ptr <= senderPaceFrom.ptr
       /\ senderPaceFrom.ver # senderPaceTo.ver => loc[s].pace.ver # senderPaceTo.ver

\* What a successful compare-and-swap of sender_pace_to_ is about to reserve.
Room(l, r) ==
  /\ l.next = l.msg + MsgOffset + l.n
  /\ IF l.rewind = NotRewound
     THEN /\ l.msg = l.pace.ptr
          /\ l.next <= SizePipe /\ (l.msg < r => l.next < r)
     ELSE l.msg = 0 /\ l.rewind = l.pace.ptr /\ l.pace.ptr >= r /\ l.next < r
Reserving(s) ==
  pc[s] = "casTo" /\ senderPaceTo = loc[s].pace => Room(loc[s], receiverPace)

\* The message that s is sending is the i-th.
Current(s, i) ==
  /\ i \in DOMAIN queue
  /\ queue[i].from = s /\ queue[i].pos = loc[s].msg
  /\ \A j \in DOMAIN queue : j > i => queue[j].from # s

Unwritten(r) == \A c \in r.pos..End(r) - 1 : mem[c] = Blank
Unflagged(r) ==
  \A c \in r.pos..End(r) - 1 : mem[c] = IF c = SizeAt(r.pos) THEN r.size ELSE r.from

Filling == {"write", "setReady"}
Fills(s) ==
  pc[s] \in Filling =>
    \E i \in DOMAIN queue :
      /\ Current(s, i) /\ i > Published /\ queue[i].size = loc[s].n
      /\ IF pc[s] = "write" THEN Unwritten(queue[i]) ELSE Unflagged(queue[i])

Finished(i) ==
  \/ Intact(queue[i])
  \/ i > Published /\ pc[queue[i].from] \in Filling /\ Current(queue[i].from, i)

\* Before LoadFrom the message of s is either there, or gone and its place too.
Loads(s) ==
  pc[s] = "loadFrom" =>
    IF \E i \in DOMAIN queue : queue[i].from = s
    THEN \E i \in DOMAIN queue : Current(s, i) /\ Intact(queue[i])
    ELSE /\ senderPaceFrom.ptr # loc[s].msg
         /\ \A i \in DOMAIN queue : loc[s].msg \notin queue[i].pos..End(queue[i])

\* A sender that is to rewind sender_pace_from_.
Rewinder(s) ==
  \/ pc[s] \in {"write", "setReady", "loadFrom", "spin"} /\ loc[s].rewind # NotRewound
  \/ pc[s] = "storeFrom"
Rewinds(s) ==
  Rewinder(s) =>
    /\ loc[s].msg = 0 /\ senderPaceFrom.ptr # 0
    /\ pc[s] \in {"spin", "storeFrom"} => loc[s].pace.ver = senderPaceFrom.ver
    /\ \E i \in DOMAIN queue :
         /\ Current(s, i) /\ i > Published
         /\ IF pc[s] = "storeFrom" THEN i = Published + 1
            ELSE i > 1 => loc[s].rewind = End(queue[i - 1])
         /\ pc[s] \in {"spin", "storeFrom"} => Intact(queue[i])
Awaits(i) ==
  i > Published /\ queue[i].pos = 0 /\ senderPaceFrom.ptr # 0
    => Rewinder(queue[i].from) /\ Current(queue[i].from, i)

\* A sender that holds sender_pace_from_ as it is.
Publishes(s) ==
  loc[s].pace = senderPaceFrom =>
    /\ pc[s] \in {"loadSize", "casFrom", "checkReady"} => Published < Len(queue)
    /\ pc[s] \in {"loadSize", "casFrom"} =>
         /\ queue[Published + 1].pos = senderPaceFrom.ptr
         /\ Intact(queue[Published + 1])
    /\ pc[s] = "casFrom" => loc[s].next = End(queue[Published + 1])

Carries(s) ==
  \/ pc[s] \in {"loadFrom", "spin", "storeFrom"} /\ Current(s, Published + 1)
  \/ /\ pc[s] \in {"loadSize", "casFrom", "checkTo", "checkReady"}
     /\ loc[s].pace = senderPaceFrom
Handled ==
  Published < Len(queue) /\ Intact(queue[Published + 1]) => \E s \in Senders : Carries(s)

Receives ==
  /\ rpc = "poll" =>
       /\ rfrom < receiverPace => senderPaceFrom.ptr < receiverPace
       /\ rfrom \notin {0, receiverPace} => Published > 0
       /\ rfrom > receiverPace => queue[1].pos = receiverPace
  /\ rpc = "have" => Published > 0 /\ queue[1].pos = receiverPace
  /\ rpc = "blank" =>
       /\ unblanked <= receiverPace
       /\ \A i \in DOMAIN queue : queue[i].pos >= receiverPace \/ End(queue[i]) <= unblanked

Asked(s) ==
  /\ pc[s] \in {"loadTo", "loadReceiver", "casTo"} => loc[s].n \in ContentSizes
  /\ pc[s] \in {"loadTo", "loadReceiver"} => loc[s].msg = 0 /\ loc[s].rewind = NotRewound

Sound(s) ==
  Holds(s) /\ Reserving(s) /\ Fills(s) /\ Loads(s) /\ Rewinds(s) /\ Publishes(s) /\ Asked(s)

PipeInv ==
  /\ TypeOK /\ Placed
  /\ \A s \in Senders : Sound(s)
  /\ \A i \in DOMAIN queue : Finished(i) /\ Awaits(i)
  /\ Handled /\ Receives /\ BlankElsewhere
=============================================================================
