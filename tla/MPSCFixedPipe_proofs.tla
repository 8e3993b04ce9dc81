------------------------ MODULE MPSCFixedPipe_proofs ------------------------
(***************************************************************************)
(* Proofs about MPSCFixedPipe, for every number of senders and every size  *)
(* of pipe, message, version counter and size word: its types under Spec,  *)
(* its safety and the channel that it implements under TimelySpec.         *)
(***************************************************************************)
EXTENDS MPSCFixedPipe_inv, SequenceTheorems, TLAPS

\* What a load of a size word returns is a word.
LEMMA SizeWordsType ==
  ASSUME TypeOK, NEW p \in Nat
  PROVE  SizeWords(p) \subseteq 0..Blank
<1>1. CASE SizeAt(p) >= SizePipe
  BY <1>1, PipeAssumption DEF SizeWords
<1>2. CASE ~(SizeAt(p) >= SizePipe)
  <2>1. SizeAt(p) \in 0..SizePipe - 1
    BY <1>2, PipeAssumption DEF SizeAt
  <2>2. mem[SizeAt(p)] \in (0..Blank) \cup Senders
    BY <2>1 DEF TypeOK
  <2>3. QED
    BY <1>2, <2>2, PipeAssumption DEF SizeWords
<1>3. QED
  BY <1>1, <1>2

\* The ready bit never carries a word beyond 32 bits, and a message is never
\* shorter than its header.
LEMMA WordOps ==
  ASSUME NEW w \in 0..Blank
  PROVE  SetReady(w) \in 0..Blank /\ GetMsgSize(w) \in Nat
BY PipeAssumption DEF Blank, SetReady, GetMsgSize, IsNotWriting, IsBlank

LEMMA VersionType ==
  ASSUME NEW v \in 0..NumVersions - 1
  PROVE  NextVersion(v) \in 0..NumVersions - 1
BY PipeAssumption DEF NextVersion

-----------------------------------------------------------------------------
(* Type correctness.                                                       *)

\* A size that has passed the test of ReserveSpaceForSend_ (292) stays below
\* the ready bit; needed for the size words that WriteMsg stores.
LegalSizes ==
  \A s \in Senders :
    pc[s] \in {"loadReceiver", "casTo", "write"} => loc[s].n <= MaxSizeContent

TypeInv == TypeOK /\ LegalSizes

SendersTyped ==
  pc \in [Senders -> Labels] /\ loc \in [Senders -> LocalType] /\ LegalSizes

LEMMA LocalsType ==
  ASSUME TypeOK, NEW s \in Senders
  PROVE  /\ loc[s] \in LocalType
         /\ loc[s].n \in Nat /\ loc[s].try \in 0..TimesBusyQuery - 1
         /\ loc[s].pace \in PaceType /\ loc[s].pace.ptr \in Nat
         /\ loc[s].pace.ver \in 0..NumVersions - 1
         /\ loc[s].next \in Nat /\ loc[s].msg \in Nat
         /\ loc[s].rewind \in Nat \cup {NotRewound}
BY DEF TypeOK, LocalType, PaceType, Places

LEMMA FreshType == Fresh \in LocalType
BY PipeAssumption DEF Fresh, LocalType, PaceType, Places, Pace, TimesBusyQuery

\* A step of a sender to a known label with locals of the right type.
LEMMA GoType ==
  ASSUME TypeInv, NEW s \in Senders, NEW label \in Labels, NEW l \in LocalType,
         Go(s, label, l),
         label \in {"loadReceiver", "casTo", "write"} => l.n <= MaxSizeContent
  PROVE  SendersTyped'
<1>1. pc' \in [Senders -> Labels] /\ loc' \in [Senders -> LocalType]
  BY DEF Go, TypeInv, TypeOK
<1>2. ASSUME NEW t \in Senders, pc'[t] \in {"loadReceiver", "casTo", "write"}
      PROVE  loc'[t].n <= MaxSizeContent
  BY <1>2 DEF Go, TypeInv, TypeOK, LegalSizes
<1>3. QED
  BY <1>1, <1>2 DEF LegalSizes, SendersTyped

LEMMA ReturnType ==
  ASSUME TypeInv, NEW s \in Senders, Return(s)
  PROVE  SendersTyped'
<1>1. "idle" \in Labels /\ "idle" \notin {"loadReceiver", "casTo", "write"}
  BY DEF Labels
<1>2. QED
  BY <1>1, FreshType, GoType DEF Return

LEMMA FailType ==
  ASSUME TypeInv, NEW s \in Senders, Fail(s)
  PROVE  SendersTyped'
<1> DEFINE l == [Fresh EXCEPT !.n = loc[s].n, !.try = loc[s].try + 1]
<1>1. CASE loc[s].try + 1 < TimesBusyQuery
  <2>1. Go(s, "loadTo", l)
    BY <1>1 DEF Fail
  <2>2. l \in LocalType
    <3>1. loc[s].n \in Nat /\ loc[s].try + 1 \in 0..TimesBusyQuery - 1
      BY <1>1, LocalsType DEF TypeInv, TimesBusyQuery
    <3>2. QED
      BY <3>1, FreshType DEF LocalType
  <2>3. "loadTo" \in Labels /\ "loadTo" \notin {"loadReceiver", "casTo", "write"}
    BY DEF Labels
  <2>4. QED
    BY <2>1, <2>2, <2>3, GoType
<1>2. CASE ~(loc[s].try + 1 < TimesBusyQuery)
  BY <1>2, ReturnType DEF Fail
<1>3. QED
  BY <1>1, <1>2

\* The shared variables and the receiver's keep their types under the steps of
\* a sender that only reads them.
LEMMA ReadOnlyType ==
  ASSUME TypeInv, SendersTyped',
         UNCHANGED <<mem, receiverPace, senderPaceFrom, senderPaceTo, receiverVars, queue>>
  PROVE  TypeInv'
BY DEF TypeInv, TypeOK, SendersTyped, receiverVars

LEMMA SendMsgType ==
  ASSUME TypeInv, NEW s \in Senders, NEW n \in ContentSizes, SendMsg(s, n)
  PROVE  TypeInv'
<1>1. [Fresh EXCEPT !.n = n] \in LocalType
  BY FreshType, PipeAssumption DEF LocalType
<1>2. "loadTo" \in Labels /\ "loadTo" \notin {"loadReceiver", "casTo", "write"}
  BY DEF Labels
<1>3. SendersTyped'
  BY <1>1, <1>2, GoType DEF SendMsg
<1>4. QED
  BY <1>3, ReadOnlyType DEF SendMsg

LEMMA LoadToType ==
  ASSUME TypeInv, NEW s \in Senders, LoadTo(s)
  PROVE  TypeInv'
<1>1. CASE loc[s].n > MaxSizeContent
  BY <1>1, FailType, ReadOnlyType DEF LoadTo
<1>2. CASE ~(loc[s].n > MaxSizeContent)
  <2> DEFINE l == [loc[s] EXCEPT !.pace = senderPaceTo]
  <2>1. l \in LocalType /\ l.n = loc[s].n
    BY LocalsType DEF TypeInv, TypeOK, LocalType
  <2>2. l.n <= MaxSizeContent
    BY <1>2, <2>1, LocalsType, PipeAssumption DEF TypeInv
  <2>3. Go(s, "loadReceiver", l) /\ "loadReceiver" \in Labels
    BY <1>2 DEF LoadTo, Labels, HoldsPace
  <2>4. SendersTyped'
    <3> HIDE DEF l
    <3> QED BY <2>1, <2>2, <2>3, GoType
  <2>5. QED
    BY <2>4, ReadOnlyType DEF LoadTo
<1>3. QED
  BY <1>1, <1>2

LEMMA LoadReceiverType ==
  ASSUME TypeInv, NEW s \in Senders, LoadReceiver(s)
  PROVE  TypeInv'
<1> DEFINE to == loc[s].pace.ptr
           need == MsgOffset + loc[s].n
           end == to + need
           l1 == [loc[s] EXCEPT !.msg = to, !.next = end]
           l2 == [loc[s] EXCEPT !.next = need, !.rewind = to]
<1>1. to \in Nat /\ need \in Nat /\ end \in Nat /\ loc[s].n <= MaxSizeContent
  BY LocalsType, PipeAssumption DEF TypeInv, LegalSizes, LoadReceiver
<1>2. l1 \in LocalType /\ l1.n = loc[s].n /\ l2 \in LocalType /\ l2.n = loc[s].n
  <2> HIDE DEF to, need, end
  <2> QED BY <1>1, LocalsType DEF TypeInv, LocalType, Places
<1>3. "casTo" \in Labels
  BY DEF Labels, HoldsPace
<1>4. Go(s, "casTo", l1) \/ Go(s, "casTo", l2) \/ Fail(s)
  BY DEF LoadReceiver
<1> HIDE DEF l1, l2
<1>5. SendersTyped'
  BY <1>1, <1>2, <1>3, <1>4, GoType, FailType
<1>6. QED
  BY <1>5, ReadOnlyType DEF LoadReceiver

LEMMA CasToType ==
  ASSUME TypeInv, NEW s \in Senders, CasTo(s)
  PROVE  TypeInv'
<1>1. CASE senderPaceTo = loc[s].pace
  <2> DEFINE l == [Fresh EXCEPT !.n = loc[s].n, !.msg = loc[s].msg, !.rewind = loc[s].rewind]
             ver == IF loc[s].rewind = NotRewound THEN loc[s].pace.ver
                    ELSE NextVersion(loc[s].pace.ver)
             r == [from |-> s, size |-> loc[s].n, pos |-> loc[s].msg]
  <2>1. /\ senderPaceTo' = Pace(loc[s].next, ver)
        /\ queue' = Append(queue, r)
        /\ Go(s, "write", l)
    BY <1>1 DEF CasTo
  <2>2. l \in LocalType /\ l.n = loc[s].n
    BY FreshType, LocalsType DEF TypeInv, LocalType, Places
  <2>3. "write" \in Labels /\ loc[s].n <= MaxSizeContent
    BY DEF Labels, TypeInv, LegalSizes, CasTo
  <2>4. ver \in 0..NumVersions - 1
    BY LocalsType, VersionType DEF TypeInv
  <2>5. senderPaceTo' \in PaceType
    BY <2>1, <2>4, LocalsType DEF TypeInv, PaceType, Places, Pace
  <2>6. r \in [from : Senders, size : Nat, pos : Places]
    BY LocalsType DEF TypeInv, Places
  <2>7. queue' \in Seq([from : Senders, size : Nat, pos : Places])
    <3> HIDE DEF r
    <3> QED BY <2>1, <2>6 DEF TypeInv, TypeOK
  <2>8. SendersTyped'
    <3> HIDE DEF l
    <3> QED BY <2>1, <2>2, <2>3, GoType
  <2>9. QED
    BY <2>5, <2>7, <2>8 DEF CasTo, TypeInv, TypeOK, SendersTyped, receiverVars
<1>2. CASE senderPaceTo # loc[s].pace
  BY <1>2, FailType, ReadOnlyType DEF CasTo
<1>3. QED
  BY <1>1, <1>2

LEMMA WriteMsgType ==
  ASSUME TypeInv, NEW s \in Senders, WriteMsg(s)
  PROVE  TypeInv'
<1>1. loc[s].n \in 0..Blank
  BY LocalsType, PipeAssumption DEF TypeInv, LegalSizes, WriteMsg, Blank
<1>2. mem' \in [0..SizePipe - 1 -> (0..Blank) \cup Senders]
  BY <1>1 DEF WriteMsg, TypeInv, TypeOK
<1>3. loc[s] \in LocalType /\ "setReady" \in Labels
      /\ "setReady" \notin {"loadReceiver", "casTo", "write"}
  BY LocalsType DEF TypeInv, Labels
<1>4. SendersTyped'
  BY <1>3, GoType DEF WriteMsg
<1>5. QED
  BY <1>2, <1>4 DEF WriteMsg, TypeInv, TypeOK, SendersTyped, receiverVars

LEMMA MarkReadyType ==
  ASSUME TypeInv, NEW s \in Senders, MarkReady(s)
  PROVE  TypeInv'
<1> DEFINE l == [Fresh EXCEPT !.msg = loc[s].msg, !.rewind = loc[s].rewind]
<1>1. PICK w \in SizeWords(loc[s].msg) : mem' = [mem EXCEPT ![SizeAt(loc[s].msg)] = SetReady(w)]
  BY DEF MarkReady
<1>2. SetReady(w) \in 0..Blank
  BY LocalsType, SizeWordsType, WordOps DEF TypeInv
<1>3. mem' \in [0..SizePipe - 1 -> (0..Blank) \cup Senders]
  BY <1>1, <1>2 DEF TypeInv, TypeOK
<1>4. l \in LocalType
  BY FreshType, LocalsType DEF TypeInv, LocalType, Places
<1>5. Go(s, "loadFrom", l) /\ "loadFrom" \in Labels
      /\ "loadFrom" \notin {"loadReceiver", "casTo", "write"}
  BY DEF MarkReady, Labels
<1>6. SendersTyped'
  <2> HIDE DEF l
  <2> QED BY <1>4, <1>5, GoType
<1>7. QED
  BY <1>3, <1>6 DEF MarkReady, TypeInv, TypeOK, SendersTyped, receiverVars

\* The labels of the publishing loop, where sizes are forgotten.
LEMMA PublishingLabels ==
  \A label \in {"spin", "storeFrom", "loadSize", "casFrom", "checkTo", "checkReady"} :
    label \in Labels /\ label \notin {"loadReceiver", "casTo", "write"}
BY DEF Labels, HoldsPace

LEMMA LoadFromType ==
  ASSUME TypeInv, NEW s \in Senders, LoadFrom(s)
  PROVE  TypeInv'
<1> DEFINE l1 == [Fresh EXCEPT !.pace = senderPaceFrom]
           l2 == [Fresh EXCEPT !.pace = senderPaceFrom, !.rewind = loc[s].rewind]
<1>1. l1 \in LocalType /\ l2 \in LocalType
  BY FreshType, LocalsType DEF TypeInv, TypeOK, LocalType, Places
<1>2. Go(s, "loadSize", l1) \/ Go(s, "spin", l2) \/ Return(s)
  BY DEF LoadFrom
<1> HIDE DEF l1, l2
<1>3. SendersTyped'
  BY <1>1, <1>2, GoType, ReturnType, PublishingLabels
<1>4. QED
  BY <1>3, ReadOnlyType DEF LoadFrom

LEMMA SpinType ==
  ASSUME TypeInv, NEW s \in Senders, Spin(s)
  PROVE  TypeInv'
<1> DEFINE l == [Fresh EXCEPT !.pace = loc[s].pace]
<1>1. l \in LocalType /\ Go(s, "storeFrom", l)
  BY FreshType, LocalsType DEF TypeInv, LocalType, Spin
<1> HIDE DEF l
<1>2. SendersTyped'
  BY <1>1, GoType, PublishingLabels
<1>3. QED
  BY <1>2, ReadOnlyType DEF Spin

LEMMA StoreFromType ==
  ASSUME TypeInv, NEW s \in Senders, StoreFrom(s)
  PROVE  TypeInv'
<1> DEFINE pace == Pace(0, NextVersion(loc[s].pace.ver))
           l == [Fresh EXCEPT !.pace = pace]
<1>1. pace \in PaceType
  BY LocalsType, VersionType DEF TypeInv, PaceType, Places, Pace
<1>2. senderPaceFrom' = pace /\ Go(s, "loadSize", l)
  BY DEF StoreFrom
<1>3. l \in LocalType
  <2> HIDE DEF pace
  <2> QED BY <1>1, FreshType DEF LocalType
<1>4. SendersTyped'
  <2> HIDE DEF l
  <2> QED BY <1>2, <1>3, GoType, PublishingLabels
<1>5. QED
  BY <1>1, <1>2, <1>4 DEF StoreFrom, TypeInv, TypeOK, SendersTyped, receiverVars

LEMMA LoadSizeType ==
  ASSUME TypeInv, NEW s \in Senders, LoadSize(s)
  PROVE  TypeInv'
<1>1. PICK w \in SizeWords(loc[s].pace.ptr) :
        IF IsBlank(w) THEN Return(s)
        ELSE Go(s, "casFrom", [Fresh EXCEPT !.pace = loc[s].pace,
                                            !.next = loc[s].pace.ptr + GetMsgSize(w)])
  BY DEF LoadSize
<1> DEFINE next == loc[s].pace.ptr + GetMsgSize(w)
           l == [Fresh EXCEPT !.pace = loc[s].pace, !.next = next]
<1>2. next \in Nat
  BY LocalsType, SizeWordsType, WordOps DEF TypeInv
<1>3. l \in LocalType
  <2> HIDE DEF next
  <2> QED BY <1>2, FreshType, LocalsType DEF TypeInv, LocalType, Places
<1>4. Return(s) \/ Go(s, "casFrom", l)
  BY <1>1
<1> HIDE DEF l
<1>5. SendersTyped'
  BY <1>3, <1>4, GoType, ReturnType, PublishingLabels
<1>6. QED
  BY <1>5, ReadOnlyType DEF LoadSize

LEMMA CasFromType ==
  ASSUME TypeInv, NEW s \in Senders, CasFrom(s)
  PROVE  TypeInv'
<1> DEFINE pace == Pace(loc[s].next, loc[s].pace.ver)
           l == [Fresh EXCEPT !.pace = pace]
<1>1. pace \in PaceType
  BY LocalsType DEF TypeInv, PaceType, Places, Pace
<1>2. senderPaceFrom' \in PaceType
  BY <1>1 DEF CasFrom, TypeInv, TypeOK
<1>3. Go(s, "checkTo", l) \/ Return(s)
  BY DEF CasFrom
<1>4. l \in LocalType
  <2> HIDE DEF pace
  <2> QED BY <1>1, FreshType DEF LocalType
<1>5. SendersTyped'
  <2> HIDE DEF l
  <2> QED BY <1>3, <1>4, GoType, ReturnType, PublishingLabels
<1>6. QED
  BY <1>2, <1>5 DEF CasFrom, TypeInv, TypeOK, SendersTyped, receiverVars

LEMMA CheckType ==
  ASSUME TypeInv, NEW s \in Senders, CheckTo(s) \/ CheckReady(s)
  PROVE  TypeInv'
<1>1. Return(s) \/ Go(s, "checkReady", loc[s]) \/ Go(s, "loadSize", loc[s])
  BY DEF CheckTo, CheckReady
<1>2. loc[s] \in LocalType
  BY LocalsType DEF TypeInv
<1>3. SendersTyped'
  BY <1>1, <1>2, GoType, ReturnType, PublishingLabels
<1>4. QED
  BY <1>3, ReadOnlyType DEF CheckTo, CheckReady

LEMMA ReceiverType ==
  ASSUME TypeInv, ReceiverStep
  PROVE  TypeInv'
<1>1. CASE LoadFromForReceive
  BY <1>1 DEF LoadFromForReceive, TypeInv, TypeOK, LegalSizes, PaceType, senderVars
<1>2. CASE HasTodo
  BY <1>2 DEF HasTodo, TypeInv, TypeOK, LegalSizes, Places, senderVars
<1>3. CASE MsgConsumed
  <2>1. PICK w \in SizeWords(receiverPace) : receiverPace' = receiverPace + GetMsgSize(w)
    BY <1>3 DEF MsgConsumed
  <2>2. receiverPace' \in Places
    BY <2>1, SizeWordsType, WordOps DEF TypeInv, TypeOK, Places
  <2>3. queue' \in Seq([from : Senders, size : Nat, pos : Places])
    <3>1. queue \in Seq(Reservation)
      BY DEF TypeInv, TypeOK, Reservation
    <3>2. SubSeq(queue, 2, Len(queue)) \in Seq(Reservation)
      BY <3>1, SubSeqProperties
    <3>3. QED
      BY <1>3, <3>2 DEF MsgConsumed, Reservation
  <2>4. QED
    BY <1>3, <2>2, <2>3 DEF MsgConsumed, TypeInv, TypeOK, LegalSizes, senderVars
<1>4. CASE BlankConsumed
  <2>1. Blank \in 0..Blank
    BY PipeAssumption DEF Blank
  <2>2. mem' \in [0..SizePipe - 1 -> (0..Blank) \cup Senders]
    BY <1>4, <2>1 DEF BlankConsumed, SetBlank, TypeInv, TypeOK
  <2>3. QED
    BY <1>4, <2>2 DEF BlankConsumed, TypeInv, TypeOK, LegalSizes, Places, senderVars
<1>5. QED
  BY <1>1, <1>2, <1>3, <1>4 DEF ReceiverStep

LEMMA TypeInvInit == Init => TypeInv
<1> SUFFICES ASSUME Init PROVE TypeInv
  OBVIOUS
<1>1. Blank \in 0..Blank /\ Pace(0, 0) \in PaceType
  BY PipeAssumption DEF Blank, Pace, PaceType, Places
<1>2. <<>> \in Seq([from : Senders, size : Nat, pos : Places])
  OBVIOUS
<1>3. QED
  BY <1>1, <1>2, FreshType DEF Init, TypeInv, TypeOK, LegalSizes, Labels, Places

LEMMA TypeInvStep == TypeInv /\ [Next]_vars => TypeInv'
<1> SUFFICES ASSUME TypeInv, [Next]_vars PROVE TypeInv'
  OBVIOUS
<1>1. ASSUME NEW s \in Senders, SenderStep(s) PROVE TypeInv'
  BY <1>1, LoadToType, LoadReceiverType, WriteMsgType, MarkReadyType, LoadFromType,
     SpinType, StoreFromType, LoadSizeType, CasFromType, CheckType
  DEF SenderStep
<1>2. CASE UNCHANGED vars
  BY <1>2 DEF vars, senderVars, receiverVars, TypeInv, TypeOK, LegalSizes
<1>3. QED
  BY <1>1, <1>2, SendMsgType, CasToType, ReceiverType DEF Next, OtherSteps

\* Every word of the pipe stays a 32-bit word, every pace a place with a version
\* in range, and every local of JustSendMsg_ what its declaration says, also
\* when a thread meets memory it should not (the untimely steps included).
THEOREM TypeCorrect == Spec => []TypeOK
<1>1. TypeInv => TypeOK
  BY DEF TypeInv
<1>2. QED
  BY <1>1, TypeInvInit, TypeInvStep, PTL DEF Spec

-----------------------------------------------------------------------------
(* The safety of the pipe under TimelySpec.                                *)

(* Lemmas about the layout of the pipe; no variable occurs in them.        *)

\* A reservation holds its header, and its size word lies in it.
LEMMA Extent ==
  ASSUME NEW a \in Reservation
  PROVE  /\ a.from \in Senders /\ a.size \in Nat /\ a.pos \in Nat
         /\ End(a) \in Nat /\ End(a) >= a.pos + 2
         /\ SizeAt(a.pos) \in Nat /\ SizeAt(a.pos) > a.pos /\ SizeAt(a.pos) < End(a)
BY PipeAssumption DEF Reservation, Places, End, Need, SizeAt

LEMMA Extents ==
  ASSUME NEW q \in Seq(Reservation), NEW i \in DOMAIN q
  PROVE  /\ i \in 1..Len(q) /\ q[i] \in Reservation
         /\ q[i].from \in Senders /\ q[i].size \in Nat /\ q[i].pos \in Nat
         /\ End(q[i]) \in Nat /\ End(q[i]) >= q[i].pos + 2
         /\ SizeAt(q[i].pos) \in Nat /\ SizeAt(q[i].pos) > q[i].pos
         /\ SizeAt(q[i].pos) < End(q[i])
<1>1. i \in 1..Len(q) /\ q[i] \in Reservation
  OBVIOUS
<1>2. QED
  BY <1>1, Extent

\* Two reservations of a row have no cell and no place in common, and only
\* neighbours touch.
LEMMA Apart ==
  ASSUME NEW q \in Seq(Reservation), NEW r \in Nat, Row(q, r),
         NEW i \in DOMAIN q, NEW j \in DOMAIN q, i < j
  PROVE  /\ End(q[i]) <= q[j].pos \/ End(q[j]) <= q[i].pos
         /\ q[i].pos # q[j].pos /\ End(q[i]) # End(q[j]) /\ q[i].pos # End(q[j])
         /\ End(q[i]) = q[j].pos => j = i + 1
<1>1. Comes(q[i], q[j], r)
  BY DEF Row
<1>2. /\ q[i].pos >= r \/ End(q[i]) < r
      /\ q[j].pos >= r \/ End(q[j]) < r
  BY DEF Row
<1>3. /\ End(q[i]) <= q[j].pos \/ End(q[j]) <= q[i].pos
      /\ q[i].pos # q[j].pos /\ End(q[i]) # End(q[j]) /\ q[i].pos # End(q[j])
  <2>1. /\ q[i].pos \in Nat /\ End(q[i]) \in Nat /\ End(q[i]) >= q[i].pos + 2
        /\ q[j].pos \in Nat /\ End(q[j]) \in Nat /\ End(q[j]) >= q[j].pos + 2
    BY Extents
  <2>2. QED
    BY <1>1, <1>2, <2>1 DEF Comes
<1>4. ASSUME End(q[i]) = q[j].pos, j # i + 1
      PROVE  FALSE
  <2>1. i + 1 \in DOMAIN q /\ i + 1 < j
    BY <1>4, Extents
  <2>2. Comes(q[i + 1], q[j], r) /\ Follows(q[i], q[i + 1], r)
    BY <2>1 DEF Row
  <2>3. /\ q[i].pos \in Nat /\ End(q[i]) \in Nat /\ End(q[i]) >= q[i].pos + 2
        /\ q[j].pos \in Nat /\ End(q[j]) \in Nat /\ End(q[j]) >= q[j].pos + 2
        /\ q[i + 1].pos \in Nat /\ End(q[i + 1]) \in Nat
        /\ End(q[i + 1]) >= q[i + 1].pos + 2
    BY <2>1, Extents
  <2>4. Comes(q[i + 1], q[j], r)
    BY <2>2
  <2>5. Follows(q[i], q[i + 1], r)
    BY <2>2
  <2>6. QED
    BY <1>1, <1>4, <2>3, <2>4, <2>5 DEF Comes, Follows
<1>5. QED
  BY <1>3, <1>4

LEMMA ApartBoth ==
  ASSUME NEW q \in Seq(Reservation), NEW r \in Nat, Row(q, r),
         NEW i \in DOMAIN q, NEW j \in DOMAIN q, i # j
  PROVE  /\ End(q[i]) <= q[j].pos \/ End(q[j]) <= q[i].pos
         /\ q[i].pos # q[j].pos /\ End(q[i]) # End(q[j])
         /\ End(q[i]) = q[j].pos => j = i + 1
<1>1. CASE i < j
  BY <1>1, Apart
<1>2. CASE j < i
  BY <1>2, Apart, Extents
<1>3. QED
  BY <1>1, <1>2, Extents

\* Only the first reservation can be at the receiver; none ends there.
LEMMA AtReceiver ==
  ASSUME NEW q \in Seq(Reservation), NEW r \in Nat, Row(q, r), NEW i \in DOMAIN q
  PROVE  /\ End(q[i]) # r
         /\ q[i].pos = r => i = 1
         /\ q[1].pos # r => q[i].pos < r /\ End(q[i]) < r /\ q[1].pos = 0
<1>1. 1 \in DOMAIN q
  BY Extents
<1>2. /\ q[i].pos >= r \/ End(q[i]) < r
      /\ q[1].pos = r \/ (q[1].pos = 0 /\ r > 0)
  BY DEF Row
<1>3. End(q[i]) # r
  BY <1>2, Extents
<1>4. ASSUME q[1].pos # r PROVE q[i].pos < r /\ End(q[i]) < r /\ q[1].pos = 0
  <2>1. CASE i = 1
    BY <1>2, <1>4, <2>1, Extents
  <2>2. CASE i # 1
    <3>1. Comes(q[1], q[i], r)
      BY <1>1, <2>2, Extents DEF Row
    <3>2. QED
      BY <1>1, <1>2, <1>4, <3>1, Extents DEF Comes
  <2>3. QED
    BY <2>1, <2>2
<1>5. ASSUME q[i].pos = r, i # 1 PROVE FALSE
  <2>1. q[1].pos # q[i].pos
    BY <1>1, <1>5, ApartBoth
  <2>2. QED
    BY <1>4, <1>5, <2>1, Extents
<1>6. QED
  BY <1>3, <1>4, <1>5

\* sender_pace_from_ has one number of reservations behind it.
LEMMA OnePlace ==
  ASSUME NEW q \in Seq(Reservation), NEW r \in Nat, NEW f \in Nat, Row(q, r),
         NEW j \in 0..Len(q), NEW k \in 0..Len(q), FromAt(q, r, f, j), FromAt(q, r, f, k)
  PROVE  j = k
<1>1. \A i \in 1..Len(q) : i \in DOMAIN q
  OBVIOUS
<1>2. ASSUME NEW a \in 0..Len(q), NEW b \in 0..Len(q), a < b,
             FromAt(q, r, f, a), FromAt(q, r, f, b)
      PROVE  FALSE
  <2>1. b \in DOMAIN q
    BY <1>2
  <2>2. CASE f = End(q[b])
    <3>1. f # r
      BY <2>1, <2>2, AtReceiver
    <3>2. ASSUME a > 0 PROVE f # End(q[a])
      BY <1>2, <2>1, <2>2, <3>2, Apart
    <3>3. f # q[a + 1].pos
      <4>1. CASE a + 1 = b
        BY <2>1, <2>2, <4>1, Extents
      <4>2. CASE a + 1 < b
        <5>1. a + 1 \in DOMAIN q
          BY <1>2, <4>2
        <5>2. QED
          BY <2>1, <2>2, <4>2, <5>1, Apart
      <4>3. QED
        BY <1>2, <4>1, <4>2
    <3>4. QED
      BY <1>2, <3>1, <3>2, <3>3 DEF FromAt
  <2>3. CASE b < Len(q) /\ f = q[b + 1].pos
    <3>1. b + 1 \in DOMAIN q
      BY <1>2, <2>3
    <3>2. f # r
      BY <1>2, <2>3, <3>1, AtReceiver
    <3>3. ASSUME a > 0 PROVE f # End(q[a])
      <4>1. a \in DOMAIN q /\ a < b + 1 /\ b + 1 # a + 1
        BY <1>2, <3>3
      <4>2. QED
        BY <2>3, <3>1, <4>1, Apart
    <3>4. f # q[a + 1].pos
      <4>1. a + 1 \in DOMAIN q /\ a + 1 < b + 1
        BY <1>2
      <4>2. QED
        BY <2>3, <3>1, <4>1, Apart
    <3>5. QED
      BY <1>2, <3>2, <3>3, <3>4 DEF FromAt
  <2>4. QED
    BY <1>2, <2>2, <2>3 DEF FromAt
<1>3. ~(j < k) /\ ~(k < j)
  BY <1>2
<1>4. QED
  BY <1>3

LEMMA BehindIs ==
  ASSUME NEW q \in Seq(Reservation), NEW r \in Nat, NEW f \in Nat, NEW t \in Nat,
         NEW k \in 0..Len(q), Layout(q, r, f, t, k)
  PROVE  Behind(q, f) = k
<1> DEFINE Passed(j) == (j > 0 /\ End(q[j]) = f) \/ (j < Len(q) /\ q[j + 1].pos = f)
<1>1. \A j \in 0..Len(q) : Passed(j) => j = k
  BY OnePlace DEF Layout, FromAt
<1>2. Behind(q, f) = IF \E j \in 0..Len(q) : Passed(j)
                     THEN CHOOSE j \in 0..Len(q) : Passed(j) ELSE 0
  BY DEF Behind
<1>3. ~Passed(k) => k = 0
  BY DEF Layout, FromAt
<1> HIDE DEF Passed
<1>4. CASE Passed(k)
  BY <1>1, <1>2, <1>4
<1>5. CASE ~Passed(k)
  BY <1>1, <1>2, <1>3, <1>5
<1>6. QED
  BY <1>4, <1>5

\* sender_pace_to_ is not passed by anything.
LEMMA UpTo ==
  ASSUME NEW q \in Seq(Reservation), NEW r \in Nat, NEW t \in Nat,
         Row(q, r), ToAt(q, r, t), NEW i \in DOMAIN q
  PROVE  /\ t >= r => q[i].pos >= r
         /\ q[i].pos < r => End(q[i]) <= t
         /\ t >= r => End(q[i]) <= t
         /\ q[i].pos # t
         /\ i # Len(q) => End(q[i]) # t
         /\ t # r
<1>1. Len(q) \in DOMAIN q /\ t = End(q[Len(q)])
  BY Extents DEF ToAt
<1>2. CASE i = Len(q)
  <2>1. q[i].pos >= r \/ End(q[i]) < r
    BY DEF Row
  <2>2. QED
    BY <1>1, <1>2, <2>1, Extents
<1>3. CASE i # Len(q)
  <2>1. i < Len(q)
    BY <1>3, Extents
  <2>2. /\ Comes(q[i], q[Len(q)], r)
        /\ q[i].pos >= r \/ End(q[i]) < r
        /\ q[Len(q)].pos >= r \/ End(q[Len(q)]) < r
    BY <1>1, <2>1 DEF Row
  <2>3. q[i].pos # t /\ End(q[i]) # t
    BY <1>1, <2>1, Apart
  <2>4. QED
    BY <1>1, <2>2, <2>3, Extents DEF Comes
<1>4. QED
  BY <1>2, <1>3

\* Where sender_pace_from_ stands next to the receiver and to sender_pace_to_.
LEMMA FromUpTo ==
  ASSUME NEW q \in Seq(Reservation), NEW r \in Nat, NEW f \in Nat, NEW t \in Nat,
         NEW k \in 0..Len(q), Layout(q, r, f, t, k)
  PROVE  /\ f < r => t < r /\ f <= t
         /\ t >= r => f >= r /\ f <= t
         /\ k = Len(q) <=> f = t
<1>1. Row(q, r) /\ ToAt(q, r, t) /\ FromAt(q, r, f, k)
  BY DEF Layout
<1>2. CASE k < Len(q) /\ f = q[k + 1].pos
  <2>1. k + 1 \in DOMAIN q
    BY <1>2
  <2>2. /\ t >= r => f >= r
        /\ f < r => End(q[k + 1]) <= t
        /\ t >= r => End(q[k + 1]) <= t
        /\ f # t
    BY <1>1, <1>2, <2>1, UpTo
  <2>3. QED
    BY <1>2, <2>1, <2>2, Extents
<1>3. CASE k > 0 /\ f = End(q[k])
  <2>1. k \in DOMAIN q
    BY <1>3
  <2>2. /\ t >= r => q[k].pos >= r
        /\ q[k].pos < r => End(q[k]) <= t
        /\ t >= r => End(q[k]) <= t
        /\ k # Len(q) => End(q[k]) # t
        /\ q[k].pos >= r \/ End(q[k]) < r
    BY <1>1, <2>1, UpTo DEF Row
  <2>3. k = Len(q) => f = t
    BY <1>1, <1>3, <2>1 DEF ToAt
  <2>4. QED
    BY <1>3, <2>1, <2>2, <2>3, Extents
<1>4. CASE k = 0 /\ f = r
  <2>1. Len(q) > 0 => 1 \in DOMAIN q
    OBVIOUS
  <2>2. Len(q) > 0 => t # r
    BY <1>1, <2>1, UpTo
  <2>3. Len(q) = 0 => t = r
    BY <1>1 DEF ToAt
  <2>4. QED
    BY <1>4, <2>2, <2>3
<1>5. QED
  BY <1>1, <1>2, <1>3, <1>4 DEF FromAt

\* It stands at the next reservation, or that one is at 0 and everything else
\* is before sender_pace_from_.
LEMMA NextPlace ==
  ASSUME NEW q \in Seq(Reservation), NEW r \in Nat, NEW f \in Nat, NEW t \in Nat,
         NEW k \in 0..Len(q), Layout(q, r, f, t, k), k < Len(q), f # q[k + 1].pos
  PROVE  /\ q[k + 1].pos = 0 /\ r > 0 /\ f >= r /\ t < r
         /\ \A i \in DOMAIN q : End(q[i]) <= f
<1>1. Row(q, r) /\ ToAt(q, r, t) /\ FromAt(q, r, f, k) /\ k + 1 \in DOMAIN q
  BY DEF Layout
<1>2. ASSUME q[k + 1].pos = 0, r > 0, NEW i \in DOMAIN q, i > k
      PROVE  End(q[i]) < r /\ q[i].pos < r
  <2>1. q[i].pos < r
    <3>1. CASE i = k + 1
      BY <1>2, <3>1
    <3>2. CASE i > k + 1
      <4>1. Comes(q[k + 1], q[i], r)
        BY <1>1, <3>2 DEF Row
      <4>2. QED
        BY <1>1, <1>2, <4>1, Extents DEF Comes
    <3>3. QED
      BY <1>2, <3>1, <3>2, Extents
  <2>2. QED
    BY <1>1, <2>1, Extents DEF Row
<1>3. CASE k = 0 /\ f = r
  <2>1. q[1].pos = 0 /\ r > 0
    BY <1>1, <1>3 DEF Row
  <2>2. \A i \in DOMAIN q : i > k
    BY <1>3, Extents
  <2>3. \A i \in DOMAIN q : End(q[i]) < r
    BY <1>2, <1>3, <2>1, <2>2
  <2>4. \A i \in DOMAIN q : End(q[i]) <= f
    BY <1>3, <2>3, Extents
  <2>5. t < r
    BY <1>1, <2>3 DEF ToAt
  <2>6. QED
    BY <1>3, <2>1, <2>4, <2>5
<1>4. CASE k > 0 /\ f = End(q[k])
  <2>1. k \in DOMAIN q /\ Follows(q[k], q[k + 1], r)
    BY <1>1, <1>4 DEF Row
  <2>2. q[k + 1].pos = 0 /\ r > 0 /\ q[k].pos >= r /\ f >= r
    BY <1>4, <2>1, Extents DEF Follows
  <2>3. ASSUME NEW i \in DOMAIN q PROVE End(q[i]) <= f
    <3>1. CASE i > k
      BY <1>2, <2>2, <3>1, <1>4, <2>1, Extents
    <3>2. CASE i < k
      <4>1. Comes(q[i], q[k], r)
        BY <1>1, <2>1, <3>2 DEF Row
      <4>2. QED
        BY <1>4, <2>1, <2>2, <4>1, Extents DEF Comes
    <3>3. QED
      BY <1>4, <2>1, <3>1, <3>2, Extents
  <2>4. t < r
    <3>1. Len(q) \in DOMAIN q /\ Len(q) > k
      OBVIOUS
    <3>2. End(q[Len(q)]) < r
      BY <1>2, <2>2, <3>1
    <3>3. QED
      BY <1>1, <3>1, <3>2 DEF ToAt
  <2>5. QED
    BY <2>2, <2>3, <2>4
<1>5. QED
  BY <1>1, <1>3, <1>4 DEF FromAt

\* A reservation at 0 that is not passed yet: sender_pace_from_ is at 0 too, or
\* a lap behind.
LEMMA Unrewound ==
  ASSUME NEW q \in Seq(Reservation), NEW r \in Nat, NEW f \in Nat, NEW t \in Nat,
         NEW k \in 0..Len(q), Layout(q, r, f, t, k),
         NEW i \in DOMAIN q, i > k, q[i].pos = 0, f # 0
  PROVE  r > 0 /\ f >= r /\ t < r
<1>1. /\ Row(q, r) /\ ToAt(q, r, t) /\ FromAt(q, r, f, k)
      /\ k < Len(q) /\ k + 1 \in DOMAIN q
  BY Extents DEF Layout
<1>2. CASE f # q[k + 1].pos
  BY <1>2, <1>1, NextPlace
<1>3. CASE f = q[k + 1].pos
  <2>1. i > k + 1
    BY <1>3, Extents
  <2>2. Comes(q[k + 1], q[i], r)
    BY <1>1, <2>1 DEF Row
  <2>3. f >= r /\ r > 0
    BY <1>1, <1>3, <2>2, Extents DEF Comes
  <2>4. t < r
    BY <1>1, <2>3, UpTo
  <2>5. QED
    BY <2>3, <2>4
<1>4. QED
  BY <1>2, <1>3

-----------------------------------------------------------------------------
(* What the steps that move a place do to the layout.                      *)

LEMMA AppendFacts ==
  ASSUME NEW S, NEW q \in Seq(S), NEW a \in S
  PROVE  /\ Append(q, a) \in Seq(S) /\ Len(Append(q, a)) = Len(q) + 1
         /\ DOMAIN Append(q, a) = 1..Len(q) + 1
         /\ \A i \in DOMAIN q : i \in DOMAIN Append(q, a) /\ Append(q, a)[i] = q[i]
         /\ Append(q, a)[Len(q) + 1] = a /\ Append(q, a) # <<>>
         /\ \A i \in DOMAIN Append(q, a) : i \in DOMAIN q \/ i = Len(q) + 1
OBVIOUS

\* CasTo.
LEMMA LayoutAppend ==
  ASSUME NEW q \in Seq(Reservation), NEW r \in Nat, NEW f \in Nat, NEW t \in Nat,
         NEW k \in 0..Len(q), Layout(q, r, f, t, k),
         NEW a \in Reservation, End(a) <= SizePipe,
         \/ a.pos = t /\ (t < r => End(a) < r)
         \/ a.pos = 0 /\ t >= r /\ End(a) < r
  PROVE  Layout(Append(q, a), r, f, End(a), k)
<1> DEFINE qq == Append(q, a)
           n == Len(q) + 1
<1>1. /\ qq \in Seq(Reservation) /\ Len(qq) = n /\ DOMAIN qq = 1..n
      /\ \A i \in DOMAIN q : i \in DOMAIN qq /\ qq[i] = q[i]
      /\ qq[n] = a /\ qq # <<>>
      /\ \A i \in DOMAIN qq : i \in DOMAIN q \/ i = n
  BY AppendFacts
<1>2. Row(q, r) /\ ToAt(q, r, t) /\ FromAt(q, r, f, k) /\ r <= SizePipe
  BY DEF Layout
<1>3. a.pos \in Nat /\ End(a) \in Nat /\ End(a) >= a.pos + 2
  BY Extent
<1> HIDE DEF qq, n
<1>4. a.pos >= r \/ End(a) < r
  BY <1>3
<1>5. \A i \in DOMAIN qq : End(qq[i]) <= SizePipe /\ (qq[i].pos >= r \/ End(qq[i]) < r)
  BY <1>1, <1>2, <1>4 DEF Row
<1>6. ASSUME NEW i \in DOMAIN q PROVE Comes(q[i], a, r)
  <2>1. /\ t >= r => q[i].pos >= r
        /\ q[i].pos < r => End(q[i]) <= t
        /\ t >= r => End(q[i]) <= t
    BY <1>2, UpTo
  <2>2. q[i].pos \in Nat /\ End(q[i]) \in Nat
    BY Extents
  <2>3. QED
    BY <1>3, <2>1, <2>2 DEF Comes
<1>7. ASSUME NEW i \in DOMAIN qq, NEW j \in DOMAIN qq, i < j
      PROVE  Comes(qq[i], qq[j], r)
  <2>1. i \in DOMAIN q
    BY <1>1, <1>7 DEF n
  <2>2. CASE j \in DOMAIN q
    BY <1>1, <1>2, <1>7, <2>1, <2>2 DEF Row
  <2>3. CASE j = n
    BY <1>1, <1>6, <2>1, <2>3
  <2>4. QED
    BY <1>1, <2>2, <2>3
<1>8. ASSUME NEW i \in DOMAIN qq, i + 1 \in DOMAIN qq
      PROVE  Follows(qq[i], qq[i + 1], r)
  <2>1. i \in DOMAIN q
    BY <1>1, <1>8 DEF n
  <2>2. CASE i + 1 \in DOMAIN q
    BY <1>1, <1>2, <1>8, <2>1, <2>2 DEF Row
  <2>3. CASE i + 1 = n
    <3>1. i = Len(q) /\ t = End(q[i])
      BY <1>2, <2>1, <2>3 DEF ToAt, n
    <3>2. t >= r => q[i].pos >= r
      BY <1>2, <2>1, UpTo
    <3>3. qq[i] = q[i] /\ qq[i + 1] = a
      BY <1>1, <2>1, <2>3
    <3>4. QED
      BY <1>3, <3>1, <3>2, <3>3 DEF Follows
  <2>4. QED
    BY <1>1, <1>8, <2>2, <2>3
<1>9. qq[1].pos = r \/ (qq[1].pos = 0 /\ r > 0)
  <2>1. CASE q = <<>>
    <3>1. n = 1 /\ t = r
      BY <1>2, <2>1 DEF ToAt, n
    <3>2. QED
      BY <1>1, <1>3, <3>1
  <2>2. CASE q # <<>>
    <3>1. 1 \in DOMAIN q /\ (q[1].pos = r \/ (q[1].pos = 0 /\ r > 0))
      BY <1>2, <2>2 DEF Row
    <3>2. QED
      BY <1>1, <3>1
  <2>3. QED
    BY <2>1, <2>2
<1>10. Row(qq, r)
  BY <1>5, <1>7, <1>8, <1>9 DEF Row
<1>11. ToAt(qq, r, End(a))
  BY <1>1 DEF ToAt
<1>12. k \in 0..Len(qq) /\ FromAt(qq, r, f, k)
  <2>1. CASE k = 0 /\ f = r
    BY <1>1, <2>1 DEF FromAt, n
  <2>2. CASE k > 0 /\ f = End(q[k])
    <3>1. k \in DOMAIN q
      BY <2>2
    <3>2. QED
      BY <1>1, <2>2, <3>1 DEF FromAt, n
  <2>3. CASE k < Len(q) /\ f = q[k + 1].pos
    <3>1. k + 1 \in DOMAIN q
      BY <2>3
    <3>2. QED
      BY <1>1, <2>3, <3>1 DEF FromAt, n
  <2>4. QED
    BY <1>2, <2>1, <2>2, <2>3 DEF FromAt
<1>13. QED
  BY <1>2, <1>10, <1>11, <1>12 DEF Layout, qq

LEMMA TailFacts ==
  ASSUME NEW S, NEW q \in Seq(S), q # <<>>
  PROVE  /\ SubSeq(q, 2, Len(q)) = Tail(q)
         /\ Tail(q) \in Seq(S) /\ Len(Tail(q)) = Len(q) - 1
         /\ DOMAIN Tail(q) = 1..Len(q) - 1
         /\ \A i \in DOMAIN Tail(q) : i + 1 \in DOMAIN q /\ Tail(q)[i] = q[i + 1]
         /\ \A i \in DOMAIN q : i = 1 \/ (i - 1 \in DOMAIN Tail(q) /\ Tail(q)[i - 1] = q[i])
<1>1. /\ Tail(q) \in Seq(S) /\ Len(Tail(q)) = Len(q) - 1
      /\ \A i \in 1..Len(q) - 1 : Tail(q)[i] = q[i + 1]
  OBVIOUS
<1>2. SubSeq(q, 2, Len(q)) = Tail(q)
  BY TailIsSubSeq
<1>3. QED
  BY <1>1, <1>2

\* MsgConsumed.
LEMMA LayoutTail ==
  ASSUME NEW q \in Seq(Reservation), NEW r \in Nat, NEW f \in Nat, NEW t \in Nat,
         NEW k \in 0..Len(q), Layout(q, r, f, t, k), k > 0, q[1].pos = r
  PROVE  /\ Layout(Tail(q), End(q[1]), f, t, k - 1)
         /\ f < r \/ f >= End(q[1])
         /\ t < r \/ t >= End(q[1])
         /\ \A i \in DOMAIN q : i = 1 \/ End(q[i]) < r \/ q[i].pos >= End(q[1])
<1> DEFINE e == End(q[1])
           qq == Tail(q)
<1>1. /\ Row(q, r) /\ ToAt(q, r, t) /\ FromAt(q, r, f, k)
      /\ 1 \in DOMAIN q /\ k \in DOMAIN q
  BY DEF Layout
<1>2. e \in Nat /\ e >= r + 2 /\ e <= SizePipe
  BY <1>1, Extents DEF Row
<1>3. ASSUME NEW i \in DOMAIN q, i # 1
      PROVE  End(q[i]) < r \/ q[i].pos >= e
  <2>1. Comes(q[1], q[i], r) /\ (q[i].pos >= r \/ End(q[i]) < r)
    BY <1>1, <1>3, Extents DEF Row
  <2>2. QED
    BY <1>1, <2>1, Extents DEF Comes
<1>4. /\ qq \in Seq(Reservation) /\ Len(qq) = Len(q) - 1
      /\ DOMAIN qq = 1..Len(q) - 1
      /\ \A i \in DOMAIN qq : i + 1 \in DOMAIN q /\ qq[i] = q[i + 1]
  BY <1>1, TailFacts
<1>5. f < r \/ f >= e
  <2>1. CASE f = End(q[k])
    <3>1. k = 1 \/ End(q[k]) < r \/ q[k].pos >= e
      BY <1>1, <1>3
    <3>2. QED
      BY <1>1, <1>2, <2>1, <3>1, Extents
  <2>2. CASE k < Len(q) /\ f = q[k + 1].pos
    <3>1. k + 1 \in DOMAIN q /\ k + 1 # 1
      BY <2>2
    <3>2. End(q[k + 1]) < r \/ q[k + 1].pos >= e
      BY <1>3, <3>1
    <3>3. End(q[k + 1]) \in Nat /\ f \in Nat /\ End(q[k + 1]) > f
      BY <2>2, <3>1, Extents
    <3>4. QED
      BY <2>2, <3>2, <3>3
  <2>3. QED
    BY <1>1, <2>1, <2>2 DEF FromAt
<1>6. t < r \/ t >= e
  <2>1. Len(q) \in DOMAIN q /\ t = End(q[Len(q)])
    BY <1>1 DEF ToAt
  <2>2. Len(q) = 1 \/ End(q[Len(q)]) < r \/ q[Len(q)].pos >= e
    BY <1>3, <2>1
  <2>3. q[Len(q)].pos \in Nat /\ t \in Nat /\ t > q[Len(q)].pos
    BY <2>1, Extents
  <2>4. QED
    BY <1>2, <2>1, <2>2, <2>3
<1> HIDE DEF e, qq
<1>7. ASSUME NEW i \in DOMAIN qq
      PROVE  /\ End(qq[i]) <= SizePipe /\ (qq[i].pos >= e \/ End(qq[i]) < e)
             /\ qq[i].pos >= r <=> qq[i].pos >= e
             /\ qq[i].pos \in Nat /\ End(qq[i]) \in Nat
  <2>1. i + 1 \in DOMAIN q /\ i + 1 # 1 /\ qq[i] = q[i + 1]
    BY <1>4
  <2>2. End(q[i + 1]) < r \/ q[i + 1].pos >= e
    BY <1>3, <2>1
  <2>3. End(q[i + 1]) <= SizePipe
    BY <1>1, <2>1 DEF Row
  <2>4. QED
    BY <1>2, <2>1, <2>2, <2>3, Extents
<1>8. ASSUME NEW i \in DOMAIN qq, NEW j \in DOMAIN qq, i < j
      PROVE  Comes(qq[i], qq[j], e)
  <2>1. Comes(qq[i], qq[j], r)
    BY <1>1, <1>4, <1>8 DEF Row
  <2>2. QED
    BY <1>2, <1>7, <2>1 DEF Comes
<1>9. ASSUME NEW i \in DOMAIN qq, i + 1 \in DOMAIN qq
      PROVE  Follows(qq[i], qq[i + 1], e)
  <2>1. Follows(qq[i], qq[i + 1], r)
    BY <1>1, <1>4, <1>9 DEF Row
  <2>2. QED
    BY <1>2, <1>7, <2>1 DEF Follows
<1>10. ASSUME qq # <<>>
       PROVE  qq[1].pos = e \/ (qq[1].pos = 0 /\ e > 0)
  <2>1. 1 \in DOMAIN qq /\ qq[1] = q[1 + 1] /\ 1 + 1 \in DOMAIN q
    BY <1>4, <1>10
  <2>2. Follows(q[1], q[1 + 1], r)
    BY <1>1, <2>1 DEF Row
  <2>3. QED
    BY <1>2, <2>1, <2>2 DEF Follows, e
<1>11. Row(qq, e)
  BY <1>7, <1>8, <1>9, <1>10 DEF Row
<1>12. ToAt(qq, e, t)
  <2>1. CASE Len(q) = 1
    BY <1>1, <1>4, <2>1 DEF ToAt, e
  <2>2. CASE Len(q) # 1
    <3>1. Len(qq) \in DOMAIN qq /\ Len(qq) + 1 = Len(q) /\ qq # <<>> /\ q # <<>>
      BY <1>1, <1>4, <2>2, Extents
    <3>2. qq[Len(qq)] = q[Len(q)]
      BY <1>4, <3>1
    <3>3. QED
      BY <1>1, <3>1, <3>2 DEF ToAt
  <2>3. QED
    BY <2>1, <2>2
<1>13. k - 1 \in 0..Len(qq) /\ FromAt(qq, e, f, k - 1)
  <2>1. CASE f = End(q[k]) /\ k = 1
    BY <1>4, <1>1, <2>1 DEF FromAt, e
  <2>2. CASE f = End(q[k]) /\ k # 1
    <3>1. k - 1 \in DOMAIN qq /\ qq[k - 1] = q[k]
      BY <1>1, <1>4, <2>2, Extents
    <3>2. QED
      BY <1>4, <2>2, <3>1 DEF FromAt
  <2>3. CASE k < Len(q) /\ f = q[k + 1].pos
    <3>1. k \in DOMAIN qq /\ qq[k] = q[k + 1]
      BY <1>1, <1>4, <2>3
    <3>2. QED
      BY <1>4, <2>3, <3>1 DEF FromAt
  <2>4. QED
    BY <1>1, <2>1, <2>2, <2>3 DEF FromAt
<1>14. Layout(qq, e, f, t, k - 1)
  BY <1>2, <1>11, <1>12, <1>13 DEF Layout
<1>15. QED
  BY <1>3, <1>5, <1>6, <1>14 DEF e, qq

\* HasTodo, when the receiver has reached the end of a lap.
LEMMA LayoutRewind ==
  ASSUME NEW q \in Seq(Reservation), NEW r \in Nat, NEW f \in Nat, NEW t \in Nat,
         NEW k \in 0..Len(q), Layout(q, r, f, t, k), f < r, q[1].pos # r
  PROVE  /\ Layout(q, 0, f, t, k)
         /\ t < r /\ \A i \in DOMAIN q : q[i].pos < r /\ End(q[i]) < r
         /\ q # <<>> /\ q[1].pos = 0
<1>1. /\ Row(q, r) /\ ToAt(q, r, t) /\ FromAt(q, r, f, k) /\ r <= SizePipe
  BY DEF Layout
<1>2. t < r
  BY FromUpTo
<1>3. q # <<>>
  BY <1>1, <1>2 DEF ToAt
<1>4. 1 \in DOMAIN q /\ Len(q) \in DOMAIN q
  BY <1>3
<1>5. /\ \A i \in DOMAIN q : q[i].pos < r /\ End(q[i]) < r
      /\ q[1].pos = 0
  BY <1>1, <1>4, AtReceiver
<1>6. ASSUME NEW i \in DOMAIN q, NEW j \in DOMAIN q, i < j
      PROVE  Comes(q[i], q[j], 0)
  <2>1. Comes(q[i], q[j], r) /\ q[i].pos < r /\ q[j].pos < r
    BY <1>1, <1>5, <1>6 DEF Row
  <2>2. QED
    BY <2>1, Extents DEF Comes
<1>7. ASSUME NEW i \in DOMAIN q, i + 1 \in DOMAIN q
      PROVE  Follows(q[i], q[i + 1], 0)
  <2>1. Follows(q[i], q[i + 1], r) /\ q[i].pos < r
    BY <1>1, <1>5, <1>7 DEF Row
  <2>2. QED
    BY <2>1, Extents DEF Follows
<1>8. Row(q, 0)
  <2>1. \A i \in DOMAIN q : End(q[i]) <= SizePipe /\ (q[i].pos >= 0 \/ End(q[i]) < 0)
    BY <1>1, Extents DEF Row
  <2>2. QED
    BY <1>5, <1>6, <1>7, <2>1 DEF Row
<1>9. ToAt(q, 0, t)
  BY <1>1, <1>3 DEF ToAt
<1>10. FromAt(q, 0, f, k)
  <2>1. ~(k = 0 /\ f = r)
    OBVIOUS
  <2>2. QED
    BY <1>1, <2>1 DEF FromAt
<1>11. Layout(q, 0, f, t, k)
  BY <1>8, <1>9, <1>10, PipeAssumption DEF Layout
<1>12. QED
  BY <1>2, <1>3, <1>5, <1>11

\* CasFrom.
LEMMA LayoutAdvance ==
  ASSUME NEW q \in Seq(Reservation), NEW r \in Nat, NEW f \in Nat, NEW t \in Nat,
         NEW k \in 0..Len(q), Layout(q, r, f, t, k), k < Len(q), f = q[k + 1].pos
  PROVE  /\ Layout(q, r, End(q[k + 1]), t, k + 1)
         /\ f >= r <=> End(q[k + 1]) >= r
         /\ f < End(q[k + 1]) /\ End(q[k + 1]) \in Nat
<1>1. k + 1 \in DOMAIN q
  OBVIOUS
<1>2. q[k + 1].pos >= r \/ End(q[k + 1]) < r
  BY <1>1 DEF Layout, Row
<1>3. Layout(q, r, End(q[k + 1]), t, k + 1)
  <2>1. FromAt(q, r, End(q[k + 1]), k + 1)
    BY <1>1 DEF FromAt
  <2>2. QED
    BY <2>1 DEF Layout
<1>4. QED
  BY <1>1, <1>2, <1>3, Extents

\* StoreFrom.
LEMMA LayoutRestart ==
  ASSUME NEW q \in Seq(Reservation), NEW r \in Nat, NEW f \in Nat, NEW t \in Nat,
         NEW k \in 0..Len(q), Layout(q, r, f, t, k), k < Len(q), q[k + 1].pos = 0
  PROVE  Layout(q, r, 0, t, k)
BY DEF Layout, FromAt

LEMMA LayoutInit == Layout(<<>>, 0, 0, 0, 0)
BY PipeAssumption DEF Layout, Row, ToAt, FromAt

-----------------------------------------------------------------------------
(* The steps that leave the pipe and its paces alone.                      *)

LEMMA StateFacts ==
  ASSUME TypeOK
  PROVE  /\ queue \in Seq(Reservation) /\ receiverPace \in Nat
         /\ senderPaceFrom.ptr \in Nat /\ senderPaceFrom.ver \in 0..NumVersions - 1
         /\ senderPaceTo.ptr \in Nat /\ senderPaceTo.ver \in 0..NumVersions - 1
         /\ senderPaceFrom = Pace(senderPaceFrom.ptr, senderPaceFrom.ver)
         /\ senderPaceTo = Pace(senderPaceTo.ptr, senderPaceTo.ver)
BY DEF TypeOK, Reservation, PaceType, Places, Pace

LEMMA PublishedIs ==
  Published = Behind(queue, senderPaceFrom.ptr)
BY DEF Published, Behind

LEMMA LaidOut ==
  ASSUME TypeOK, Placed
  PROVE  /\ queue \in Seq(Reservation) /\ receiverPace \in Nat
         /\ senderPaceFrom.ptr \in Nat /\ senderPaceTo.ptr \in Nat
         /\ Published \in 0..Len(queue)
         /\ Layout(queue, receiverPace, senderPaceFrom.ptr, senderPaceTo.ptr, Published)
         /\ Row(queue, receiverPace)
BY StateFacts DEF Placed, Layout

\* A layout of the next state tells what Published is then.
LEMMA NewLayout ==
  ASSUME TypeOK', NEW k \in 0..Len(queue'),
         Layout(queue', receiverPace', senderPaceFrom'.ptr, senderPaceTo'.ptr, k)
  PROVE  /\ Published' = k
         /\ Layout(queue, receiverPace, senderPaceFrom.ptr, senderPaceTo.ptr, Published)'
<1>1. /\ queue' \in Seq(Reservation) /\ receiverPace' \in Nat
      /\ senderPaceFrom'.ptr \in Nat /\ senderPaceTo'.ptr \in Nat
  BY DEF TypeOK, Reservation, PaceType, Places
<1>2. Published' = Behind(queue', senderPaceFrom'.ptr)
  BY DEF Published, Behind
<1>3. Behind(queue', senderPaceFrom'.ptr) = k
  BY <1>1, BehindIs
<1>4. QED
  BY <1>2, <1>3

shared == <<mem, receiverPace, senderPaceFrom, senderPaceTo, queue>>

\* What a step of a sender does to the others.
LEMMA GoFacts ==
  ASSUME TypeOK, NEW s \in Senders, NEW label, NEW l, Go(s, label, l)
  PROVE  /\ pc'[s] = label /\ loc'[s] = l
         /\ \A t \in Senders : t # s => pc'[t] = pc[t] /\ loc'[t] = loc[t]
BY DEF Go, TypeOK

LEMMA OthersSound ==
  ASSUME UNCHANGED shared, NEW t \in Senders, Sound(t), pc'[t] = pc[t], loc'[t] = loc[t]
  PROVE  Sound(t)'
<1>1. /\ mem' = mem /\ receiverPace' = receiverPace /\ senderPaceFrom' = senderPaceFrom
      /\ senderPaceTo' = senderPaceTo /\ queue' = queue
  BY DEF shared
<1>2. Published' = Published
  BY <1>1 DEF Published
<1>3. (Holds(t) /\ Reserving(t) /\ Asked(t))'
  BY <1>1 DEF Sound, Holds, Reserving, Asked
<1>4. \A i : Current(t, i)' <=> Current(t, i)
  BY <1>1 DEF Current
<1>5. \A r : /\ Intact(r)' <=> Intact(r)
             /\ Unwritten(r)' <=> Unwritten(r)
             /\ Unflagged(r)' <=> Unflagged(r)
  BY <1>1 DEF Intact, Unwritten, Unflagged
<1>6. Fills(t)'
  BY <1>1, <1>2, <1>4, <1>5 DEF Sound, Fills
<1>7. Loads(t)'
  BY <1>1, <1>4, <1>5 DEF Sound, Loads
<1>8. Rewinds(t)'
  BY <1>1, <1>2, <1>4, <1>5 DEF Sound, Rewinds, Rewinder
<1>9. Publishes(t)'
  BY <1>1, <1>2, <1>5 DEF Sound, Publishes
<1>10. QED
  BY <1>3, <1>6, <1>7, <1>8, <1>9 DEF Sound

LEMMA QuietStep ==
  ASSUME PipeInv, TypeOK', UNCHANGED shared, UNCHANGED receiverVars,
         NEW s \in Senders, NEW label, NEW l, Go(s, label, l),
         pc[s] \notin Filling,
         Rewinder(s) => Rewinder(s)' /\ l.msg = loc[s].msg,
         Carries(s) => Handled',
         Sound(s)'
  PROVE  PipeInv'
<1>1. /\ mem' = mem /\ receiverPace' = receiverPace /\ senderPaceFrom' = senderPaceFrom
      /\ senderPaceTo' = senderPaceTo /\ queue' = queue
      /\ rpc' = rpc /\ rfrom' = rfrom /\ unblanked' = unblanked
  BY DEF shared, receiverVars
<1>2. Published' = Published
  BY <1>1 DEF Published
<1>3. /\ pc'[s] = label /\ loc'[s] = l
      /\ \A t \in Senders : t # s => pc'[t] = pc[t] /\ loc'[t] = loc[t]
  BY GoFacts DEF PipeInv
<1>4. \A t \in Senders : Sound(t)'
  BY <1>3, OthersSound DEF PipeInv
<1>5. Placed' /\ Receives' /\ BlankElsewhere'
  BY <1>1, <1>2 DEF PipeInv, Placed, Receives, BlankElsewhere
<1>6. \A r : Intact(r)' <=> Intact(r)
  BY <1>1 DEF Intact
<1>7. \A t \in Senders : \A i : t # s => (Current(t, i)' <=> Current(t, i))
  BY <1>1, <1>3 DEF Current
<1>8. queue \in Seq(Reservation)
  BY StateFacts DEF PipeInv
<1>9. ASSUME NEW i \in DOMAIN queue PROVE Finished(i)' /\ Awaits(i)'
  <2>1. queue[i].from \in Senders
    BY <1>8, Extents
  <2>2. Finished(i) /\ Awaits(i)
    BY DEF PipeInv
  <2>3. Finished(i)'
    BY <1>1, <1>2, <1>3, <1>6, <1>7, <2>1, <2>2 DEF Finished
  <2>4. Awaits(i)'
    <3>1. CASE queue[i].from = s
      <4>1. Rewinder(s) /\ l.msg = loc[s].msg => (Current(s, i) => Current(s, i)')
        BY <1>1, <1>3 DEF Current
      <4>2. QED
        BY <1>1, <1>2, <2>2, <3>1, <4>1 DEF Awaits
    <3>2. CASE queue[i].from # s
      <4>1. Rewinder(queue[i].from) => Rewinder(queue[i].from)'
        BY <1>1, <1>3, <2>1, <3>2 DEF Rewinder
      <4>2. QED
        BY <1>1, <1>2, <1>7, <2>1, <2>2, <3>2, <4>1 DEF Awaits
    <3>3. QED
      BY <3>1, <3>2
  <2>5. QED
    BY <2>3, <2>4
<1>10. Handled'
  <2>1. ASSUME Published < Len(queue), Intact(queue[Published + 1]), ~Carries(s)
        PROVE  \E t \in Senders : Carries(t)'
    <3>1. PICK t \in Senders : Carries(t)
      BY <2>1 DEF PipeInv, Handled
    <3>2. t # s
      BY <2>1, <3>1
    <3>3. Carries(t)'
      BY <1>1, <1>2, <1>3, <1>7, <3>1, <3>2 DEF Carries
    <3>4. QED
      BY <3>3
  <2>2. CASE Carries(s)
    BY <2>2
  <2>3. CASE ~Carries(s)
    BY <1>1, <1>2, <1>6, <2>1, <2>3 DEF Handled
  <2>4. QED
    BY <2>2, <2>3
<1>11. QED
  BY <1>1, <1>4, <1>5, <1>9, <1>10 DEF PipeInv

\* A sender has one current message.
LEMMA OneCurrent ==
  ASSUME queue \in Seq(Reservation), NEW s, NEW i, NEW j, Current(s, i), Current(s, j)
  PROVE  i = j
<1>1. i \in 1..Len(queue) /\ j \in 1..Len(queue)
  BY DEF Current
<1>2. ~(i < j) /\ ~(j < i)
  BY DEF Current
<1>3. QED
  BY <1>1, <1>2

LEMMA QueueFits ==
  ASSUME TypeOK, Placed, NEW i \in DOMAIN queue
  PROVE  /\ queue[i] \in Reservation /\ End(queue[i]) <= SizePipe
         /\ SizeAt(queue[i].pos) \in queue[i].pos..End(queue[i]) - 1
         /\ SizeAt(queue[i].pos) \in 0..SizePipe - 1
         /\ queue[i].size + 2 < MaskNotWriting /\ queue[i].size \in Nat
         /\ i \in 1..Len(queue)
<1>1. queue \in Seq(Reservation) /\ Row(queue, receiverPace)
  BY LaidOut
<1>2. End(queue[i]) <= SizePipe
  BY <1>1 DEF Row
<1>3. /\ queue[i] \in Reservation /\ i \in 1..Len(queue)
      /\ queue[i].pos \in Nat /\ queue[i].size \in Nat /\ End(queue[i]) \in Nat
      /\ SizeAt(queue[i].pos) \in Nat /\ SizeAt(queue[i].pos) > queue[i].pos
      /\ SizeAt(queue[i].pos) < End(queue[i])
  BY <1>1, Extents
<1>4. queue[i].size + 2 < MaskNotWriting
  BY <1>2, <1>3, PipeAssumption DEF End, Need
<1>5. SizeAt(queue[i].pos) \in queue[i].pos..End(queue[i]) - 1
  BY <1>3
<1>6. SizeAt(queue[i].pos) \in 0..SizePipe - 1
  BY <1>2, <1>3, PipeAssumption
<1>7. QED
  BY <1>2, <1>3, <1>4, <1>5, <1>6

\* What a reader of its size word makes of a message: whole, being written, or
\* not begun.
LEMMA SizeWord ==
  ASSUME TypeOK, Placed, NEW i \in DOMAIN queue
  PROVE  LET r == queue[i] IN
         /\ Intact(r) => SizeWords(r.pos) = {MaskNotWriting + r.size}
         /\ Unflagged(r) => SizeWords(r.pos) = {r.size}
         /\ Unwritten(r) => SizeWords(r.pos) = {Blank}
<1> DEFINE r == queue[i]
           c == SizeAt(r.pos)
<1>1. /\ r \in Reservation /\ c \in r.pos..End(r) - 1 /\ c \in 0..SizePipe - 1
      /\ r.size \in Nat
  BY QueueFits
<1>2. ASSUME mem[c] \in Int PROVE SizeWords(r.pos) = {mem[c]}
  BY <1>1, <1>2, PipeAssumption DEF SizeWords
<1>3. Intact(r) => mem[c] = MaskNotWriting + r.size
  BY <1>1 DEF Intact
<1>4. Unflagged(r) => mem[c] = r.size
  BY <1>1 DEF Unflagged
<1>5. Unwritten(r) => mem[c] = Blank
  BY <1>1 DEF Unwritten
<1>6. MaskNotWriting + r.size \in Int /\ r.size \in Int /\ Blank \in Int
  BY <1>1, PipeAssumption DEF Blank
<1> HIDE DEF c, r
<1>7. QED
  BY <1>2, <1>3, <1>4, <1>5, <1>6 DEF r

LEMMA WordMeaning ==
  ASSUME NEW n \in Nat, n + 2 < MaskNotWriting
  PROVE  /\ IsReady(MaskNotWriting + n) /\ ~IsBlank(MaskNotWriting + n)
         /\ GetMsgSize(MaskNotWriting + n) = MsgOffset + n
         /\ ~IsReady(n) /\ ~IsBlank(n) /\ SetReady(n) = MaskNotWriting + n
         /\ ~IsReady(Blank) /\ IsBlank(Blank)
BY PipeAssumption DEF IsReady, IsBlank, GetMsgSize, SetReady, IsNotWriting, Blank

LEMMA IntactWord ==
  ASSUME TypeOK, Placed, NEW i \in DOMAIN queue, Intact(queue[i]),
         NEW w \in SizeWords(queue[i].pos)
  PROVE  /\ IsReady(w) /\ ~IsBlank(w)
         /\ queue[i].pos + GetMsgSize(w) = End(queue[i])
<1>1. w = MaskNotWriting + queue[i].size
  BY SizeWord
<1>2. queue[i].size \in Nat /\ queue[i].size + 2 < MaskNotWriting
  BY QueueFits
<1>3. GetMsgSize(w) = MsgOffset + queue[i].size /\ IsReady(w) /\ ~IsBlank(w)
  BY <1>1, <1>2, WordMeaning
<1>4. QED
  BY <1>3 DEF End, Need

\* A message that reads as ready is whole.
LEMMA ReadyIsIntact ==
  ASSUME PipeInv, NEW i \in DOMAIN queue, NEW w \in SizeWords(queue[i].pos), IsReady(w)
  PROVE  Intact(queue[i])
<1>1. TypeOK /\ Placed /\ queue \in Seq(Reservation)
  BY StateFacts DEF PipeInv
<1>2. SUFFICES ASSUME ~Intact(queue[i]) PROVE FALSE
  OBVIOUS
<1> DEFINE t == queue[i].from
<1>3. t \in Senders /\ pc[t] \in Filling /\ Current(t, i)
  BY <1>1, <1>2, Extents DEF PipeInv, Finished
<1>4. PICK j \in DOMAIN queue :
        Current(t, j) /\ (IF pc[t] = "write" THEN Unwritten(queue[j]) ELSE Unflagged(queue[j]))
  BY <1>3 DEF PipeInv, Sound, Fills
<1>5. Unwritten(queue[i]) \/ Unflagged(queue[i])
  <2>1. i = j
    BY <1>1, <1>3, <1>4, OneCurrent
  <2>2. QED
    BY <1>4, <2>1
<1>6. w \in {Blank, queue[i].size}
  BY <1>1, <1>5, SizeWord
<1>7. queue[i].size \in Nat /\ queue[i].size + 2 < MaskNotWriting
  BY <1>1, QueueFits
<1>8. QED
  BY <1>6, <1>7, WordMeaning

LEMMA BackToIdle ==
  ASSUME PipeInv, TypeOK', UNCHANGED shared, UNCHANGED receiverVars,
         NEW s \in Senders, Return(s), pc[s] \notin Filling, ~Rewinder(s),
         Carries(s) => Handled'
  PROVE  PipeInv'
<1>1. Go(s, "idle", Fresh)
  BY DEF Return
<1>2. pc'[s] = "idle"
  BY <1>1, GoFacts DEF PipeInv
<1>3. Sound(s)'
  BY <1>2 DEF Sound, Holds, Reserving, Fills, Loads, Rewinds, Rewinder, Publishes, Asked,
              ToHolders, FromHolders, HoldsPace, Filling
<1>4. QED
  BY <1>1, <1>3, QuietStep

LEMMA FailKeeps ==
  ASSUME PipeInv, TypeOK', UNCHANGED shared, UNCHANGED receiverVars,
         NEW s \in Senders, Fail(s), pc[s] \in {"loadTo", "loadReceiver", "casTo"}
  PROVE  PipeInv'
<1>1. pc[s] \notin Filling /\ ~Rewinder(s) /\ ~Carries(s)
  BY DEF Filling, Rewinder, Carries
<1>2. CASE loc[s].try + 1 < TimesBusyQuery
  <2> DEFINE l == [Fresh EXCEPT !.n = loc[s].n, !.try = loc[s].try + 1]
  <2>1. Go(s, "loadTo", l)
    BY <1>2 DEF Fail
  <2>2. l.n = loc[s].n /\ l.msg = 0 /\ l.rewind = NotRewound
    BY DEF Fresh
  <2>3. /\ pc'[s] = "loadTo" /\ loc'[s].n = loc[s].n
        /\ loc'[s].msg = 0 /\ loc'[s].rewind = NotRewound
    <3>1. TypeOK
      BY DEF PipeInv
    <3>2. pc'[s] = "loadTo" /\ loc'[s] = l
      BY <2>1, <3>1, GoFacts
    <3>3. QED
      BY <2>2, <3>2
  <2>4. loc[s].n \in ContentSizes
    BY DEF PipeInv, Sound, Asked
  <2> HIDE DEF l
  <2>5. Sound(s)'
    BY <2>3, <2>4 DEF Sound, Holds, Reserving, Fills, Loads, Rewinds, Rewinder, Publishes,
              Asked, ToHolders, FromHolders, HoldsPace, Filling
  <2>6. QED
    BY <1>1, <2>1, <2>5, QuietStep
<1>3. CASE ~(loc[s].try + 1 < TimesBusyQuery)
  BY <1>1, <1>3, BackToIdle DEF Fail
<1>4. QED
  BY <1>2, <1>3

LEMMA SendMsgKeeps ==
  ASSUME PipeInv, TypeOK', NEW s \in Senders, NEW n \in ContentSizes, SendMsg(s, n)
  PROVE  PipeInv'
<1>1. /\ pc[s] = "idle" /\ Go(s, "loadTo", [Fresh EXCEPT !.n = n])
      /\ UNCHANGED shared /\ UNCHANGED receiverVars
  BY DEF SendMsg, shared
<1>2. /\ pc'[s] = "loadTo" /\ loc'[s].n = n
      /\ loc'[s].msg = 0 /\ loc'[s].rewind = NotRewound
  BY <1>1, GoFacts DEF PipeInv, Fresh
<1>3. Sound(s)'
  BY <1>2 DEF Sound, Holds, Reserving, Fills, Loads, Rewinds, Rewinder, Publishes, Asked,
              ToHolders, FromHolders, HoldsPace, Filling
<1>4. pc[s] \notin Filling /\ ~Rewinder(s) /\ ~Carries(s)
  BY <1>1 DEF Filling, Rewinder, Carries
<1>5. QED
  BY <1>1, <1>3, <1>4, QuietStep

LEMMA LoadToKeeps ==
  ASSUME PipeInv, TypeOK', NEW s \in Senders, LoadTo(s)
  PROVE  PipeInv'
<1>1. /\ pc[s] = "loadTo" /\ UNCHANGED shared /\ UNCHANGED receiverVars
      /\ Fail(s) \/ Go(s, "loadReceiver", [loc[s] EXCEPT !.pace = senderPaceTo])
  BY DEF LoadTo, shared
<1>2. CASE Fail(s)
  BY <1>1, <1>2, FailKeeps
<1>3. CASE Go(s, "loadReceiver", [loc[s] EXCEPT !.pace = senderPaceTo])
  <2>1. /\ pc'[s] = "loadReceiver" /\ loc'[s].n = loc[s].n
        /\ loc'[s].pace = senderPaceTo
        /\ loc'[s].msg = loc[s].msg /\ loc'[s].rewind = loc[s].rewind
    BY <1>3, GoFacts, LocalsType DEF PipeInv, LocalType
  <2>2. loc[s].n \in ContentSizes /\ loc[s].msg = 0 /\ loc[s].rewind = NotRewound
    BY <1>1 DEF PipeInv, Sound, Asked
  <2>3. senderPaceTo' = senderPaceTo /\ senderPaceTo.ptr \in Nat
    BY <1>1, StateFacts DEF shared, PipeInv
  <2>4. Holds(s)'
    BY <2>1, <2>3 DEF Holds, ToHolders, FromHolders
  <2>5. Sound(s)'
    BY <2>1, <2>2, <2>4 DEF Sound, Reserving, Fills, Loads, Rewinds, Rewinder, Publishes, Asked,
                FromHolders, HoldsPace, Filling
  <2>6. pc[s] \notin Filling /\ ~Rewinder(s) /\ ~Carries(s)
    BY <1>1 DEF Filling, Rewinder, Carries
  <2>7. QED
    BY <1>1, <1>3, <2>5, <2>6, QuietStep
<1>4. QED
  BY <1>1, <1>2, <1>3

LEMMA LoadReceiverKeeps ==
  ASSUME PipeInv, TypeOK', NEW s \in Senders, LoadReceiver(s)
  PROVE  PipeInv'
<1> DEFINE to == loc[s].pace.ptr
           need == MsgOffset + loc[s].n
           straight == [loc[s] EXCEPT !.msg = to, !.next = to + need]
           rewound == [loc[s] EXCEPT !.next = need, !.rewind = to]
<1>1. /\ pc[s] = "loadReceiver" /\ UNCHANGED shared /\ UNCHANGED receiverVars
      /\ \/ Fits(to, need, receiverPace) /\ Go(s, "casTo", straight)
         \/ FitsRewound(to, need, receiverPace) /\ Go(s, "casTo", rewound)
         \/ Fail(s)
  BY DEF LoadReceiver, shared
<1>2. /\ loc[s] \in LocalType /\ to \in Nat /\ loc[s].n \in Nat /\ need \in Nat
      /\ receiverPace \in Nat /\ receiverPace' = receiverPace
      /\ senderPaceTo' = senderPaceTo /\ senderPaceFrom' = senderPaceFrom
  <2>1. TypeOK
    BY DEF PipeInv
  <2>2. loc[s] \in LocalType /\ to \in Nat /\ loc[s].n \in Nat
    BY <2>1, LocalsType
  <2>3. receiverPace \in Nat
    BY <2>1, StateFacts
  <2>4. QED
    BY <1>1, <2>2, <2>3, PipeAssumption DEF shared
<1>3. loc[s].msg = 0 /\ loc[s].rewind = NotRewound
  BY <1>1 DEF PipeInv, Sound, Asked
<1> HIDE DEF to, need
<1>4. pc[s] \notin Filling /\ ~Rewinder(s) /\ ~Carries(s)
  BY <1>1 DEF Filling, Rewinder, Carries
<1>5. Holds(s) /\ loc[s].n \in ContentSizes
  BY <1>1 DEF PipeInv, Sound, Asked
<1>6. ASSUME NEW l, Go(s, "casTo", l), l.pace = loc[s].pace, l.n = loc[s].n,
             Room(l, receiverPace)
      PROVE  PipeInv'
  <2>1. pc'[s] = "casTo" /\ loc'[s] = l
    BY <1>6, GoFacts DEF PipeInv
  <2>2. Holds(s)'
    BY <1>1, <1>2, <1>5, <1>6, <2>1 DEF Holds, ToHolders, FromHolders
  <2>3. Reserving(s)'
    BY <1>2, <1>6, <2>1 DEF Reserving
  <2>4. Sound(s)'
    BY <1>5, <1>6, <2>1, <2>2, <2>3 DEF Sound, Fills, Loads, Rewinds, Rewinder, Publishes,
                Asked, Filling
  <2>5. QED
    BY <1>1, <1>4, <1>6, <2>4, QuietStep
<1>7. CASE Fits(to, need, receiverPace) /\ Go(s, "casTo", straight)
  <2>1. /\ straight.pace = loc[s].pace /\ straight.n = loc[s].n
        /\ straight.msg = to /\ straight.next = to + need
        /\ straight.rewind = NotRewound
    BY <1>2, <1>3 DEF LocalType
  <2>2. straight.next = straight.msg + MsgOffset + straight.n
    BY <1>2, <2>1, PipeAssumption DEF need
  <2>3. /\ straight.next <= SizePipe
        /\ straight.msg < receiverPace => straight.next < receiverPace
    <3>1. receiverPace <= SizePipe
      BY DEF PipeInv, Placed, Layout
    <3>2. QED
      BY <1>2, <1>7, <2>1, <3>1, PipeAssumption DEF Fits
  <2> HIDE DEF straight
  <2>4. Room(straight, receiverPace)
    BY <2>1, <2>2, <2>3 DEF Room, to
  <2>5. QED
    BY <1>6, <1>7, <2>1, <2>4
<1>8. CASE FitsRewound(to, need, receiverPace) /\ Go(s, "casTo", rewound)
  <2>1. /\ rewound.pace = loc[s].pace /\ rewound.n = loc[s].n
        /\ rewound.msg = 0 /\ rewound.next = need
        /\ rewound.rewind = to
    BY <1>2, <1>3 DEF LocalType
  <2>2. rewound.next = rewound.msg + MsgOffset + rewound.n
    BY <1>2, <2>1, PipeAssumption DEF need
  <2> HIDE DEF rewound
  <2>3. rewound.rewind # NotRewound
    BY <1>2, <2>1 DEF NotRewound
  <2>4. Room(rewound, receiverPace)
    BY <1>8, <2>1, <2>2, <2>3 DEF Room, FitsRewound, to
  <2>5. QED
    BY <1>6, <1>8, <2>1, <2>4
<1>9. CASE Fail(s)
  BY <1>1, <1>9, FailKeeps
<1>10. QED
  BY <1>1, <1>7, <1>8, <1>9

LEMMA CasToMissesKeeps ==
  ASSUME PipeInv, TypeOK', NEW s \in Senders, CasTo(s), senderPaceTo # loc[s].pace
  PROVE  PipeInv'
<1>1. /\ pc[s] = "casTo" /\ Fail(s) /\ UNCHANGED shared /\ UNCHANGED receiverVars
  BY DEF CasTo, shared
<1>2. QED
  BY <1>1, FailKeeps

\* The message that stands at sender_pace_from_ is the next one.
LEMMA NextIsAt ==
  ASSUME TypeOK, Placed, NEW i \in DOMAIN queue, queue[i].pos = senderPaceFrom.ptr
  PROVE  Published < Len(queue) /\ i = Published + 1
<1>1. i \in 1..Len(queue) /\ i - 1 \in 0..Len(queue)
  BY LaidOut, Extents
<1>2. FromAt(queue, receiverPace, senderPaceFrom.ptr, i - 1)
  BY <1>1 DEF FromAt
<1>3. FromAt(queue, receiverPace, senderPaceFrom.ptr, Published)
  BY LaidOut DEF Layout
<1>4. i - 1 = Published
  BY <1>1, <1>2, <1>3, LaidOut, OnePlace
<1>5. QED
  BY <1>1, <1>4

LEMMA LoadFromKeeps ==
  ASSUME PipeInv, TypeOK', NEW s \in Senders, LoadFrom(s)
  PROVE  PipeInv'
<1> DEFINE p == loc[s].msg
           found == [Fresh EXCEPT !.pace = senderPaceFrom]
           waits == [Fresh EXCEPT !.pace = senderPaceFrom, !.rewind = loc[s].rewind]
<1>1. /\ pc[s] = "loadFrom" /\ UNCHANGED shared /\ UNCHANGED receiverVars
      /\ \/ senderPaceFrom.ptr = p /\ Go(s, "loadSize", found)
         \/ senderPaceFrom.ptr # p /\ p = 0 /\ Go(s, "spin", waits)
         \/ senderPaceFrom.ptr # p /\ p # 0 /\ Return(s)
  BY DEF LoadFrom, shared
<1>2. /\ mem' = mem /\ receiverPace' = receiverPace /\ senderPaceFrom' = senderPaceFrom
      /\ senderPaceTo' = senderPaceTo /\ queue' = queue
  BY <1>1 DEF shared
<1>3. Published' = Published /\ \A r : Intact(r)' <=> Intact(r)
  BY <1>2 DEF Published, Intact
<1>4. TypeOK /\ Placed /\ Loads(s) /\ Rewinds(s)
  BY DEF PipeInv, Sound
<1>5. pc[s] \notin Filling
  BY <1>1 DEF Filling
<1>6. \/ \E i \in DOMAIN queue : Current(s, i) /\ Intact(queue[i])
      \/ senderPaceFrom.ptr # p /\ \A i \in DOMAIN queue : queue[i].from # s
  BY <1>1, <1>4 DEF Loads
<1>7. CASE senderPaceFrom.ptr = p /\ Go(s, "loadSize", found)
  <2>1. pc'[s] = "loadSize" /\ loc'[s] = found /\ loc'[s].pace = senderPaceFrom
    BY <1>7, GoFacts DEF PipeInv, Fresh
  <2>2. PICK i \in DOMAIN queue : Current(s, i) /\ Intact(queue[i])
    BY <1>6, <1>7
  <2>3. i = Published + 1 /\ Published < Len(queue) /\ queue[i].pos = senderPaceFrom.ptr
    BY <1>4, <1>7, <2>2, NextIsAt DEF Current
  <2>4. Publishes(s)'
    BY <1>2, <1>3, <2>1, <2>2, <2>3 DEF Publishes
  <2>5. Holds(s)'
    BY <1>2, <1>4, <2>1, StateFacts DEF Holds, ToHolders, FromHolders, HoldsPace
  <2>6. Sound(s)'
    BY <2>1, <2>4, <2>5 DEF Sound, Reserving, Fills, Loads, Rewinds, Rewinder, Asked, Filling
  <2>7. ~Rewinder(s)
    BY <1>4, <1>7 DEF Rewinds
  <2>8. Handled'
    <3>1. Carries(s)'
      BY <1>2, <2>1 DEF Carries
    <3>2. QED
      BY <3>1 DEF Handled
  <2>9. QED
    BY <1>1, <1>5, <1>7, <2>6, <2>7, <2>8, QuietStep
<1>8. CASE senderPaceFrom.ptr # p /\ p = 0 /\ Go(s, "spin", waits)
  <2>1. /\ pc'[s] = "spin" /\ loc'[s] = waits /\ waits.pace = senderPaceFrom
        /\ waits.msg = 0 /\ waits.rewind = loc[s].rewind
    BY <1>8, GoFacts DEF PipeInv, Fresh
  <2> HIDE DEF waits
  <2>2. \A i : Current(s, i)' <=> Current(s, i)
    BY <1>2, <1>8, <2>1 DEF Current
  <2>3. Rewinder(s) => Rewinder(s)'
    BY <1>1, <2>1 DEF Rewinder
  <2>4. Holds(s)'
    BY <1>2, <1>4, <2>1, StateFacts DEF Holds, ToHolders, FromHolders, HoldsPace
  <2>5. Rewinds(s)'
    <3>1. ASSUME loc[s].rewind # NotRewound
          PROVE  \E i \in DOMAIN queue :
                   /\ Current(s, i) /\ i > Published /\ Intact(queue[i])
                   /\ i > 1 => loc[s].rewind = End(queue[i - 1])
      <4>1. PICK i \in DOMAIN queue :
              Current(s, i) /\ i > Published /\ (i > 1 => loc[s].rewind = End(queue[i - 1]))
        BY <1>1, <1>4, <3>1 DEF Rewinds, Rewinder
      <4>2. PICK j \in DOMAIN queue : Current(s, j) /\ Intact(queue[j])
        BY <1>6, <4>1 DEF Current
      <4>3. i = j
        BY <1>4, <4>1, <4>2, StateFacts, OneCurrent
      <4>4. QED
        BY <4>1, <4>2, <4>3
    <3>2. senderPaceFrom.ptr # 0
      BY <1>8
    <3>3. QED
      BY <1>2, <1>3, <2>1, <2>2, <3>1, <3>2 DEF Rewinds, Rewinder
  <2>6. Sound(s)'
    BY <2>1, <2>4, <2>5 DEF Sound, Reserving, Fills, Loads, Publishes, Asked, Filling
  <2>7. Carries(s) => Handled'
    <3>1. Carries(s) => Carries(s)'
      BY <1>1, <1>3, <2>1, <2>2 DEF Carries
    <3>2. QED
      BY <3>1 DEF Handled
  <2>8. QED
    BY <1>1, <1>5, <1>8, <2>1, <2>3, <2>6, <2>7, QuietStep
<1>9. CASE senderPaceFrom.ptr # p /\ p # 0 /\ Return(s)
  <2>1. ~Rewinder(s)
    BY <1>4, <1>9 DEF Rewinds
  <2>2. ~Carries(s)
    <3>1. SUFFICES ASSUME Current(s, Published + 1) PROVE FALSE
      BY <1>1 DEF Carries
    <3>2. Published < Len(queue) /\ queue[Published + 1].pos = p
      BY <1>4, <3>1, LaidOut DEF Current
    <3>3. QED
      BY <1>4, <1>9, <3>2, LaidOut, NextPlace
  <2>3. QED
    BY <1>1, <1>5, <1>9, <2>1, <2>2, BackToIdle
<1>10. QED
  BY <1>1, <1>7, <1>8, <1>9

LEMMA SpinKeeps ==
  ASSUME PipeInv, TypeOK', NEW s \in Senders, Spin(s)
  PROVE  PipeInv'
<1> DEFINE l == [Fresh EXCEPT !.pace = loc[s].pace]
<1>1. /\ pc[s] = "spin" /\ UNCHANGED shared /\ UNCHANGED receiverVars
      /\ senderPaceFrom.ptr = loc[s].rewind /\ Go(s, "storeFrom", l)
  BY DEF Spin, shared
<1>2. /\ mem' = mem /\ receiverPace' = receiverPace /\ senderPaceFrom' = senderPaceFrom
      /\ senderPaceTo' = senderPaceTo /\ queue' = queue
  BY <1>1 DEF shared
<1>3. Published' = Published /\ \A r : Intact(r)' <=> Intact(r)
  BY <1>2 DEF Published, Intact
<1>4. TypeOK /\ Placed /\ Holds(s) /\ Rewinds(s)
  BY DEF PipeInv, Sound
<1>5. Rewinder(s)
  <2>1. loc[s].rewind # NotRewound
    BY <1>1, <1>4, StateFacts DEF NotRewound
  <2>2. QED
    BY <1>1, <2>1 DEF Rewinder
<1>6. /\ pc'[s] = "storeFrom" /\ loc'[s] = l
      /\ l.pace = loc[s].pace /\ l.msg = 0
  BY <1>1, GoFacts DEF PipeInv, Fresh
<1> HIDE DEF l
<1>7. /\ loc[s].msg = 0 /\ senderPaceFrom.ptr # 0
      /\ loc[s].pace.ver = senderPaceFrom.ver
      /\ \E i \in DOMAIN queue :
           /\ Current(s, i) /\ i > Published /\ Intact(queue[i])
           /\ i > 1 => loc[s].rewind = End(queue[i - 1])
  BY <1>1, <1>4, <1>5 DEF Rewinds
<1>8. PICK i \in DOMAIN queue :
        /\ Current(s, i) /\ i > Published /\ Intact(queue[i])
        /\ i > 1 => loc[s].rewind = End(queue[i - 1])
  BY <1>7
<1>9. i = Published + 1
  <2>1. i \in 1..Len(queue) /\ Published \in 0..Len(queue)
    BY <1>4, LaidOut
  <2>2. CASE i = 1
    BY <1>8, <2>1, <2>2
  <2>3. CASE i > 1
    <3>1. FromAt(queue, receiverPace, senderPaceFrom.ptr, i - 1)
      BY <1>1, <1>8, <2>1, <2>3 DEF FromAt
    <3>2. i - 1 = Published
      BY <1>4, <2>1, <2>3, <3>1, LaidOut, OnePlace DEF Layout
    <3>3. QED
      BY <2>1, <3>2
  <2>4. QED
    BY <2>1, <2>2, <2>3
<1>10. \A j : Current(s, j)' <=> Current(s, j)
  BY <1>2, <1>6, <1>7 DEF Current
<1>11. Rewinds(s)'
  BY <1>2, <1>3, <1>6, <1>7, <1>8, <1>9, <1>10 DEF Rewinds
<1>12. Holds(s)'
  BY <1>1, <1>2, <1>4, <1>6 DEF Holds, ToHolders, FromHolders, HoldsPace
<1>13. Sound(s)'
  BY <1>6, <1>11, <1>12 DEF Sound, Reserving, Fills, Loads, Publishes, Asked, Filling
<1>14. Handled'
  <2>1. Carries(s)'
    BY <1>3, <1>6, <1>8, <1>9, <1>10 DEF Carries
  <2>2. QED
    BY <2>1 DEF Handled
<1>15. pc[s] \notin Filling /\ Rewinder(s)'
  BY <1>1, <1>6 DEF Filling, Rewinder
<1>16. QED
  BY <1>1, <1>6, <1>7, <1>13, <1>14, <1>15, QuietStep

LEMMA LoadSizeKeeps ==
  ASSUME PipeInv, TypeOK', NEW s \in Senders, LoadSize(s)
  PROVE  PipeInv'
<1> DEFINE pace == loc[s].pace
           l(w) == [Fresh EXCEPT !.pace = pace, !.next = pace.ptr + GetMsgSize(w)]
<1>1. /\ pc[s] = "loadSize" /\ UNCHANGED shared /\ UNCHANGED receiverVars
      /\ \E w \in SizeWords(pace.ptr) : IF IsBlank(w) THEN Return(s) ELSE Go(s, "casFrom", l(w))
  BY DEF LoadSize, shared
<1>2. /\ mem' = mem /\ receiverPace' = receiverPace /\ senderPaceFrom' = senderPaceFrom
      /\ senderPaceTo' = senderPaceTo /\ queue' = queue
  BY <1>1 DEF shared
<1>3. Published' = Published /\ \A r : Intact(r)' <=> Intact(r)
  BY <1>2 DEF Published, Intact
<1>4. TypeOK /\ Placed /\ Holds(s) /\ Publishes(s)
  BY DEF PipeInv, Sound
<1>5. pc[s] \notin Filling /\ ~Rewinder(s)
  BY <1>1 DEF Filling, Rewinder
<1>6. PICK w \in SizeWords(pace.ptr) : IF IsBlank(w) THEN Return(s) ELSE Go(s, "casFrom", l(w))
  BY <1>1
<1>7. ASSUME pace = senderPaceFrom
      PROVE  /\ Published < Len(queue) /\ queue[Published + 1].pos = senderPaceFrom.ptr
             /\ Intact(queue[Published + 1])
             /\ ~IsBlank(w) /\ pace.ptr + GetMsgSize(w) = End(queue[Published + 1])
  <2>1. /\ Published < Len(queue) /\ queue[Published + 1].pos = senderPaceFrom.ptr
        /\ Intact(queue[Published + 1])
    BY <1>1, <1>4, <1>7 DEF Publishes
  <2>2. Published + 1 \in DOMAIN queue
    BY <1>4, <2>1, LaidOut
  <2>3. QED
    BY <1>4, <1>6, <1>7, <2>1, <2>2, IntactWord
<1>8. CASE IsBlank(w)
  <2>1. ~Carries(s)
    BY <1>1, <1>7, <1>8 DEF Carries
  <2>2. QED
    BY <1>1, <1>5, <1>6, <1>8, <2>1, BackToIdle
<1>9. CASE ~IsBlank(w)
  <2>1. /\ pc'[s] = "casFrom" /\ loc'[s].pace = pace
        /\ loc'[s].next = pace.ptr + GetMsgSize(w)
    <3>1. l(w).pace = pace /\ l(w).next = pace.ptr + GetMsgSize(w)
      BY DEF Fresh
    <3>2. Go(s, "casFrom", l(w))
      BY <1>6, <1>9
    <3> HIDE DEF l
    <3>3. QED
      BY <1>4, <3>1, <3>2, GoFacts
  <2>2. Publishes(s)'
    BY <1>2, <1>3, <1>7, <2>1 DEF Publishes
  <2>3. Holds(s)'
    BY <1>1, <1>2, <1>4, <2>1 DEF Holds, ToHolders, FromHolders, HoldsPace
  <2>4. Sound(s)'
    BY <2>1, <2>2, <2>3 DEF Sound, Reserving, Fills, Loads, Rewinds, Rewinder, Asked, Filling
  <2>5. Carries(s) => Carries(s)'
    BY <1>1, <1>2, <2>1 DEF Carries
  <2>6. Carries(s) => Handled'
    BY <2>5 DEF Handled
  <2>7. QED
    BY <1>1, <1>5, <1>6, <1>9, <2>4, <2>6, QuietStep
<1>10. QED
  BY <1>8, <1>9

LEMMA CasFromMissesKeeps ==
  ASSUME PipeInv, TypeOK', NEW s \in Senders, CasFrom(s), senderPaceFrom # loc[s].pace
  PROVE  PipeInv'
<1>1. /\ pc[s] = "casFrom" /\ Return(s) /\ UNCHANGED shared /\ UNCHANGED receiverVars
  BY DEF CasFrom, shared
<1>2. pc[s] \notin Filling /\ ~Rewinder(s) /\ ~Carries(s)
  BY <1>1 DEF Filling, Rewinder, Carries
<1>3. QED
  BY <1>1, <1>2, BackToIdle

LEMMA CheckToKeeps ==
  ASSUME PipeInv, TypeOK', NEW s \in Senders, CheckTo(s)
  PROVE  PipeInv'
<1>1. /\ pc[s] = "checkTo" /\ UNCHANGED shared /\ UNCHANGED receiverVars
      /\ \/ loc[s].pace.ptr = senderPaceTo.ptr /\ Return(s)
         \/ loc[s].pace.ptr # senderPaceTo.ptr /\ Go(s, "checkReady", loc[s])
  BY DEF CheckTo, shared
<1>2. /\ mem' = mem /\ receiverPace' = receiverPace /\ senderPaceFrom' = senderPaceFrom
      /\ senderPaceTo' = senderPaceTo /\ queue' = queue
  BY <1>1 DEF shared
<1>3. Published' = Published
  BY <1>2 DEF Published
<1>4. TypeOK /\ Placed /\ Holds(s)
  BY DEF PipeInv, Sound
<1>5. pc[s] \notin Filling /\ ~Rewinder(s)
  BY <1>1 DEF Filling, Rewinder
<1>6. Published \in 0..Len(queue)
      /\ (Published = Len(queue) <=> senderPaceFrom.ptr = senderPaceTo.ptr)
  BY <1>4, LaidOut, FromUpTo
<1>7. CASE loc[s].pace.ptr = senderPaceTo.ptr /\ Return(s)
  <2>1. Carries(s) => Handled'
    BY <1>1, <1>2, <1>3, <1>6, <1>7 DEF Carries, Handled
  <2>2. QED
    BY <1>1, <1>5, <1>7, <2>1, BackToIdle
<1>8. CASE loc[s].pace.ptr # senderPaceTo.ptr /\ Go(s, "checkReady", loc[s])
  <2>1. pc'[s] = "checkReady" /\ loc'[s] = loc[s]
    BY <1>8, GoFacts DEF PipeInv
  <2>2. Publishes(s)'
    BY <1>2, <1>3, <1>6, <1>8, <2>1 DEF Publishes
  <2>3. Holds(s)'
    BY <1>1, <1>2, <1>4, <2>1 DEF Holds, ToHolders, FromHolders, HoldsPace
  <2>4. Sound(s)'
    BY <2>1, <2>2, <2>3 DEF Sound, Reserving, Fills, Loads, Rewinds, Rewinder, Asked, Filling
  <2>5. Carries(s) => Carries(s)'
    BY <1>1, <1>2, <2>1 DEF Carries
  <2>6. Carries(s) => Handled'
    BY <2>5 DEF Handled
  <2>7. QED
    BY <1>1, <1>5, <1>8, <2>4, <2>6, QuietStep
<1>9. QED
  BY <1>1, <1>7, <1>8

\* The memory behind the pipe does not look like a ready message.
QuietBehind == \A w \in BehindWords : ~IsReady(w)

\* Nor do the blank bytes at the end of a lap: a size word that reads as ready
\* at sender_pace_from_ is that of the next message.
LEMMA ReadyAtFrom ==
  ASSUME PipeInv, QuietBehind, Published < Len(queue),
         NEW w \in SizeWords(senderPaceFrom.ptr), IsReady(w)
  PROVE  queue[Published + 1].pos = senderPaceFrom.ptr /\ Intact(queue[Published + 1])
<1> DEFINE f == senderPaceFrom.ptr
           c == SizeAt(f)
<1>1. TypeOK /\ Placed
  BY DEF PipeInv
<1>2. /\ Published + 1 \in DOMAIN queue /\ f \in Nat /\ receiverPace \in Nat
      /\ queue \in Seq(Reservation)
  BY <1>1, LaidOut
<1>3. CASE queue[Published + 1].pos = f
  BY <1>2, <1>3, ReadyIsIntact
<1>4. ASSUME queue[Published + 1].pos # f PROVE FALSE
  <2>1. f >= receiverPace /\ \A i \in DOMAIN queue : End(queue[i]) <= f
    BY <1>1, <1>4, LaidOut, NextPlace
  <2>2. c \in Nat /\ c > f
    BY <1>2, PipeAssumption DEF SizeAt
  <2>3. c < SizePipe
    BY <1>2, <2>2, PipeAssumption DEF SizeWords, QuietBehind
  <2>4. c \in DOMAIN mem
    BY <1>1, <2>2, <2>3, PipeAssumption DEF TypeOK
  <2>5. ~\E i \in DOMAIN queue : queue[i].pos <= c /\ c < End(queue[i])
    BY <1>2, <2>1, <2>2, Extents
  <2>6. ~(c < receiverPace)
    BY <1>2, <2>1, <2>2
  <2>7. mem[c] = Blank
    BY <2>4, <2>5, <2>6 DEF PipeInv, BlankElsewhere
  <2>8. w = Blank
    BY <2>3, <2>7, <2>2, PipeAssumption DEF SizeWords, Blank
  <2>9. QED
    BY <2>8 DEF IsReady, IsBlank
<1>5. QED
  BY <1>3, <1>4

LEMMA CheckReadyKeeps ==
  ASSUME PipeInv, TypeOK', QuietBehind, NEW s \in Senders, CheckReady(s)
  PROVE  PipeInv'
<1>1. /\ pc[s] = "checkReady" /\ UNCHANGED shared /\ UNCHANGED receiverVars
      /\ \E w \in SizeWords(loc[s].pace.ptr) :
           IF IsReady(w) THEN Go(s, "loadSize", loc[s]) ELSE Return(s)
  BY DEF CheckReady, shared
<1>2. /\ mem' = mem /\ receiverPace' = receiverPace /\ senderPaceFrom' = senderPaceFrom
      /\ senderPaceTo' = senderPaceTo /\ queue' = queue
  BY <1>1 DEF shared
<1>3. Published' = Published /\ \A r : Intact(r)' <=> Intact(r)
  BY <1>2 DEF Published, Intact
<1>4. TypeOK /\ Placed /\ Holds(s) /\ Publishes(s)
  BY DEF PipeInv, Sound
<1>5. pc[s] \notin Filling /\ ~Rewinder(s)
  BY <1>1 DEF Filling, Rewinder
<1>6. PICK w \in SizeWords(loc[s].pace.ptr) :
        IF IsReady(w) THEN Go(s, "loadSize", loc[s]) ELSE Return(s)
  BY <1>1
<1>7. loc[s].pace = senderPaceFrom => Published < Len(queue)
  BY <1>1, <1>4 DEF Publishes
<1>8. CASE IsReady(w)
  <2>1. pc'[s] = "loadSize" /\ loc'[s] = loc[s]
    BY <1>6, <1>8, GoFacts DEF PipeInv
  <2>2. Publishes(s)'
    <3>1. ASSUME loc[s].pace = senderPaceFrom
          PROVE  /\ queue[Published + 1].pos = senderPaceFrom.ptr
                 /\ Intact(queue[Published + 1])
      BY <1>6, <1>7, <1>8, <3>1, ReadyAtFrom
    <3>2. QED
      BY <1>2, <1>3, <1>7, <2>1, <3>1 DEF Publishes
  <2>3. Holds(s)'
    BY <1>1, <1>2, <1>4, <2>1 DEF Holds, ToHolders, FromHolders, HoldsPace
  <2>4. Sound(s)'
    BY <2>1, <2>2, <2>3 DEF Sound, Reserving, Fills, Loads, Rewinds, Rewinder, Asked, Filling
  <2>5. Carries(s) => Carries(s)'
    BY <1>1, <1>2, <2>1 DEF Carries
  <2>6. Carries(s) => Handled'
    BY <2>5 DEF Handled
  <2>7. QED
    BY <1>1, <1>5, <1>6, <1>8, <2>4, <2>6, QuietStep
<1>9. CASE ~IsReady(w)
  <2>1. ASSUME Carries(s), Published < Len(queue), Intact(queue[Published + 1])
        PROVE  \E t \in Senders : Carries(t)'
    <3>1. loc[s].pace = senderPaceFrom
      BY <1>1, <2>1 DEF Carries
    <3>2. Published + 1 \in DOMAIN queue /\ queue \in Seq(Reservation)
      BY <1>4, <2>1, LaidOut
    <3>3. queue[Published + 1].pos # senderPaceFrom.ptr
      BY <1>4, <1>6, <1>9, <2>1, <3>1, <3>2, IntactWord
    <3>4. queue[Published + 1].pos = 0 /\ senderPaceFrom.ptr # 0
      BY <1>4, <2>1, <3>3, LaidOut, NextPlace
    <3>5. PICK t \in Senders : Rewinder(t) /\ Current(t, Published + 1)
      <4>1. Published + 1 > Published
        BY <1>4, LaidOut
      <4>2. QED
        BY <3>2, <3>4, <4>1, Extents DEF PipeInv, Awaits
    <3>6. pc[t] \notin Filling
      <4>1. SUFFICES ASSUME pc[t] \in Filling PROVE FALSE
        OBVIOUS
      <4>2. PICK j \in DOMAIN queue :
              /\ Current(t, j)
              /\ IF pc[t] = "write" THEN Unwritten(queue[j]) ELSE Unflagged(queue[j])
        BY <3>5, <4>1 DEF PipeInv, Sound, Fills
      <4>3. j = Published + 1
        BY <3>2, <3>5, <4>2, OneCurrent
      <4>4. PICK v \in SizeWords(queue[j].pos) : IsReady(v)
        BY <1>4, <2>1, <4>3, IntactWord, SizeWord
      <4>5. v \in {Blank, queue[j].size}
        BY <1>4, <4>2, <4>4, SizeWord
      <4>6. queue[j].size \in Nat /\ queue[j].size + 2 < MaskNotWriting
        BY <1>4, QueueFits
      <4>7. QED
        BY <4>4, <4>5, <4>6, WordMeaning
    <3>7. Carries(t) /\ t # s
      BY <1>1, <3>5, <3>6 DEF Carries, Rewinder, Filling
    <3>8. Carries(t)'
      <4>1. pc'[t] = pc[t] /\ loc'[t] = loc[t]
        BY <1>6, <1>9, <3>5, <3>7, GoFacts DEF PipeInv, Return
      <4>2. Current(t, Published + 1)'
        BY <1>2, <1>3, <3>5, <4>1 DEF Current
      <4>3. QED
        BY <1>3, <3>5, <3>6, <4>1, <4>2 DEF Carries, Rewinder, Filling
    <3>9. QED
      BY <3>5, <3>8
  <2>2. Carries(s) => Handled'
    BY <1>2, <1>3, <2>1 DEF Handled
  <2>3. QED
    BY <1>1, <1>5, <1>6, <1>9, <2>2, BackToIdle
<1>10. QED
  BY <1>8, <1>9

-----------------------------------------------------------------------------
(* CasTo, when it reserves.                                                *)

LEMMA SenderUnmoved ==
  ASSUME NEW t \in Senders, Sound(t), pc'[t] = pc[t], loc'[t] = loc[t],
         senderPaceFrom' = senderPaceFrom, mem' = mem, Published' = Published,
         Published \in 0..Len(queue), queue \in Seq(Reservation),
         \A i \in DOMAIN queue : i \in DOMAIN queue' /\ queue'[i] = queue[i],
         \A i \in DOMAIN queue' \ DOMAIN queue : queue'[i].from # t,
         Len(queue') >= Len(queue), Len(queue') \in Nat,
         pc[t] = "loadFrom" /\ (\A i \in DOMAIN queue : queue[i].from # t) =>
           \A i \in DOMAIN queue' \ DOMAIN queue :
             loc[t].msg \notin queue'[i].pos..End(queue'[i])
  PROVE  /\ (Fills(t) /\ Loads(t) /\ Rewinds(t) /\ Publishes(t) /\ Asked(t))'
         /\ \A i \in DOMAIN queue : Current(t, i) => Current(t, i)'
<1>1. \A i : Current(t, i) => Current(t, i)'
  BY DEF Current
<1>2. \A r : /\ Intact(r)' <=> Intact(r)
             /\ Unwritten(r)' <=> Unwritten(r)
             /\ Unflagged(r)' <=> Unflagged(r)
  BY DEF Intact, Unwritten, Unflagged
<1>3. Fills(t)'
  BY <1>1, <1>2 DEF Sound, Fills
<1>4. Loads(t)'
  <2>1. SUFFICES ASSUME pc[t] = "loadFrom" PROVE Loads(t)'
    BY DEF Loads
  <2>2. CASE \E i \in DOMAIN queue : queue[i].from = t
    <3>1. PICK i \in DOMAIN queue : Current(t, i) /\ Intact(queue[i])
      BY <2>1, <2>2 DEF Sound, Loads
    <3>2. i \in DOMAIN queue' /\ Current(t, i)' /\ Intact(queue[i])' /\ queue'[i].from = t
      BY <1>1, <1>2, <3>1 DEF Current
    <3>3. QED
      BY <3>2 DEF Loads
  <2>3. CASE \A i \in DOMAIN queue : queue[i].from # t
    <3>1. /\ senderPaceFrom.ptr # loc[t].msg
          /\ \A i \in DOMAIN queue : loc[t].msg \notin queue[i].pos..End(queue[i])
      BY <2>1, <2>3 DEF Sound, Loads
    <3>2. \A i \in DOMAIN queue' : loc[t].msg \notin queue'[i].pos..End(queue'[i])
      BY <2>1, <2>3, <3>1
    <3>3. \A i \in DOMAIN queue' : queue'[i].from # t
      BY <2>3
    <3>4. QED
      BY <3>1, <3>2, <3>3 DEF Loads
  <2>4. QED
    BY <2>2, <2>3
<1>5. Rewinds(t)'
  <2>1. SUFFICES ASSUME Rewinder(t) PROVE Rewinds(t)'
    BY DEF Rewinds, Rewinder
  <2>2. PICK i \in DOMAIN queue :
          /\ Current(t, i) /\ i > Published
          /\ IF pc[t] = "storeFrom" THEN i = Published + 1
             ELSE i > 1 => loc[t].rewind = End(queue[i - 1])
          /\ pc[t] \in {"spin", "storeFrom"} => Intact(queue[i])
    BY <2>1 DEF Sound, Rewinds
  <2>3. i > 1 => queue'[i - 1] = queue[i - 1]
    <3>1. i > 1 => i - 1 \in DOMAIN queue
      BY Extents
    <3>2. QED
      BY <3>1
  <2>4. /\ i \in DOMAIN queue' /\ Current(t, i)' /\ i > Published' /\ queue'[i] = queue[i]
        /\ IF pc'[t] = "storeFrom" THEN i = Published' + 1
           ELSE i > 1 => loc'[t].rewind = End(queue'[i - 1])
        /\ pc'[t] \in {"spin", "storeFrom"} => Intact(queue[i])'
    BY <1>1, <1>2, <2>2, <2>3
  <2>5. /\ loc[t].msg = 0 /\ senderPaceFrom.ptr # 0
        /\ pc[t] \in {"spin", "storeFrom"} => loc[t].pace.ver = senderPaceFrom.ver
    BY <2>1 DEF Sound, Rewinds
  <2>6. QED
    BY <2>4, <2>5 DEF Rewinds
<1>6. Publishes(t)'
  <2>1. ASSUME Published < Len(queue)
        PROVE  /\ Published' < Len(queue') /\ queue'[Published' + 1] = queue[Published + 1]
    BY <2>1
  <2>2. QED
    BY <1>2, <2>1 DEF Sound, Publishes
<1>7. QED
  BY <1>1, <1>3, <1>4, <1>5, <1>6 DEF Sound, Asked

LEMMA ReserveKeeps ==
  ASSUME PipeInv, TypeOK', NEW s \in Senders, TimelyCasTo(s), senderPaceTo = loc[s].pace
  PROVE  PipeInv' /\ Published' = Published
<1> DEFINE l == loc[s]
           ver == IF l.rewind = NotRewound THEN l.pace.ver ELSE NextVersion(l.pace.ver)
           ll == [Fresh EXCEPT !.n = l.n, !.msg = l.msg, !.rewind = l.rewind]
           R == receiverPace
           F == senderPaceFrom
           T == senderPaceTo
<1>1. PICK a, n, P : /\ a = [from |-> s, size |-> l.n, pos |-> l.msg]
                     /\ n = Len(queue) + 1 /\ P = Published
  OBVIOUS
<1>2. /\ pc[s] = "casTo" /\ senderPaceTo' = Pace(l.next, ver) /\ queue' = Append(queue, a)
      /\ Go(s, "write", ll)
      /\ mem' = mem /\ receiverPace' = R /\ senderPaceFrom' = F
      /\ rpc' = rpc /\ rfrom' = rfrom /\ unblanked' = unblanked
      /\ ~BeforeBlank(s) /\ ~Overtakes(s) /\ ~ReusesVersion(s)
  BY <1>1 DEF TimelyCasTo, CasTo, Reserves, receiverVars
<1>3. TypeOK /\ Placed /\ Sound(s)
  BY DEF PipeInv
<1>4. /\ queue \in Seq(Reservation) /\ R \in Nat /\ F.ptr \in Nat /\ T.ptr \in Nat
      /\ P \in 0..Len(queue) /\ Layout(queue, R, F.ptr, T.ptr, P) /\ Row(queue, R)
      /\ F.ver \in 0..NumVersions - 1 /\ T.ver \in 0..NumVersions - 1
  BY <1>1, <1>3, LaidOut, StateFacts
<1>5. Room(l, R)
  BY <1>2, <1>3 DEF Sound, Reserving
<1>6. l.n \in Nat /\ l.next \in Nat /\ l.msg \in Nat
  BY <1>3, LocalsType
<1>7. a \in Reservation /\ a.from = s /\ a.size = l.n /\ a.pos = l.msg
  BY <1>1, <1>6 DEF Reservation, Places
<1>8. End(a) = l.next /\ l.next >= l.msg + 2
  <2>1. l.next = l.msg + MsgOffset + l.n
    BY <1>5 DEF Room
  <2>2. End(a) = l.msg + (MsgOffset + l.n)
    BY <1>7 DEF End, Need
  <2>3. QED
    BY <1>6, <2>1, <2>2, PipeAssumption
<1>9. /\ pc'[s] = "write" /\ loc'[s] = ll
      /\ \A t \in Senders : t # s => pc'[t] = pc[t] /\ loc'[t] = loc[t]
  BY <1>2, <1>3, GoFacts
<1>10. ll.n = l.n /\ ll.msg = l.msg /\ ll.rewind = l.rewind
  BY DEF Fresh
<1>11. /\ queue' \in Seq(Reservation) /\ Len(queue') = n /\ DOMAIN queue' = 1..n
       /\ \A i \in DOMAIN queue : i \in DOMAIN queue' /\ queue'[i] = queue[i]
       /\ queue'[n] = a
       /\ \A i \in DOMAIN queue' : i \in DOMAIN queue \/ i = n
       /\ n \notin DOMAIN queue /\ n \in DOMAIN queue' /\ n > P /\ n \in Nat
  <2>1. DOMAIN queue = 1..Len(queue) /\ n \notin 1..Len(queue) /\ n \in 1..n /\ n \in Nat
    BY <1>1, <1>4
  <2>2. QED
    BY <1>1, <1>2, <1>4, <1>7, <2>1, AppendFacts
<1>12. T.ptr = l.pace.ptr /\ T.ver = l.pace.ver
  OBVIOUS
<1>13. /\ senderPaceTo'.ptr = l.next /\ senderPaceTo'.ver = ver
  BY <1>2 DEF Pace
<1> HIDE DEF l, ver, ll, R, F, T
<1>14. R <= SizePipe
  BY <1>4 DEF Layout
<1>15. \/ l.rewind = NotRewound /\ l.msg = T.ptr /\ l.next <= SizePipe /\ (T.ptr < R => l.next < R)
       \/ l.rewind # NotRewound /\ l.msg = 0 /\ l.rewind = T.ptr /\ T.ptr >= R /\ l.next < R
  BY <1>5, <1>12 DEF Room
<1>16. Layout(queue', R, F.ptr, End(a), P)
  <2>1. End(a) <= SizePipe
    BY <1>4, <1>6, <1>8, <1>14, <1>15, PipeAssumption
  <2>2. \/ a.pos = T.ptr /\ (T.ptr < R => End(a) < R)
        \/ a.pos = 0 /\ T.ptr >= R /\ End(a) < R
    BY <1>7, <1>8, <1>15
  <2>3. QED
    BY <1>2, <1>4, <1>7, <2>1, <2>2, LayoutAppend
<1>17. /\ Published' = P
       /\ Layout(queue, receiverPace, senderPaceFrom.ptr, senderPaceTo.ptr, Published)'
  <2>1. P \in 0..Len(queue')
    BY <1>1, <1>4, <1>11
  <2>2. Layout(queue', receiverPace', senderPaceFrom'.ptr, senderPaceTo'.ptr, P)
    BY <1>2, <1>8, <1>13, <1>16
  <2>3. QED
    BY <2>1, <2>2, NewLayout
<1>18. T.ver = IF F.ptr >= R /\ T.ptr < R THEN NextVersion(F.ver) ELSE F.ver
  BY <1>3 DEF Placed, Versions, F, R, T
<1>19. T.ptr >= R => F.ptr >= R /\ F.ptr <= T.ptr
  BY <1>4, FromUpTo
<1>20. Placed'
  <2>1. ver = IF F.ptr >= R /\ l.next < R THEN NextVersion(F.ver) ELSE F.ver
    BY <1>4, <1>6, <1>8, <1>12, <1>15, <1>18, <1>19 DEF ver
  <2>2. Versions(receiverPace', senderPaceFrom', senderPaceTo')
    BY <1>2, <1>13, <2>1 DEF Versions, F, R
  <2>3. QED
    BY <1>17, <2>2 DEF Placed
<1>21. ASSUME l.rewind # NotRewound, NEW t \in Senders, pc[t] \in HoldsPace
       PROVE  loc[t].pace.ver # ver
  BY <1>2, <1>21 DEF ReusesVersion, ver, l
<1>22. Row(queue', R)
  BY <1>16 DEF Layout
<1>23. Unwritten(a)'
  <2>1. SUFFICES ASSUME NEW c \in a.pos..End(a) - 1 PROVE mem[c] = Blank
    BY <1>2 DEF Unwritten
  <2>2. c \in DOMAIN mem
    <3>1. End(a) <= SizePipe
      BY <1>11, <1>22 DEF Row
    <3>2. QED
      BY <1>3, <1>6, <1>7, <1>8, <3>1, PipeAssumption DEF TypeOK
  <2>3. ASSUME NEW i \in DOMAIN queue, queue[i].pos <= c, c < End(queue[i]) PROVE FALSE
    <3>1. End(queue[i]) <= a.pos \/ End(a) <= queue[i].pos
      BY <1>4, <1>11, <1>22, ApartBoth
    <3>2. QED
      BY <1>4, <1>6, <1>7, <1>8, <2>3, <3>1, Extents
  <2>4. ~(rpc = "blank" /\ unblanked <= c /\ c < receiverPace)
    <3>1. rpc = "blank" => ~(l.msg < R /\ unblanked < l.msg + MsgOffset + l.n)
      BY <1>2 DEF BeforeBlank, l, R
    <3>2. unblanked \in Nat /\ l.next = l.msg + MsgOffset + l.n
      BY <1>3, <1>5 DEF TypeOK, Places, Room
    <3>3. QED
      BY <1>4, <1>6, <1>7, <1>8, <3>1, <3>2 DEF R
  <2>5. QED
    BY <2>2, <2>3, <2>4 DEF PipeInv, BlankElsewhere
<1>24. Current(s, n)'
  BY <1>1, <1>7, <1>9, <1>10, <1>11 DEF Current
<1>25. ASSUME NEW t \in Senders, t # s
       PROVE  /\ Sound(t)'
              /\ \A i \in DOMAIN queue : Current(t, i) => Current(t, i)'
  <2>1. Sound(t) /\ pc'[t] = pc[t] /\ loc'[t] = loc[t]
    BY <1>9, <1>25 DEF PipeInv
  <2>2. Len(queue') >= Len(queue) /\ Len(queue') \in Nat
    BY <1>1, <1>4, <1>11
  <2>3. \A i \in DOMAIN queue' \ DOMAIN queue : queue'[i] = a
    BY <1>11
  <2>4. ASSUME pc[t] = "loadFrom", \A i \in DOMAIN queue : queue[i].from # t
        PROVE  loc[t].msg \notin a.pos..End(a)
    BY <1>2, <1>7, <1>8, <2>4 DEF Overtakes, l
  <2>5. /\ (Fills(t) /\ Loads(t) /\ Rewinds(t) /\ Publishes(t) /\ Asked(t))'
        /\ \A i \in DOMAIN queue : Current(t, i) => Current(t, i)'
    BY <1>1, <1>2, <1>4, <1>7, <1>11, <1>17, <1>25, <2>1, <2>2, <2>3, <2>4, SenderUnmoved DEF F
  <2>6. loc[t].pace.ptr \in Nat
    BY <1>3, LocalsType
  <2>7. Holds(t)'
    <3>1. CASE l.rewind = NotRewound
      <4>1. ver = T.ver /\ l.next > T.ptr
        BY <1>4, <1>6, <1>8, <1>12, <1>15, <3>1 DEF ver
      <4>2. QED
        BY <1>2, <1>4, <1>6, <1>13, <2>1, <2>6, <4>1 DEF Sound, Holds, T, F
    <3>2. CASE l.rewind # NotRewound
      BY <1>2, <1>13, <1>21, <2>1, <3>2 DEF Sound, Holds, F, ToHolders, FromHolders, HoldsPace
    <3>3. QED
      BY <3>1, <3>2
  <2>8. Reserving(t)'
    <3>1. SUFFICES ASSUME pc[t] = "casTo", senderPaceTo' = loc[t].pace PROVE FALSE
      BY <2>1 DEF Reserving
    <3>2. loc[t].pace.ptr = l.next /\ loc[t].pace.ver = ver
      BY <1>13, <3>1
    <3>3. CASE l.rewind = NotRewound
      <4>1. ver = T.ver /\ l.next > T.ptr
        BY <1>4, <1>6, <1>8, <1>12, <1>15, <3>3 DEF ver
      <4>2. loc[t].pace.ver = T.ver => loc[t].pace.ptr <= T.ptr
        BY <2>1, <3>1 DEF Sound, Holds, T, ToHolders
      <4>3. QED
        BY <1>4, <1>6, <3>2, <4>1, <4>2
    <3>4. CASE l.rewind # NotRewound
      BY <1>21, <3>1, <3>2, <3>4 DEF HoldsPace
    <3>5. QED
      BY <3>3, <3>4
  <2>9. QED
    BY <2>5, <2>7, <2>8 DEF Sound
<1>26. Sound(s)'
  <2>1. Fills(s)'
    <3>1. queue'[n].size = loc'[s].n
      BY <1>7, <1>9, <1>10, <1>11
    <3>2. Unwritten(queue[n])'
      BY <1>11, <1>23
    <3>3. n > Published'
      BY <1>11, <1>17
    <3>4. QED
      BY <1>9, <1>11, <1>24, <3>1, <3>2, <3>3 DEF Fills
  <2>2. Rewinds(s)'
    <3>1. SUFFICES ASSUME l.rewind # NotRewound PROVE Rewinds(s)'
      BY <1>9, <1>10 DEF Rewinds, Rewinder
    <3>2. l.msg = 0 /\ l.rewind = T.ptr /\ T.ptr >= R /\ l.next < R
      BY <1>15, <3>1
    <3>3. F.ptr # 0
      BY <1>4, <1>6, <1>8, <1>19, <3>2
    <3>4. ASSUME n > 1 PROVE l.rewind = End(queue'[n - 1])
      <4>1. queue # <<>> /\ n - 1 = Len(queue) /\ n - 1 \in DOMAIN queue
        BY <1>1, <1>4, <3>4
      <4>2. T.ptr = End(queue[n - 1])
        BY <1>4, <4>1 DEF Layout, ToAt
      <4>3. QED
        BY <1>11, <3>2, <4>1, <4>2
    <3>5. n > Published'
      BY <1>11, <1>17
    <3>6. QED
      BY <1>2, <1>9, <1>10, <1>11, <1>24, <3>2, <3>3, <3>4, <3>5 DEF Rewinds
  <2>3. QED
    BY <1>9, <2>1, <2>2 DEF Sound, Holds, Reserving, Loads, Publishes, Asked, ToHolders,
                            FromHolders, HoldsPace
<1>27. \A r : Intact(r)' <=> Intact(r)
  BY <1>2 DEF Intact
<1>28. ~Rewinder(s) /\ ~Carries(s) /\ pc[s] \notin Filling
  BY <1>2 DEF Rewinder, Carries, Filling
<1>29. ASSUME NEW i \in DOMAIN queue' PROVE Finished(i)' /\ Awaits(i)'
  <2>1. CASE i \in DOMAIN queue
    <3>1. Finished(i) /\ Awaits(i) /\ queue[i].from \in Senders /\ queue'[i] = queue[i]
      BY <1>4, <1>11, <2>1, Extents DEF PipeInv
    <3>2. Finished(i)'
      BY <1>1, <1>9, <1>17, <1>25, <1>27, <1>28, <2>1, <3>1 DEF Finished
    <3>3. PICK t \in Senders : t = queue[i].from
      BY <3>1
    <3>4. ASSUME Rewinder(t), Current(t, i) PROVE Rewinder(t)' /\ Current(t, i)'
      BY <1>9, <1>25, <1>28, <2>1, <3>4 DEF Rewinder
    <3>5. queue'[i].from = t
      BY <3>1, <3>3
    <3>6. Awaits(i)'
      BY <1>1, <1>2, <1>17, <3>1, <3>3, <3>4, <3>5 DEF Awaits, F
    <3>7. QED
      BY <3>2, <3>6
  <2>2. CASE i = n
    <3>1. Finished(n)'
      <4>1. pc'[s] \in Filling
        BY <1>9 DEF Filling
      <4>2. QED
        BY <1>7, <1>11, <1>17, <1>24, <4>1 DEF Finished
    <3>2. Awaits(n)'
      <4>1. SUFFICES ASSUME l.msg = 0, F.ptr # 0 PROVE Rewinder(s)'
        BY <1>2, <1>7, <1>11, <1>24 DEF Awaits, F
      <4>2. l.rewind # NotRewound
        <5>1. SUFFICES ASSUME T.ptr = 0 PROVE FALSE
          BY <1>15, <4>1
        <5>2. T.ptr < R
          BY <1>4, <1>19, <4>1, <5>1
        <5>3. queue # <<>> /\ T.ptr = End(queue[Len(queue)])
          BY <1>4, <5>2 DEF Layout, ToAt
        <5>4. Len(queue) \in DOMAIN queue
          BY <1>4, <5>3
        <5>5. QED
          BY <1>4, <5>1, <5>3, <5>4, Extents
      <4>3. QED
        BY <1>9, <1>10, <4>2 DEF Rewinder
    <3>3. QED
      BY <2>2, <3>1, <3>2
  <2>3. QED
    BY <1>11, <2>1, <2>2
<1>30. Handled'
  <2>1. SUFFICES ASSUME Intact(queue[P + 1])', P < Len(queue')
                 PROVE  \E t \in Senders : Carries(t)'
    BY <1>17 DEF Handled
  <2>2. P < Len(queue)
    <3>1. SUFFICES ASSUME P = Len(queue) PROVE FALSE
      BY <1>4
    <3>2. Intact(a) /\ Unwritten(a)
      BY <1>1, <1>2, <1>11, <1>23, <1>27, <2>1, <3>1 DEF Unwritten
    <3>3. SizeAt(a.pos) \in a.pos..End(a) - 1
      BY <1>7, Extent
    <3>4. Blank = MaskNotWriting + a.size
      BY <3>2, <3>3 DEF Intact, Unwritten
    <3>5. a.size + 2 < MaskNotWriting
      <4>1. End(a) <= SizePipe
        BY <1>11, <1>22 DEF Row
      <4>2. QED
        BY <1>6, <1>7, <4>1, PipeAssumption DEF End, Need
    <3>6. QED
      BY <1>6, <1>7, <3>4, <3>5, PipeAssumption DEF Blank
  <2>3. P + 1 \in DOMAIN queue
    BY <1>4, <2>2
  <2>4. PICK t \in Senders : Carries(t)
    BY <1>1, <1>11, <1>27, <2>1, <2>2, <2>3 DEF PipeInv, Handled
  <2>5. t # s
    BY <1>28, <2>4
  <2>6. Carries(t)'
    BY <1>1, <1>2, <1>9, <1>17, <1>25, <2>3, <2>4, <2>5 DEF Carries, F
  <2>7. QED
    BY <2>6
<1>31. Receives'
  <2>1. P > 0 => queue'[1] = queue[1]
    <3>1. P > 0 => 1 \in DOMAIN queue
      BY <1>4
    <3>2. QED
      BY <1>11, <3>1
  <2>2. ASSUME rpc = "blank", NEW i \in DOMAIN queue'
        PROVE  queue'[i].pos >= R \/ End(queue'[i]) <= unblanked
    <3>1. CASE i \in DOMAIN queue
      BY <1>11, <2>2, <3>1 DEF PipeInv, Receives, R
    <3>2. CASE i = n
      <4>1. ~(l.msg < R /\ unblanked < l.next)
        BY <1>2, <1>5, <2>2 DEF BeforeBlank, Room, l, R
      <4>2. unblanked \in Nat
        BY <1>3 DEF TypeOK, Places
      <4>3. QED
        BY <1>4, <1>6, <1>7, <1>8, <1>11, <3>2, <4>1, <4>2
    <3>3. QED
      BY <1>11, <3>1, <3>2
  <2>3. ASSUME rpc = "poll", rfrom > R PROVE queue'[1].pos = R
    <3>1. rfrom \in Nat
      BY <1>3 DEF TypeOK, Places
    <3>2. rfrom \notin {0, R}
      BY <1>4, <1>6, <2>3, <3>1
    <3>3. P > 0 /\ queue[1].pos = R
      BY <1>1, <2>3, <3>2 DEF PipeInv, Receives, R
    <3>4. QED
      BY <2>1, <3>3
  <2>4. QED
    BY <1>1, <1>2, <1>17, <2>1, <2>2, <2>3 DEF PipeInv, Receives, F, R
<1>32. BlankElsewhere'
  BY <1>2, <1>11 DEF PipeInv, BlankElsewhere, R
<1>33. \A t \in Senders : Sound(t)'
  BY <1>25, <1>26
<1>34. PipeInv'
  BY <1>20, <1>29, <1>30, <1>31, <1>32, <1>33 DEF PipeInv
<1>35. QED
  BY <1>1, <1>17, <1>34

-----------------------------------------------------------------------------
(* The steps that write into the pipe.                                     *)

LEMMA Unfinished ==
  ASSUME PipeInv, NEW s \in Senders, pc[s] \in Filling, NEW i, Current(s, i)
  PROVE  /\ ~Intact(queue[i]) /\ i \in DOMAIN queue /\ i > Published
         /\ queue[i].from = s /\ queue[i].pos = loc[s].msg /\ queue[i].size = loc[s].n
         /\ IF pc[s] = "write" THEN Unwritten(queue[i]) ELSE Unflagged(queue[i])
<1>1. TypeOK /\ Placed /\ queue \in Seq(Reservation) /\ i \in DOMAIN queue
  BY StateFacts DEF PipeInv, Current
<1>2. PICK j \in DOMAIN queue :
        /\ Current(s, j) /\ j > Published /\ queue[j].size = loc[s].n
        /\ IF pc[s] = "write" THEN Unwritten(queue[j]) ELSE Unflagged(queue[j])
  BY DEF PipeInv, Sound, Fills
<1>3. i = j
  BY <1>1, <1>2, OneCurrent
<1>4. ~Intact(queue[i])
  <2>1. SUFFICES ASSUME Intact(queue[i]) PROVE FALSE
    OBVIOUS
  <2>2. SizeWords(queue[i].pos) = {MaskNotWriting + queue[i].size}
    BY <1>1, <2>1, SizeWord
  <2>3. SizeWords(queue[i].pos) \in {{Blank}, {queue[i].size}}
    BY <1>1, <1>2, <1>3, SizeWord
  <2>4. queue[i].size \in Nat /\ queue[i].size + 2 < MaskNotWriting
    BY <1>1, QueueFits
  <2>5. QED
    BY <2>2, <2>3, <2>4, PipeAssumption DEF Blank
<1>5. QED
  BY <1>1, <1>2, <1>3, <1>4 DEF Current

\* Cells outside a reservation keep what they hold.
LEMMA CellsKept ==
  ASSUME NEW r, \A c \in r.pos..End(r) - 1 : mem'[c] = mem[c]
  PROVE  /\ Intact(r)' <=> Intact(r)
         /\ Unwritten(r)' <=> Unwritten(r)
         /\ Unflagged(r)' <=> Unflagged(r)
BY DEF Intact, Unwritten, Unflagged

LEMMA FillStep ==
  ASSUME PipeInv, TypeOK', NEW s \in Senders, pc[s] \in Filling,
         NEW i, Current(s, i), NEW label, NEW l, Go(s, label, l), l.msg = loc[s].msg,
         \A c \in DOMAIN mem : ~(queue[i].pos <= c /\ c < End(queue[i])) => mem'[c] = mem[c],
         receiverPace' = receiverPace, senderPaceFrom' = senderPaceFrom,
         senderPaceTo' = senderPaceTo, queue' = queue, UNCHANGED receiverVars,
         Rewinder(s) => Rewinder(s)',
         Sound(s)', Finished(i)', i = Published + 1 /\ Intact(queue[i])' => Carries(s)'
  PROVE  /\ PipeInv'
         /\ \A j \in DOMAIN queue : j # i => (Intact(queue[j])' <=> Intact(queue[j]))
<1>1. /\ TypeOK /\ Placed /\ queue \in Seq(Reservation) /\ Row(queue, receiverPace)
      /\ receiverPace \in Nat
      /\ DOMAIN mem = 0..SizePipe - 1 /\ DOMAIN mem' = DOMAIN mem
  BY LaidOut DEF PipeInv, TypeOK
<1>2. Published' = Published
  BY DEF Published
<1>3. /\ pc'[s] = label /\ loc'[s] = l
      /\ \A t \in Senders : t # s => pc'[t] = pc[t] /\ loc'[t] = loc[t]
  BY <1>1, GoFacts
<1>4. /\ ~Intact(queue[i]) /\ i \in DOMAIN queue /\ i > Published /\ queue[i].from = s
  BY Unfinished
<1>5. ASSUME NEW j \in DOMAIN queue, j # i
      PROVE  /\ Intact(queue[j])' <=> Intact(queue[j])
             /\ Unwritten(queue[j])' <=> Unwritten(queue[j])
             /\ Unflagged(queue[j])' <=> Unflagged(queue[j])
  <2>1. PICK r : r = queue[j]
    OBVIOUS
  <2>2. ASSUME NEW c \in r.pos..End(r) - 1 PROVE mem'[c] = mem[c]
    <3>1. End(queue[i]) <= queue[j].pos \/ End(queue[j]) <= queue[i].pos
      BY <1>1, <1>4, <1>5, ApartBoth
    <3>2. /\ queue[i].pos \in Nat /\ End(queue[i]) \in Nat
          /\ queue[j].pos \in Nat /\ End(queue[j]) \in Nat /\ End(queue[j]) <= SizePipe
      BY <1>1, <1>4, Extents DEF Row
    <3>3. c \in Nat /\ queue[j].pos <= c /\ c < End(queue[j])
      BY <2>1, <3>2
    <3>4. c \in DOMAIN mem
      BY <1>1, <3>2, <3>3, PipeAssumption
    <3>5. ~(queue[i].pos <= c /\ c < End(queue[i]))
      BY <3>1, <3>2, <3>3
    <3>6. QED
      BY <3>4, <3>5
  <2>3. /\ Intact(r)' <=> Intact(r)
        /\ Unwritten(r)' <=> Unwritten(r)
        /\ Unflagged(r)' <=> Unflagged(r)
    BY <2>2, CellsKept
  <2>4. r = queue'[j]
    BY <2>1
  <2>5. QED
    BY <2>1, <2>3, <2>4 DEF Intact, Unwritten, Unflagged
<1>6. \A t \in Senders : \A j : Current(t, j) => Current(t, j)'
  BY <1>3 DEF Current
<1>7. ASSUME NEW t \in Senders, t # s PROVE Sound(t)'
  <2>1. Sound(t) /\ pc'[t] = pc[t] /\ loc'[t] = loc[t]
    BY <1>3, <1>7 DEF PipeInv
  <2>2. \A j \in DOMAIN queue : Current(t, j) => j # i
    BY <1>4, <1>7 DEF Current
  <2>3. (Holds(t) /\ Reserving(t) /\ Asked(t))'
    BY <2>1 DEF Sound, Holds, Reserving, Asked
  <2>4. Fills(t)'
    BY <1>2, <1>5, <1>6, <2>1, <2>2 DEF Sound, Fills
  <2>5. Loads(t)'
    BY <1>5, <1>6, <2>1, <2>2 DEF Sound, Loads
  <2>6. Rewinds(t)'
    BY <1>2, <1>5, <1>6, <2>1, <2>2 DEF Sound, Rewinds, Rewinder
  <2>7. Publishes(t)'
    <3>1. ASSUME Published < Len(queue), Intact(queue[Published + 1])
          PROVE  Intact(queue[Published + 1])'
      <4>1. Published + 1 \in DOMAIN queue
        BY <1>1, <3>1, LaidOut
      <4>2. PICK j \in DOMAIN queue : j = Published + 1
        BY <4>1
      <4>3. Intact(queue[j])'
        BY <1>4, <1>5, <3>1, <4>2
      <4>4. QED
        BY <1>2, <4>2, <4>3
    <3>2. QED
      BY <1>2, <2>1, <3>1 DEF Sound, Publishes
  <2>8. QED
    BY <2>3, <2>4, <2>5, <2>6, <2>7 DEF Sound
<1>8. ASSUME NEW j \in DOMAIN queue PROVE Finished(j)' /\ Awaits(j)'
  <2>1. PICK t \in Senders : t = queue[j].from
    BY <1>1, Extents
  <2>2. Finished(j) /\ Awaits(j)
    BY DEF PipeInv
  <2>3. Finished(j)'
    <3>1. CASE j = i
      BY <3>1
    <3>2. CASE j # i
      <4>1. CASE Intact(queue[j])
        BY <1>5, <3>2, <4>1 DEF Finished
      <4>2. CASE j > Published /\ pc[t] \in Filling /\ Current(t, j)
        <5>1. t # s
          <6>1. SUFFICES ASSUME t = s PROVE FALSE
            OBVIOUS
          <6>2. i = j
            BY <1>1, <4>2, <6>1, OneCurrent
          <6>3. QED
            BY <3>2, <6>2
        <5>2. pc'[t] \in Filling /\ Current(t, j)'
          BY <1>3, <1>6, <4>2, <5>1
        <5>3. QED
          BY <1>2, <2>1, <4>2, <5>2 DEF Finished
      <4>3. QED
        BY <2>1, <2>2, <4>1, <4>2 DEF Finished
    <3>3. QED
      BY <3>1, <3>2
  <2>4. Awaits(j)'
    <3>1. ASSUME Rewinder(t), Current(t, j) PROVE Rewinder(t)' /\ Current(t, j)'
      BY <1>3, <1>6, <3>1 DEF Rewinder
    <3>2. QED
      BY <1>2, <2>1, <2>2, <3>1 DEF Awaits
  <2>5. QED
    BY <2>3, <2>4
<1>9. Handled'
  <2>1. SUFFICES ASSUME Published < Len(queue), Intact(queue[Published + 1])'
                 PROVE  \E t \in Senders : Carries(t)'
    BY <1>2 DEF Handled
  <2>2. PICK j \in DOMAIN queue : j = Published + 1
    BY <1>1, <2>1, LaidOut
  <2>3. Intact(queue[j])'
    BY <1>2, <2>1, <2>2
  <2>4. CASE j = i
    BY <2>2, <2>3, <2>4
  <2>5. CASE j # i
    <3>1. Intact(queue[j])
      BY <1>5, <2>3, <2>5
    <3>2. PICK t \in Senders : Carries(t)
      BY <2>1, <2>2, <3>1 DEF PipeInv, Handled
    <3>3. t # s
      BY <3>2 DEF Carries, Filling
    <3>4. Carries(t)'
      <4>1. Current(t, j) => Current(t, j)'
        BY <1>6
      <4>2. QED
        BY <1>2, <1>3, <2>2, <3>2, <3>3, <4>1 DEF Carries
    <3>5. QED
      BY <3>4
  <2>6. QED
    BY <2>4, <2>5
<1>10. BlankElsewhere'
  <2>1. SUFFICES ASSUME NEW c \in DOMAIN mem
                 PROVE  \/ mem'[c] = Blank
                        \/ \E j \in DOMAIN queue : queue[j].pos <= c /\ c < End(queue[j])
                        \/ rpc = "blank" /\ unblanked <= c /\ c < receiverPace
    BY <1>1 DEF BlankElsewhere, receiverVars
  <2>2. CASE queue[i].pos <= c /\ c < End(queue[i])
    BY <1>4, <2>2
  <2>3. CASE ~(queue[i].pos <= c /\ c < End(queue[i]))
    BY <2>3 DEF PipeInv, BlankElsewhere
  <2>4. QED
    BY <2>2, <2>3
<1>11. Placed' /\ Receives'
  BY <1>1, <1>2 DEF Placed, Receives, receiverVars, PipeInv
<1>12. \A t \in Senders : Sound(t)'
  BY <1>7
<1>13. PipeInv'
  BY <1>8, <1>9, <1>10, <1>11, <1>12 DEF PipeInv
<1>14. QED
  BY <1>5, <1>13

LEMMA WriteMsgKeeps ==
  ASSUME PipeInv, TypeOK', NEW s \in Senders, WriteMsg(s)
  PROVE  PipeInv' /\ \A j \in DOMAIN queue : Intact(queue[j])' <=> Intact(queue[j])
<1>1. /\ pc[s] = "write" /\ Go(s, "setReady", loc[s])
      /\ mem' = [c \in DOMAIN mem |->
                   IF c = SizeAt(loc[s].msg) THEN loc[s].n
                   ELSE IF loc[s].msg <= c /\ c < loc[s].msg + MsgOffset + loc[s].n THEN s
                   ELSE mem[c]]
      /\ receiverPace' = receiverPace /\ senderPaceFrom' = senderPaceFrom
      /\ senderPaceTo' = senderPaceTo /\ queue' = queue /\ UNCHANGED receiverVars
  BY DEF WriteMsg
<1>2. TypeOK /\ Placed /\ pc[s] \in Filling
  BY <1>1 DEF PipeInv, Filling
<1>3. PICK i \in DOMAIN queue : Current(s, i)
  BY <1>2 DEF PipeInv, Sound, Fills
<1>4. /\ queue[i].from = s /\ queue[i].pos = loc[s].msg /\ queue[i].size = loc[s].n
      /\ i > Published
  BY <1>2, <1>3, Unfinished
<1>5. /\ pc'[s] = "setReady" /\ loc'[s] = loc[s]
      /\ \A t \in Senders : t # s => pc'[t] = pc[t] /\ loc'[t] = loc[t]
  BY <1>1, <1>2, GoFacts
<1>6. End(queue[i]) = loc[s].msg + MsgOffset + loc[s].n
  <2>1. loc[s].msg \in Nat /\ loc[s].n \in Nat
    BY <1>2, LocalsType
  <2>2. QED
    BY <1>4, <2>1, PipeAssumption DEF End, Need
<1>7. /\ queue[i].pos \in Nat /\ End(queue[i]) \in Nat /\ End(queue[i]) <= SizePipe
      /\ SizeAt(queue[i].pos) \in queue[i].pos..End(queue[i]) - 1
      /\ DOMAIN mem = 0..SizePipe - 1
  BY <1>2, QueueFits, Extent DEF TypeOK
<1>8. ASSUME NEW c \in DOMAIN mem, ~(queue[i].pos <= c /\ c < End(queue[i]))
      PROVE  mem'[c] = mem[c]
  BY <1>1, <1>4, <1>6, <1>7, <1>8
<1>9. Unflagged(queue[i])'
  <2>1. SUFFICES ASSUME NEW c \in queue[i].pos..End(queue[i]) - 1
                 PROVE  mem'[c] = IF c = SizeAt(queue[i].pos) THEN queue[i].size ELSE queue[i].from
    BY <1>1 DEF Unflagged
  <2>2. c \in DOMAIN mem /\ queue[i].pos <= c /\ c < End(queue[i])
    BY <1>7, PipeAssumption
  <2>3. QED
    BY <1>1, <1>4, <1>6, <2>2
<1>10. Published' = Published
  BY <1>1 DEF Published
<1>11. Current(s, i)'
  BY <1>1, <1>3, <1>5 DEF Current
<1>12. Finished(i)'
  BY <1>1, <1>4, <1>5, <1>10, <1>11 DEF Finished, Filling
<1>13. Rewinder(s) => Rewinder(s)'
  BY <1>1, <1>5 DEF Rewinder
<1>14. Fills(s)'
  BY <1>1, <1>4, <1>5, <1>9, <1>10, <1>11 DEF Fills
<1>15. Rewinds(s)'
  <2>1. SUFFICES ASSUME Rewinder(s) PROVE Rewinds(s)'
    BY <1>1, <1>5 DEF Rewinds, Rewinder
  <2>2. PICK j \in DOMAIN queue : /\ Current(s, j) /\ j > Published
                                  /\ j > 1 => loc[s].rewind = End(queue[j - 1])
    BY <1>1, <2>1 DEF PipeInv, Sound, Rewinds
  <2>3. Current(s, j)'
    BY <1>1, <1>5, <2>2 DEF Current
  <2>4. loc[s].msg = 0 /\ senderPaceFrom.ptr # 0
    BY <2>1 DEF PipeInv, Sound, Rewinds
  <2>5. QED
    BY <1>1, <1>5, <1>10, <2>2, <2>3, <2>4 DEF Rewinds
<1>16. Sound(s)'
  BY <1>5, <1>14, <1>15 DEF Sound, Holds, Reserving, Loads, Publishes, Asked, ToHolders,
                            FromHolders, HoldsPace
<1>17. ~Intact(queue[i])'
  <2>1. PICK c : c = SizeAt(queue[i].pos)
    OBVIOUS
  <2>2. mem'[c] = queue[i].size /\ c \in queue[i].pos..End(queue[i]) - 1
    BY <1>1, <1>7, <1>9, <2>1 DEF Unflagged
  <2>3. queue[i].size \in Nat /\ queue[i].size # MaskNotWriting + queue[i].size
    BY <1>2, QueueFits, PipeAssumption
  <2>4. QED
    BY <1>1, <2>1, <2>2, <2>3 DEF Intact
<1>18. /\ PipeInv'
       /\ \A j \in DOMAIN queue : j # i => (Intact(queue[j])' <=> Intact(queue[j]))
  BY <1>1, <1>2, <1>3, <1>8, <1>12, <1>13, <1>16, <1>17, FillStep
<1>19. ~Intact(queue[i])
  BY <1>2, <1>3, Unfinished
<1>20. QED
  BY <1>17, <1>18, <1>19

LEMMA MarkReadyKeeps ==
  ASSUME PipeInv, TypeOK', NEW s \in Senders, MarkReady(s)
  PROVE  /\ PipeInv'
         /\ \E i \in DOMAIN queue :
              /\ ~Intact(queue[i]) /\ Intact(queue[i])'
              /\ \A j \in DOMAIN queue : j # i => (Intact(queue[j])' <=> Intact(queue[j]))
<1> DEFINE l == [Fresh EXCEPT !.msg = loc[s].msg, !.rewind = loc[s].rewind]
<1>1. /\ pc[s] = "setReady" /\ Go(s, "loadFrom", l)
      /\ \E w \in SizeWords(loc[s].msg) :
           mem' = [mem EXCEPT ![SizeAt(loc[s].msg)] = SetReady(w)]
      /\ receiverPace' = receiverPace /\ senderPaceFrom' = senderPaceFrom
      /\ senderPaceTo' = senderPaceTo /\ queue' = queue /\ UNCHANGED receiverVars
  BY DEF MarkReady
<1>2. TypeOK /\ Placed /\ pc[s] \in Filling
  BY <1>1 DEF PipeInv, Filling
<1>3. PICK i \in DOMAIN queue : Current(s, i)
  BY <1>2 DEF PipeInv, Sound, Fills
<1>4. /\ queue[i].from = s /\ queue[i].pos = loc[s].msg /\ Unflagged(queue[i])
      /\ i > Published
  BY <1>1, <1>2, <1>3, Unfinished
<1>5. l.msg = loc[s].msg /\ l.rewind = loc[s].rewind
  BY DEF Fresh
<1> HIDE DEF l
<1>6. /\ pc'[s] = "loadFrom" /\ loc'[s] = l
      /\ \A t \in Senders : t # s => pc'[t] = pc[t] /\ loc'[t] = loc[t]
  BY <1>1, <1>2, GoFacts
<1>7. /\ queue[i].pos \in Nat /\ End(queue[i]) \in Nat /\ End(queue[i]) <= SizePipe
      /\ SizeAt(queue[i].pos) \in queue[i].pos..End(queue[i]) - 1
      /\ DOMAIN mem = 0..SizePipe - 1
      /\ queue[i].size \in Nat /\ queue[i].size + 2 < MaskNotWriting
  BY <1>2, QueueFits, Extent DEF TypeOK
<1>8. mem' = [mem EXCEPT ![SizeAt(queue[i].pos)] = MaskNotWriting + queue[i].size]
  <2>1. SizeWords(loc[s].msg) = {queue[i].size}
    BY <1>2, <1>4, SizeWord
  <2>2. SetReady(queue[i].size) = MaskNotWriting + queue[i].size
    BY <1>7, WordMeaning
  <2>3. QED
    BY <1>1, <1>4, <2>1, <2>2
<1>9. ASSUME NEW c \in DOMAIN mem, ~(queue[i].pos <= c /\ c < End(queue[i]))
      PROVE  mem'[c] = mem[c]
  BY <1>7, <1>8, <1>9
<1>10. Intact(queue[i])'
  <2>1. SUFFICES ASSUME NEW c \in queue[i].pos..End(queue[i]) - 1
                 PROVE  mem'[c] = IF c = SizeAt(queue[i].pos)
                                  THEN MaskNotWriting + queue[i].size ELSE queue[i].from
    BY <1>1 DEF Intact
  <2>2. c \in DOMAIN mem
    BY <1>7, PipeAssumption
  <2>3. mem[c] = IF c = SizeAt(queue[i].pos) THEN queue[i].size ELSE queue[i].from
    BY <1>4 DEF Unflagged
  <2>4. QED
    BY <1>8, <2>2, <2>3
<1>11. Published' = Published
  BY <1>1 DEF Published
<1>12. Current(s, i)'
  BY <1>1, <1>3, <1>5, <1>6 DEF Current
<1>13. Finished(i)'
  BY <1>10 DEF Finished
<1>14. Rewinder(s) => Rewinder(s)'
  BY <1>1, <1>5, <1>6 DEF Rewinder
<1>15. Loads(s)'
  BY <1>1, <1>4, <1>10, <1>12 DEF Loads
<1>16. Rewinds(s)'
  <2>1. SUFFICES ASSUME Rewinder(s) PROVE Rewinds(s)'
    BY <1>1, <1>5, <1>6 DEF Rewinds, Rewinder
  <2>2. PICK j \in DOMAIN queue : /\ Current(s, j) /\ j > Published
                                  /\ j > 1 => loc[s].rewind = End(queue[j - 1])
    BY <1>1, <2>1 DEF PipeInv, Sound, Rewinds
  <2>3. Current(s, j)'
    BY <1>1, <1>5, <1>6, <2>2 DEF Current
  <2>4. loc[s].msg = 0 /\ senderPaceFrom.ptr # 0
    BY <2>1 DEF PipeInv, Sound, Rewinds
  <2>5. QED
    BY <1>1, <1>5, <1>6, <1>11, <2>2, <2>3, <2>4 DEF Rewinds
<1>17. Sound(s)'
  BY <1>6, <1>15, <1>16 DEF Sound, Holds, Reserving, Fills, Publishes, Asked, ToHolders,
                            FromHolders, HoldsPace, Filling
<1>18. i = Published + 1 => Carries(s)'
  BY <1>6, <1>11, <1>12 DEF Carries
<1>19. /\ PipeInv'
       /\ \A j \in DOMAIN queue : j # i => (Intact(queue[j])' <=> Intact(queue[j]))
  BY <1>1, <1>2, <1>3, <1>5, <1>9, <1>13, <1>14, <1>17, <1>18, FillStep
<1>20. ~Intact(queue[i])
  BY <1>2, <1>3, Unfinished
<1>21. QED
  BY <1>10, <1>19, <1>20

-----------------------------------------------------------------------------
(* The steps that move sender_pace_from_.                                  *)

LEMMA OtherVersion ==
  ASSUME NEW v \in 0..NumVersions - 1
  PROVE  NextVersion(v) # v /\ NextVersion(v) \in 0..NumVersions - 1
BY PipeAssumption DEF NextVersion

\* CasFrom, when it publishes.
LEMMA PublishKeeps ==
  ASSUME PipeInv, TypeOK', NEW s \in Senders, CasFrom(s), senderPaceFrom = loc[s].pace
  PROVE  /\ PipeInv' /\ Published' = Published + 1
         /\ Published < Len(queue) /\ Intact(queue[Published + 1])
<1> DEFINE F == senderPaceFrom
           pace == Pace(loc[s].next, loc[s].pace.ver)
<1>1. PICK k, f : k = Published + 1 /\ f = End(queue[k])
  OBVIOUS
<1>2. /\ pc[s] = "casFrom" /\ senderPaceFrom' = pace
      /\ Go(s, "checkTo", [Fresh EXCEPT !.pace = pace])
      /\ mem' = mem /\ receiverPace' = receiverPace /\ senderPaceTo' = senderPaceTo
      /\ queue' = queue /\ rpc' = rpc /\ rfrom' = rfrom /\ unblanked' = unblanked
  BY DEF CasFrom, receiverVars
<1>3. TypeOK /\ Placed /\ Sound(s)
  BY DEF PipeInv
<1>4. /\ queue \in Seq(Reservation) /\ receiverPace \in Nat /\ F.ptr \in Nat
      /\ senderPaceTo.ptr \in Nat /\ Published \in 0..Len(queue) /\ Row(queue, receiverPace)
      /\ Layout(queue, receiverPace, F.ptr, senderPaceTo.ptr, Published)
  BY <1>3, LaidOut
<1>5. /\ Published < Len(queue) /\ queue[k].pos = F.ptr /\ Intact(queue[k])
      /\ loc[s].next = f
  BY <1>1, <1>2, <1>3 DEF Sound, Publishes
<1>6. k \in DOMAIN queue /\ k \in 1..Len(queue) /\ k \in Nat
  BY <1>1, <1>4, <1>5
<1>7. /\ Layout(queue, receiverPace, f, senderPaceTo.ptr, k)
      /\ F.ptr >= receiverPace <=> f >= receiverPace
      /\ F.ptr < f /\ f \in Nat
  BY <1>1, <1>4, <1>5, LayoutAdvance
<1>8. senderPaceFrom'.ptr = f /\ senderPaceFrom'.ver = F.ver
  BY <1>2, <1>5 DEF Pace
<1>9. /\ Published' = k
      /\ Layout(queue, receiverPace, senderPaceFrom.ptr, senderPaceTo.ptr, Published)'
  <2>1. /\ k \in 0..Len(queue')
        /\ Layout(queue', receiverPace', senderPaceFrom'.ptr, senderPaceTo'.ptr, k)
    BY <1>2, <1>6, <1>7, <1>8
  <2>2. QED
    BY <2>1, NewLayout
<1>10. Placed'
  <2>1. Versions(receiverPace, senderPaceFrom, senderPaceTo)
    BY <1>3 DEF Placed
  <2>2. Versions(receiverPace', senderPaceFrom', senderPaceTo')
    BY <1>2, <1>7, <1>8, <2>1 DEF Versions
  <2>3. QED
    BY <1>9, <2>2 DEF Placed
<1>11. /\ pc'[s] = "checkTo" /\ loc'[s].pace = senderPaceFrom'
       /\ \A t \in Senders : t # s => pc'[t] = pc[t] /\ loc'[t] = loc[t]
  BY <1>2, <1>3, GoFacts DEF Fresh
<1>12. \A r : /\ Intact(r)' <=> Intact(r)
              /\ Unwritten(r)' <=> Unwritten(r)
              /\ Unflagged(r)' <=> Unflagged(r)
  BY <1>2 DEF Intact, Unwritten, Unflagged
<1>13. \A t \in Senders : \A i : t # s => (Current(t, i)' <=> Current(t, i))
  BY <1>2, <1>11 DEF Current
<1> HIDE DEF F
<1>14. ASSUME NEW i \in DOMAIN queue, i > Published, i # k PROVE i > k /\ i \in 1..Len(queue)
  BY <1>1, <1>4, <1>14
<1>15. ASSUME NEW t \in Senders, t # s PROVE Sound(t)'
  <2>1. Sound(t) /\ pc'[t] = pc[t] /\ loc'[t] = loc[t]
    BY <1>11, <1>15 DEF PipeInv
  <2>2. Reserving(t)' /\ Asked(t)'
    BY <1>2, <2>1 DEF Sound, Reserving, Asked
  <2>3. loc[t].pace.ptr \in Nat
    BY <1>3, LocalsType
  <2>4. pc[t] \in FromHolders /\ loc[t].pace.ver = F.ver => loc[t].pace.ptr <= F.ptr
    BY <2>1 DEF Sound, Holds, F
  <2>5. Holds(t)'
    <3>1. pc[t] \in FromHolders /\ loc[t].pace.ver = F.ver => loc[t].pace.ptr <= f
      BY <1>4, <1>7, <2>3, <2>4
    <3>2. QED
      BY <1>2, <1>8, <2>1, <3>1 DEF Sound, Holds, F
  <2>6. Fills(t)'
    <3>1. SUFFICES ASSUME pc[t] \in Filling PROVE Fills(t)'
      BY <2>1 DEF Fills
    <3>2. PICK i \in DOMAIN queue :
            /\ Current(t, i) /\ i > Published /\ queue[i].size = loc[t].n
            /\ IF pc[t] = "write" THEN Unwritten(queue[i]) ELSE Unflagged(queue[i])
      BY <2>1, <3>1 DEF Sound, Fills
    <3>3. i # k
      BY <1>5, <3>1, <3>2, Unfinished
    <3>4. i > Published'
      BY <1>9, <1>14, <3>2, <3>3
    <3>5. QED
      BY <1>2, <1>12, <1>13, <1>15, <2>1, <3>2, <3>4 DEF Fills
  <2>7. Loads(t)'
    <3>1. ASSUME pc[t] = "loadFrom", \A i \in DOMAIN queue : queue[i].from # t
          PROVE  f # loc[t].msg
      <4>1. loc[t].msg \notin queue[k].pos..f
        BY <1>1, <1>6, <2>1, <3>1 DEF Sound, Loads
      <4>2. QED
        BY <1>4, <1>5, <1>7, <4>1 DEF F
    <3>2. QED
      BY <1>2, <1>8, <1>12, <1>13, <1>15, <2>1, <3>1 DEF Sound, Loads
  <2>8. Rewinds(t)'
    <3>1. SUFFICES ASSUME Rewinder(t) PROVE Rewinds(t)'
      BY <2>1 DEF Rewinds, Rewinder
    <3>2. /\ loc[t].msg = 0 /\ F.ptr # 0
          /\ pc[t] \in {"spin", "storeFrom"} => loc[t].pace.ver = F.ver
      BY <2>1, <3>1 DEF Sound, Rewinds, F
    <3>3. PICK i \in DOMAIN queue :
            /\ Current(t, i) /\ i > Published
            /\ IF pc[t] = "storeFrom" THEN i = Published + 1
               ELSE i > 1 => loc[t].rewind = End(queue[i - 1])
            /\ pc[t] \in {"spin", "storeFrom"} => Intact(queue[i])
      BY <2>1, <3>1 DEF Sound, Rewinds
    <3>4. queue[i].pos = 0
      BY <3>2, <3>3 DEF Current
    <3>5. i # k
      BY <1>5, <3>2, <3>4
    <3>6. i > Published' /\ pc[t] # "storeFrom"
      BY <1>1, <1>9, <1>14, <3>3, <3>5
    <3>7. f # 0
      BY <1>4, <1>7
    <3>8. QED
      BY <1>2, <1>8, <1>12, <1>13, <1>15, <2>1, <3>2, <3>3, <3>6, <3>7 DEF Rewinds
  <2>9. Publishes(t)'
    <3>1. SUFFICES ASSUME loc[t].pace = senderPaceFrom', pc[t] \in FromHolders PROVE FALSE
      BY <2>1 DEF Publishes, FromHolders, HoldsPace, ToHolders
    <3>2. QED
      BY <1>4, <1>7, <1>8, <2>4, <3>1
  <2>10. QED
    BY <2>2, <2>5, <2>6, <2>7, <2>8, <2>9 DEF Sound
<1>16. Sound(s)'
  <2>1. Holds(s)'
    <3>1. /\ loc[s].pace.ver = F.ver
          /\ F.ver # senderPaceTo.ver => loc[s].pace.ver # senderPaceTo.ver
      BY DEF F
    <3>2. QED
      BY <1>2, <1>7, <1>8, <1>11 DEF Holds, ToHolders
  <2>2. QED
    BY <1>11, <2>1 DEF Sound, Reserving, Fills, Loads, Rewinds, Rewinder, Publishes, Asked, Filling
<1>17. ~Rewinder(s) /\ pc[s] \notin Filling
  BY <1>2 DEF Rewinder, Filling
<1>18. ASSUME NEW i \in DOMAIN queue PROVE Finished(i)' /\ Awaits(i)'
  <2>1. PICK t \in Senders : t = queue[i].from
    BY <1>4, Extents
  <2>2. Finished(i) /\ Awaits(i)
    BY DEF PipeInv
  <2>3. Finished(i)'
    <3>1. CASE Intact(queue[i])
      BY <1>2, <1>12, <3>1 DEF Finished
    <3>2. CASE ~Intact(queue[i])
      <4>1. i > Published /\ pc[t] \in Filling /\ Current(t, i) /\ t # s /\ i # k
        BY <1>5, <1>17, <2>1, <2>2, <3>2 DEF Finished
      <4>2. i > Published' /\ pc'[t] \in Filling /\ Current(t, i)'
        BY <1>9, <1>11, <1>13, <1>14, <4>1
      <4>3. QED
        BY <1>2, <2>1, <4>2 DEF Finished
    <3>3. QED
      BY <3>1, <3>2
  <2>4. Awaits(i)'
    <3>1. SUFFICES ASSUME i > k, queue[i].pos = 0 PROVE Rewinder(t)' /\ Current(t, i)'
      BY <1>2, <1>9, <2>1 DEF Awaits
    <3>2. F.ptr # 0
      <4>1. i # k
        BY <1>6, <3>1
      <4>2. QED
        BY <1>4, <1>5, <1>6, <3>1, <4>1, ApartBoth
    <3>3. i > Published
      BY <1>1, <1>4, <3>1, Extents
    <3>4. Rewinder(t) /\ Current(t, i)
      BY <2>1, <2>2, <3>1, <3>2, <3>3 DEF Awaits, F
    <3>5. t # s
      BY <1>17, <3>4
    <3>6. QED
      BY <1>11, <1>13, <3>4, <3>5 DEF Rewinder
  <2>5. QED
    BY <2>3, <2>4
<1>19. Handled'
  <2>1. Carries(s)'
    BY <1>11 DEF Carries
  <2>2. QED
    BY <2>1 DEF Handled
<1>20. Receives'
  <2>1. k > 0
    BY <1>6
  <2>2. F.ptr < receiverPace => f < receiverPace
    BY <1>4, <1>7
  <2>3. QED
    BY <1>2, <1>8, <1>9, <2>1, <2>2 DEF PipeInv, Receives, F
<1>21. BlankElsewhere'
  BY <1>2 DEF PipeInv, BlankElsewhere
<1>22. \A t \in Senders : Sound(t)'
  BY <1>15, <1>16
<1>23. PipeInv'
  BY <1>2, <1>10, <1>18, <1>19, <1>20, <1>21, <1>22 DEF PipeInv
<1>24. QED
  BY <1>1, <1>5, <1>9, <1>23

LEMMA StoreFromKeeps ==
  ASSUME PipeInv, TypeOK', NEW s \in Senders, StoreFrom(s)
  PROVE  PipeInv' /\ Published' = Published
<1> DEFINE F == senderPaceFrom
           T == senderPaceTo
           pace == Pace(0, NextVersion(loc[s].pace.ver))
<1>1. PICK k : k = Published + 1
  OBVIOUS
<1>2. /\ pc[s] = "storeFrom" /\ senderPaceFrom' = pace
      /\ Go(s, "loadSize", [Fresh EXCEPT !.pace = pace])
      /\ mem' = mem /\ receiverPace' = receiverPace /\ senderPaceTo' = senderPaceTo
      /\ queue' = queue /\ rpc' = rpc /\ rfrom' = rfrom /\ unblanked' = unblanked
  BY DEF StoreFrom, receiverVars
<1>3. TypeOK /\ Placed /\ Sound(s)
  BY DEF PipeInv
<1>4. /\ queue \in Seq(Reservation) /\ receiverPace \in Nat /\ F.ptr \in Nat
      /\ T.ptr \in Nat /\ Published \in 0..Len(queue) /\ Row(queue, receiverPace)
      /\ Layout(queue, receiverPace, F.ptr, T.ptr, Published)
      /\ F.ver \in 0..NumVersions - 1
  BY <1>3, LaidOut, StateFacts
<1>5. /\ F.ptr # 0 /\ loc[s].pace.ver = F.ver
      /\ k \in DOMAIN queue /\ Current(s, k) /\ queue[k].pos = 0 /\ Intact(queue[k])
  BY <1>1, <1>2, <1>3 DEF Sound, Rewinds, Rewinder, Current
<1>6. k \in 1..Len(queue) /\ k > Published /\ Published < Len(queue)
  BY <1>1, <1>4, <1>5
<1>7. receiverPace > 0 /\ F.ptr >= receiverPace /\ T.ptr < receiverPace
  BY <1>4, <1>5, <1>6, Unrewound
<1>8. T.ver = NextVersion(F.ver) /\ F.ver # T.ver
  <2>1. Versions(receiverPace, F, T)
    BY <1>3 DEF Placed
  <2>2. QED
    BY <1>4, <1>7, <2>1, OtherVersion DEF Versions
<1>9. senderPaceFrom'.ptr = 0 /\ senderPaceFrom'.ver = T.ver
  BY <1>2, <1>5, <1>8 DEF Pace
<1>10. /\ Published' = Published
      /\ Layout(queue, receiverPace, senderPaceFrom.ptr, senderPaceTo.ptr, Published)'
  <2>1. Layout(queue, receiverPace, 0, T.ptr, Published)
    BY <1>1, <1>4, <1>5, <1>6, LayoutRestart
  <2>2. PICK j \in 0..Len(queue) : j = Published
    BY <1>4
  <2>3. Layout(queue', receiverPace', senderPaceFrom'.ptr, senderPaceTo'.ptr, j)
    BY <1>2, <1>9, <2>1, <2>2
  <2>4. j \in 0..Len(queue')
    BY <1>2, <2>2
  <2>5. QED
    BY <2>2, <2>3, <2>4, NewLayout
<1>11. Placed'
  <2>1. senderPaceTo' = T /\ ~(0 >= receiverPace') /\ senderPaceFrom'.ptr = 0
    BY <1>2, <1>4, <1>7, <1>9
  <2> HIDE DEF T
  <2>2. Versions(receiverPace', senderPaceFrom', senderPaceTo')
    BY <1>9, <2>1 DEF Versions
  <2>3. QED
    BY <1>10, <2>2 DEF Placed
<1>12. /\ pc'[s] = "loadSize" /\ loc'[s].pace = senderPaceFrom'
       /\ \A t \in Senders : t # s => pc'[t] = pc[t] /\ loc'[t] = loc[t]
  BY <1>2, <1>3, GoFacts DEF Fresh
<1>13. \A r : /\ Intact(r)' <=> Intact(r)
              /\ Unwritten(r)' <=> Unwritten(r)
              /\ Unflagged(r)' <=> Unflagged(r)
  BY <1>2 DEF Intact, Unwritten, Unflagged
<1>14. \A t \in Senders : \A i : t # s => (Current(t, i)' <=> Current(t, i))
  BY <1>2, <1>12 DEF Current
<1> HIDE DEF F, T, pace
<1>15. ASSUME NEW t \in Senders, t # s PROVE Sound(t)' /\ ~Rewinder(t)
  <2>1. Sound(t) /\ pc'[t] = pc[t] /\ loc'[t] = loc[t]
    BY <1>12, <1>15 DEF PipeInv
  <2>2. Reserving(t)' /\ Asked(t)'
    BY <1>2, <2>1 DEF Sound, Reserving, Asked
  <2>3. pc[t] \in FromHolders => loc[t].pace.ver # T.ver
    BY <1>8, <2>1 DEF Sound, Holds, F, T
  <2>4. Holds(t)'
    BY <1>2, <1>9, <2>1, <2>3 DEF Sound, Holds, T
  <2>5. Fills(t)'
    BY <1>2, <1>10, <1>13, <1>14, <1>15, <2>1 DEF Sound, Fills
  <2>6. Loads(t)'
    <3>1. ASSUME pc[t] = "loadFrom", \A i \in DOMAIN queue : queue[i].from # t
          PROVE  loc[t].msg # 0
      <4>1. loc[t].msg \notin queue[k].pos..End(queue[k])
        BY <1>5, <2>1, <3>1 DEF Sound, Loads
      <4>2. QED
        BY <1>4, <1>5, <4>1, Extents
    <3>2. QED
      BY <1>2, <1>9, <1>13, <1>14, <1>15, <2>1, <3>1 DEF Sound, Loads
  <2>7. ~Rewinder(t)
    <3>1. SUFFICES ASSUME Rewinder(t) PROVE FALSE
      OBVIOUS
    <3>2. PICK i \in DOMAIN queue : Current(t, i) /\ queue[i].pos = 0
      BY <2>1, <3>1 DEF Sound, Rewinds, Current
    <3>3. i = k
      BY <1>4, <1>5, <3>2, ApartBoth
    <3>4. QED
      BY <1>5, <1>15, <3>2, <3>3 DEF Current
  <2>8. Rewinds(t)'
    BY <2>1, <2>7 DEF Rewinds, Rewinder
  <2>9. Publishes(t)'
    <3>1. SUFFICES ASSUME loc[t].pace = senderPaceFrom', pc[t] \in FromHolders PROVE FALSE
      BY <2>1 DEF Publishes, FromHolders, HoldsPace, ToHolders
    <3>2. QED
      BY <1>9, <2>3, <3>1
  <2>10. QED
    BY <2>2, <2>4, <2>5, <2>6, <2>7, <2>8, <2>9 DEF Sound
<1>16. Sound(s)'
  <2>1. Holds(s)'
    BY <1>2, <1>9, <1>12 DEF Holds, ToHolders, T
  <2>2. Publishes(s)'
    <3>1. queue'[Published' + 1] = queue[k] /\ Published' < Len(queue')
      BY <1>1, <1>2, <1>6, <1>10
    <3>2. PICK r : r = queue[k]
      OBVIOUS
    <3>3. Intact(r)' /\ r.pos = 0 /\ r = queue'[Published' + 1]
      BY <1>5, <1>13, <3>1, <3>2
    <3>4. Intact(queue[Published + 1])'
      BY <3>3 DEF Intact
    <3>5. QED
      BY <1>9, <1>12, <3>1, <3>3, <3>4 DEF Publishes
  <2>3. QED
    BY <1>12, <2>1, <2>2 DEF Sound, Reserving, Fills, Loads, Rewinds, Rewinder, Asked, Filling
<1>17. pc[s] \notin Filling
  BY <1>2 DEF Filling
<1>18. ASSUME NEW i \in DOMAIN queue PROVE Finished(i)' /\ Awaits(i)'
  <2>1. PICK t \in Senders : t = queue[i].from
    BY <1>4, Extents
  <2>2. Finished(i)
    BY DEF PipeInv
  <2>3. Finished(i)'
    BY <1>2, <1>10, <1>12, <1>13, <1>14, <1>17, <2>1, <2>2 DEF Finished
  <2>4. Awaits(i)'
    BY <1>9 DEF Awaits
  <2>5. QED
    BY <2>3, <2>4
<1>19. Handled'
  <2>1. Carries(s)'
    BY <1>12 DEF Carries
  <2>2. QED
    BY <2>1 DEF Handled
<1>20. Receives'
  BY <1>2, <1>7, <1>9, <1>10 DEF PipeInv, Receives
<1>21. BlankElsewhere'
  BY <1>2 DEF PipeInv, BlankElsewhere
<1>22. \A t \in Senders : Sound(t)'
  BY <1>15, <1>16
<1>23. PipeInv'
  BY <1>2, <1>11, <1>18, <1>19, <1>20, <1>21, <1>22 DEF PipeInv
<1>24. QED
  BY <1>10, <1>23

-----------------------------------------------------------------------------
(* The steps of the receiver.                                              *)

\* Those that leave its pace, the reservations and what is in them alone.
LEMMA ReceiverQuiet ==
  ASSUME PipeInv, TypeOK', UNCHANGED senderVars, receiverPace' = receiverPace,
         senderPaceFrom' = senderPaceFrom, senderPaceTo' = senderPaceTo, queue' = queue,
         \A i \in DOMAIN queue : /\ Intact(queue[i])' <=> Intact(queue[i])
                                 /\ Unwritten(queue[i])' <=> Unwritten(queue[i])
                                 /\ Unflagged(queue[i])' <=> Unflagged(queue[i]),
         Receives', BlankElsewhere'
  PROVE  PipeInv'
<1>1. TypeOK /\ Placed /\ Published \in 0..Len(queue) /\ queue \in Seq(Reservation)
  BY LaidOut DEF PipeInv
<1>2. Published' = Published
  BY DEF Published
<1>3. pc' = pc /\ loc' = loc
  BY DEF senderVars
<1>4. \A t \in Senders : \A i : Current(t, i)' <=> Current(t, i)
  BY <1>3 DEF Current
<1>5. ASSUME Published < Len(queue)
      PROVE  Intact(queue[Published + 1])' <=> Intact(queue[Published + 1])
  <2>1. PICK j \in DOMAIN queue : j = Published + 1
    BY <1>1, <1>5
  <2>2. Intact(queue[j])' <=> Intact(queue[j])
    OBVIOUS
  <2>3. QED
    BY <1>2, <2>1, <2>2
<1>6. ASSUME NEW t \in Senders PROVE Sound(t)'
  <2>1. Sound(t)
    BY DEF PipeInv
  <2>2. (Holds(t) /\ Reserving(t) /\ Asked(t))'
    BY <1>3, <2>1 DEF Sound, Holds, Reserving, Asked
  <2>3. Fills(t)'
    BY <1>2, <1>3, <1>4, <2>1 DEF Sound, Fills
  <2>4. Loads(t)'
    BY <1>3, <1>4, <2>1 DEF Sound, Loads
  <2>5. Rewinds(t)'
    BY <1>2, <1>3, <1>4, <2>1 DEF Sound, Rewinds, Rewinder
  <2>6. Publishes(t)'
    BY <1>2, <1>3, <1>5, <2>1 DEF Sound, Publishes
  <2>7. QED
    BY <2>2, <2>3, <2>4, <2>5, <2>6 DEF Sound
<1>7. ASSUME NEW i \in DOMAIN queue PROVE Finished(i)' /\ Awaits(i)'
  <2>1. PICK t \in Senders : t = queue[i].from
    BY <1>1, Extents
  <2>2. Finished(i) /\ Awaits(i)
    BY DEF PipeInv
  <2>3. Finished(i)'
    BY <1>2, <1>3, <1>4, <2>1, <2>2 DEF Finished
  <2>4. Awaits(i)'
    BY <1>2, <1>3, <1>4, <2>1, <2>2 DEF Awaits, Rewinder
  <2>5. QED
    BY <2>3, <2>4
<1>8. Handled'
  <2>1. SUFFICES ASSUME Published < Len(queue), Intact(queue[Published + 1])
                 PROVE  \E t \in Senders : Carries(t)'
    BY <1>2, <1>5 DEF Handled
  <2>2. PICK t \in Senders : Carries(t)
    BY <2>1 DEF PipeInv, Handled
  <2>3. Carries(t)'
    BY <1>2, <1>3, <1>4, <2>2 DEF Carries
  <2>4. QED
    BY <2>3
<1>9. Placed'
  BY <1>1, <1>2 DEF Placed
<1>10. QED
  BY <1>6, <1>7, <1>8, <1>9 DEF PipeInv

LEMMA LoadFromForReceiveKeeps ==
  ASSUME PipeInv, TypeOK', LoadFromForReceive
  PROVE  PipeInv'
<1>1. /\ rpc = "idle" /\ rfrom' = senderPaceFrom.ptr /\ rpc' = "poll"
      /\ mem' = mem /\ receiverPace' = receiverPace /\ senderPaceFrom' = senderPaceFrom
      /\ senderPaceTo' = senderPaceTo /\ queue' = queue /\ UNCHANGED senderVars
      /\ unblanked' = unblanked
  BY DEF LoadFromForReceive
<1>2. /\ queue \in Seq(Reservation) /\ receiverPace \in Nat /\ Published \in 0..Len(queue)
      /\ Row(queue, receiverPace) /\ senderPaceFrom.ptr \in Nat
      /\ FromAt(queue, receiverPace, senderPaceFrom.ptr, Published)
  BY LaidOut DEF PipeInv, Layout
<1>3. Published' = Published
  BY <1>1 DEF Published
<1>4. ASSUME Published = 0 PROVE senderPaceFrom.ptr \in {0, receiverPace}
  <2>1. CASE senderPaceFrom.ptr = receiverPace
    BY <2>1
  <2>2. CASE 0 < Len(queue) /\ senderPaceFrom.ptr = queue[1].pos
    <3>1. queue # <<>>
      BY <2>2
    <3>2. QED
      BY <1>2, <2>2, <3>1 DEF Row
  <2>3. QED
    BY <1>2, <1>4, <2>1, <2>2 DEF FromAt
<1>5. ASSUME senderPaceFrom.ptr > receiverPace PROVE queue[1].pos = receiverPace
  <2>1. SUFFICES ASSUME queue[1].pos # receiverPace PROVE FALSE
    OBVIOUS
  <2>2. \A i \in DOMAIN queue : queue[i].pos < receiverPace /\ End(queue[i]) < receiverPace
    BY <1>2, <2>1, AtReceiver
  <2>3. Published > 0
    BY <1>2, <1>4, <1>5
  <2>4. CASE senderPaceFrom.ptr = End(queue[Published])
    <3>1. Published \in DOMAIN queue
      BY <1>2, <2>3
    <3>2. QED
      BY <1>2, <1>5, <2>2, <2>4, <3>1
  <2>5. CASE Published < Len(queue) /\ senderPaceFrom.ptr = queue[Published + 1].pos
    <3>1. Published + 1 \in DOMAIN queue
      BY <1>2, <2>5
    <3>2. QED
      BY <1>2, <1>5, <2>2, <2>5, <3>1, Extents
  <2>6. QED
    BY <1>2, <2>3, <2>4, <2>5 DEF FromAt
<1>6. Published > 0 \/ Published = 0
  BY <1>2
<1>7. Receives'
  BY <1>1, <1>3, <1>4, <1>5, <1>6 DEF Receives
<1>8. BlankElsewhere'
  BY <1>1 DEF PipeInv, BlankElsewhere
<1>9. \A i \in DOMAIN queue : /\ Intact(queue[i])' <=> Intact(queue[i])
                              /\ Unwritten(queue[i])' <=> Unwritten(queue[i])
                              /\ Unflagged(queue[i])' <=> Unflagged(queue[i])
  BY <1>1 DEF Intact, Unwritten, Unflagged
<1>10. QED
  BY <1>1, <1>7, <1>8, <1>9, ReceiverQuiet

LEMMA BlankConsumedKeeps ==
  ASSUME PipeInv, TypeOK', BlankConsumed
  PROVE  PipeInv' /\ \A j \in DOMAIN queue : Intact(queue[j])' <=> Intact(queue[j])
<1>1. /\ rpc = "blank" /\ rpc' = "idle"
      /\ mem' = [c \in DOMAIN mem |->
                   IF unblanked <= c /\ c < receiverPace THEN Blank ELSE mem[c]]
      /\ receiverPace' = receiverPace /\ senderPaceFrom' = senderPaceFrom
      /\ senderPaceTo' = senderPaceTo /\ queue' = queue /\ UNCHANGED senderVars
  BY DEF BlankConsumed, SetBlank
<1>2. /\ TypeOK /\ Placed /\ DOMAIN mem = 0..SizePipe - 1
      /\ receiverPace \in Nat /\ unblanked \in Nat
  BY DEF PipeInv, TypeOK, Places
<1>3. ASSUME NEW i \in DOMAIN queue
      PROVE  /\ Intact(queue[i])' <=> Intact(queue[i])
             /\ Unwritten(queue[i])' <=> Unwritten(queue[i])
             /\ Unflagged(queue[i])' <=> Unflagged(queue[i])
  <2>1. PICK r : r = queue[i]
    OBVIOUS
  <2>2. /\ r.pos \in Nat /\ End(r) \in Nat /\ End(r) <= SizePipe
        /\ r.pos >= receiverPace \/ End(r) <= unblanked
    BY <1>1, <1>2, <2>1, QueueFits, Extent DEF PipeInv, Receives
  <2>3. ASSUME NEW c \in r.pos..End(r) - 1 PROVE mem'[c] = mem[c]
    <3>1. c \in DOMAIN mem /\ ~(unblanked <= c /\ c < receiverPace)
      BY <1>2, <2>2, PipeAssumption
    <3>2. QED
      BY <1>1, <3>1
  <2>4. /\ Intact(r)' <=> Intact(r)
        /\ Unwritten(r)' <=> Unwritten(r)
        /\ Unflagged(r)' <=> Unflagged(r)
    BY <2>3, CellsKept
  <2>5. r = queue'[i]
    BY <1>1, <2>1
  <2>6. QED
    BY <2>1, <2>4, <2>5 DEF Intact, Unwritten, Unflagged
<1>4. Receives'
  BY <1>1 DEF Receives
<1>5. BlankElsewhere'
  BY <1>1 DEF PipeInv, BlankElsewhere
<1>6. PipeInv'
  BY <1>1, <1>3, <1>4, <1>5, ReceiverQuiet
<1>7. QED
  BY <1>3, <1>6

LEMMA HasTodoKeeps ==
  ASSUME PipeInv, TypeOK', HasTodo
  PROVE  PipeInv'
<1> DEFINE R == receiverPace
           F == senderPaceFrom
           T == senderPaceTo
<1>1. /\ rpc = "poll" /\ mem' = mem /\ senderPaceFrom' = senderPaceFrom
      /\ senderPaceTo' = senderPaceTo /\ queue' = queue /\ UNCHANGED senderVars
      /\ pc' = pc /\ loc' = loc
  BY DEF HasTodo, senderVars
<1>2. /\ TypeOK /\ Placed /\ queue \in Seq(Reservation) /\ R \in Nat
      /\ F.ptr \in Nat /\ T.ptr \in Nat /\ Published \in 0..Len(queue)
      /\ Row(queue, R) /\ Layout(queue, R, F.ptr, T.ptr, Published)
      /\ rfrom \in Nat
  BY LaidOut DEF PipeInv, TypeOK, Places
<1>3. /\ rfrom < R => F.ptr < R
      /\ rfrom \notin {0, R} => Published > 0
      /\ rfrom > R => queue[1].pos = R
  BY <1>1 DEF PipeInv, Receives
<1>4. ASSUME R' = R, rpc' = "idle" \/ (rpc' = "have" /\ Published > 0 /\ queue[1].pos = R)
      PROVE  PipeInv'
  <2>1. Published' = Published
    BY <1>1 DEF Published
  <2>2. Receives'
    BY <1>1, <1>4, <2>1 DEF Receives
  <2>3. BlankElsewhere'
    BY <1>1, <1>4 DEF PipeInv, BlankElsewhere
  <2>4. \A i \in DOMAIN queue : /\ Intact(queue[i])' <=> Intact(queue[i])
                                /\ Unwritten(queue[i])' <=> Unwritten(queue[i])
                                /\ Unflagged(queue[i])' <=> Unflagged(queue[i])
    BY <1>1 DEF Intact, Unwritten, Unflagged
  <2>5. QED
    BY <1>1, <1>4, <2>2, <2>3, <2>4, ReceiverQuiet
<1>5. CASE R <= rfrom
  <2>1. /\ R' = R
        /\ rpc' = IF R = rfrom THEN "idle" ELSE "have"
    BY <1>2, <1>5 DEF HasTodo
  <2>2. R # rfrom => Published > 0 /\ queue[1].pos = R
    BY <1>2, <1>3, <1>5
  <2>3. QED
    BY <1>4, <2>1, <2>2
<1>6. CASE rfrom < R
  <2>1. PICK w \in SizeWords(R) :
          IF R + MsgOffset > SizePipe \/ IsBlank(w)
          THEN R' = 0 /\ rpc' = IF rfrom = 0 THEN "idle" ELSE "have"
          ELSE R' = R /\ rpc' = "have"
    BY <1>2, <1>6 DEF HasTodo
  <2>2. F.ptr < R /\ T.ptr < R
    BY <1>2, <1>3, <1>6, FromUpTo
  <2>3. queue # <<>> /\ 1 \in DOMAIN queue
    BY <1>2, <2>2 DEF Layout, ToAt
  <2>4. CASE queue[1].pos = R
    <3>1. Published > 0
      <4>1. SUFFICES ASSUME Published = 0 PROVE FALSE
        BY <1>2
      <4>2. QED
        BY <1>2, <2>2, <2>4, <4>1 DEF Layout, FromAt
    <3>2. Finished(1)
      BY <2>3 DEF PipeInv
    <3>3. Intact(queue[1])
      BY <1>2, <3>1, <3>2 DEF Finished
    <3>4. ~IsBlank(w)
      BY <1>2, <2>1, <2>3, <2>4, <3>3, IntactWord
    <3>5. ~(R + MsgOffset > SizePipe)
      <4>1. End(queue[1]) <= SizePipe /\ queue[1].size \in Nat
        BY <1>2, <2>3, QueueFits
      <4>2. End(queue[1]) = R + (MsgOffset + queue[1].size) /\ R \in Nat
        BY <1>2, <2>4 DEF End, Need
      <4>3. QED
        BY <4>1, <4>2, PipeAssumption
    <3>6. R' = R /\ rpc' = "have"
      BY <2>1, <3>4, <3>5
    <3>7. QED
      BY <1>4, <2>4, <3>1, <3>6
  <2>5. CASE queue[1].pos # R
    <3>1. /\ Layout(queue, 0, F.ptr, T.ptr, Published)
          /\ queue[1].pos = 0
          /\ \A i \in DOMAIN queue : queue[i].pos < R /\ End(queue[i]) < R
      BY <1>2, <2>2, <2>5, LayoutRewind
    <3>2. R + MsgOffset > SizePipe \/ IsBlank(w)
      <4>1. SUFFICES ASSUME SizeAt(R) < SizePipe PROVE IsBlank(w)
        BY <1>2, PipeAssumption DEF SizeAt
      <4>2. SizeAt(R) \in DOMAIN mem /\ SizeAt(R) \in Nat /\ SizeAt(R) > R
        BY <1>2, <4>1, PipeAssumption DEF SizeAt, TypeOK
      <4>3. ~\E i \in DOMAIN queue : queue[i].pos <= SizeAt(R) /\ SizeAt(R) < End(queue[i])
        BY <1>2, <3>1, <4>2, Extents
      <4>4. mem[SizeAt(R)] = Blank
        BY <1>1, <4>2, <4>3 DEF PipeInv, BlankElsewhere
      <4>5. w = Blank
        BY <2>1, <4>1, <4>2, <4>4, PipeAssumption DEF SizeWords, Blank
      <4>6. QED
        BY <4>5 DEF IsBlank
    <3>3. R' = 0 /\ rpc' = IF rfrom = 0 THEN "idle" ELSE "have"
      BY <2>1, <3>2
    <3>4. rpc' = "have" => Published > 0
      BY <1>3, <1>6, <3>3, <1>2
    <3>5. /\ Published' = Published
          /\ Layout(queue, receiverPace, senderPaceFrom.ptr, senderPaceTo.ptr, Published)'
      <4>1. PICK k \in 0..Len(queue) : k = Published
        BY <1>2
      <4>2. /\ k \in 0..Len(queue')
            /\ Layout(queue', receiverPace', senderPaceFrom'.ptr, senderPaceTo'.ptr, k)
        BY <1>1, <3>1, <3>3, <4>1
      <4>3. QED
        BY <4>1, <4>2, NewLayout
    <3>6. Placed'
      <4>1. Versions(R, F, T)
        BY <1>2 DEF Placed
      <4>2. T.ver = F.ver
        BY <1>2, <2>2, <4>1 DEF Versions
      <4>3. ~(T.ptr < 0)
        BY <1>2
      <4>4. Versions(receiverPace', senderPaceFrom', senderPaceTo')
        BY <1>1, <3>3, <4>2, <4>3 DEF Versions
      <4>5. QED
        BY <3>5, <4>4 DEF Placed
    <3>7. Receives'
      BY <1>1, <3>1, <3>3, <3>4, <3>5 DEF Receives
    <3>8. BlankElsewhere'
      BY <1>1, <3>3 DEF PipeInv, BlankElsewhere
    <3>9. \A r : /\ Intact(r)' <=> Intact(r)
                 /\ Unwritten(r)' <=> Unwritten(r)
                 /\ Unflagged(r)' <=> Unflagged(r)
      BY <1>1 DEF Intact, Unwritten, Unflagged
    <3>10. \A t \in Senders : \A i : Current(t, i)' <=> Current(t, i)
      BY <1>1 DEF Current
    <3>11. ASSUME NEW t \in Senders PROVE Sound(t)'
      <4>1. Sound(t)
        BY DEF PipeInv
      <4>2. Holds(t)' /\ Asked(t)'
        BY <1>1, <4>1 DEF Sound, Holds, Asked
      <4>3. Reserving(t)'
        <5>1. SUFFICES ASSUME pc[t] = "casTo", T = loc[t].pace
                       PROVE  Room(loc[t], 0)
          BY <1>1, <3>3 DEF Reserving
        <5>2. Room(loc[t], R)
          BY <4>1, <5>1 DEF Sound, Reserving
        <5>3. loc[t].msg \in Nat /\ loc[t].next \in Nat
          BY <1>2, LocalsType
        <5>4. loc[t].rewind = NotRewound
          BY <1>2, <2>2, <5>1, <5>2 DEF Room
        <5>5. QED
          BY <1>2, <2>2, <5>1, <5>2, <5>3, <5>4 DEF Room
      <4>4. Fills(t)'
        BY <1>1, <3>5, <3>9, <3>10, <4>1 DEF Sound, Fills
      <4>5. Loads(t)'
        BY <1>1, <3>9, <3>10, <4>1 DEF Sound, Loads
      <4>6. Rewinds(t)'
        BY <1>1, <3>5, <3>9, <3>10, <4>1 DEF Sound, Rewinds, Rewinder
      <4>7. Publishes(t)'
        BY <1>1, <3>5, <3>9, <4>1 DEF Sound, Publishes
      <4>8. QED
        BY <4>2, <4>3, <4>4, <4>5, <4>6, <4>7 DEF Sound
    <3>12. ASSUME NEW i \in DOMAIN queue PROVE Finished(i)' /\ Awaits(i)'
      <4>1. PICK t \in Senders : t = queue[i].from
        BY <1>2, Extents
      <4>2. Finished(i) /\ Awaits(i)
        BY DEF PipeInv
      <4>3. Finished(i)'
        BY <1>1, <3>5, <3>9, <3>10, <4>1, <4>2 DEF Finished
      <4>4. Awaits(i)'
        BY <1>1, <3>5, <3>10, <4>1, <4>2 DEF Awaits, Rewinder
      <4>5. QED
        BY <4>3, <4>4
    <3>13. Handled'
      <4>1. \A t \in Senders : Carries(t) => Carries(t)'
        BY <1>1, <3>5, <3>10 DEF Carries
      <4>2. QED
        BY <1>1, <3>5, <3>9, <4>1 DEF PipeInv, Handled
    <3>14. QED
      BY <1>1, <3>6, <3>7, <3>8, <3>11, <3>12, <3>13 DEF PipeInv
  <2>6. QED
    BY <2>4, <2>5
<1>7. QED
  BY <1>2, <1>5, <1>6

LEMMA MsgConsumedKeeps ==
  ASSUME PipeInv, TypeOK', MsgConsumed
  PROVE  /\ PipeInv' /\ Published' = Published - 1
         /\ Published > 0 /\ queue # <<>> /\ queue' = Tail(queue)
<1> DEFINE R == receiverPace
           F == senderPaceFrom
           T == senderPaceTo
<1>1. PICK P, e : P = Published /\ e = End(queue[1])
  OBVIOUS
<1>2. /\ rpc = "have" /\ rpc' = "blank" /\ unblanked' = R
      /\ mem' = mem /\ F' = F /\ T' = T /\ pc' = pc /\ loc' = loc
      /\ queue' = SubSeq(queue, 2, Len(queue))
  BY DEF MsgConsumed, senderVars
<1>3. /\ TypeOK /\ Placed /\ queue \in Seq(Reservation) /\ R \in Nat
      /\ F.ptr \in Nat /\ T.ptr \in Nat /\ P \in 0..Len(queue)
      /\ Row(queue, R) /\ Layout(queue, R, F.ptr, T.ptr, P)
  BY <1>1, LaidOut DEF PipeInv
<1>4. P > 0 /\ queue[1].pos = R
  BY <1>1, <1>2 DEF PipeInv, Receives
<1>5. queue # <<>> /\ 1 \in DOMAIN queue /\ P \in Nat
  BY <1>3, <1>4
<1>6. /\ queue' = Tail(queue) /\ Len(queue') = Len(queue) - 1
      /\ DOMAIN queue' = 1..Len(queue) - 1
      /\ \A i \in DOMAIN queue' : i + 1 \in DOMAIN queue /\ queue'[i] = queue[i + 1]
      /\ \A i \in DOMAIN queue : i = 1 \/ (i - 1 \in DOMAIN queue' /\ queue'[i - 1] = queue[i])
  <2>1. PICK q : q = Tail(queue)
    OBVIOUS
  <2>2. /\ SubSeq(queue, 2, Len(queue)) = q /\ Len(q) = Len(queue) - 1
        /\ DOMAIN q = 1..Len(queue) - 1
        /\ \A i \in DOMAIN q : i + 1 \in DOMAIN queue /\ q[i] = queue[i + 1]
        /\ \A i \in DOMAIN queue : i = 1 \/ (i - 1 \in DOMAIN q /\ q[i - 1] = queue[i])
    BY <1>3, <1>5, <2>1, TailFacts
  <2>3. queue' = q
    BY <1>2, <2>2
  <2>4. QED
    BY <2>1, <2>2, <2>3
<1>7. Intact(queue[1])
  <2>1. Finished(1)
    BY <1>5 DEF PipeInv
  <2>2. QED
    BY <1>1, <1>3, <1>4, <2>1 DEF Finished
<1>8. R' = e /\ e \in Nat /\ e >= R + 2
  <2>1. PICK w \in SizeWords(R) : R' = R + GetMsgSize(w)
    BY DEF MsgConsumed
  <2>2. R + GetMsgSize(w) = e
    BY <1>1, <1>3, <1>4, <1>5, <1>7, IntactWord
  <2>3. QED
    BY <1>1, <1>3, <1>4, <1>5, <2>1, <2>2, Extents
<1>9. /\ Layout(queue', e, F.ptr, T.ptr, P - 1)
      /\ F.ptr < R \/ F.ptr >= e
      /\ T.ptr < R \/ T.ptr >= e
      /\ \A i \in DOMAIN queue : i = 1 \/ End(queue[i]) < R \/ queue[i].pos >= e
  BY <1>1, <1>3, <1>4, <1>6, LayoutTail
<1>10. /\ Published' = P - 1
      /\ Layout(queue, receiverPace, senderPaceFrom.ptr, senderPaceTo.ptr, Published)'
  <2>1. PICK k \in 0..Len(queue') : k = P - 1
    BY <1>3, <1>4, <1>6
  <2>2. Layout(queue', receiverPace', senderPaceFrom'.ptr, senderPaceTo'.ptr, k)
    BY <1>2, <1>8, <1>9, <2>1
  <2>3. QED
    BY <2>1, <2>2, NewLayout
<1>11. Placed'
  <2>1. Versions(R, F, T)
    BY <1>3 DEF Placed
  <2>2. (F.ptr >= R <=> F.ptr >= e) /\ (T.ptr < R <=> T.ptr < e)
    BY <1>3, <1>8, <1>9
  <2>3. Versions(R', F', T')
    BY <1>2, <1>8, <2>1, <2>2 DEF Versions
  <2>4. QED
    BY <1>10, <2>3 DEF Placed
<1>12. \A r : /\ Intact(r)' <=> Intact(r)
              /\ Unwritten(r)' <=> Unwritten(r)
              /\ Unflagged(r)' <=> Unflagged(r)
  BY <1>2 DEF Intact, Unwritten, Unflagged
<1>13. ASSUME NEW t \in Senders, NEW i \in DOMAIN queue, NEW k \in DOMAIN queue',
              i = k + 1, Current(t, i)
       PROVE  Current(t, k)'
  <2>1. queue'[k] = queue[i] /\ k \in Nat
    BY <1>3, <1>6, <1>13
  <2>2. ASSUME NEW j \in DOMAIN queue', j > k PROVE queue'[j].from # t
    <3>1. j + 1 \in DOMAIN queue /\ queue'[j] = queue[j + 1] /\ j \in Nat
      BY <1>3, <1>6
    <3>2. j + 1 > i
      BY <1>13, <2>1, <2>2, <3>1
    <3>3. QED
      BY <1>13, <3>2, <3>1 DEF Current
  <2>3. QED
    BY <1>2, <1>13, <2>1, <2>2 DEF Current
<1>14. ASSUME NEW i \in DOMAIN queue, i # 1
       PROVE  \E j \in DOMAIN queue' :
                /\ i = j + 1 /\ queue'[j] = queue[i] /\ i \in Nat /\ j \in Nat
                /\ i > P <=> j > Published'
  <2>1. i \in 1..Len(queue) /\ i - 1 \in DOMAIN queue' /\ queue'[i - 1] = queue[i]
    BY <1>3, <1>6, <1>14
  <2>2. PICK j : j = i - 1
    OBVIOUS
  <2>3. i = j + 1 /\ j \in Nat /\ i \in Nat /\ (i > P <=> j > P - 1)
    BY <1>5, <1>14, <2>1, <2>2
  <2>4. QED
    BY <1>10, <2>1, <2>2, <2>3
<1>15. /\ Published' + 1 = P
       /\ Published' < Len(queue') <=> P < Len(queue)
       /\ P < Len(queue) => P \in DOMAIN queue' /\ P + 1 \in DOMAIN queue
                            /\ queue'[P] = queue[P + 1]
  <2>1. Len(queue) \in Nat /\ Len(queue') = Len(queue) - 1
    BY <1>3, <1>6
  <2>2. P - 1 + 1 = P /\ (P - 1 < Len(queue) - 1 <=> P < Len(queue))
    BY <1>5, <2>1
  <2>3. P < Len(queue) => P \in DOMAIN queue'
    BY <1>4, <1>5, <1>6, <2>1
  <2>4. QED
    BY <1>6, <1>10, <2>1, <2>2, <2>3
<1>16. ASSUME NEW i \in DOMAIN queue, i > P PROVE i # 1
  BY <1>4, <1>5, <1>3, <1>16
<1> HIDE DEF R, F, T
<1>17. ASSUME NEW t \in Senders PROVE Sound(t)'
  <2>1. Sound(t)
    BY DEF PipeInv
  <2>2. Holds(t)' /\ Asked(t)'
    BY <1>2, <2>1 DEF Sound, Holds, Asked, F, T
  <2>3. Reserving(t)'
    <3>1. SUFFICES ASSUME pc[t] = "casTo", T = loc[t].pace PROVE Room(loc[t], e)
      BY <1>2, <1>8 DEF Reserving, R, T
    <3>2. Room(loc[t], R)
      BY <2>1, <3>1 DEF Sound, Reserving, R, T
    <3>3. loc[t].msg \in Nat /\ loc[t].next \in Nat
      BY <1>3, LocalsType
    <3>4. QED
      BY <1>3, <1>8, <1>9, <3>1, <3>2, <3>3 DEF Room
  <2>4. Fills(t)'
    <3>1. SUFFICES ASSUME pc[t] \in Filling PROVE Fills(t)'
      BY <1>2 DEF Fills
    <3>2. PICK i \in DOMAIN queue :
            /\ Current(t, i) /\ i > P /\ queue[i].size = loc[t].n
            /\ IF pc[t] = "write" THEN Unwritten(queue[i]) ELSE Unflagged(queue[i])
      BY <1>1, <2>1, <3>1 DEF Sound, Fills
    <3>3. PICK j \in DOMAIN queue' : i = j + 1 /\ queue'[j] = queue[i] /\ j > Published'
      BY <1>14, <1>16, <3>2
    <3>4. Current(t, j)'
      BY <1>13, <3>2, <3>3
    <3>5. PICK r : r = queue[i]
      OBVIOUS
    <3>6. IF pc'[t] = "write" THEN Unwritten(queue[j])' ELSE Unflagged(queue[j])'
      <4>1. r = queue'[j] /\ (IF pc'[t] = "write" THEN Unwritten(r)' ELSE Unflagged(r)')
        BY <1>2, <1>12, <3>2, <3>3, <3>5
      <4>2. QED
        BY <4>1 DEF Unwritten, Unflagged
    <3>7. QED
      BY <1>2, <3>2, <3>3, <3>4, <3>6 DEF Fills
  <2>5. Loads(t)'
    <3>1. SUFFICES ASSUME pc[t] = "loadFrom" PROVE Loads(t)'
      BY <1>2 DEF Loads
    <3>2. CASE \E i \in DOMAIN queue : i # 1 /\ Current(t, i) /\ Intact(queue[i])
      <4>1. PICK i \in DOMAIN queue : i # 1 /\ Current(t, i) /\ Intact(queue[i])
        BY <3>2
      <4>2. PICK j \in DOMAIN queue' : i = j + 1 /\ queue'[j] = queue[i]
        BY <1>14, <4>1
      <4>3. Current(t, j)'
        BY <1>13, <4>1, <4>2
      <4>4. Intact(queue[j])'
        BY <1>2, <4>1, <4>2 DEF Intact
      <4>5. QED
        BY <4>3, <4>4 DEF Loads, Current
    <3>3. CASE /\ \A i \in DOMAIN queue' : queue'[i].from # t
               /\ F.ptr # loc[t].msg
               /\ \A i \in DOMAIN queue : i # 1 => loc[t].msg \notin queue[i].pos..End(queue[i])
      <4>1. ASSUME NEW i \in DOMAIN queue'
            PROVE  loc[t].msg \notin queue'[i].pos..End(queue'[i])
        <5>1. i + 1 \in DOMAIN queue /\ queue'[i] = queue[i + 1] /\ i + 1 # 1
          BY <1>6
        <5>2. QED
          BY <3>3, <5>1
      <4>2. QED
        BY <1>2, <3>3, <4>1 DEF Loads, F
    <3>4. CASE Current(t, 1)
      <4>1. ASSUME NEW i \in DOMAIN queue' PROVE queue'[i].from # t
        <5>1. i + 1 \in DOMAIN queue /\ queue'[i] = queue[i + 1] /\ i + 1 > 1
          BY <1>6
        <5>2. QED
          BY <3>4, <5>1 DEF Current
      <4>2. loc[t].msg = R
        BY <1>4, <3>4 DEF Current
      <4>3. F.ptr # R
        BY <1>3, <1>8, <1>9
      <4>4. ASSUME NEW i \in DOMAIN queue, i # 1 PROVE R \notin queue[i].pos..End(queue[i])
        <5>1. End(queue[i]) < R \/ queue[i].pos >= e
          BY <1>9, <4>4
        <5>2. queue[i].pos \in Nat /\ End(queue[i]) \in Nat
          BY <1>3, Extents
        <5>3. QED
          BY <1>3, <1>8, <5>1, <5>2
      <4>5. QED
        BY <3>3, <4>1, <4>2, <4>3, <4>4
    <3>5. CASE \A i \in DOMAIN queue : queue[i].from # t
      <4>1. /\ F.ptr # loc[t].msg
            /\ \A i \in DOMAIN queue : loc[t].msg \notin queue[i].pos..End(queue[i])
        BY <2>1, <3>1, <3>5 DEF Sound, Loads, F
      <4>2. QED
        BY <1>6, <3>3, <3>5, <4>1
    <3>6. QED
      BY <2>1, <3>1, <3>2, <3>4, <3>5 DEF Sound, Loads
  <2>6. Rewinds(t)'
    <3>1. SUFFICES ASSUME Rewinder(t) PROVE Rewinds(t)'
      BY <1>2 DEF Rewinds, Rewinder
    <3>2. /\ loc[t].msg = 0 /\ F.ptr # 0
          /\ pc[t] \in {"spin", "storeFrom"} => loc[t].pace.ver = F.ver
      BY <2>1, <3>1 DEF Sound, Rewinds, F
    <3>3. PICK i \in DOMAIN queue :
            /\ Current(t, i) /\ i > P
            /\ IF pc[t] = "storeFrom" THEN i = P + 1
               ELSE i > 1 => loc[t].rewind = End(queue[i - 1])
            /\ pc[t] \in {"spin", "storeFrom"} => Intact(queue[i])
      BY <1>1, <2>1, <3>1 DEF Sound, Rewinds
    <3>4. PICK j \in DOMAIN queue' :
            /\ i = j + 1 /\ queue'[j] = queue[i] /\ i \in Nat /\ j \in Nat /\ j > Published'
      BY <1>14, <1>16, <3>3
    <3>5. Current(t, j)'
      BY <1>13, <3>3, <3>4
    <3>6. j \in 1..Len(queue)
      BY <1>3, <1>6, <3>4
    <3>7. pc[t] = "storeFrom" => j = Published' + 1
      <4>1. i = P + 1 => j = P
        BY <1>5, <3>4
      <4>2. QED
        BY <1>15, <3>3, <4>1
    <3>8. pc[t] # "storeFrom" /\ j > 1 => loc[t].rewind = End(queue'[j - 1])
      <4>1. SUFFICES ASSUME j > 1, pc[t] # "storeFrom" PROVE loc[t].rewind = End(queue'[j - 1])
        OBVIOUS
      <4>2. j \in DOMAIN queue /\ j # 1
        BY <1>3, <3>6, <4>1
      <4>3. queue'[j - 1] = queue[j]
        BY <1>6, <4>2
      <4>4. i > 1 /\ i - 1 = j
        BY <3>4, <4>1
      <4>5. QED
        BY <3>3, <4>1, <4>3, <4>4
    <3>9. pc[t] \in {"spin", "storeFrom"} => Intact(queue[j])'
      BY <1>2, <3>3, <3>4 DEF Intact
    <3>10. QED
      BY <1>2, <3>2, <3>4, <3>5, <3>7, <3>8, <3>9 DEF Rewinds, F
  <2>7. Publishes(t)'
    <3>1. Publishes(t)
      BY <2>1 DEF Sound
    <3>2. SUFFICES ASSUME loc[t].pace = F PROVE Publishes(t)'
      BY <1>2 DEF Publishes, F
    <3>3. P < Len(queue) <=> Published' < Len(queue')
      BY <1>15
    <3>4. ASSUME P < Len(queue) PROVE queue'[Published' + 1] = queue[P + 1]
      BY <1>15, <3>4
    <3>5. P < Len(queue) => (Intact(queue[P + 1]) => Intact(queue[Published + 1])')
      BY <1>2, <3>4 DEF Intact
    <3>6. QED
      BY <1>1, <1>2, <3>1, <3>2, <3>3, <3>4, <3>5 DEF Publishes, F
  <2>8. QED
    BY <2>2, <2>3, <2>4, <2>5, <2>6, <2>7 DEF Sound
<1>18. ASSUME NEW i \in DOMAIN queue' PROVE Finished(i)' /\ Awaits(i)'
  <2>1. PICK j \in DOMAIN queue :
          /\ j = i + 1 /\ queue'[i] = queue[j] /\ i \in Nat
          /\ i > P - 1 <=> j > P
    <3>1. i + 1 \in DOMAIN queue /\ queue'[i] = queue[i + 1] /\ i \in Nat
      BY <1>3, <1>6
    <3>2. i > P - 1 <=> i + 1 > P
      BY <1>5, <3>1
    <3>3. QED
      BY <3>1, <3>2
  <2>2. PICK t \in Senders : t = queue[j].from
    BY <1>3, Extents
  <2>3. Finished(j) /\ Awaits(j)
    BY DEF PipeInv
  <2>4. i > Published' <=> j > P
    BY <1>10, <2>1
  <2>5. Current(t, j) => Current(t, i)'
    BY <1>13, <2>1
  <2>6. Finished(i)'
    <3>1. Intact(queue[j]) => Intact(queue[i])'
      BY <1>2, <2>1 DEF Intact
    <3>2. QED
      BY <1>1, <1>2, <2>1, <2>2, <2>3, <2>4, <2>5, <3>1 DEF Finished
  <2>7. Awaits(i)'
    BY <1>1, <1>2, <2>1, <2>2, <2>3, <2>4, <2>5 DEF Awaits, Rewinder, F
  <2>8. QED
    BY <2>6, <2>7
<1>19. Handled'
  <2>1. SUFFICES ASSUME Published' < Len(queue'), Intact(queue[Published + 1])'
                 PROVE  \E t \in Senders : Carries(t)'
    BY DEF Handled
  <2>2. P < Len(queue) /\ P + 1 \in DOMAIN queue /\ P \in DOMAIN queue'
    BY <1>15, <2>1
  <2>3. Intact(queue[P + 1])
    <3>1. queue'[Published' + 1] = queue[P + 1]
      BY <1>15, <2>2
    <3>2. QED
      BY <1>2, <2>1, <3>1 DEF Intact
  <2>4. PICK t \in Senders : Carries(t)
    BY <1>1, <2>2, <2>3 DEF PipeInv, Handled
  <2>5. Current(t, P + 1) => Current(t, P)'
    BY <1>13, <2>2
  <2>6. Current(t, P + 1) => Current(t, Published + 1)'
    BY <1>15, <2>5 DEF Current
  <2>7. Carries(t)'
    BY <1>1, <1>2, <2>4, <2>6 DEF Carries, F
  <2>8. QED
    BY <2>7
<1>20. Receives'
  <2>1. R <= e
    BY <1>3, <1>8
  <2>2. ASSUME NEW i \in DOMAIN queue' PROVE queue'[i].pos >= e \/ End(queue'[i]) <= R
    <3>1. i + 1 \in DOMAIN queue /\ queue'[i] = queue[i + 1] /\ i + 1 # 1
      BY <1>6
    <3>2. QED
      BY <1>3, <1>9, <3>1, Extents
  <2>3. QED
    BY <1>2, <1>8, <2>1, <2>2 DEF Receives, R
<1>21. BlankElsewhere'
  <2>1. SUFFICES ASSUME NEW c \in DOMAIN mem, mem[c] # Blank
                 PROVE  \/ \E i \in DOMAIN queue' : queue'[i].pos <= c /\ c < End(queue'[i])
                        \/ R <= c /\ c < e
    BY <1>2, <1>8 DEF BlankElsewhere, R
  <2>2. PICK i \in DOMAIN queue : queue[i].pos <= c /\ c < End(queue[i])
    BY <1>2, <2>1 DEF PipeInv, BlankElsewhere
  <2>3. CASE i = 1
    BY <1>1, <1>4, <2>2, <2>3
  <2>4. CASE i # 1
    BY <1>6, <2>2, <2>4
  <2>5. QED
    BY <2>3, <2>4
<1>22. PipeInv'
  BY <1>11, <1>17, <1>18, <1>19, <1>20, <1>21 DEF PipeInv
<1>23. QED
  BY <1>1, <1>4, <1>5, <1>6, <1>10, <1>22

-----------------------------------------------------------------------------
(* The invariant.                                                          *)

LEMMA PipeInvInit == Init => PipeInv
<1> SUFFICES ASSUME Init PROVE PipeInv
  OBVIOUS
<1>1. TypeOK
  BY TypeInvInit DEF TypeInv
<1>2. /\ queue = <<>> /\ receiverPace = 0 /\ senderPaceFrom.ptr = 0 /\ senderPaceTo.ptr = 0
      /\ senderPaceFrom = senderPaceTo
  BY DEF Init, Pace
<1>3. Layout(queue, receiverPace, senderPaceFrom.ptr, senderPaceTo.ptr, 0)
  BY <1>2, LayoutInit
<1>4. Published = 0
  <2>1. 0 \in 0..Len(queue)
    BY <1>2
  <2>2. QED
    BY <1>1, <1>3, <2>1, StateFacts, BehindIs, PublishedIs
<1>5. Placed
  BY <1>2, <1>3, <1>4 DEF Placed, Versions
<1>6. ASSUME NEW s \in Senders PROVE Sound(s)
  <2>1. pc[s] = "idle"
    BY DEF Init
  <2>2. QED
    BY <2>1 DEF Sound, Holds, Reserving, Fills, Loads, Rewinds, Rewinder, Publishes, Asked,
                ToHolders, FromHolders, HoldsPace, Filling
<1>7. DOMAIN queue = {} /\ Len(queue) = 0
  BY <1>2
<1>8. BlankElsewhere
  BY DEF Init, BlankElsewhere
<1>9. Handled /\ Receives
  BY <1>4, <1>7 DEF Handled, Receives, Init
<1>10. QED
  BY <1>1, <1>5, <1>6, <1>7, <1>8, <1>9 DEF PipeInv

LEMMA UnchangedKeeps ==
  ASSUME PipeInv, UNCHANGED vars
  PROVE  PipeInv'
<1>1. TypeOK'
  BY DEF PipeInv, vars, senderVars, receiverVars, TypeOK
<1>2. Receives' /\ BlankElsewhere'
  <2>1. Published' = Published
    BY DEF vars, Published
  <2>2. QED
    BY <2>1 DEF PipeInv, vars, receiverVars, Receives, BlankElsewhere
<1>3. \A i \in DOMAIN queue : /\ Intact(queue[i])' <=> Intact(queue[i])
                              /\ Unwritten(queue[i])' <=> Unwritten(queue[i])
                              /\ Unflagged(queue[i])' <=> Unflagged(queue[i])
  BY DEF vars, Intact, Unwritten, Unflagged
<1>4. QED
  BY <1>1, <1>2, <1>3, ReceiverQuiet DEF vars

LEMMA CasToKeeps ==
  ASSUME PipeInv, TypeOK', NEW s \in Senders, TimelyCasTo(s)
  PROVE  PipeInv'
BY ReserveKeeps, CasToMissesKeeps DEF TimelyCasTo

LEMMA CasFromKeeps ==
  ASSUME PipeInv, TypeOK', NEW s \in Senders, CasFrom(s)
  PROVE  PipeInv'
BY PublishKeeps, CasFromMissesKeeps

LEMMA ReceiverKeeps ==
  ASSUME PipeInv, TypeOK', ReceiverStep
  PROVE  PipeInv'
BY LoadFromForReceiveKeeps, HasTodoKeeps, MsgConsumedKeeps, BlankConsumedKeeps DEF ReceiverStep

LEMMA SenderKeeps ==
  ASSUME PipeInv, TypeOK', QuietBehind, NEW s \in Senders, SenderStep(s)
  PROVE  PipeInv'
BY LoadToKeeps, LoadReceiverKeeps, WriteMsgKeeps, MarkReadyKeeps, LoadFromKeeps, SpinKeeps,
   StoreFromKeeps, LoadSizeKeeps, CasFromKeeps, CheckToKeeps, CheckReadyKeeps
DEF SenderStep

TimelyInv == TypeInv /\ PipeInv

LEMMA TimelyInvStep ==
  ASSUME QuietBehind, TimelyInv, [TimelyNext]_vars
  PROVE  TimelyInv'
<1>1. [Next]_vars
  BY DEF TimelyNext, Next, TimelyCasTo
<1>2. TypeInv'
  BY <1>1, TypeInvStep DEF TimelyInv
<1>3. PipeInv /\ TypeOK'
  BY <1>2 DEF TimelyInv, TypeInv
<1>4. PipeInv'
  <2>1. CASE UNCHANGED vars
    BY <1>3, <2>1, UnchangedKeeps
  <2>2. ASSUME NEW s \in Senders, TimelyCasTo(s) PROVE PipeInv'
    BY <1>3, <2>2, CasToKeeps
  <2>3. ASSUME NEW s \in Senders, SenderStep(s) PROVE PipeInv'
    BY <1>3, <2>3, SenderKeeps
  <2>4. ASSUME NEW s \in Senders, NEW n \in ContentSizes, SendMsg(s, n) PROVE PipeInv'
    BY <1>3, <2>4, SendMsgKeeps
  <2>5. CASE ReceiverStep
    BY <1>3, <2>5, ReceiverKeeps
  <2>6. QED
    BY <2>1, <2>2, <2>3, <2>4, <2>5 DEF TimelyNext, OtherSteps
<1>5. QED
  BY <1>2, <1>4 DEF TimelyInv

LEMMA Invariance ==
  ASSUME QuietBehind
  PROVE  TimelySpec => []TimelyInv
<1>1. Init => TimelyInv
  BY TypeInvInit, PipeInvInit DEF TimelyInv
<1>2. TimelyInv /\ [TimelyNext]_vars => TimelyInv'
  BY TimelyInvStep
<1>3. QED
  BY <1>1, <1>2, PTL DEF TimelySpec

-----------------------------------------------------------------------------
(* What it says of the pipe.                                               *)

\* A reservation that reads as ready, or as writing, is what it reads as.
LEMMA FlaggedIsIntact ==
  ASSUME PipeInv, NEW i \in DOMAIN queue, ~Intact(queue[i])
  PROVE  /\ mem[SizeAt(queue[i].pos)] \in {Blank, queue[i].size}
         /\ ~IsReady(mem[SizeAt(queue[i].pos)])
<1>1. TypeOK /\ Placed /\ queue \in Seq(Reservation)
  BY StateFacts DEF PipeInv
<1>2. PICK t \in Senders : t = queue[i].from
  BY <1>1, Extents
<1>3. pc[t] \in Filling /\ Current(t, i)
  BY <1>2 DEF PipeInv, Finished
<1>4. Unwritten(queue[i]) \/ Unflagged(queue[i])
  BY <1>3, Unfinished
<1>5. /\ SizeAt(queue[i].pos) \in queue[i].pos..End(queue[i]) - 1
      /\ queue[i].size \in Nat /\ queue[i].size + 2 < MaskNotWriting
  BY <1>1, QueueFits
<1>6. mem[SizeAt(queue[i].pos)] \in {Blank, queue[i].size}
  BY <1>4, <1>5 DEF Unwritten, Unflagged
<1>7. QED
  BY <1>5, <1>6, WordMeaning

\* ReserveSpaceForSend_ (291-315) never gives out a byte of a message that has not
\* been consumed, whatever the paces that a sender has loaded have become since.
THEOREM ReservationsDisjoint ==
  ASSUME QuietBehind
  PROVE  TimelySpec => []Disjoint
<1>1. TimelyInv => Disjoint
  BY LaidOut, Apart DEF TimelyInv, PipeInv, Disjoint
<1>2. QED
  BY <1>1, Invariance, PTL

\* A byte of the pipe outside the reservations is blank, or MsgConsumed (181-185)
\* has passed it and is about to blank it.
THEOREM OutsideIsBlank ==
  ASSUME QuietBehind
  PROVE  TimelySpec => []BlankElsewhere
<1>1. TimelyInv => BlankElsewhere
  BY DEF TimelyInv, PipeInv
<1>2. QED
  BY <1>1, Invariance, PTL

\* JustSendMsg_ (318-358) moves sender_pace_from_ past whole messages only, its own
\* and others', and what it has passed stays whole until it is consumed.
THEOREM PublishedMessagesIntact ==
  ASSUME QuietBehind
  PROVE  TimelySpec => []PublishedIntact
<1>1. TimelyInv => PublishedIntact
  <2>1. SUFFICES ASSUME TimelyInv, NEW k \in 1..Published PROVE Intact(queue[k])
    BY DEF PublishedIntact
  <2>2. k \in DOMAIN queue /\ ~(k > Published)
    BY <2>1, LaidOut DEF TimelyInv, PipeInv
  <2>3. QED
    BY <2>1, <2>2 DEF TimelyInv, PipeInv, Finished
<1>2. QED
  BY <1>1, Invariance, PTL

\* ReceiveMsg hands its client the oldest message that has not been consumed, whole
\* and in place, also after the rewind of HasTodoMPSCFixedPipeMsg_ (367-370).
THEOREM OldestDelivered ==
  ASSUME QuietBehind
  PROVE  TimelySpec => []Delivery
<1>1. TimelyInv => Delivery
  <2>1. SUFFICES ASSUME TimelyInv, rpc = "have"
                 PROVE  /\ queue # <<>> /\ Head(queue).pos = receiverPace
                        /\ Intact(Head(queue))
    BY DEF Delivery
  <2>2. Published > 0 /\ queue[1].pos = receiverPace
    BY <2>1 DEF TimelyInv, PipeInv, Receives
  <2>3. Published \in 0..Len(queue) /\ queue \in Seq(Reservation)
    BY <2>1, LaidOut DEF TimelyInv, PipeInv
  <2>4. 1 \in DOMAIN queue /\ queue # <<>> /\ Head(queue) = queue[1] /\ ~(1 > Published)
    BY <2>2, <2>3
  <2>5. Intact(queue[1])
    BY <2>1, <2>4 DEF TimelyInv, PipeInv, Finished
  <2>6. QED
    BY <2>2, <2>4, <2>5
<1>2. QED
  BY <1>1, Invariance, PTL

\* While the next message to publish has its ready bit, some sender is inside
\* JustSendMsg_ with what it takes to publish it: none is stranded by two senders
\* that each leave it to the other (343-357).
THEOREM NoneStranded ==
  ASSUME QuietBehind
  PROVE  TimelySpec => []Handoff
<1>1. TimelyInv => Handoff
  <2>1. SUFFICES ASSUME TimelyInv, Published + 1 <= Len(queue),
                        IsReady(mem[SizeAt(queue[Published + 1].pos)])
                 PROVE  \E s \in Senders : pc[s] \in Publishing
    BY DEF Handoff
  <2>2. Published + 1 \in DOMAIN queue /\ Published < Len(queue)
    BY <2>1, LaidOut DEF TimelyInv, PipeInv
  <2>3. Intact(queue[Published + 1])
    BY <2>1, <2>2, FlaggedIsIntact DEF TimelyInv
  <2>4. PICK s \in Senders : Carries(s)
    BY <2>1, <2>2, <2>3 DEF TimelyInv, PipeInv, Handled
  <2>5. QED
    BY <2>4 DEF Carries, Publishing
<1>2. QED
  BY <1>1, Invariance, PTL

\* A drained pipe at least twice as long as its largest message takes a message of
\* any legal size, wherever the three paces have stopped (Init, 131, demands less).
THEOREM DrainedAccepts ==
  ASSUME QuietBehind, SizePipe >= 2 * (MaxSizeContent + MsgOffset)
  PROVE  TimelySpec => []EmptyAccepts
<1>1. TimelyInv => EmptyAccepts
  <2>1. SUFFICES ASSUME TimelyInv, queue = <<>>,
                        NEW n \in ContentSizes, n <= MaxSizeContent
                 PROVE  \/ Fits(senderPaceTo.ptr, MsgOffset + n, receiverPace)
                        \/ FitsRewound(senderPaceTo.ptr, MsgOffset + n, receiverPace)
    BY DEF EmptyAccepts
  <2>2. senderPaceTo.ptr = receiverPace /\ receiverPace \in Nat
    BY <2>1, LaidOut DEF TimelyInv, PipeInv, Layout, ToAt
  <2>3. QED
    BY <2>1, <2>2, PipeAssumption DEF Fits, FitsRewound
<1>2. QED
  BY <1>1, Invariance, PTL

\* A size word that SetReady (319) is about to flag says "writing": no timely step
\* of another thread has blanked or flagged it (the comment at 84).
THEOREM WritingSeenAsWriting ==
  ASSUME QuietBehind
  PROVE  TimelySpec => []WritingLooksWriting
<1>1. TimelyInv => WritingLooksWriting
  <2>1. SUFFICES ASSUME TimelyInv, NEW s \in Senders, pc[s] = "setReady",
                        NEW w \in SizeWords(loc[s].msg)
                 PROVE  ~IsNotWriting(w)
    BY DEF WritingLooksWriting
  <2>2. PICK i \in DOMAIN queue : Current(s, i) /\ Unflagged(queue[i])
    BY <2>1 DEF TimelyInv, PipeInv, Sound, Fills, Filling
  <2>3. TypeOK /\ Placed
    BY <2>1 DEF TimelyInv, PipeInv
  <2>4. w = queue[i].size
    BY <2>2, <2>3, SizeWord DEF Current
  <2>5. queue[i].size \in Nat /\ queue[i].size + 2 < MaskNotWriting
    BY <2>3, QueueFits
  <2>6. QED
    BY <2>4, <2>5, PipeAssumption DEF IsNotWriting
<1>2. QED
  BY <1>1, Invariance, PTL

-----------------------------------------------------------------------------
(* The pipe implements FifoChannel.                                        *)

\* A message of the channel is finished when all of it is in the pipe.
Messages == [from : Senders, size : Nat, ready : BOOLEAN]
Message(i) ==
  [from |-> queue[i].from, size |-> queue[i].size, ready |-> Intact(queue[i])]
ChannelIs ==
  /\ queue \in Seq(Reservation) /\ chan \in Seq(Messages) /\ Len(chan) = Len(queue)
  /\ \A i \in DOMAIN queue : chan[i] = Message(i)

LEMMA ReadyWords ==
  ASSUME PipeInv, NEW i \in DOMAIN queue
  PROVE  (\A w \in SizeWords(queue[i].pos) : IsReady(w)) <=> Intact(queue[i])
<1>1. TypeOK /\ Placed
  BY DEF PipeInv
<1>2. ASSUME Intact(queue[i]), NEW w \in SizeWords(queue[i].pos) PROVE IsReady(w)
  BY <1>1, <1>2, IntactWord
<1>3. ASSUME \A w \in SizeWords(queue[i].pos) : IsReady(w), ~Intact(queue[i]) PROVE FALSE
  <2>1. PICK w \in SizeWords(queue[i].pos) : TRUE
    <3>1. PICK c : c = SizeAt(queue[i].pos)
      OBVIOUS
    <3>2. mem[c] \in {Blank, queue[i].size}
      BY <1>3, <3>1, FlaggedIsIntact
    <3>3. c < SizePipe /\ c \in Nat /\ queue[i].size \in Nat
      BY <1>1, <3>1, QueueFits, PipeAssumption
    <3>4. mem[c] \in Int
      BY <3>2, <3>3, PipeAssumption DEF Blank
    <3>5. QED
      BY <3>1, <3>3, <3>4, PipeAssumption DEF SizeWords
  <2>2. QED
    BY <1>3, <2>1, ReadyIsIntact
<1>4. QED
  BY <1>2, <1>3

LEMMA ChannelShape == PipeInv => ChannelIs
<1> SUFFICES ASSUME PipeInv PROVE ChannelIs
  OBVIOUS
<1>1. queue \in Seq(Reservation) /\ Len(queue) \in Nat /\ DOMAIN queue = 1..Len(queue)
  BY StateFacts DEF PipeInv
<1>2. ASSUME NEW i \in DOMAIN queue
      PROVE  /\ (\A w \in SizeWords(queue[i].pos) : IsReady(w)) = Intact(queue[i])
             /\ Message(i) \in Messages
  <2>1. Intact(queue[i]) \in BOOLEAN
    BY DEF Intact
  <2>2. (\A w \in SizeWords(queue[i].pos) : IsReady(w)) = Intact(queue[i])
    BY <2>1, ReadyWords
  <2>3. queue[i].from \in Senders /\ queue[i].size \in Nat
    BY <1>1, Extents
  <2>4. QED
    BY <2>1, <2>2, <2>3 DEF Message, Messages
<1>3. chan = [i \in DOMAIN queue |-> Message(i)]
  BY <1>2 DEF chan, Message
<1>4. chan \in [1..Len(queue) -> Messages]
  BY <1>1, <1>2, <1>3
<1>5. chan \in Seq(Messages) /\ Len(chan) = Len(queue)
  BY <1>1, <1>4, SeqDef
<1>6. QED
  BY <1>1, <1>3, <1>5 DEF ChannelIs

\* The primed state has a channel too.
LEMMA ChannelNext == PipeInv' => ChannelIs'
BY ChannelShape, PTL

Goes == [Fifo!Next]_(Fifo!vars)

\* A step that leaves the reservations and what is finished of them alone.
LEMMA ChannelKept ==
  ASSUME ChannelIs, ChannelIs', queue' = queue,
         \A j \in DOMAIN queue : Intact(queue[j])' <=> Intact(queue[j])
  PROVE  chan' = chan
<1>1. ASSUME NEW j \in DOMAIN queue PROVE chan'[j] = chan[j]
  <2>1. Intact(queue[j]) \in BOOLEAN /\ Intact(queue[j])' \in BOOLEAN
    BY DEF Intact
  <2>2. Intact(queue[j])' = Intact(queue[j])
    BY <2>1
  <2>3. Message(j)' = Message(j)
    BY <2>2 DEF Message
  <2>4. QED
    BY <2>3 DEF ChannelIs
<1>2. /\ chan \in Seq(Messages) /\ chan' \in Seq(Messages)
      /\ Len(chan) = Len(queue) /\ Len(chan') = Len(queue) /\ queue \in Seq(Reservation)
  BY DEF ChannelIs
<1>3. QED
  BY <1>1, <1>2, SeqEqual

LEMMA Stutters ==
  ASSUME PipeInv, PipeInv', queue' = queue, Published' = Published,
         \A j \in DOMAIN queue : Intact(queue[j])' <=> Intact(queue[j]),
         (rpc = "have")' <=> rpc = "have"
  PROVE  Goes
<1>1. chan' = chan
  BY ChannelShape, ChannelNext, ChannelKept
<1>2. (rpc = "have")' = (rpc = "have")
  OBVIOUS
<1>3. Fifo!vars' = Fifo!vars
  BY <1>1, <1>2 DEF Fifo!vars
<1>4. QED
  BY <1>3 DEF Goes

\* CasTo takes a place in the order of messages.
LEMMA ReserveGoes ==
  ASSUME TimelyInv, PipeInv', NEW s \in Senders, TimelyCasTo(s), senderPaceTo = loc[s].pace
  PROVE  Goes
<1>1. PICK a, n, k : /\ a = [from |-> s, size |-> n, pos |-> loc[s].msg]
                     /\ n = loc[s].n /\ k = Len(queue) + 1
  OBVIOUS
<1>2. /\ pc[s] = "casTo" /\ queue' = Append(queue, a) /\ mem' = mem /\ rpc' = rpc
      /\ pc'[s] = "write" /\ loc'[s].n = n /\ loc'[s].msg = loc[s].msg
  <2>1. PICK l : l = [Fresh EXCEPT !.n = n, !.msg = loc[s].msg, !.rewind = loc[s].rewind]
    OBVIOUS
  <2>2. /\ pc[s] = "casTo" /\ queue' = Append(queue, a) /\ mem' = mem /\ rpc' = rpc
        /\ Go(s, "write", l)
    BY <1>1, <2>1 DEF TimelyCasTo, CasTo, receiverVars
  <2>3. l.n = n /\ l.msg = loc[s].msg
    BY <2>1 DEF Fresh
  <2>4. TypeOK
    BY DEF TimelyInv, TypeInv
  <2>5. QED
    BY <2>2, <2>3, <2>4, GoFacts
<1>3. Published' = Published
  <2>1. TypeOK'
    BY DEF PipeInv
  <2>2. QED
    BY <2>1, ReserveKeeps DEF TimelyInv
<1>4. n \in ContentSizes /\ n <= MaxSizeContent /\ n \in Nat /\ loc[s].msg \in Nat
  BY <1>1, <1>2, LocalsType DEF TimelyInv, TypeInv, LegalSizes, PipeInv, Sound, Asked
<1>5. ChannelIs /\ ChannelIs'
  BY ChannelShape, ChannelNext DEF TimelyInv
<1>6. queue \in Seq(Reservation) /\ a \in Reservation
  BY <1>1, <1>4, <1>5 DEF ChannelIs, Reservation, Places
<1>7. /\ Len(queue') = k /\ DOMAIN queue' = 1..k /\ DOMAIN queue = 1..Len(queue)
      /\ \A i \in DOMAIN queue : queue'[i] = queue[i]
      /\ queue'[k] = a /\ k \in DOMAIN queue'
      /\ \A i \in DOMAIN queue' : i \in DOMAIN queue \/ i = k
      /\ k \in Nat /\ Len(queue) \in Nat
  BY <1>1, <1>2, <1>6, AppendFacts
<1>8. PICK m : m = [from |-> s, size |-> n, ready |-> FALSE]
  OBVIOUS
<1>9. m \in Messages
  BY <1>4, <1>8 DEF Messages
<1>10. ~Intact(queue[k])'
  <2>1. SUFFICES ASSUME Intact(queue[k])' PROVE FALSE
    OBVIOUS
  <2>2. PICK i \in DOMAIN queue' : Current(s, i)' /\ Unwritten(queue[i])'
    BY <1>2 DEF PipeInv, Sound, Fills, Filling
  <2>3. i = k
    <3>1. ~(k > i)
      BY <1>1, <1>7, <2>2 DEF Current
    <3>2. QED
      BY <1>7, <3>1
  <2>4. PICK c : c = SizeAt(loc[s].msg)
    OBVIOUS
  <2>5. c \in a.pos..End(a) - 1 /\ a.pos = loc[s].msg
    BY <1>1, <1>6, <2>4, Extent
  <2>6. mem'[c] = Blank /\ mem'[c] = MaskNotWriting + n
    BY <1>1, <1>7, <2>1, <2>2, <2>3, <2>4, <2>5 DEF Intact, Unwritten
  <2>7. n # MaskNotWriting - 1
    BY <1>4, PipeAssumption
  <2>8. QED
    BY <1>4, <2>6, <2>7, PipeAssumption DEF Blank
<1>11. chan' = Append(chan, m)
  <2>1. /\ Append(chan, m) \in Seq(Messages) /\ Len(Append(chan, m)) = k
        /\ \A i \in DOMAIN queue : Append(chan, m)[i] = chan[i]
        /\ Append(chan, m)[k] = m
    <3>1. chan \in Seq(Messages) /\ Len(chan) = Len(queue) /\ DOMAIN chan = DOMAIN queue
      BY <1>5, <1>7 DEF ChannelIs
    <3>2. QED
      BY <1>1, <1>9, <3>1, AppendFacts
  <2>2. ASSUME NEW i \in DOMAIN queue PROVE chan'[i] = chan[i]
    <3>1. queue'[i] = queue[i] /\ i \in DOMAIN queue'
      BY <1>1, <1>7
    <3>2. Intact(queue[i])' <=> Intact(queue[i])
      BY <1>2, <3>1 DEF Intact
    <3>3. Intact(queue[i]) \in BOOLEAN /\ Intact(queue[i])' \in BOOLEAN
      BY DEF Intact
    <3>4. Intact(queue[i])' = Intact(queue[i])
      BY <3>2, <3>3
    <3>5. Message(i)' = Message(i)
      BY <3>1, <3>4 DEF Message
    <3>6. QED
      BY <1>5, <3>1, <3>5 DEF ChannelIs
  <2>3. chan'[k] = m
    <3>1. Intact(queue[k])' \in BOOLEAN
      BY DEF Intact
    <3>2. Intact(queue[k])' = FALSE
      BY <1>10, <3>1
    <3>3. Message(k)' = m
      <4>1. queue'[k].from = s /\ queue'[k].size = n
        BY <1>1, <1>7
      <4>2. QED
        BY <1>8, <3>2, <4>1 DEF Message
    <3>4. QED
      BY <1>5, <1>7, <3>3 DEF ChannelIs
  <2>4. chan' \in Seq(Messages) /\ Len(chan') = k
    BY <1>5, <1>7 DEF ChannelIs
  <2>5. \A i \in 1..k : chan'[i] = Append(chan, m)[i]
    BY <1>7, <2>1, <2>2, <2>3
  <2>6. QED
    BY <2>1, <2>4, <2>5, SeqEqual
<1>12. (rpc = "have")' = (rpc = "have")
  BY <1>2
<1>13. Fifo!Reserve(s, n)
  BY <1>3, <1>8, <1>11, <1>12 DEF Fifo!Reserve
<1>14. QED
  BY <1>4, <1>13 DEF Goes, Fifo!Next

\* MarkReady finishes a message.
LEMMA MarkReadyGoes ==
  ASSUME TimelyInv, PipeInv', NEW s \in Senders, MarkReady(s)
  PROVE  Goes
<1>1. queue' = queue /\ rpc' = rpc /\ Published' = Published
  BY DEF MarkReady, receiverVars, Published
<1>2. PICK i \in DOMAIN queue :
        /\ ~Intact(queue[i]) /\ Intact(queue[i])'
        /\ \A j \in DOMAIN queue : j # i => (Intact(queue[j])' <=> Intact(queue[j]))
  <2>1. TypeOK'
    BY DEF PipeInv
  <2>2. QED
    BY <2>1, MarkReadyKeeps DEF TimelyInv
<1>3. ChannelIs /\ ChannelIs'
  BY ChannelShape, ChannelNext DEF TimelyInv
<1>4. /\ chan \in Seq(Messages) /\ chan' \in Seq(Messages) /\ DOMAIN chan = DOMAIN queue
      /\ Len(chan) = Len(queue) /\ Len(chan') = Len(queue)
  BY <1>1, <1>3 DEF ChannelIs
<1>5. chan[i] = [from |-> queue[i].from, size |-> queue[i].size, ready |-> FALSE]
  <2>1. Intact(queue[i]) \in BOOLEAN
    BY DEF Intact
  <2>2. Intact(queue[i]) = FALSE
    BY <1>2, <2>1
  <2>3. QED
    BY <1>3, <2>2 DEF ChannelIs, Message
<1>6. chan' = [chan EXCEPT ![i].ready = TRUE]
  <2>1. PICK m : m = [chan[i] EXCEPT !.ready = TRUE]
    OBVIOUS
  <2>2. m = [from |-> queue[i].from, size |-> queue[i].size, ready |-> TRUE]
    <3>1. PICK a : /\ a = chan[i] /\ a \in Messages
                   /\ a.from = queue[i].from /\ a.size = queue[i].size
      <4>1. PICK a : a = chan[i]
        OBVIOUS
      <4>2. a \in Messages
        BY <1>4, <4>1, ElementOfSeq
      <4>3. a.from = queue[i].from /\ a.size = queue[i].size
        BY <1>5, <4>1
      <4>4. QED
        BY <4>1, <4>2, <4>3
    <3>2. m = [from |-> a.from, size |-> a.size, ready |-> TRUE]
      BY <2>1, <3>1 DEF Messages
    <3>3. QED
      BY <3>1, <3>2
  <2>3. m \in Messages
    BY <1>3, <2>2, Extents DEF ChannelIs, Messages
  <2>4. chan'[i] = m
    <3>1. Intact(queue[i])' \in BOOLEAN
      BY DEF Intact
    <3>2. Intact(queue[i])' = TRUE
      BY <1>2, <3>1
    <3>3. Message(i)' = m
      BY <1>1, <2>2, <3>2 DEF Message
    <3>4. QED
      BY <1>1, <1>3, <3>3 DEF ChannelIs
  <2>5. ASSUME NEW j \in DOMAIN queue, j # i PROVE chan'[j] = chan[j]
    <3>1. Intact(queue[j]) \in BOOLEAN /\ Intact(queue[j])' \in BOOLEAN
      BY DEF Intact
    <3>2. Intact(queue[j])' = Intact(queue[j])
      BY <1>2, <2>5, <3>1
    <3>3. Message(j)' = Message(j)
      BY <1>1, <3>2 DEF Message
    <3>4. QED
      BY <1>1, <1>3, <3>3 DEF ChannelIs
  <2>6. PICK c : c = [chan EXCEPT ![i] = m]
    OBVIOUS
  <2>7. /\ c \in Seq(Messages) /\ Len(c) = Len(chan)
        /\ \A j \in 1..Len(chan) : c[j] = IF j = i THEN m ELSE chan[j]
    BY <1>4, <2>3, <2>6, ExceptSeq
  <2>8. chan' = c
    <3>1. \A j \in 1..Len(chan) : chan'[j] = c[j]
      BY <1>4, <2>4, <2>5, <2>7
    <3>2. chan' \in Seq(Messages) /\ Len(chan') = Len(c)
      BY <1>4, <2>7
    <3>3. PICK d : d = chan'
      OBVIOUS
    <3>4. \A j \in 1..Len(d) : d[j] = c[j]
      BY <2>7, <3>1, <3>2, <3>3
    <3>5. QED
      BY <2>7, <3>2, <3>3, <3>4, SeqEqual
  <2>9. QED
    BY <2>1, <2>6, <2>8
<1>7. (rpc = "have")' = (rpc = "have")
  BY <1>1
<1>8. Fifo!Finish(i) /\ i \in DOMAIN chan
  BY <1>1, <1>4, <1>5, <1>6, <1>7 DEF Fifo!Finish
<1>9. QED
  BY <1>8 DEF Goes, Fifo!Next

\* CasFrom makes the next message visible.
LEMMA PublishGoes ==
  ASSUME TimelyInv, PipeInv', NEW s \in Senders, CasFrom(s), senderPaceFrom = loc[s].pace
  PROVE  Goes
<1>1. queue' = queue /\ mem' = mem /\ rpc' = rpc
  BY DEF CasFrom, receiverVars
<1>2. /\ Published' = Published + 1 /\ Published < Len(queue)
      /\ Intact(queue[Published + 1])
  <2>1. TypeOK'
    BY DEF PipeInv
  <2>2. QED
    BY <2>1, PublishKeeps DEF TimelyInv
<1>3. ChannelIs /\ ChannelIs'
  BY ChannelShape, ChannelNext DEF TimelyInv
<1>4. chan' = chan
  <2>1. \A j \in DOMAIN queue : Intact(queue[j])' <=> Intact(queue[j])
    BY <1>1 DEF Intact
  <2>2. QED
    BY <1>1, <1>3, <2>1, ChannelKept
<1>5. Published + 1 \in DOMAIN queue
  BY <1>2, LaidOut DEF TimelyInv, PipeInv
<1>6. Published < Len(chan) /\ chan[Published + 1].ready
  <2>1. Intact(queue[Published + 1]) \in BOOLEAN
    BY DEF Intact
  <2>2. Intact(queue[Published + 1]) = TRUE
    BY <1>2, <2>1
  <2>3. Message(Published + 1).ready = TRUE
    BY <2>2 DEF Message
  <2>4. QED
    BY <1>2, <1>3, <1>5, <2>3 DEF ChannelIs
<1>7. (rpc = "have")' = (rpc = "have")
  BY <1>1
<1>8. Fifo!Publish
  BY <1>2, <1>4, <1>6, <1>7 DEF Fifo!Publish, Fifo!CanPublish
<1>9. QED
  BY <1>8 DEF Goes, Fifo!Next

\* HasTodo delivers the oldest message, or finds none.
LEMMA HasTodoGoes ==
  ASSUME TimelyInv, PipeInv', HasTodo
  PROVE  Goes
<1>1. /\ queue' = queue /\ mem' = mem /\ rpc = "poll" /\ rpc' \in {"idle", "have"}
      /\ senderPaceFrom' = senderPaceFrom
  BY DEF HasTodo
<1>2. Published' = Published
  BY <1>1 DEF Published
<1>3. \A j \in DOMAIN queue : Intact(queue[j])' <=> Intact(queue[j])
  BY <1>1 DEF Intact
<1>4. CASE rpc' = "idle"
  BY <1>1, <1>2, <1>3, <1>4, Stutters DEF TimelyInv
<1>5. CASE rpc' = "have"
  <2>1. chan' = chan
    BY <1>1, <1>3, ChannelShape, ChannelNext, ChannelKept DEF TimelyInv
  <2>2. Published > 0
    BY <1>2, <1>5 DEF PipeInv, Receives
  <2>3. (rpc = "have")' = TRUE /\ ~(rpc = "have")
    BY <1>1, <1>5
  <2>4. Fifo!Deliver
    BY <1>2, <2>1, <2>2, <2>3 DEF Fifo!Deliver
  <2>5. QED
    BY <2>4 DEF Goes, Fifo!Next
<1>6. QED
  BY <1>1, <1>4, <1>5

\* MsgConsumed takes the oldest message away.
LEMMA MsgConsumedGoes ==
  ASSUME TimelyInv, PipeInv', MsgConsumed
  PROVE  Goes
<1>1. mem' = mem /\ rpc = "have" /\ rpc' = "blank"
  BY DEF MsgConsumed
<1>2. Published' = Published - 1 /\ queue # <<>> /\ queue' = Tail(queue)
  <2>1. TypeOK'
    BY DEF PipeInv
  <2>2. QED
    BY <2>1, MsgConsumedKeeps DEF TimelyInv
<1>3. ChannelIs /\ ChannelIs'
  BY ChannelShape, ChannelNext DEF TimelyInv
<1>4. queue \in Seq(Reservation) /\ chan \in Seq(Messages) /\ Len(chan) = Len(queue)
  BY <1>3 DEF ChannelIs
<1>5. PICK q : q = Tail(queue)
  OBVIOUS
<1>6. /\ Len(q) = Len(queue) - 1 /\ DOMAIN q = 1..Len(queue) - 1
      /\ \A i \in DOMAIN q : i + 1 \in DOMAIN queue /\ q[i] = queue[i + 1]
  BY <1>2, <1>4, <1>5, TailFacts
<1>7. /\ chan # <<>> /\ Tail(chan) \in Seq(Messages) /\ Len(Tail(chan)) = Len(queue) - 1
      /\ \A i \in 1..Len(queue) - 1 : Tail(chan)[i] = chan[i + 1]
  <2>1. chan # <<>>
    BY <1>2, <1>4
  <2>2. QED
    BY <1>4, <2>1, HeadTailProperties
<1>8. ASSUME NEW i \in DOMAIN q PROVE chan'[i] = Tail(chan)[i]
  <2>1. PICK j \in DOMAIN queue : j = i + 1 /\ queue'[i] = queue[j]
    BY <1>2, <1>5, <1>6
  <2>2. Intact(queue[i])' <=> Intact(queue[j])
    BY <1>1, <2>1 DEF Intact
  <2>3. Intact(queue[j]) \in BOOLEAN /\ Intact(queue[i])' \in BOOLEAN
    BY DEF Intact
  <2>4. Intact(queue[i])' = Intact(queue[j])
    BY <2>2, <2>3
  <2>5. Message(i)' = Message(j)
    BY <2>1, <2>4 DEF Message
  <2>6. chan'[i] = chan[j]
    BY <1>2, <1>3, <1>5, <2>5 DEF ChannelIs
  <2>7. QED
    BY <1>6, <1>7, <2>1, <2>6
<1>9. chan' = Tail(chan)
  <2>1. chan' \in Seq(Messages) /\ Len(chan') = Len(queue) - 1
    BY <1>2, <1>3, <1>5, <1>6 DEF ChannelIs
  <2>2. QED
    BY <1>6, <1>7, <1>8, <2>1, SeqEqual
<1>10. (rpc = "have")' = FALSE /\ (rpc = "have")
  BY <1>1
<1>11. Fifo!Consume
  BY <1>2, <1>9, <1>10 DEF Fifo!Consume
<1>12. QED
  BY <1>11 DEF Goes, Fifo!Next

LEMMA SenderGoes ==
  ASSUME TimelyInv, PipeInv', NEW s \in Senders, SenderStep(s)
  PROVE  Goes
<1>1. CASE MarkReady(s)
  BY <1>1, MarkReadyGoes
<1>2. CASE CasFrom(s) /\ senderPaceFrom = loc[s].pace
  BY <1>2, PublishGoes
<1>3. ASSUME queue' = queue, Published' = Published, rpc' = rpc,
             \A j \in DOMAIN queue : Intact(queue[j])' <=> Intact(queue[j])
      PROVE  Goes
  BY <1>3, Stutters DEF TimelyInv
<1>4. TypeOK' /\ PipeInv
  BY DEF TimelyInv, PipeInv
<1>5. CASE WriteMsg(s)
  <2>1. \A j \in DOMAIN queue : Intact(queue[j])' <=> Intact(queue[j])
    BY <1>4, <1>5, WriteMsgKeeps
  <2>2. queue' = queue /\ Published' = Published /\ rpc' = rpc
    BY <1>5 DEF WriteMsg, receiverVars, Published
  <2>3. QED
    BY <1>3, <2>1, <2>2
<1>6. CASE StoreFrom(s)
  <2>1. Published' = Published
    BY <1>4, <1>6, StoreFromKeeps
  <2>2. queue' = queue /\ mem' = mem /\ rpc' = rpc
    BY <1>6 DEF StoreFrom, receiverVars
  <2>3. \A j \in DOMAIN queue : Intact(queue[j])' <=> Intact(queue[j])
    BY <2>2 DEF Intact
  <2>4. QED
    BY <1>3, <2>1, <2>2, <2>3
<1>7. ASSUME queue' = queue, mem' = mem, senderPaceFrom' = senderPaceFrom, rpc' = rpc
      PROVE  Goes
  <2>1. /\ Published' = Published
        /\ \A j \in DOMAIN queue : Intact(queue[j])' <=> Intact(queue[j])
    BY <1>7 DEF Published, Intact
  <2>2. QED
    BY <1>3, <1>7, <2>1
<1>8. CASE \/ LoadTo(s) \/ LoadReceiver(s) \/ LoadFrom(s) \/ Spin(s) \/ LoadSize(s)
           \/ CheckTo(s) \/ CheckReady(s) \/ (CasFrom(s) /\ senderPaceFrom # loc[s].pace)
  BY <1>7, <1>8 DEF LoadTo, LoadReceiver, LoadFrom, Spin, LoadSize, CheckTo, CheckReady,
                    CasFrom, receiverVars
<1>9. QED
  BY <1>1, <1>2, <1>5, <1>6, <1>8 DEF SenderStep

LEMMA ReceiverGoes ==
  ASSUME TimelyInv, PipeInv', ReceiverStep
  PROVE  Goes
<1>1. CASE LoadFromForReceive
  <2>1. /\ queue' = queue /\ Published' = Published
        /\ \A j \in DOMAIN queue : Intact(queue[j])' <=> Intact(queue[j])
    BY <1>1 DEF LoadFromForReceive, Published, Intact
  <2>2. ~(rpc = "have") /\ ~(rpc' = "have")
    BY <1>1 DEF LoadFromForReceive
  <2>3. QED
    BY <2>1, <2>2, Stutters DEF TimelyInv
<1>2. CASE BlankConsumed
  <2>1. TypeOK' /\ PipeInv
    BY DEF TimelyInv, PipeInv
  <2>2. \A j \in DOMAIN queue : Intact(queue[j])' <=> Intact(queue[j])
    BY <1>2, <2>1, BlankConsumedKeeps
  <2>3. queue' = queue /\ Published' = Published /\ ~(rpc = "have") /\ ~(rpc' = "have")
    BY <1>2 DEF BlankConsumed, Published
  <2>4. QED
    BY <2>2, <2>3, Stutters DEF TimelyInv
<1>3. QED
  BY <1>1, <1>2, HasTodoGoes, MsgConsumedGoes DEF ReceiverStep

LEMMA TimelyGoes ==
  ASSUME TimelyInv, PipeInv', [TimelyNext]_vars
  PROVE  Goes
<1>1. ASSUME queue' = queue, mem' = mem, senderPaceFrom' = senderPaceFrom, rpc' = rpc
      PROVE  Goes
  <2>1. /\ Published' = Published
        /\ \A j \in DOMAIN queue : Intact(queue[j])' <=> Intact(queue[j])
    BY <1>1 DEF Published, Intact
  <2>2. QED
    BY <1>1, <2>1, Stutters DEF TimelyInv
<1>2. CASE UNCHANGED vars
  BY <1>1, <1>2 DEF vars, receiverVars
<1>3. ASSUME NEW s \in Senders, NEW n \in ContentSizes, SendMsg(s, n) PROVE Goes
  BY <1>1, <1>3 DEF SendMsg, receiverVars
<1>4. ASSUME NEW s \in Senders, TimelyCasTo(s) PROVE Goes
  <2>1. CASE senderPaceTo = loc[s].pace
    BY <1>4, <2>1, ReserveGoes
  <2>2. CASE senderPaceTo # loc[s].pace
    BY <1>1, <1>4, <2>2 DEF TimelyCasTo, CasTo, receiverVars
  <2>3. QED
    BY <2>1, <2>2
<1>5. QED
  BY <1>2, <1>3, <1>4, SenderGoes, ReceiverGoes DEF TimelyNext, OtherSteps

LEMMA FifoInit == Init => Fifo!Init
<1> SUFFICES ASSUME Init PROVE Fifo!Init
  OBVIOUS
<1>1. PipeInv /\ ChannelIs /\ queue = <<>>
  BY PipeInvInit, ChannelShape DEF Init
<1>2. chan = <<>>
  BY <1>1 DEF ChannelIs
<1>3. Published = 0
  BY <1>1, LaidOut DEF PipeInv
<1>4. (rpc = "have") = FALSE
  BY DEF Init
<1>5. QED
  BY <1>2, <1>3, <1>4 DEF Fifo!Init

\* The pipe is a FIFO channel: CasTo (291-315) gives a message its place, SetReady
\* finishes it, JustSendMsg_ (318-358) publishes whole messages in the order of their
\* places, and the receiver takes them in that order, each once.
THEOREM PipeImplementsFifo ==
  ASSUME QuietBehind
  PROVE  TimelySpec => ImplementsFifo
<1>1. TimelyInv /\ TimelyInv' /\ [TimelyNext]_vars => [Fifo!Next]_(Fifo!vars)
  BY TimelyGoes DEF TimelyInv, Goes
<1>2. QED
  BY <1>1, FifoInit, Invariance, PTL DEF TimelySpec, ImplementsFifo, Fifo!Spec
=============================================================================
