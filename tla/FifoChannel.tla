---------------------------- MODULE FifoChannel ----------------------------
(***************************************************************************)
(* What a multi-producer single-consumer pipe promises.  A sender takes a  *)
(* place in the order of messages and finishes its message in its own      *)
(* time; finished messages are made visible strictly in the order of       *)
(* their places; the receiver holds the oldest visible message until it    *)
(* has consumed it.  Nothing is lost, duplicated, reordered, or seen       *)
(* before it is finished.                                                  *)
(***************************************************************************)
EXTENDS Naturals, Sequences

CONSTANTS Senders, Sizes

VARIABLES
  chan,   \* messages in order: sender, size, and whether it is finished
  out,    \* how many of them the receiver may see
  held    \* whether the receiver holds the first one

vars == <<chan, out, held>>

Init == chan = <<>> /\ out = 0 /\ held = FALSE

Reserve(s, n) ==
  /\ chan' = Append(chan, [from |-> s, size |-> n, ready |-> FALSE])
  /\ UNCHANGED <<out, held>>

Finish(i) ==
  /\ ~chan[i].ready
  /\ chan' = [chan EXCEPT ![i].ready = TRUE]
  /\ UNCHANGED <<out, held>>

CanPublish == out < Len(chan) /\ chan[out + 1].ready

Publish ==
  /\ CanPublish
  /\ out' = out + 1
  /\ UNCHANGED <<chan, held>>

Deliver ==
  /\ ~held /\ out > 0
  /\ held' = TRUE
  /\ UNCHANGED <<chan, out>>

Consume ==
  /\ held
  /\ held' = FALSE
  /\ chan' = Tail(chan)
  /\ out' = out - 1

Next ==
  \/ \E s \in Senders, n \in Sizes : Reserve(s, n)
  \/ \E i \in DOMAIN chan : Finish(i)
  \/ Publish \/ Deliver \/ Consume

Spec == Init /\ [][Next]_vars
=============================================================================
