----------------------------- MODULE LossyFifo -----------------------------
(***************************************************************************)
(* What the input side of the virtual HID driver promises its reader: a    *)
(* bounded queue that hands reports out in the order they came, each one   *)
(* once, and that makes room for a new report by dropping the oldest.      *)
(***************************************************************************)
EXTENDS Naturals, Sequences

CONSTANTS
  Reports,   \* the reports that may be queued
  Takers,    \* the threads that take reports out
  Capacity,  \* how many reports are kept
  None       \* no report

VARIABLES
  fifo,      \* the queued reports, the oldest first
  hand       \* the report each taker has in its hands

vars == <<fifo, hand>>

Init == fifo = <<>> /\ hand = [t \in Takers |-> None]

\* Append r; of a full queue the oldest report is dropped.
Pushed(q, r) == Append(IF Len(q) < Capacity THEN q ELSE Tail(q), r)

Put(r) == fifo' = Pushed(fifo, r) /\ UNCHANGED hand

Take(t) ==
  /\ fifo # <<>> /\ hand[t] = None
  /\ hand' = [hand EXCEPT ![t] = Head(fifo)]
  /\ fifo' = Tail(fifo)

Give(t) ==
  /\ hand[t] # None /\ hand' = [hand EXCEPT ![t] = None]
  /\ UNCHANGED fifo

Next ==
  \/ \E r \in Reports : Put(r)
  \/ \E t \in Takers : Take(t) \/ Give(t)

Spec == Init /\ [][Next]_vars
=============================================================================
