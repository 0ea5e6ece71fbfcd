---------------------------- MODULE BoundedFifo ----------------------------
(* What include/cara/ring.h promises: a first-in first-out queue of at     *)
(* most Capacity slots.  `received` is what the last successful dequeue    *)
(* handed to its caller.                                                   *)
EXTENDS Naturals, Sequences

CONSTANTS Slot, Capacity

VARIABLES queue, received

fifoVars == <<queue, received>>

FifoInit == queue = << >> /\ received = << >>

Put(v) ==
  /\ Len(queue) < Capacity
  /\ queue' = Append(queue, v)
  /\ UNCHANGED received

Get ==
  /\ queue # << >>
  /\ received' = <<Head(queue)>>
  /\ queue' = Tail(queue)

FifoNext == (\E v \in Slot : Put(v)) \/ Get

FifoSpec == FifoInit /\ [][FifoNext]_fifoVars
=============================================================================
