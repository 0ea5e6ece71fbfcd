------------------------------ MODULE CaraRing ------------------------------
(***************************************************************************)
(* The single-producer single-consumer ring (include/cara/ring.h), at the  *)
(* granularity of its shared accesses: a producer inside Ring_Enqueue and  *)
(* a consumer inside Ring_Dequeue interleave between any two of them.      *)
(*                                                                         *)
(*   head, tail   the two free-running counters, of Modulus values (2^32   *)
(*                for u32) and so wrapping                                 *)
(*   slots        the slot array, indexed by a counter & (Capacity - 1)    *)
(*   prod, cons   where each side is and the locals of its call            *)
(*   received     what the last successful Ring_Dequeue returned           *)
(*   raised       the last finished Ring_Enqueue asked for a signal        *)
(*                                                                         *)
(* The release store of a counter publishes what was written before it, so *)
(* the accesses are modelled in program order.                             *)
(***************************************************************************)
EXTENDS Integers, Sequences

CONSTANTS Slot, Capacity, Modulus, NoSlot

ASSUME RingAssumption ==
  /\ Capacity \in Nat \ {0}
  /\ Modulus \in Nat
  /\ Modulus > Capacity
  /\ Modulus % Capacity = 0
  /\ NoSlot \notin Slot

VARIABLES head, tail, slots, prod, cons, received, raised

ringVars == <<head, tail, slots, prod, cons, received, raised>>

Counter == 0..(Modulus - 1)
SlotIndex(c) == c % Capacity

\* Unsigned subtraction and increment of the counters.
Distance(h, t) == (h - t) % Modulus
Inc(c) == (c + 1) % Modulus

RingInit ==
  /\ head = 0 /\ tail = 0
  /\ slots = [i \in 0..(Capacity - 1) |-> NoSlot]
  /\ prod = [at |-> "idle", head |-> 0, tail |-> 0, v |-> NoSlot]
  /\ cons = [at |-> "idle", head |-> 0, tail |-> 0, v |-> NoSlot]
  /\ received = << >>
  /\ raised = FALSE

-----------------------------------------------------------------------------
(* Ring_Enqueue.                                                           *)

\* Mutant of Full: one slot too many is allowed.
FullOffByOne(h, t) == Distance(h, t) > Capacity

\* Mutant of Full: the counters are compared without their wrap-around.
FullSigned(h, t) == h - t >= Capacity

Full(h, t) == Distance(h, t) >= Capacity

EnqueueLoad(v) ==
  /\ prod.at = "idle"
  /\ prod' = [at |-> IF Full(head, tail) THEN "idle" ELSE "fill",
              head |-> head, tail |-> tail, v |-> v]
  /\ raised' = FALSE
  /\ UNCHANGED <<head, tail, slots, cons, received>>

EnqueueFill ==
  /\ prod.at = "fill"
  /\ slots' = [slots EXCEPT ![SlotIndex(prod.head)] = prod.v]
  /\ prod' = [prod EXCEPT !.at = "publish"]
  /\ UNCHANGED <<head, tail, cons, received, raised>>

EnqueuePublish ==
  /\ prod.at = "publish"
  /\ head' = Inc(prod.head)
  /\ raised' = (prod.head = prod.tail)
  /\ prod' = [prod EXCEPT !.at = "idle"]
  /\ UNCHANGED <<tail, slots, cons, received>>

-----------------------------------------------------------------------------
(* Ring_Dequeue.                                                           *)

Empty(h, t) == h = t

DequeueLoad ==
  /\ cons.at = "idle"
  /\ cons' = [at |-> IF Empty(head, tail) THEN "idle" ELSE "read",
              head |-> head, tail |-> tail, v |-> NoSlot]
  /\ UNCHANGED <<head, tail, slots, prod, received, raised>>

DequeueRead ==
  /\ cons.at = "read"
  /\ cons' = [cons EXCEPT !.at = "release", !.v = slots[SlotIndex(cons.tail)]]
  /\ UNCHANGED <<head, tail, slots, prod, received, raised>>

DequeueRelease ==
  /\ cons.at = "release"
  /\ tail' = Inc(cons.tail)
  /\ received' = <<cons.v>>
  /\ cons' = [cons EXCEPT !.at = "idle"]
  /\ UNCHANGED <<head, slots, prod, raised>>

RingNext ==
  \/ \E v \in Slot : EnqueueLoad(v)
  \/ EnqueueFill
  \/ EnqueuePublish
  \/ DequeueLoad
  \/ DequeueRead
  \/ DequeueRelease

RingSpec == RingInit /\ [][RingNext]_ringVars

-----------------------------------------------------------------------------
(* Properties.                                                             *)

Ring_Count == Distance(head, tail)

\* The slots between tail and head, oldest first.
Contents == [i \in 1..Ring_Count |-> slots[SlotIndex((tail + i - 1) % Modulus)]]

\* The counters stay within u32 and never more than Capacity apart, across
\* their wrap-around, and each side's private copy of its own counter is
\* current while it is inside its call.
CountBounded ==
  /\ head \in Counter /\ tail \in Counter
  /\ Ring_Count <= Capacity
  /\ prod.at # "idle" => prod.head = head /\ Ring_Count < Capacity
  /\ cons.at # "idle" => cons.tail = tail /\ Ring_Count > 0

\* The plain accesses do not race: while the producer fills a slot, the slot
\* the consumer reads is another one.
NoSlotRace ==
  prod.at = "fill" /\ cons.at = "read" => SlotIndex(prod.head) # SlotIndex(cons.tail)

Fifo == INSTANCE BoundedFifo WITH queue <- Contents

\* The ring implements the bounded queue: every slot enqueued is dequeued
\* once, unchanged and in order, whatever the interleaving.
ImplementsFifo == Fifo!FifoSpec

\* Ring_Enqueue asks for a signal only when the slot it published made the
\* queue non-empty, although it decides that from counters read earlier.
SignalOnlyOnEmpty ==
  [][head' # head /\ raised' => Ring_Count = 0]_ringVars
=============================================================================
