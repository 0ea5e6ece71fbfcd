--------------------------- MODULE CaraRingProofs ---------------------------
(***************************************************************************)
(* Proofs about the ring of module CaraRing, for every capacity, every     *)
(* width of the counters that the capacity divides, and every message.     *)
(* The arguments are about the two counters only through Distance and Inc, *)
(* whose wrap-around the first lemmas remove.                              *)
(***************************************************************************)
EXTENDS CaraRing, SequenceTheorems, TLAPS

\* What the sides remember of their calls has its type.
RingType ==
  /\ slots \in [0..(Capacity - 1) -> Slot \cup {NoSlot}]
  /\ prod \in [at : {"idle", "fill", "publish"}, head : Counter, tail : Counter,
               v : Slot \cup {NoSlot}]
  /\ cons \in [at : {"idle", "read", "release"}, head : Counter, tail : Counter,
               v : Slot \cup {NoSlot}]

\* The inductive invariant.  Besides CountBounded: the slot the producer has
\* filled but not yet published holds its message, the slot the consumer has
\* read but not yet released still holds what it read, and the tail that the
\* producer read lies no closer to head than the tail of now.
RingInv ==
  /\ RingType
  /\ CountBounded
  /\ prod.at # "idle" => prod.v \in Slot /\ Ring_Count <= Distance(head, prod.tail)
  /\ prod.at = "publish" => slots[SlotIndex(head)] = prod.v
  /\ cons.at = "release" => slots[SlotIndex(tail)] = cons.v

-----------------------------------------------------------------------------
(* Arithmetic of the counters.                                             *)

\* The unsigned difference of two counters.
LEMMA DistanceIs ==
  ASSUME NEW h \in Counter, NEW t \in Counter
  PROVE  Distance(h, t) = IF h >= t THEN h - t ELSE h - t + Modulus
  BY RingAssumption DEF Distance, Counter

\* It is a natural number, zero between equal counters only.
LEMMA DistanceNat ==
  \A h, t \in Counter : Distance(h, t) \in Nat /\ (Distance(h, t) = 0 <=> h = t)
  BY DistanceIs, RingAssumption DEF Counter

\* The unsigned increment of a counter.
LEMMA IncIs ==
  ASSUME NEW c \in Counter
  PROVE  Inc(c) = IF c = Modulus - 1 THEN 0 ELSE c + 1
  BY RingAssumption DEF Inc, Counter

\* Division with remainder, the quotient and the remainder named.
LEMMA Quotient ==
  ASSUME NEW m \in Nat \ {0}, NEW a \in Int
  PROVE  \E k \in Int, r \in Int : a = m * k + r /\ r = a % m
<1>1. a = m * (a \div m) + (a % m)
  OBVIOUS
<1>2. a \div m \in Int /\ a % m \in Int
  OBVIOUS
<1> QED BY <1>1, <1>2, Zenon

\* Counters that are less than a ring apart have slots of their own.
LEMMA SlotsApart ==
  ASSUME NEW x \in Counter, NEW y \in Counter,
         Distance(x, y) > 0, Distance(x, y) < Capacity
  PROVE  SlotIndex(x) # SlotIndex(y)
<1> SUFFICES ASSUME SlotIndex(x) = SlotIndex(y) PROVE FALSE
  OBVIOUS
<1>0. Capacity \in Int /\ Capacity > 0 /\ Modulus \in Int /\ x \in Int /\ y \in Int
  BY RingAssumption DEF Counter
<1>a. Capacity \in Nat \ {0}
  BY RingAssumption
<1>1. PICK i \in Int, r \in Int : x = Capacity * i + r /\ r = SlotIndex(x)
  BY <1>0, <1>a, Quotient, Zenon DEF SlotIndex
<1>2. PICK j \in Int, q \in Int : y = Capacity * j + q /\ q = SlotIndex(y)
  BY <1>0, <1>a, Quotient, Zenon DEF SlotIndex
<1>3. PICK m \in Int, z \in Int : Modulus = Capacity * m + z /\ z = 0
  BY <1>0, <1>a, Quotient, RingAssumption, Zenon
<1>4. PICK d \in Int : d = Distance(x, y) /\ (d = x - y \/ d = x - y + Modulus)
  BY <1>0, DistanceIs
<1>5. PICK u \in Int, v \in Int, w \in Int :
        u = Capacity * i /\ v = Capacity * j /\ w = Capacity * m
  BY <1>0
<1>6. u - v = Capacity * (i - j) /\ u - v + w = Capacity * (i - j + m)
  BY <1>0, <1>5
<1>b. d = u - v \/ d = u - v + w
  <2>1. r = q
    BY <1>1, <1>2, Zenon
  <2>2. x = u + r
    BY <1>1, <1>5
  <2>3. y = v + r
    BY <1>2, <1>5, <2>1
  <2>4. Modulus = w
    BY <1>3, <1>5
  <2> QED BY <1>4, <2>2, <2>3, <2>4
<1>7. PICK k \in Int : d = Capacity * k
  BY <1>6, <1>b
<1>8. d > 0 /\ d < Capacity
  BY <1>4
<1> QED BY <1>0, <1>7, <1>8

\* The i-th counter from t on.
From(t, i) == (t + i - 1) % Modulus

\* The counters from tail up to head, without their wrap-around.
LEMMA FromIs ==
  ASSUME NEW t \in Counter, NEW i \in 1..Modulus
  PROVE  From(t, i) = IF t + i - 1 < Modulus THEN t + i - 1 ELSE t + i - 1 - Modulus
  BY RingAssumption DEF From, Counter

\* They count down the distance to head, the first is tail and the one after
\* the last is head.
LEMMA FromDistance ==
  ASSUME NEW h \in Counter, NEW t \in Counter
  PROVE  /\ From(t, 1) = t
         /\ From(t, Distance(h, t) + 1) = h
         /\ \A i \in 1..Distance(h, t) :
              /\ From(t, i) \in Counter
              /\ Distance(h, From(t, i)) = Distance(h, t) - i + 1
<1>0. Modulus \in Nat /\ Modulus > 0 /\ h \in 0..(Modulus - 1) /\ t \in 0..(Modulus - 1)
  BY RingAssumption DEF Counter
<1>1. PICK d \in 0..(Modulus - 1) : d = Distance(h, t) /\ d = IF h >= t THEN h - t ELSE h - t + Modulus
  BY <1>0, DistanceIs
<1>2. From(t, 1) = t
  BY <1>0, FromIs
<1>3. From(t, d + 1) = h
  BY <1>0, <1>1, FromIs
<1>4. ASSUME NEW i \in 1..d
      PROVE  From(t, i) \in Counter /\ Distance(h, From(t, i)) = d - i + 1
  <2>1. PICK c \in 0..(Modulus - 1) :
          c = From(t, i) /\ c = IF t + i - 1 < Modulus THEN t + i - 1 ELSE t + i - 1 - Modulus
    BY <1>0, <1>1, FromIs
  <2>2. Distance(h, c) = IF h >= c THEN h - c ELSE h - c + Modulus
    BY DistanceIs DEF Counter
  <2>3. Distance(h, c) = d - i + 1
    BY <1>0, <1>1, <2>1, <2>2
  <2> QED BY <2>1, <2>3 DEF Counter
<1> QED BY <1>1, <1>2, <1>3, <1>4

\* Publishing a slot lengthens the distance, releasing one shortens it and
\* moves every position of the queue down by one.
LEMMA IncDistance ==
  ASSUME NEW h \in Counter, NEW t \in Counter
  PROVE  /\ Inc(h) \in Counter
         /\ Distance(h, t) \in 0..(Modulus - 1)
         /\ Distance(h, t) < Capacity => Distance(Inc(h), t) = Distance(h, t) + 1
         /\ Distance(h, t) > 0 => Distance(h, Inc(t)) = Distance(h, t) - 1
         /\ \A i \in 1..(Modulus - 1) : From(Inc(t), i) = From(t, i + 1)
<1>0. /\ Modulus \in Nat /\ Capacity \in Nat /\ Modulus > Capacity
      /\ h \in 0..(Modulus - 1) /\ t \in 0..(Modulus - 1)
  BY RingAssumption DEF Counter
<1>1. Inc(h) \in 0..(Modulus - 1) /\ Inc(h) = IF h = Modulus - 1 THEN 0 ELSE h + 1
  BY <1>0, IncIs
<1>2. Inc(t) \in 0..(Modulus - 1) /\ Inc(t) = IF t = Modulus - 1 THEN 0 ELSE t + 1
  BY <1>0, IncIs
<1>3. Distance(h, t) = IF h >= t THEN h - t ELSE h - t + Modulus
  BY DistanceIs
<1>4. Distance(Inc(h), t) = IF Inc(h) >= t THEN Inc(h) - t ELSE Inc(h) - t + Modulus
  BY <1>1, DistanceIs DEF Counter
<1>5. Distance(h, Inc(t)) = IF h >= Inc(t) THEN h - Inc(t) ELSE h - Inc(t) + Modulus
  BY <1>2, DistanceIs DEF Counter
<1>6. ASSUME NEW i \in 1..(Modulus - 1) PROVE From(Inc(t), i) = From(t, i + 1)
  <2>1. From(t, i + 1) = IF t + i < Modulus THEN t + i ELSE t + i - Modulus
    BY <1>0, FromIs
  <2>2. From(Inc(t), i) = IF Inc(t) + i - 1 < Modulus THEN Inc(t) + i - 1 ELSE Inc(t) + i - 1 - Modulus
    BY <1>0, <1>2, FromIs DEF Counter
  <2> QED BY <1>0, <1>2, <2>1, <2>2
<1> QED BY <1>0, <1>1, <1>3, <1>4, <1>5, <1>2, <1>6 DEF Counter

-----------------------------------------------------------------------------
(* The invariant.                                                          *)

\* Where a counter's slot is.
LEMMA SlotIndexIn == \A c \in Counter : SlotIndex(c) \in 0..(Capacity - 1)
  BY RingAssumption DEF SlotIndex, Counter

\* Two empty sides and an empty ring.
LEMMA RingInitInv == RingInit => RingInv
<1> SUFFICES ASSUME RingInit PROVE RingInv
  OBVIOUS
<1>1. 0 \in Counter
  BY RingAssumption DEF Counter
<1>2. Ring_Count = 0
  BY <1>1, DistanceIs DEF RingInit, Ring_Count
<1>3. RingType
  BY <1>1 DEF RingInit, RingType
<1>4. prod.at = "idle" /\ cons.at = "idle" /\ head = 0 /\ tail = 0
  BY DEF RingInit
<1> QED BY <1>1, <1>2, <1>3, <1>4, RingAssumption DEF RingInv, CountBounded

\* Inside its call the producer's slot lies outside the queue, so that no slot
\* between tail and head is ever overwritten.
LEMMA FreeSlotApart ==
  ASSUME RingInv, prod.at # "idle", NEW i \in 1..Ring_Count
  PROVE  SlotIndex(head) # SlotIndex(From(tail, i))
<1>1. head \in Counter /\ tail \in Counter /\ Ring_Count < Capacity
  BY DEF RingInv, CountBounded
<1>2. From(tail, i) \in Counter /\ Distance(head, From(tail, i)) = Ring_Count - i + 1
  BY <1>1, FromDistance DEF Ring_Count
<1>3. Ring_Count \in Int
  BY <1>1, IncDistance DEF Ring_Count
<1>4. Distance(head, From(tail, i)) > 0 /\ Distance(head, From(tail, i)) < Capacity
  BY <1>1, <1>2, <1>3, RingAssumption
<1> QED BY <1>1, <1>2, <1>4, SlotsApart

\* One step per access of the two calls.
LEMMA RingNextInv == RingInv /\ [RingNext]_ringVars => RingInv'
<1> SUFFICES ASSUME RingInv, [RingNext]_ringVars PROVE RingInv'
  OBVIOUS
<1> USE DEF RingInv, RingType, CountBounded
<1>0. /\ head \in Counter /\ tail \in Counter
      /\ Ring_Count \in Nat /\ Ring_Count = Distance(head, tail)
      /\ Capacity \in Nat
  BY DistanceNat, RingAssumption DEF Ring_Count
<1>1. ASSUME NEW v \in Slot, EnqueueLoad(v) PROVE RingInv'
  <2>1. Ring_Count' = Ring_Count /\ Distance(head, tail)' = Distance(head, tail)
    BY <1>1 DEF EnqueueLoad, Ring_Count
  <2>2. CASE Full(head, tail)
    BY <1>0, <1>1, <2>1, <2>2 DEF EnqueueLoad
  <2>3. CASE ~Full(head, tail)
    <3>1. Ring_Count < Capacity
      BY <1>0, <2>3 DEF Full
    <3>2. prod' = [at |-> "fill", head |-> head, tail |-> tail, v |-> v]
      BY <1>1, <2>3 DEF EnqueueLoad
    <3> QED BY <1>0, <1>1, <2>1, <3>1, <3>2 DEF EnqueueLoad
  <2> QED BY <2>2, <2>3
<1>2. CASE EnqueueFill
  <2>1. Ring_Count' = Ring_Count /\ Distance(head, prod.tail)' = Distance(head, prod.tail)
    BY <1>2 DEF EnqueueFill, Ring_Count
  <2>2. prod.head = head /\ prod.v \in Slot /\ SlotIndex(head) \in 0..(Capacity - 1)
    BY <1>0, <1>2, SlotIndexIn DEF EnqueueFill
  <2>3. slots'[SlotIndex(head)] = prod.v
    BY <1>2, <2>2 DEF EnqueueFill
  <2>4. cons.at = "release" => slots'[SlotIndex(tail)] = cons.v
    <3> HAVE cons.at = "release"
    <3>1. 1 \in 1..Ring_Count /\ From(tail, 1) = tail
      BY <1>0, FromDistance
    <3>2. SlotIndex(head) # SlotIndex(tail)
      BY <1>2, <3>1, FreeSlotApart DEF EnqueueFill
    <3> QED BY <1>2, <2>2, <3>2 DEF EnqueueFill
  <2> QED BY <1>0, <1>2, <2>1, <2>2, <2>3, <2>4 DEF EnqueueFill
<1>3. CASE EnqueuePublish
  <2>1. head' = Inc(head) /\ head' \in Counter /\ Ring_Count < Capacity /\ tail' = tail
    BY <1>0, <1>3, IncDistance DEF EnqueuePublish
  <2>2. Ring_Count' = Ring_Count + 1
    BY <1>0, <2>1, IncDistance DEF Ring_Count
  <2> QED BY <1>0, <1>3, <2>1, <2>2 DEF EnqueuePublish
<1>4. CASE DequeueLoad
  <2>1. Ring_Count' = Ring_Count /\ Distance(head, prod.tail)' = Distance(head, prod.tail)
    BY <1>4 DEF DequeueLoad, Ring_Count
  <2>2. CASE head = tail
    BY <1>0, <1>4, <2>1, <2>2 DEF DequeueLoad, Empty
  <2>3. CASE head # tail
    <3>1. Ring_Count > 0
      BY <1>0, <2>3, DistanceNat
    <3> QED BY <1>0, <1>4, <2>1, <2>3, <3>1 DEF DequeueLoad, Empty
  <2> QED BY <2>2, <2>3
<1>5. CASE DequeueRead
  <2>1. Ring_Count' = Ring_Count /\ Distance(head, prod.tail)' = Distance(head, prod.tail)
    BY <1>5 DEF DequeueRead, Ring_Count
  <2>2. slots[SlotIndex(tail)] \in Slot \cup {NoSlot}
    BY <1>0, SlotIndexIn
  <2> QED BY <1>0, <1>5, <2>1, <2>2, Zenon DEF DequeueRead
<1>6. CASE DequeueRelease
  <2>1. tail' = Inc(tail) /\ tail' \in Counter /\ Ring_Count > 0 /\ head' = head
    BY <1>0, <1>6, IncDistance DEF DequeueRelease
  <2>2. Ring_Count' = Ring_Count - 1
    BY <1>0, <2>1, IncDistance DEF Ring_Count
  <2>3. Distance(head, prod.tail)' = Distance(head, prod.tail)
    BY <1>6 DEF DequeueRelease
  <2>4. prod.at # "idle" => Distance(head, prod.tail) \in Int
    BY <1>0, DistanceNat
  <2> QED BY <1>0, <1>6, <2>1, <2>2, <2>3, <2>4 DEF DequeueRelease
<1>7. CASE UNCHANGED ringVars
  <2>1. Ring_Count' = Ring_Count /\ Distance(head, prod.tail)' = Distance(head, prod.tail)
    BY <1>7 DEF ringVars, Ring_Count
  <2> QED BY <1>7, <2>1 DEF ringVars
<1> QED BY <1>1, <1>2, <1>3, <1>4, <1>5, <1>6, <1>7 DEF RingNext

-----------------------------------------------------------------------------
(* The queue that the ring represents.                                     *)

\* Contents is the sequence of the Ring_Count slots from tail on.
ContentsAre ==
  /\ Ring_Count \in Nat
  /\ Contents \in Seq(Slot \cup {NoSlot})
  /\ Len(Contents) = Ring_Count
  /\ \A i \in 1..Ring_Count : Contents[i] = slots[SlotIndex(From(tail, i))]

\* The invariant makes it one.
LEMMA ContentsSeq == RingInv => ContentsAre
<1> SUFFICES ASSUME RingInv PROVE ContentsAre
  OBVIOUS
<1>1. head \in Counter /\ tail \in Counter /\ slots \in [0..(Capacity - 1) -> Slot \cup {NoSlot}]
  BY DEF RingInv, RingType, CountBounded
<1>2. Ring_Count \in Nat
  BY <1>1, DistanceNat DEF Ring_Count
<1>3. \A i \in 1..Ring_Count : slots[SlotIndex(From(tail, i))] \in Slot \cup {NoSlot}
  BY <1>1, FromDistance, SlotIndexIn DEF Ring_Count
<1>4. Contents = [i \in 1..Ring_Count |-> slots[SlotIndex(From(tail, i))]]
  BY DEF Contents, From
<1>5. Contents \in [1..Ring_Count -> Slot \cup {NoSlot}]
  BY <1>3, <1>4
<1> QED BY <1>2, <1>4, <1>5 DEF ContentsAre

\* Two sequences of one length with the same slots are one.
LEMMA SameContents ==
  ASSUME NEW S, NEW q \in Seq(S), NEW r \in Seq(S), Len(q) = Len(r),
         \A i \in 1..Len(q) : q[i] = r[i]
  PROVE  q = r
  BY SeqEqual

\* A step that leaves tail, head and the slots between them alone changes
\* nothing that a caller of the queue can see.
LEMMA ContentsKept ==
  ASSUME RingInv, RingInv', head' = head, tail' = tail,
         \A i \in 1..Ring_Count : slots'[SlotIndex(From(tail, i))] = slots[SlotIndex(From(tail, i))]
  PROVE  Contents' = Contents
<1>1. Ring_Count' = Ring_Count
  BY DEF Ring_Count
<1>2. ContentsAre /\ ContentsAre'
  <2>1. (RingInv => ContentsAre)'
    BY ContentsSeq, PTL
  <2> QED BY <2>1, ContentsSeq
<1>3. /\ Contents' \in Seq(Slot \cup {NoSlot})
      /\ Len(Contents') = Ring_Count
      /\ \A i \in 1..Ring_Count : Contents'[i] = slots'[SlotIndex(From(tail, i))]
  BY <1>1, <1>2 DEF ContentsAre
<1> QED BY <1>2, <1>3, SameContents DEF ContentsAre

\* EnqueuePublish appends the message.
LEMMA PublishAppends ==
  ASSUME RingInv, RingInv', EnqueuePublish
  PROVE  /\ prod.v \in Slot
         /\ Len(Contents) < Capacity
         /\ Contents' = Append(Contents, prod.v)
<1>1. ContentsAre /\ ContentsAre'
  <2>1. (RingInv => ContentsAre)'
    BY ContentsSeq, PTL
  <2> QED BY <2>1, ContentsSeq
<1>2. /\ prod.v \in Slot /\ Ring_Count < Capacity /\ slots[SlotIndex(head)] = prod.v
      /\ head \in Counter /\ tail \in Counter
      /\ head' = Inc(head) /\ tail' = tail /\ slots' = slots
  BY DEF RingInv, CountBounded, EnqueuePublish
<1>3. Ring_Count' = Ring_Count + 1
  BY <1>2, IncDistance DEF Ring_Count
<1>4. From(tail, Ring_Count + 1) = head
  BY <1>2, FromDistance DEF Ring_Count
<1>5. PICK q : q = Append(Contents, prod.v)
  BY Zenon
<1>6. /\ q \in Seq(Slot \cup {NoSlot})
      /\ Len(q) = Ring_Count + 1
      /\ \A i \in 1..Ring_Count : q[i] = slots[SlotIndex(From(tail, i))]
      /\ q[Ring_Count + 1] = slots[SlotIndex(From(tail, Ring_Count + 1))]
  BY <1>1, <1>2, <1>4, <1>5 DEF ContentsAre
<1>7. /\ Contents' \in Seq(Slot \cup {NoSlot})
      /\ Len(Contents') = Ring_Count + 1
      /\ \A i \in 1..(Ring_Count + 1) : Contents'[i] = slots[SlotIndex(From(tail, i))]
  BY <1>1, <1>2, <1>3 DEF ContentsAre
<1>8. \A i \in 1..(Ring_Count + 1) : q[i] = slots[SlotIndex(From(tail, i))]
  <2>1. Ring_Count \in Nat
    BY <1>1 DEF ContentsAre
  <2> QED BY <1>6, <2>1
<1>9. Contents' = q
  BY <1>6, <1>7, <1>8, SameContents
<1> QED BY <1>1, <1>2, <1>5, <1>9 DEF ContentsAre

\* DequeueRelease takes the oldest message off, the one the consumer copied.
LEMMA ReleaseTakesHead ==
  ASSUME RingInv, RingInv', DequeueRelease
  PROVE  /\ Contents # << >>
         /\ received' = <<Head(Contents)>>
         /\ Contents' = Tail(Contents)
<1>1. ContentsAre /\ ContentsAre'
  <2>1. (RingInv => ContentsAre)'
    BY ContentsSeq, PTL
  <2> QED BY <2>1, ContentsSeq
<1>2. /\ Ring_Count > 0 /\ slots[SlotIndex(tail)] = cons.v
      /\ head \in Counter /\ tail \in Counter
      /\ head' = head /\ tail' = Inc(tail) /\ slots' = slots /\ received' = <<cons.v>>
  BY DEF RingInv, CountBounded, DequeueRelease
<1>3. Ring_Count' = Ring_Count - 1 /\ Ring_Count \in 0..(Modulus - 1)
  BY <1>2, IncDistance DEF Ring_Count
<1>4. Head(Contents) = cons.v /\ Contents # << >>
  <2>1. From(tail, 1) = tail
    BY <1>2, FromDistance
  <2>2. Contents[1] = cons.v
    BY <1>1, <1>2, <1>3, <2>1 DEF ContentsAre
  <2> QED BY <1>1, <1>2, <2>2 DEF ContentsAre
<1>5. PICK q : q = Tail(Contents)
  BY Zenon
<1>6. /\ q \in Seq(Slot \cup {NoSlot})
      /\ Len(q) = Ring_Count - 1
      /\ \A i \in 1..(Ring_Count - 1) : q[i] = slots[SlotIndex(From(tail, i + 1))]
  <2>1. /\ q \in Seq(Slot \cup {NoSlot})
        /\ Len(q) = Len(Contents) - 1
        /\ \A i \in 1..(Len(Contents) - 1) : q[i] = Contents[i + 1]
    BY <1>1, <1>4, <1>5, HeadTailProperties DEF ContentsAre
  <2> QED BY <1>1, <1>3, <2>1 DEF ContentsAre
<1>7. /\ Contents' \in Seq(Slot \cup {NoSlot})
      /\ Len(Contents') = Ring_Count - 1
      /\ \A i \in 1..(Ring_Count - 1) : Contents'[i] = slots[SlotIndex(From(Inc(tail), i))]
  BY <1>1, <1>2, <1>3 DEF ContentsAre
<1>8. \A i \in 1..(Ring_Count - 1) : From(Inc(tail), i) = From(tail, i + 1)
  <2>1. \A i \in 1..(Modulus - 1) : From(Inc(tail), i) = From(tail, i + 1)
    BY <1>2, IncDistance, Zenon
  <2>2. \A i \in 1..(Ring_Count - 1) : i \in 1..(Modulus - 1)
    BY <1>3, RingAssumption
  <2> QED BY <2>1, <2>2, Zenon
<1>9. Contents' = q
  <2>1. \A i \in 1..(Ring_Count - 1) : Contents'[i] = q[i]
    BY <1>6, <1>7, <1>8, Zenon
  <2> QED BY <1>6, <1>7, <2>1, SameContents
<1> QED BY <1>2, <1>4, <1>5, <1>9

-----------------------------------------------------------------------------
(* The theorems.                                                           *)

\* head and tail never are more than Capacity apart, across the wrap-around of
\* both, and each side's copy of its own counter is current inside its call.
THEOREM RingCountBounded == RingSpec => []CountBounded
<1>1. RingInv => CountBounded
  BY DEF RingInv
<1> QED BY <1>1, RingInitInv, RingNextInv, PTL DEF RingSpec

\* Ring_Enqueue's plain store and Ring_Dequeue's plain load never meet in one
\* slot.
THEOREM RingNoSlotRace == RingSpec => []NoSlotRace
<1>1. RingInv => NoSlotRace
  <2> SUFFICES ASSUME RingInv, prod.at = "fill", cons.at = "read"
               PROVE  SlotIndex(prod.head) # SlotIndex(cons.tail)
    BY DEF NoSlotRace
  <2>1. /\ head \in Counter /\ tail \in Counter /\ prod.head = head /\ cons.tail = tail
        /\ Ring_Count > 0 /\ Ring_Count < Capacity
    BY DEF RingInv, CountBounded
  <2> QED BY <2>1, SlotsApart DEF Ring_Count
<1> QED BY <1>1, RingInitInv, RingNextInv, PTL DEF RingSpec

\* Ring_Enqueue asks for a signal only when its slot ended an empty queue,
\* although the tail it compares with was read before.
THEOREM RingSignalOnlyOnEmpty == RingSpec => SignalOnlyOnEmpty
<1>1. RingInv /\ [RingNext]_ringVars => [head' # head /\ raised' => Ring_Count = 0]_ringVars
  <2> SUFFICES ASSUME RingInv, RingNext, head' # head, raised' PROVE Ring_Count = 0
    OBVIOUS
  <2>1. EnqueuePublish
    BY Zenon DEF RingNext, EnqueueLoad, EnqueueFill, DequeueLoad, DequeueRead, DequeueRelease
  <2>2. /\ prod.head = prod.tail /\ prod.head = head /\ prod.tail \in Counter
        /\ head \in Counter /\ tail \in Counter
        /\ Ring_Count <= Distance(head, prod.tail)
    BY <2>1, Zenon DEF EnqueuePublish, RingInv, RingType, CountBounded
  <2>3. Distance(head, prod.tail) = 0 /\ Ring_Count \in Nat
    BY <2>2, DistanceNat DEF Ring_Count
  <2> QED BY <2>2, <2>3
<1> QED BY <1>1, RingInitInv, RingNextInv, PTL DEF RingSpec, SignalOnlyOnEmpty

\* Whatever the interleaving of the two calls' accesses, the ring is a
\* first-in first-out queue of at most Capacity slots: the store of head is
\* the enqueue, the store of tail the dequeue, and no other access shows.
THEOREM RingImplementsFifo == RingSpec => ImplementsFifo
<1>1. RingInit => Fifo!FifoInit
  <2> SUFFICES ASSUME RingInit PROVE Contents = << >> /\ received = << >>
    BY DEF Fifo!FifoInit
  <2>1. ContentsAre
    BY RingInitInv, ContentsSeq
  <2>2. Ring_Count = 0
    <3>1. head = 0 /\ tail = 0 /\ 0 \in Counter
      BY RingAssumption DEF RingInit, Counter
    <3> QED BY <3>1, DistanceNat DEF Ring_Count
  <2> QED BY <2>1, <2>2 DEF ContentsAre, RingInit
<1>2. RingInv /\ RingInv' /\ [RingNext]_ringVars => [Fifo!FifoNext]_(Fifo!fifoVars)
  <2> SUFFICES ASSUME RingInv, RingInv', [RingNext]_ringVars
               PROVE  Fifo!FifoNext \/ (Contents' = Contents /\ received' = received)
    BY DEF Fifo!fifoVars
  <2>1. CASE EnqueueFill
    <3>1. \A i \in 1..Ring_Count : slots'[SlotIndex(From(tail, i))] = slots[SlotIndex(From(tail, i))]
      <4> SUFFICES ASSUME NEW i \in 1..Ring_Count
                   PROVE  slots'[SlotIndex(From(tail, i))] = slots[SlotIndex(From(tail, i))]
        OBVIOUS
      <4>1. prod.head = head /\ SlotIndex(head) # SlotIndex(From(tail, i))
        BY <2>1, FreeSlotApart DEF EnqueueFill, RingInv, CountBounded
      <4>2. SlotIndex(From(tail, i)) \in 0..(Capacity - 1)
        BY FromDistance, SlotIndexIn DEF RingInv, CountBounded, Ring_Count
      <4> QED BY <2>1, <4>1, <4>2 DEF EnqueueFill, RingInv, RingType
    <3> QED BY <2>1, <3>1, ContentsKept DEF EnqueueFill
  <2>2. CASE EnqueuePublish
    BY <2>2, PublishAppends DEF Fifo!FifoNext, Fifo!Put, EnqueuePublish
  <2>3. CASE DequeueRelease
    BY <2>3, ReleaseTakesHead DEF Fifo!FifoNext, Fifo!Get
  <2>4. CASE (\E v \in Slot : EnqueueLoad(v)) \/ DequeueLoad \/ DequeueRead \/ UNCHANGED ringVars
    <3>1. head' = head /\ tail' = tail /\ slots' = slots /\ received' = received
      BY <2>4 DEF EnqueueLoad, DequeueLoad, DequeueRead, ringVars
    <3> QED BY <3>1, ContentsKept
  <2> QED BY <2>1, <2>2, <2>3, <2>4 DEF RingNext
<1> QED BY <1>1, <1>2, RingInitInv, RingNextInv, PTL DEF RingSpec, ImplementsFifo, Fifo!FifoSpec
=============================================================================
