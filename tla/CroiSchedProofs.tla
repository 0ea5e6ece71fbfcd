-------------------------- MODULE CroiSchedProofs --------------------------
(***************************************************************************)
(* Proofs about the scheduler of module CroiSched, for every number of     *)
(* tasks, every set of priorities and every width of the signal masks.     *)
(***************************************************************************)
EXTENDS CroiSched, SequenceTheorems, WellFoundedInduction, TLAPS

\* A non-empty set of naturals has the minimum that Min chooses.
LEMMA MinProperty ==
  ASSUME NEW T \in SUBSET Nat, T # {}
  PROVE  Min(T) \in T /\ \A y \in T : Min(T) <= y
<1> DEFINE R == {ss \in Nat \X Nat : ss[1] < ss[2]}
<1>0. IsWellFoundedOn(R, Nat)
  BY NatLessThanWellFounded, Zenon DEF OpToRel
<1>1. PICK x \in T : \A y \in T : ~(<<y, x>> \in R)
  BY <1>0, WFMin, Zenon
<1>2. \A y \in T : x <= y
  <2> SUFFICES ASSUME NEW y \in T, y < x PROVE FALSE
    OBVIOUS
  <2>1. <<y, x>> \in R
    OBVIOUS
  <2> QED BY <1>1, <2>1
<1> QED BY <1>2, Zenon DEF Min

\* r is q with e put in at position k.
Inserted(r, q, k, e) ==
  /\ Len(r) = Len(q) + 1
  /\ \A i \in 1..(Len(q) + 1) : r[i] = IF i < k THEN q[i] ELSE IF i = k THEN e ELSE q[i - 1]

\* In q, k is the place for t: after every task that does not have a lower
\* priority than t up to there, and before one that has.
IsPlace(k, q, pri, t) ==
  /\ \A i \in 1..Len(q) : i < k => pri[q[i]] >= pri[t]
  /\ k <= Len(q) => pri[q[k]] < pri[t]

\* What InsertAt does to a sequence, position by position.
LEMMA InsertAtProperty ==
  ASSUME NEW S, NEW q \in Seq(S), NEW e \in S, NEW k \in 1..(Len(q) + 1)
  PROVE  InsertAt(q, k, e) \in Seq(S) /\ Inserted(InsertAt(q, k, e), q, k, e)
<1> DEFINE a == SubSeq(q, 1, k - 1)
           b == SubSeq(q, k, Len(q))
<1>0. Len(q) \in Nat /\ \A i \in 1..Len(q) : q[i] \in S
  OBVIOUS
<1>1. /\ a \in Seq(S)
      /\ Len(a) = k - 1
      /\ \A i \in 1..(k - 1) : a[i] = q[i]
  BY <1>0, SubSeqProperties
<1>2. /\ b \in Seq(S)
      /\ Len(b) = Len(q) - k + 1
      /\ \A i \in 1..(Len(q) - k + 1) : b[i] = q[k + i - 1]
  BY <1>0, SubSeqProperties
<1>3. /\ <<e>> \in Seq(S)
      /\ Len(<<e>>) = 1
      /\ <<e>>[1] = e
  OBVIOUS
<1> HIDE DEF a, b
<1> DEFINE c == a \o <<e>>
<1>4. /\ c \in Seq(S)
      /\ Len(c) = k
      /\ \A i \in 1..k : c[i] = IF i < k THEN q[i] ELSE e
  BY <1>0, <1>1, <1>3, ConcatProperties
<1> HIDE DEF c
<1>5. /\ c \o b \in Seq(S)
      /\ Len(c \o b) = Len(q) + 1
      /\ \A i \in 1..(Len(q) + 1) : (c \o b)[i] = IF i <= k THEN c[i] ELSE b[i - k]
  <2>1. k + (Len(q) - k + 1) = Len(q) + 1
    BY <1>0
  <2> QED BY <1>2, <1>4, <2>1, ConcatProperties
<1>6. InsertAt(q, k, e) = c \o b
  BY DEF InsertAt, a, b, c
<1> QED BY <1>0, <1>2, <1>4, <1>5, <1>6 DEF Inserted

\* A clamped priority is an integer.
LEMMA PriInt == \A p \in Pri : p \in Int
  BY DEF Pri

\* The position runq_add chooses is the place for the task.
LEMMA RunqPositionProperty ==
  ASSUME NEW q \in Seq(Task), NEW pri \in [Task -> Pri], NEW t \in Task
  PROVE  /\ RunqPosition(q, pri, t) \in 1..(Len(q) + 1)
         /\ IsPlace(RunqPosition(q, pri, t), q, pri, t)
<1> DEFINE lower == {i \in 1..Len(q) : pri[q[i]] < pri[t]}
           k == RunqPosition(q, pri, t)
<1>0. /\ Len(q) \in Nat
      /\ \A i \in 1..Len(q) : q[i] \in Task /\ pri[q[i]] \in Int
      /\ pri[t] \in Int
  BY PriInt
<1>1. CASE lower = {}
  <2>1. k = Len(q) + 1
    BY <1>1 DEF RunqPosition
  <2> QED BY <1>0, <1>1, <2>1 DEF IsPlace
<1>2. CASE lower # {}
  <2>1. k = Min(lower)
    BY <1>2 DEF RunqPosition
  <2>2. lower \in SUBSET Nat
    BY <1>0
  <2>3. k \in lower /\ \A y \in lower : k <= y
    BY <1>2, <2>1, <2>2, MinProperty, Zenon
  <2> QED BY <1>0, <2>3 DEF IsPlace
<1> QED BY <1>1, <1>2

\* A queue r that is q with t put in its place: its tasks stay distinct and
\* in priority order, and they are those of q and t.
LEMMA InsertionProperty ==
  ASSUME NEW q \in Seq(Task), NEW r \in Seq(Task), NEW pri \in [Task -> Int],
         NEW t \in Task, NEW k \in 1..(Len(q) + 1),
         Inserted(r, q, k, t), IsPlace(k, q, pri, t),
         ~Holds(q, t), Distinct(q), InOrder(q, pri)
  PROVE  /\ Distinct(r)
         /\ InOrder(r, pri)
         /\ \A u \in Task : Holds(r, u) <=> u = t \/ Holds(q, u)
<1>0. PICK n \in Nat : n = Len(q)
  OBVIOUS
<1>1. Len(r) = n + 1 /\ k \in 1..(n + 1) /\ r[k] = t
  BY <1>0 DEF Inserted
<1>2. \A i \in 1..n : q[i] \in Task /\ q[i] # t /\ pri[q[i]] \in Int
  BY <1>0 DEF Holds
<1>b. \A i, j \in 1..n : i < j => q[i] # q[j] /\ pri[q[i]] >= pri[q[j]]
  BY <1>0 DEF Distinct, InOrder
<1>3. \A i \in 1..(n + 1) : i < k => i \in 1..n /\ r[i] = q[i]
  BY <1>0, <1>1 DEF Inserted
<1>4. \A i \in 1..(n + 1) : i > k => i - 1 \in 1..n /\ r[i] = q[i - 1]
  BY <1>0, <1>1 DEF Inserted
<1>5. \A i \in 1..n : i < k => pri[q[i]] >= pri[t]
  BY <1>0 DEF IsPlace
<1>6. \A i \in 1..n : i >= k => pri[t] >= pri[q[i]]
  <2> SUFFICES ASSUME NEW i \in 1..n, i >= k PROVE pri[t] >= pri[q[i]]
    OBVIOUS
  <2>1. k \in 1..n /\ pri[q[k]] < pri[t]
    BY <1>0, <1>1 DEF IsPlace
  <2>2. i = k \/ pri[q[k]] >= pri[q[i]]
    BY <1>0, <2>1 DEF InOrder
  <2> QED BY <1>2, <2>1, <2>2
<1>7. ASSUME NEW i \in 1..(n + 1), NEW j \in 1..(n + 1), i < j
      PROVE  r[i] # r[j] /\ pri[r[i]] >= pri[r[j]]
  <2>1. CASE j < k
    <3>1. r[i] = q[i] /\ r[j] = q[j] /\ i \in 1..n /\ j \in 1..n
      BY <2>1, <1>1, <1>3, <1>7
    <3> QED BY <1>b, <1>7, <3>1, Zenon
  <2>2. CASE j = k
    <3>1. r[i] = q[i] /\ i \in 1..n
      BY <2>2, <1>1, <1>3, <1>7, Zenon
    <3> QED BY <2>2, <3>1, <1>1, <1>2, <1>5, <1>7
  <2>3. CASE i = k
    <3>1. r[j] = q[j - 1] /\ j - 1 \in 1..n /\ j - 1 >= k
      BY <2>3, <1>1, <1>4, <1>7
    <3> QED BY <2>3, <3>1, <1>1, <1>2, <1>6
  <2>4. CASE i < k /\ k < j
    <3>1. r[i] = q[i] /\ i \in 1..n
      BY <2>4, <1>3, Zenon
    <3>2. r[j] = q[j - 1] /\ j - 1 \in 1..n
      BY <2>4, <1>4, Zenon
    <3>3. i < j - 1
      BY <2>4, <1>1
    <3> QED BY <1>b, <3>1, <3>2, <3>3
  <2>5. CASE k < i
    <3>1. r[i] = q[i - 1] /\ i - 1 \in 1..n
      BY <2>5, <1>4
    <3>2. r[j] = q[j - 1] /\ j - 1 \in 1..n
      <4>1. j > k
        BY <2>5, <1>1, <1>7
      <4> QED BY <4>1, <1>4
    <3>3. i - 1 < j - 1
      BY <1>7
    <3> QED BY <1>b, <3>1, <3>2, <3>3
  <2>6. j < k \/ j = k \/ i = k \/ (i < k /\ k < j) \/ k < i
    BY <1>1, <1>7
  <2> QED BY <2>1, <2>2, <2>3, <2>4, <2>5, <2>6
<1>8. Distinct(r)
  <2> SUFFICES ASSUME NEW i \in 1..(n + 1), NEW j \in 1..(n + 1), r[i] = r[j], i # j
               PROVE  FALSE
    BY <1>1 DEF Distinct
  <2>1. i < j \/ j < i
    OBVIOUS
  <2> QED BY <2>1, <1>7
<1>9. InOrder(r, pri)
  BY <1>1, <1>7, Zenon DEF InOrder
<1>10. ASSUME NEW u \in Task, Holds(r, u) PROVE u = t \/ Holds(q, u)
  <2>1. PICK i \in 1..(n + 1) : r[i] = u
    BY <1>1, <1>10 DEF Holds
  <2>2. i < k \/ i = k \/ i > k
    BY <1>1
  <2> QED BY <1>0, <1>1, <1>3, <1>4, <2>1, <2>2 DEF Holds
<1>11. ASSUME NEW u \in Task, Holds(q, u) PROVE Holds(r, u)
  <2>1. PICK i \in 1..n : q[i] = u
    BY <1>0, <1>11 DEF Holds
  <2>2. CASE i < k
    <3>1. i \in 1..(n + 1) /\ r[i] = u
      BY <1>3, <2>1, <2>2
    <3> QED BY <1>1, <3>1 DEF Holds
  <2>3. CASE i >= k
    <3>1. i + 1 \in 1..(n + 1) /\ i + 1 > k /\ (i + 1) - 1 = i
      BY <1>1, <2>3
    <3>2. r[i + 1] = u
      BY <1>4, <2>1, <3>1
    <3> QED BY <1>1, <3>1, <3>2, Zenon DEF Holds
  <2> QED BY <1>1, <2>2, <2>3
<1>12. Holds(r, t)
  BY <1>1 DEF Holds
<1> QED BY <1>8, <1>9, <1>10, <1>11, <1>12

\* runq_add adds exactly the task it is given, keeps the tasks distinct and
\* keeps the priority order.
LEMMA RunqInsertProperty ==
  ASSUME NEW q \in Seq(Task), NEW pri \in [Task -> Pri], NEW t \in Task,
         ~Holds(q, t), Distinct(q), InOrder(q, pri)
  PROVE  /\ RunqInsert(q, pri, t) \in Seq(Task)
         /\ Distinct(RunqInsert(q, pri, t))
         /\ InOrder(RunqInsert(q, pri, t), pri)
         /\ \A u \in Task : Holds(RunqInsert(q, pri, t), u) <=> u = t \/ Holds(q, u)
<1>0. Len(q) \in Nat /\ pri \in [Task -> Int]
  BY PriInt
<1>1. PICK k \in 1..(Len(q) + 1) : k = RunqPosition(q, pri, t) /\ IsPlace(k, q, pri, t)
  BY RunqPositionProperty
<1>2. PICK r \in Seq(Task) : r = InsertAt(q, k, t) /\ Inserted(r, q, k, t)
  BY InsertAtProperty
<1>3. RunqInsert(q, pri, t) = r
  BY <1>1, <1>2 DEF RunqInsert
<1> QED BY <1>0, <1>1, <1>2, <1>3, InsertionProperty

\* The same of the scheduler state: runq_add changes g_runq only.
LEMMA RunqAddProperty ==
  ASSUME NEW s \in SchedState, NEW t \in Task,
         ~Holds(s.runq, t), Distinct(s.runq), InOrder(s.runq, s.pri)
  PROVE  \E r \in Seq(Task) :
           /\ RunqAdd(s, t) = [s EXCEPT !.runq = r]
           /\ Distinct(r)
           /\ InOrder(r, s.pri)
           /\ \A u \in Task : Holds(r, u) <=> u = t \/ Holds(s.runq, u)
<1>0. s.runq \in Seq(Task) /\ s.pri \in [Task -> Pri]
  BY DEF SchedState
<1>1. RunqAdd(s, t) = [s EXCEPT !.runq = RunqInsert(s.runq, s.pri, t)]
  BY DEF RunqAdd
<1> QED BY <1>0, <1>1, RunqInsertProperty
\* What MinList_RemHead leaves of a queue.
LEMMA TailProperty ==
  ASSUME NEW q \in Seq(Task), NEW pri \in [Task -> Pri],
         q # << >>, Distinct(q), InOrder(q, pri)
  PROVE  /\ Head(q) \in Task
         /\ Tail(q) \in Seq(Task)
         /\ Distinct(Tail(q))
         /\ InOrder(Tail(q), pri)
         /\ Holds(q, Head(q))
         /\ \A u \in Task : Holds(Tail(q), u) <=> Holds(q, u) /\ u # Head(q)
         /\ \A u \in Task : Holds(q, u) => pri[u] <= pri[Head(q)]
<1>1. PICK n \in Nat : n = Len(q) /\ n >= 1
  BY EmptySeq
<1>2. PICK r \in Seq(Task) : r = Tail(q) /\ Len(r) = n - 1 /\ \A i \in 1..(n - 1) : r[i] = q[i + 1]
  <2>1. /\ Tail(q) \in Seq(Task)
        /\ Len(Tail(q)) = Len(q) - 1
        /\ \A i \in 1..Len(Tail(q)) : Tail(q)[i] = q[i + 1]
    BY HeadTailProperties
  <2> QED BY <1>1, <2>1, Zenon
<1>3. Head(q) = q[1] /\ q[1] \in Task
  BY <1>1
<1>4. \A i, j \in 1..n : q[i] = q[j] => i = j
  BY <1>1 DEF Distinct
<1>5. \A i, j \in 1..n : i < j => pri[q[i]] >= pri[q[j]]
  BY <1>1 DEF InOrder
<1>6. \A i \in 1..(n - 1) : i + 1 \in 1..n
  BY <1>1
<1>7. Distinct(r)
  <2> SUFFICES ASSUME NEW i \in 1..(n - 1), NEW j \in 1..(n - 1), r[i] = r[j] PROVE i = j
    BY <1>2 DEF Distinct
  <2>1. i + 1 = j + 1
    BY <1>2, <1>4, <1>6
  <2> QED BY <2>1
<1>8. InOrder(r, pri)
  <2> SUFFICES ASSUME NEW i \in 1..(n - 1), NEW j \in 1..(n - 1), i < j
               PROVE  pri[r[i]] >= pri[r[j]]
    BY <1>2 DEF InOrder
  <2>1. pri[q[i + 1]] >= pri[q[j + 1]]
    BY <1>5, <1>6
  <2> QED BY <2>1, <1>2
<1>9. ASSUME NEW u \in Task, Holds(r, u) PROVE Holds(q, u) /\ u # q[1]
  <2>1. PICK i \in 1..(n - 1) : r[i] = u
    BY <1>2, <1>9 DEF Holds
  <2>2. i + 1 \in 1..n /\ q[i + 1] = u /\ i + 1 # 1
    BY <1>2, <1>6, <2>1
  <2>3. u # q[1]
    BY <1>1, <1>4, <2>2
  <2> QED BY <1>1, <2>2, <2>3 DEF Holds
<1>10. ASSUME NEW u \in Task, Holds(q, u), u # q[1] PROVE Holds(r, u)
  <2>1. PICK i \in 1..n : q[i] = u
    BY <1>1, <1>10 DEF Holds
  <2>2. i - 1 \in 1..(n - 1) /\ (i - 1) + 1 = i
    BY <1>10, <2>1
  <2>3. r[i - 1] = u
    BY <1>2, <2>1, <2>2
  <2> QED BY <1>2, <2>2, <2>3, Zenon DEF Holds
<1>11. ASSUME NEW u \in Task, Holds(q, u) PROVE pri[u] <= pri[q[1]]
  <2>1. PICK i \in 1..n : q[i] = u
    BY <1>1, <1>11 DEF Holds
  <2>2. i = 1 \/ (1 \in 1..n /\ 1 < i)
    BY <1>1
  <2> QED BY <1>3, <1>5, <2>1, <2>2, PriInt
<1>12. Holds(q, q[1])
  BY <1>1 DEF Holds
<1> QED BY <1>2, <1>3, <1>7, <1>8, <1>9, <1>10, <1>11, <1>12

-----------------------------------------------------------------------------
\* The states in the middle of a call: t is ready but not yet on g_runq ...
Pending(s, t) ==
  /\ s \in SchedState
  /\ \A u \in Task : s.state[u] = "TS_RUN" <=> u = s.current /\ ~s.halted
  /\ \A u \in Task : s.state[u] = "TS_READY" <=> Holds(s.runq, u) \/ u = t
  /\ ~Holds(s.runq, t)
  /\ Distinct(s.runq)
  /\ \A u \in Task : u \in s.sleepers <=> s.state[u] = "TS_WAIT" /\ u # s.current
  /\ \A u \in Task : u \in s.dead <=> s.state[u] = "TS_REMOVED"
  /\ InOrder(s.runq, s.pri)
  /\ Wakeful(s)

\* ... and the old task is parked, but no new one runs yet.
Parked(s) ==
  /\ s \in SchedState
  /\ ~s.halted
  /\ s.runq # << >>
  /\ \A u \in Task : s.state[u] # "TS_RUN"
  /\ \A u \in Task : s.state[u] = "TS_READY" <=> Holds(s.runq, u)
  /\ Distinct(s.runq)
  /\ \A u \in Task : u \in s.sleepers <=> s.state[u] = "TS_WAIT"
  /\ \A u \in Task : u \in s.dead <=> s.state[u] = "TS_REMOVED"
  /\ InOrder(s.runq, s.pri)
  /\ Wakeful(s)

\* runq_add completes the move of t to the run queue.
LEMMA EnqueueInv ==
  ASSUME NEW s, NEW t \in Task, Pending(s, t)
  PROVE  SchedInv(RunqAdd(s, t))
<1>0. s \in SchedState /\ ~Holds(s.runq, t) /\ Distinct(s.runq) /\ InOrder(s.runq, s.pri)
  BY DEF Pending
<1>1. PICK r \in Seq(Task) :
        /\ RunqAdd(s, t) = [s EXCEPT !.runq = r]
        /\ Distinct(r)
        /\ InOrder(r, s.pri)
        /\ \A u \in Task : Holds(r, u) <=> u = t \/ Holds(s.runq, u)
  BY <1>0, RunqAddProperty
<1>2. PICK n : n = [s EXCEPT !.runq = r]
  BY Zenon
<1>3. /\ n \in SchedState
      /\ n.runq = r
      /\ n.current = s.current /\ n.halted = s.halted
      /\ n.state = s.state /\ n.pri = s.pri
      /\ n.sleepers = s.sleepers /\ n.dead = s.dead
      /\ n.wait = s.wait /\ n.mask = s.mask /\ n.recvd = s.recvd
  BY <1>0, <1>1, <1>2, Zenon DEF SchedState
<1>4. Placed(n)
  BY <1>1, <1>3 DEF Placed, Pending
<1>5. Wakeful(n)
  BY <1>3 DEF Wakeful, Pending
<1> QED BY <1>1, <1>2, <1>3, <1>4, <1>5 DEF SchedInv

\* Switching to the head of the run queue makes it the running task.
LEMMA RunHeadInv ==
  ASSUME NEW s, Parked(s)
  PROVE  SchedInv(RunHead(s))
<1>0. s \in SchedState /\ s.runq \in Seq(Task) /\ s.pri \in [Task -> Pri] /\ s.state \in [Task -> State]
  BY DEF Parked, SchedState
<1>1. PICK h \in Task, r \in Seq(Task) :
        /\ h = Head(s.runq) /\ r = Tail(s.runq)
        /\ Distinct(r)
        /\ InOrder(r, s.pri)
        /\ Holds(s.runq, h)
        /\ \A u \in Task : Holds(r, u) <=> Holds(s.runq, u) /\ u # h
  BY <1>0, TailProperty, Zenon DEF Parked
<1>2. PICK n : n = RunHead(s)
  OBVIOUS
<1>3. /\ n \in SchedState
      /\ n.runq = r
      /\ n.current = h /\ n.halted = s.halted
      /\ n.state = [s.state EXCEPT ![h] = "TS_RUN"] /\ n.pri = s.pri
      /\ n.sleepers = s.sleepers /\ n.dead = s.dead
      /\ n.wait = s.wait /\ n.mask = s.mask /\ n.recvd = s.recvd
  BY <1>0, <1>1, <1>2, Zenon DEF RunHead, SchedState, State
<1>4. Placed(n)
  BY <1>0, <1>1, <1>3 DEF Placed, Parked
<1>5. Wakeful(n)
  BY <1>0, <1>1, <1>3 DEF Wakeful, Parked
<1> QED BY <1>1, <1>2, <1>3, <1>4, <1>5 DEF SchedInv

-----------------------------------------------------------------------------
(* Every call preserves the invariant.                                     *)

\* The types of the fields, for the leaves that need them.
LEMMA FieldTypes ==
  ASSUME NEW s \in SchedState
  PROVE  /\ s.current \in Task /\ s.runq \in Seq(Task)
         /\ s.sleepers \in SUBSET Task /\ s.dead \in SUBSET Task
         /\ s.state \in [Task -> State] /\ s.pri \in [Task -> Pri]
         /\ s.alloc \in [Task -> SUBSET Sig] /\ s.recvd \in [Task -> SUBSET Sig]
         /\ s.wait \in [Task -> SUBSET Sig] /\ s.mask \in [Task -> SUBSET Sig]
         /\ s.td \in [Task -> Int] /\ s.id \in [Task -> Int] /\ s.halted \in BOOLEAN
  BY DEF SchedState

\* clamp_pri yields a BYTE.
LEMMA ClampPriType == \A p \in Int : ClampPri(p) \in Pri
  BY DEF ClampPri, Pri

\* A new task is ready, on the run queue, and has no signal state.
LEMMA SpawnInv ==
  ASSUME NEW s, SchedInv(s), ~s.halted,
         NEW t \in Task, s.state[t] = "TS_INVALID", NEW p \in Int
  PROVE  SchedInv(Spawn(s, t, p))
<1>0. s \in SchedState
  BY DEF SchedInv
<1>1. PICK n : n = [s EXCEPT !.state[t] = "TS_READY", !.pri[t] = ClampPri(p),
                             !.alloc[t] = {}, !.recvd[t] = {}, !.wait[t] = {}, !.mask[t] = {},
                             !.td[t] = -1, !.id[t] = -1]
  OBVIOUS
<1>2. /\ n \in SchedState
      /\ n.current = s.current /\ n.halted = s.halted /\ n.runq = s.runq
      /\ n.state = [s.state EXCEPT ![t] = "TS_READY"]
      /\ n.pri = [s.pri EXCEPT ![t] = ClampPri(p)]
      /\ n.sleepers = s.sleepers /\ n.dead = s.dead
      /\ n.wait = [s.wait EXCEPT ![t] = {}]
      /\ n.mask = [s.mask EXCEPT ![t] = {}]
      /\ n.recvd = [s.recvd EXCEPT ![t] = {}]
  <2>1. /\ [s.state EXCEPT ![t] = "TS_READY"] \in [Task -> State]
        /\ [s.pri EXCEPT ![t] = ClampPri(p)] \in [Task -> Pri]
    BY <1>0, FieldTypes, ClampPriType DEF State
  <2>2. /\ [s.alloc EXCEPT ![t] = {}] \in [Task -> SUBSET Sig]
        /\ [s.recvd EXCEPT ![t] = {}] \in [Task -> SUBSET Sig]
        /\ [s.wait EXCEPT ![t] = {}] \in [Task -> SUBSET Sig]
        /\ [s.mask EXCEPT ![t] = {}] \in [Task -> SUBSET Sig]
    BY <1>0, FieldTypes
  <2>3. /\ [s.td EXCEPT ![t] = -1] \in [Task -> Int]
        /\ [s.id EXCEPT ![t] = -1] \in [Task -> Int]
    BY <1>0, FieldTypes
  <2> QED BY <1>0, <1>1, <2>1, <2>2, <2>3, Zenon DEF SchedState
<1>3. ~Holds(s.runq, t) /\ Distinct(s.runq) /\ t # s.current
  BY DEF SchedInv, Placed
<1>4. InOrder(n.runq, n.pri)
  <2>1. \A i \in 1..Len(s.runq) : s.runq[i] \in Task /\ n.pri[s.runq[i]] = s.pri[s.runq[i]]
    BY <1>0, <1>2, <1>3, FieldTypes DEF Holds
  <2> QED BY <1>2, <2>1 DEF SchedInv, InOrder
<1>5. Wakeful(n)
  BY <1>0, <1>2, FieldTypes DEF SchedInv, Wakeful
<1>6. Pending(n, t)
  BY <1>0, <1>2, <1>3, <1>4, <1>5, FieldTypes DEF SchedInv, Placed, Pending
<1> QED BY <1>1, <1>6, EnqueueInv DEF Spawn

\* Croi_Yield moves the running task behind its equals and runs the head.
LEMMA YieldInv ==
  ASSUME NEW s, SchedInv(s), ~s.halted, s.mask[s.current] = {}
  PROVE  SchedInv(Yield(s))
<1>1. CASE ~MaySwitch(s)
  BY <1>1 DEF Yield
<1>2. CASE MaySwitch(s)
  <2>0. s \in SchedState /\ s.runq # << >>
    BY <1>2 DEF SchedInv, MaySwitch
  <2>1. PICK h \in Task, r \in Seq(Task) :
          /\ h = Head(s.runq) /\ r = Tail(s.runq)
          /\ Distinct(r)
          /\ InOrder(r, s.pri)
          /\ Holds(s.runq, h)
          /\ \A u \in Task : Holds(r, u) <=> Holds(s.runq, u) /\ u # h
    BY <2>0, FieldTypes, TailProperty, Zenon DEF SchedInv, Placed
  <2>2. PICK n : n = [RunHead(s) EXCEPT !.state[s.current] = "TS_READY"]
    BY Zenon
  <2>3. /\ n \in SchedState
        /\ n.runq = r
        /\ n.current = h /\ n.halted = s.halted
        /\ n.state = [[s.state EXCEPT ![h] = "TS_RUN"] EXCEPT ![s.current] = "TS_READY"]
        /\ n.pri = s.pri
        /\ n.sleepers = s.sleepers /\ n.dead = s.dead
        /\ n.wait = s.wait /\ n.mask = s.mask /\ n.recvd = s.recvd
    BY <2>0, <2>1, <2>2, FieldTypes, Zenon DEF RunHead, SchedState, State
  <2>4. h # s.current /\ ~Holds(s.runq, s.current) /\ s.state[s.current] = "TS_RUN"
    BY <2>0, <2>1, FieldTypes DEF SchedInv, Placed
  <2>5. Wakeful(n)
    BY <2>0, <2>1, <2>3, <2>4, FieldTypes DEF SchedInv, Placed, Wakeful
  <2>6. Pending(n, s.current)
    <3>1. \A u \in Task : n.state[u] = IF u = s.current THEN "TS_READY"
                                      ELSE IF u = h THEN "TS_RUN" ELSE s.state[u]
      BY <2>0, <2>3, FieldTypes
    <3>2. /\ \A u \in Task : s.state[u] = "TS_RUN" <=> u = s.current
          /\ \A u \in Task : s.state[u] = "TS_READY" <=> Holds(s.runq, u)
          /\ \A u \in Task : u \in s.sleepers <=> s.state[u] = "TS_WAIT" /\ u # s.current
          /\ \A u \in Task : u \in s.dead <=> s.state[u] = "TS_REMOVED"
      BY DEF SchedInv, Placed
    <3>3. /\ \A u \in Task : n.state[u] = "TS_RUN" <=> u = h
          /\ \A u \in Task : n.state[u] = "TS_READY" <=> Holds(r, u) \/ u = s.current
          /\ ~Holds(r, s.current)
      BY <2>0, <2>1, <2>4, <3>1, <3>2, FieldTypes
    <3>4. /\ \A u \in Task : u \in n.sleepers <=> n.state[u] = "TS_WAIT" /\ u # h
          /\ \A u \in Task : u \in n.dead <=> n.state[u] = "TS_REMOVED"
      BY <2>1, <2>3, <2>4, <3>1, <3>2
    <3>5. /\ n \in SchedState /\ ~n.halted /\ n.current = h /\ n.runq = r
          /\ InOrder(n.runq, n.pri) /\ Distinct(n.runq)
      BY <2>1, <2>3
    <3> QED BY <2>5, <3>3, <3>4, <3>5 DEF Pending
  <2> QED BY <1>2, <2>0, <2>2, <2>6, EnqueueInv, FieldTypes DEF Yield
<1> QED BY <1>1, <1>2

\* A task that exits goes to g_dead, and the head of the run queue runs.
LEMMA TaskExitInv ==
  ASSUME NEW s, SchedInv(s), ~s.halted
  PROVE  SchedInv(TaskExit(s))
<1>0. s \in SchedState
  BY DEF SchedInv
<1>1. PICK c \in Task : c = s.current /\ s.state[c] = "TS_RUN" /\ ~Holds(s.runq, c)
  BY <1>0, FieldTypes DEF SchedInv, Placed
<1>2. PICK n : n = [s EXCEPT !.state[s.current] = "TS_REMOVED",
                             !.dead = @ \cup {s.current}]
  OBVIOUS
<1>3. /\ n \in SchedState
      /\ n.current = c /\ n.halted = s.halted /\ n.runq = s.runq
      /\ n.state = [s.state EXCEPT ![c] = "TS_REMOVED"] /\ n.pri = s.pri
      /\ n.sleepers = s.sleepers /\ n.dead = s.dead \cup {c}
      /\ n.wait = s.wait /\ n.mask = s.mask /\ n.recvd = s.recvd
  BY <1>0, <1>1, <1>2, FieldTypes, Zenon DEF SchedState, State
<1>4. /\ \A u \in Task : n.state[u] = IF u = c THEN "TS_REMOVED" ELSE s.state[u]
      /\ Distinct(n.runq) /\ InOrder(n.runq, n.pri) /\ ~n.halted
  BY <1>0, <1>1, <1>3, FieldTypes DEF SchedInv, Placed
<1>5. /\ \A u \in Task : s.state[u] = "TS_RUN" <=> u = c
      /\ \A u \in Task : s.state[u] = "TS_READY" <=> Holds(s.runq, u)
      /\ \A u \in Task : u \in s.sleepers <=> s.state[u] = "TS_WAIT" /\ u # c
      /\ \A u \in Task : u \in s.dead <=> s.state[u] = "TS_REMOVED"
  BY <1>1 DEF SchedInv, Placed
<1>6. Wakeful(n)
  BY <1>1, <1>3, <1>4 DEF SchedInv, Wakeful
<1>7. /\ \A u \in Task : n.state[u] # "TS_RUN"
      /\ \A u \in Task : n.state[u] = "TS_READY" <=> Holds(n.runq, u)
      /\ \A u \in Task : u \in n.sleepers <=> n.state[u] = "TS_WAIT"
      /\ \A u \in Task : u \in n.dead <=> n.state[u] = "TS_REMOVED"
  BY <1>1, <1>3, <1>4, <1>5
<1>8. CASE s.runq # << >>
  <2>1. Parked(n)
    BY <1>3, <1>4, <1>6, <1>7, <1>8 DEF Parked
  <2> QED BY <1>2, <1>8, <2>1, RunHeadInv DEF TaskExit
<1>9. CASE s.runq = << >>
  <2>1. PICK h : h = [n EXCEPT !.halted = TRUE]
    BY Zenon
  <2>2. /\ h \in SchedState /\ h.halted
        /\ h.current = n.current /\ h.runq = n.runq
        /\ h.state = n.state /\ h.pri = n.pri
        /\ h.sleepers = n.sleepers /\ h.dead = n.dead
        /\ h.wait = n.wait /\ h.mask = n.mask /\ h.recvd = n.recvd
    BY <1>3, <2>1, Zenon DEF SchedState
  <2>3. Wakeful(h)
    BY <1>6, <2>2 DEF Wakeful
  <2>4. \A u \in Task : u \in h.sleepers <=> h.state[u] = "TS_WAIT" /\ u # h.current
    BY <1>3, <1>4, <1>7, <2>2
  <2>5. Placed(h)
    BY <1>4, <1>7, <2>2, <2>4 DEF Placed
  <2>6. SchedInv(h)
    BY <1>4, <2>2, <2>3, <2>5 DEF SchedInv
  <2> QED BY <1>2, <1>9, <2>1, <2>6 DEF TaskExit
<1> QED BY <1>8, <1>9

\* Reaping frees exactly the tasks on g_dead.
LEMMA ReapDeadInv ==
  ASSUME NEW s, SchedInv(s), ~s.halted
  PROVE  SchedInv(ReapDead(s))
<1>0. s \in SchedState
  BY DEF SchedInv
<1>1. PICK n : n = ReapDead(s)
  OBVIOUS
<1>2. /\ n \in SchedState
      /\ n.current = s.current /\ n.halted = s.halted /\ n.runq = s.runq
      /\ n.state = [t \in Task |-> IF t \in s.dead THEN "TS_INVALID" ELSE s.state[t]]
      /\ n.pri = s.pri
      /\ n.sleepers = s.sleepers /\ n.dead = {}
      /\ n.wait = s.wait /\ n.mask = s.mask /\ n.recvd = s.recvd
  BY <1>0, <1>1, FieldTypes, Zenon DEF ReapDead, SchedState, State
<1>3. \A u \in Task : u \in s.dead <=> s.state[u] = "TS_REMOVED"
  BY DEF SchedInv, Placed
<1>4. \A u \in Task : n.state[u] = IF u \in s.dead THEN "TS_INVALID" ELSE s.state[u]
  BY <1>2
<1>5. Placed(n)
  BY <1>2, <1>3, <1>4 DEF SchedInv, Placed
<1>6. Wakeful(n)
  BY <1>2, <1>3, <1>4 DEF SchedInv, Wakeful
<1> QED BY <1>1, <1>2, <1>5, <1>6 DEF SchedInv

\* The running task is not on the run queue, so its priority may change.
LEMMA SetSelfPriorityInv ==
  ASSUME NEW s, SchedInv(s), ~s.halted, NEW p \in Int
  PROVE  SchedInv(SetSelfPriority(s, p))
<1>0. s \in SchedState
  BY DEF SchedInv
<1>1. PICK n : n = SetSelfPriority(s, p)
  OBVIOUS
<1>2. /\ n \in SchedState
      /\ n.current = s.current /\ n.halted = s.halted /\ n.runq = s.runq
      /\ n.state = s.state /\ n.pri = [s.pri EXCEPT ![s.current] = ClampPri(p)]
      /\ n.sleepers = s.sleepers /\ n.dead = s.dead
      /\ n.wait = s.wait /\ n.mask = s.mask /\ n.recvd = s.recvd
  BY <1>0, <1>1, FieldTypes, ClampPriType, Zenon DEF SetSelfPriority, SchedState
<1>3. ~Holds(s.runq, s.current)
  BY <1>0, FieldTypes DEF SchedInv, Placed
<1>4. InOrder(n.runq, n.pri)
  <2>1. \A i \in 1..Len(s.runq) : s.runq[i] \in Task /\ n.pri[s.runq[i]] = s.pri[s.runq[i]]
    BY <1>0, <1>2, <1>3, FieldTypes DEF Holds
  <2> QED BY <1>2, <2>1 DEF SchedInv, InOrder
<1>5. Placed(n)
  BY <1>2 DEF SchedInv, Placed
<1>6. Wakeful(n)
  BY <1>2 DEF SchedInv, Wakeful
<1> QED BY <1>1, <1>2, <1>4, <1>5, <1>6 DEF SchedInv

\* The received signals f differ from those of s for the running task only.
OwnOnly(s, f) == \A u \in Task : u # s.current => f[u] = s.recvd[u]

\* A call that changes none of the queues, states, priorities and masks, and
\* the received signals of no task but one that runs outside Croi_Wait.
LEMMA OwnSignalsInv ==
  ASSUME NEW s, SchedInv(s), ~s.halted, s.mask[s.current] = {},
         NEW n \in SchedState,
         n.current = s.current, n.halted = s.halted, n.runq = s.runq,
         n.state = s.state, n.pri = s.pri, n.sleepers = s.sleepers, n.dead = s.dead,
         n.wait = s.wait, n.mask = s.mask,
         OwnOnly(s, n.recvd)
  PROVE  SchedInv(n)
<1>1. Placed(n)
  BY DEF SchedInv, Placed
<1>2. s.state[s.current] = "TS_RUN"
  BY FieldTypes DEF SchedInv, Placed
<1>3. Wakeful(n)
  BY <1>2 DEF SchedInv, Wakeful, OwnOnly
<1> QED BY <1>1, <1>3 DEF SchedInv

\* Two instances of it: a change of the nest counts ...
LEMMA NestInv ==
  ASSUME NEW s, SchedInv(s), ~s.halted, s.mask[s.current] = {}, NEW f \in [Task -> Int]
  PROVE  SchedInv([s EXCEPT !.td = f]) /\ SchedInv([s EXCEPT !.id = f])
<1>0. s \in SchedState
  BY DEF SchedInv
<1>1. SchedInv([s EXCEPT !.td = f])
  <2>1. PICK n : n = [s EXCEPT !.td = f]
    BY Zenon
  <2>2. /\ n \in SchedState
        /\ n.current = s.current /\ n.halted = s.halted /\ n.runq = s.runq
        /\ n.state = s.state /\ n.pri = s.pri
        /\ n.sleepers = s.sleepers /\ n.dead = s.dead
        /\ n.wait = s.wait /\ n.mask = s.mask /\ n.recvd = s.recvd
    BY <1>0, <2>1, Zenon DEF SchedState
  <2>3. OwnOnly(s, n.recvd)
    BY <2>2 DEF OwnOnly
  <2> QED BY <2>1, <2>2, <2>3, OwnSignalsInv, Zenon
<1>2. SchedInv([s EXCEPT !.id = f])
  <2>1. PICK n : n = [s EXCEPT !.id = f]
    BY Zenon
  <2>2. /\ n \in SchedState
        /\ n.current = s.current /\ n.halted = s.halted /\ n.runq = s.runq
        /\ n.state = s.state /\ n.pri = s.pri
        /\ n.sleepers = s.sleepers /\ n.dead = s.dead
        /\ n.wait = s.wait /\ n.mask = s.mask /\ n.recvd = s.recvd
    BY <1>0, <2>1, Zenon DEF SchedState
  <2>3. OwnOnly(s, n.recvd)
    BY <2>2 DEF OwnOnly
  <2> QED BY <2>1, <2>2, <2>3, OwnSignalsInv, Zenon
<1> QED BY <1>1, <1>2

\* ... and a change of the running task's signals.
LEMMA SignalsInv ==
  ASSUME NEW s, SchedInv(s), ~s.halted, s.mask[s.current] = {},
         NEW g \in [Task -> SUBSET Sig], NEW f \in [Task -> SUBSET Sig],
         OwnOnly(s, f)
  PROVE  SchedInv([s EXCEPT !.alloc = g, !.recvd = f])
<1>1. PICK n : n = [s EXCEPT !.alloc = g, !.recvd = f]
  OBVIOUS
<1>2. /\ n \in SchedState
      /\ n.current = s.current /\ n.halted = s.halted /\ n.runq = s.runq
      /\ n.state = s.state /\ n.pri = s.pri
      /\ n.sleepers = s.sleepers /\ n.dead = s.dead
      /\ n.wait = s.wait /\ n.mask = s.mask /\ n.recvd = f
  BY <1>1, Zenon DEF SchedInv, SchedState
<1> QED BY <1>1, <1>2, OwnSignalsInv, Zenon

\* Forbid, Permit, Disable and Enable change one nest count.
LEMMA NestCallsInv ==
  ASSUME NEW s, SchedInv(s), ~s.halted, s.mask[s.current] = {}
  PROVE  /\ SchedInv(Forbid(s)) /\ SchedInv(Permit(s))
         /\ SchedInv(Disable(s)) /\ SchedInv(Enable(s))
<1>0. s.td \in [Task -> Int] /\ s.id \in [Task -> Int] /\ s.current \in Task
  BY FieldTypes DEF SchedInv
<1>1. PICK f : f = [s.td EXCEPT ![s.current] = @ + 1]
  BY Zenon
<1>2. PICK g : g = [s.td EXCEPT ![s.current] = @ - 1]
  BY Zenon
<1>3. PICK d : d = [s.id EXCEPT ![s.current] = @ + 1]
  BY Zenon
<1>4. PICK e : e = [s.id EXCEPT ![s.current] = @ - 1]
  BY Zenon
<1>5. f \in [Task -> Int] /\ g \in [Task -> Int] /\ d \in [Task -> Int] /\ e \in [Task -> Int]
  BY <1>0, <1>1, <1>2, <1>3, <1>4
<1>6. Forbid(s) = [s EXCEPT !.td = f] /\ Disable(s) = [s EXCEPT !.id = d]
  BY <1>1, <1>3 DEF Forbid, Disable
<1>7. /\ Permit(s) = [s EXCEPT !.td = g] \/ Permit(s) = s
      /\ Enable(s) = [s EXCEPT !.id = e] \/ Enable(s) = s
  BY <1>2, <1>4 DEF Permit, Enable
<1>8. /\ SchedInv([s EXCEPT !.td = f]) /\ SchedInv([s EXCEPT !.id = d])
      /\ SchedInv([s EXCEPT !.td = g]) /\ SchedInv([s EXCEPT !.id = e])
  BY <1>5, NestInv, Zenon
<1> QED BY <1>6, <1>7, <1>8

\* AllocSignal takes a bit of the width of a mask and clears it.
LEMMA AllocSignalInv ==
  ASSUME NEW s, SchedInv(s), ~s.halted, s.mask[s.current] = {}
  PROVE  SchedInv(AllocSignal(s))
<1>0. s.alloc \in [Task -> SUBSET Sig] /\ s.recvd \in [Task -> SUBSET Sig] /\ s.current \in Task
  BY FieldTypes DEF SchedInv
<1>1. CASE AllocatedSig(s, s.current) < 0
  BY <1>1 DEF AllocSignal
<1>2. CASE ~(AllocatedSig(s, s.current) < 0)
  <2>1. PICK b : b = AllocatedSig(s, s.current)
    OBVIOUS
  <2>2. b \in Sig
    <3>1. FreeSigs(s, s.current) # {}
      BY <1>2 DEF AllocatedSig
    <3>2. FreeSigs(s, s.current) \in SUBSET Nat /\ FreeSigs(s, s.current) \subseteq Sig
      BY SigAssumption DEF FreeSigs, Sig
    <3> QED BY <2>1, <3>1, <3>2, MinProperty DEF AllocatedSig
  <2>3. PICK g, f : /\ g = [s.alloc EXCEPT ![s.current] = @ \cup {b}]
                    /\ f = [s.recvd EXCEPT ![s.current] = @ \ {b}]
    BY Zenon
  <2>4. /\ g \in [Task -> SUBSET Sig] /\ f \in [Task -> SUBSET Sig]
        /\ OwnOnly(s, f)
    BY <1>0, <2>2, <2>3 DEF OwnOnly
  <2>5. AllocSignal(s) = [s EXCEPT !.alloc = g, !.recvd = f]
    BY <1>2, <2>1, <2>3 DEF AllocSignal
  <2>6. SchedInv([s EXCEPT !.alloc = g, !.recvd = f])
    BY <2>4, SignalsInv, Zenon
  <2> QED BY <2>5, <2>6
<1> QED BY <1>1, <1>2

\* FreeSignal clears a bit of the running task.
LEMMA FreeSignalInv ==
  ASSUME NEW s, SchedInv(s), ~s.halted, s.mask[s.current] = {}, NEW b \in Sig
  PROVE  SchedInv(FreeSignal(s, b))
<1>0. s.alloc \in [Task -> SUBSET Sig] /\ s.recvd \in [Task -> SUBSET Sig] /\ s.current \in Task
  BY FieldTypes DEF SchedInv
<1>1. PICK g, f : /\ g = [s.alloc EXCEPT ![s.current] = @ \ {b}]
                  /\ f = [s.recvd EXCEPT ![s.current] = @ \ {b}]
  BY Zenon
<1>2. /\ g \in [Task -> SUBSET Sig] /\ f \in [Task -> SUBSET Sig]
      /\ OwnOnly(s, f)
  BY <1>0, <1>1 DEF OwnOnly
<1>3. SchedInv([s EXCEPT !.alloc = g, !.recvd = f])
  BY <1>2, SignalsInv, Zenon
<1> QED BY <1>1, <1>3 DEF FreeSignal

\* SetSignal changes bits of the running task.
LEMMA SetSignalInv ==
  ASSUME NEW s, SchedInv(s), ~s.halted, s.mask[s.current] = {},
         NEW new \in SUBSET Sig, NEW which \in SUBSET Sig
  PROVE  SchedInv(SetSignal(s, new, which))
<1>0. /\ s \in SchedState
      /\ s.alloc \in [Task -> SUBSET Sig] /\ s.recvd \in [Task -> SUBSET Sig] /\ s.current \in Task
  BY FieldTypes DEF SchedInv
<1>1. PICK f : f = [s.recvd EXCEPT ![s.current] = (@ \ which) \cup (new \cap which)]
  BY Zenon
<1>2. /\ f \in [Task -> SUBSET Sig]
      /\ OwnOnly(s, f)
  BY <1>0, <1>1 DEF OwnOnly
<1>3. SetSignal(s, new, which) = [s EXCEPT !.recvd = f]
  BY <1>1 DEF SetSignal
<1>4. [s EXCEPT !.recvd = f] = [s EXCEPT !.alloc = s.alloc, !.recvd = f]
  BY <1>0, Zenon DEF SchedState
<1>5. SchedInv([s EXCEPT !.alloc = s.alloc, !.recvd = f])
  BY <1>0, <1>2, SignalsInv, Zenon
<1> QED BY <1>3, <1>4, <1>5

\* Signalling wakes the target exactly when a bit it waits for has arrived.
LEMMA SignalInv ==
  ASSUME NEW s, SchedInv(s), ~s.halted, s.mask[s.current] = {},
         NEW t \in Task, s.state[t] # "TS_INVALID", NEW m \in SUBSET Sig
  PROVE  SchedInv(Signal(s, t, m))
<1>0. s \in SchedState
  BY DEF SchedInv
<1>1. PICK r : r = [s EXCEPT !.recvd[t] = @ \cup m]
  BY Zenon
<1>2. /\ r \in SchedState
      /\ r.current = s.current /\ r.halted = s.halted /\ r.runq = s.runq
      /\ r.state = s.state /\ r.pri = s.pri
      /\ r.sleepers = s.sleepers /\ r.dead = s.dead
      /\ r.wait = s.wait /\ r.mask = s.mask
      /\ r.recvd = [s.recvd EXCEPT ![t] = @ \cup m]
  <2>1. [s.recvd EXCEPT ![t] = @ \cup m] \in [Task -> SUBSET Sig]
    BY <1>0, FieldTypes
  <2> QED BY <1>0, <1>1, <2>1, Zenon DEF SchedState
<1>3. \A u \in Task : r.recvd[u] = IF u = t THEN s.recvd[u] \cup m ELSE s.recvd[u]
  BY <1>0, <1>2, FieldTypes, Zenon
<1>4. /\ \A u \in Task : s.state[u] = "TS_RUN" <=> u = s.current
      /\ \A u \in Task : s.state[u] = "TS_READY" <=> Holds(s.runq, u)
      /\ Distinct(s.runq) /\ InOrder(s.runq, s.pri)
      /\ \A u \in Task : u \in s.sleepers <=> s.state[u] = "TS_WAIT" /\ u # s.current
      /\ \A u \in Task : u \in s.dead <=> s.state[u] = "TS_REMOVED"
  BY DEF SchedInv, Placed
<1>5. CASE r.state[t] = "TS_WAIT" /\ r.recvd[t] \cap r.wait[t] # {}
  <2>1. PICK n : n = [r EXCEPT !.sleepers = @ \ {t}, !.state[t] = "TS_READY", !.wait[t] = {}]
    OBVIOUS
  <2>2. /\ n \in SchedState
        /\ n.current = s.current /\ n.halted = s.halted /\ n.runq = s.runq
        /\ n.state = [s.state EXCEPT ![t] = "TS_READY"] /\ n.pri = s.pri
        /\ n.sleepers = s.sleepers \ {t} /\ n.dead = s.dead
        /\ n.wait = [s.wait EXCEPT ![t] = {}] /\ n.mask = s.mask /\ n.recvd = r.recvd
    <3>1. /\ [r.state EXCEPT ![t] = "TS_READY"] \in [Task -> State]
          /\ [r.wait EXCEPT ![t] = {}] \in [Task -> SUBSET Sig]
      BY <1>2, FieldTypes DEF State
    <3> QED BY <1>2, <2>1, <3>1, Zenon DEF SchedState
  <2>3. /\ \A u \in Task : n.state[u] = IF u = t THEN "TS_READY" ELSE s.state[u]
        /\ \A u \in Task : n.wait[u] = IF u = t THEN {} ELSE s.wait[u]
    BY <1>0, <2>2, FieldTypes
  <2>4. s.state[t] = "TS_WAIT" /\ t # s.current /\ ~Holds(s.runq, t) /\ t \in s.sleepers
    BY <1>2, <1>4, <1>5
  <2>5. r.recvd[t] \cap s.mask[t] # {}
    BY <1>2, <1>5, <2>4 DEF SchedInv, Wakeful
  <2>6. Wakeful(n)
    <3>1. ASSUME NEW u \in Task, u # t
          PROVE  /\ n.state[u] = s.state[u] /\ n.wait[u] = s.wait[u]
                 /\ n.mask[u] = s.mask[u] /\ n.recvd[u] = s.recvd[u]
      BY <1>3, <2>2, <2>3, <3>1, Zenon
    <3>2. n.state[t] = "TS_READY" /\ n.recvd[t] \cap n.mask[t] # {}
      BY <2>2, <2>3, <2>5
    <3> QED BY <3>1, <3>2 DEF SchedInv, Wakeful
  <2>7. /\ \A u \in Task : n.state[u] = "TS_RUN" <=> u = n.current
        /\ \A u \in Task : n.state[u] = "TS_READY" <=> Holds(n.runq, u) \/ u = t
        /\ \A u \in Task : u \in n.sleepers <=> n.state[u] = "TS_WAIT" /\ u # n.current
        /\ \A u \in Task : u \in n.dead <=> n.state[u] = "TS_REMOVED"
    BY <1>4, <2>2, <2>3, <2>4
  <2>8. ~n.halted /\ Distinct(n.runq) /\ InOrder(n.runq, n.pri) /\ ~Holds(n.runq, t)
    BY <1>4, <2>2, <2>4
  <2>9. Pending(n, t)
    BY <2>2, <2>6, <2>7, <2>8 DEF Pending
  <2>10. Signal(s, t, m) = RunqAdd(n, t)
    BY <1>1, <1>5, <2>1 DEF Signal
  <2> QED BY <2>9, <2>10, EnqueueInv
<1>6. CASE ~(r.state[t] = "TS_WAIT" /\ r.recvd[t] \cap r.wait[t] # {})
  <2>1. Placed(r)
    BY <1>2 DEF SchedInv, Placed
  <2>2. Wakeful(r)
    BY <1>2, <1>3, <1>6 DEF SchedInv, Wakeful
  <2>3. SchedInv(r)
    BY <1>2, <1>4, <2>1, <2>2 DEF SchedInv
  <2>4. Signal(s, t, m) = r
    BY <1>1, <1>6 DEF Signal
  <2> QED BY <2>3, <2>4
<1> QED BY <1>5, <1>6

\* One turn of Croi_Wait returns, sleeps and switches, or halts.
LEMMA WaitInv ==
  ASSUME NEW s, SchedInv(s), ~s.halted, NEW m \in SUBSET Sig, m # {}
  PROVE  SchedInv(Wait(s, m))
<1>0. s \in SchedState
  BY DEF SchedInv
<1>1. PICK t \in Task : t = s.current
  BY <1>0, FieldTypes
<1>2. /\ \A u \in Task : s.state[u] = "TS_RUN" <=> u = t
      /\ \A u \in Task : s.state[u] = "TS_READY" <=> Holds(s.runq, u)
      /\ Distinct(s.runq) /\ InOrder(s.runq, s.pri)
      /\ \A u \in Task : u \in s.sleepers <=> s.state[u] = "TS_WAIT" /\ u # t
      /\ \A u \in Task : u \in s.dead <=> s.state[u] = "TS_REMOVED"
  BY <1>1 DEF SchedInv, Placed
<1>3. CASE s.recvd[t] \cap m # {}
  <2>1. PICK n : n = [s EXCEPT !.recvd[t] = @ \ (s.recvd[t] \cap m), !.wait[t] = {}, !.mask[t] = {}]
    OBVIOUS
  <2>2. /\ n \in SchedState
        /\ n.current = s.current /\ n.halted = s.halted /\ n.runq = s.runq
        /\ n.state = s.state /\ n.pri = s.pri
        /\ n.sleepers = s.sleepers /\ n.dead = s.dead
        /\ n.wait = [s.wait EXCEPT ![t] = {}]
        /\ n.mask = [s.mask EXCEPT ![t] = {}]
        /\ n.recvd = [s.recvd EXCEPT ![t] = @ \ (s.recvd[t] \cap m)]
    <3>1. /\ [s.wait EXCEPT ![t] = {}] \in [Task -> SUBSET Sig]
          /\ [s.mask EXCEPT ![t] = {}] \in [Task -> SUBSET Sig]
          /\ [s.recvd EXCEPT ![t] = @ \ (s.recvd[t] \cap m)] \in [Task -> SUBSET Sig]
      BY <1>0, FieldTypes
    <3> QED BY <1>0, <2>1, <3>1, Zenon DEF SchedState
  <2>3. Placed(n)
    BY <2>2 DEF SchedInv, Placed
  <2>4. \A u \in Task : IF u = t THEN n.mask[u] = {}
                       ELSE n.mask[u] = s.mask[u] /\ n.wait[u] = s.wait[u] /\ n.recvd[u] = s.recvd[u]
    BY <1>0, <2>2, FieldTypes
  <2>5. Wakeful(n)
    BY <1>2, <2>2, <2>4 DEF SchedInv, Wakeful
  <2>6. SchedInv(n)
    BY <1>2, <2>2, <2>3, <2>5 DEF SchedInv
  <2>7. Wait(s, m) = n
    BY <1>1, <1>3, <2>1 DEF Wait
  <2> QED BY <2>6, <2>7
<1>4. CASE s.recvd[t] \cap m = {}
  <2>1. PICK a : a = [s EXCEPT !.wait[t] = m, !.mask[t] = m, !.state[t] = "TS_WAIT"]
    OBVIOUS
  <2>2. /\ a \in SchedState
        /\ a.current = t /\ a.halted = s.halted /\ a.runq = s.runq
        /\ a.state = [s.state EXCEPT ![t] = "TS_WAIT"] /\ a.pri = s.pri
        /\ a.sleepers = s.sleepers /\ a.dead = s.dead
        /\ a.wait = [s.wait EXCEPT ![t] = m]
        /\ a.mask = [s.mask EXCEPT ![t] = m] /\ a.recvd = s.recvd
    <3>1. /\ [s.state EXCEPT ![t] = "TS_WAIT"] \in [Task -> State]
          /\ [s.wait EXCEPT ![t] = m] \in [Task -> SUBSET Sig]
          /\ [s.mask EXCEPT ![t] = m] \in [Task -> SUBSET Sig]
      BY <1>0, FieldTypes DEF State
    <3> QED BY <1>0, <1>1, <2>1, <3>1, Zenon DEF SchedState
  <2>3. \A u \in Task :
          IF u = t THEN a.state[u] = "TS_WAIT" /\ a.wait[u] = m /\ a.mask[u] = m
          ELSE a.state[u] = s.state[u] /\ a.wait[u] = s.wait[u] /\ a.mask[u] = s.mask[u]
    BY <1>0, <2>2, FieldTypes
  <2>4. Wakeful(a)
    BY <1>4, <2>2, <2>3 DEF SchedInv, Wakeful
  <2>5. CASE s.runq = << >>
    <3>1. PICK n : n = [a EXCEPT !.halted = TRUE]
      BY Zenon
    <3>2. /\ n \in SchedState /\ n.halted
          /\ n.current = t /\ n.runq = s.runq /\ n.state = a.state /\ n.pri = s.pri
          /\ n.sleepers = s.sleepers /\ n.dead = s.dead
          /\ n.wait = a.wait /\ n.mask = a.mask /\ n.recvd = a.recvd
      BY <2>2, <3>1, Zenon DEF SchedState
    <3>3. Wakeful(n)
      BY <2>4, <3>2 DEF Wakeful
    <3>4. /\ \A u \in Task : n.state[u] # "TS_RUN"
          /\ \A u \in Task : n.state[u] = "TS_READY" <=> Holds(n.runq, u)
          /\ \A u \in Task : u \in n.sleepers <=> n.state[u] = "TS_WAIT" /\ u # n.current
          /\ \A u \in Task : u \in n.dead <=> n.state[u] = "TS_REMOVED"
      BY <1>2, <2>3, <3>2
    <3>5. Placed(n)
      BY <1>2, <3>2, <3>4 DEF Placed
    <3>6. SchedInv(n)
      BY <1>2, <3>2, <3>3, <3>5 DEF SchedInv
    <3>7. Wait(s, m) = n
      BY <1>1, <1>4, <2>1, <2>5, <3>1 DEF Wait
    <3> QED BY <3>6, <3>7
  <2>6. CASE s.runq # << >>
    <3>1. PICK n : n = [a EXCEPT !.sleepers = @ \cup {t}]
      BY Zenon
    <3>2. /\ n \in SchedState /\ n.halted = s.halted
          /\ n.runq = s.runq /\ n.state = a.state /\ n.pri = s.pri
          /\ n.sleepers = s.sleepers \cup {t} /\ n.dead = s.dead
          /\ n.wait = a.wait /\ n.mask = a.mask /\ n.recvd = a.recvd
      BY <2>2, <3>1, Zenon DEF SchedState
    <3>3. Wakeful(n)
      BY <2>4, <3>2 DEF Wakeful
    <3>4. /\ \A u \in Task : n.state[u] # "TS_RUN"
          /\ \A u \in Task : n.state[u] = "TS_READY" <=> Holds(n.runq, u)
          /\ \A u \in Task : u \in n.sleepers <=> n.state[u] = "TS_WAIT"
          /\ \A u \in Task : u \in n.dead <=> n.state[u] = "TS_REMOVED"
      BY <1>2, <2>3, <3>2
    <3>5. ~n.halted /\ n.runq # << >> /\ Distinct(n.runq) /\ InOrder(n.runq, n.pri)
      BY <1>2, <2>6, <3>2
    <3>6. Parked(n)
      BY <3>2, <3>3, <3>4, <3>5 DEF Parked
    <3>7. Wait(s, m) = RunHead(n)
      BY <1>1, <1>4, <2>1, <2>6, <3>1 DEF Wait
    <3> QED BY <3>6, <3>7, RunHeadInv
  <2> QED BY <2>5, <2>6
<1> QED BY <1>3, <1>4

-----------------------------------------------------------------------------
(* What the calls do to the fields.                                        *)

\* A switch away from the caller, which is asleep or gone: t runs next.
SwitchedAway(s, n) ==
  /\ s.runq # << >>
  /\ n.runq = Tail(s.runq) /\ n.current = Head(s.runq) /\ n.pri = s.pri

\* Nobody is there to switch to.
StoodStill(s, n) ==
  s.runq = << >> /\ n.runq = s.runq /\ n.current = s.current /\ n.pri = s.pri

\* What Croi_Spawn leaves.
Launched(s, t, p, n) ==
  /\ n.runq = RunqInsert(s.runq, n.pri, t)
  /\ n.current = s.current
  /\ n.state = [s.state EXCEPT ![t] = "TS_READY"]
  /\ n.pri = [s.pri EXCEPT ![t] = ClampPri(p)]
  /\ n.mask = [s.mask EXCEPT ![t] = {}]
  /\ n.recvd = [s.recvd EXCEPT ![t] = {}]

\* What Croi_TaskExit leaves.
Exited(s, n) ==
  /\ SwitchedAway(s, n) \/ StoodStill(s, n)
  /\ \A u \in Task : u # s.current /\ s.state[u] # "TS_READY" => n.state[u] = s.state[u]
  /\ \A u \in Task : s.state[u] = "TS_READY" => n.state[u] \in {"TS_READY", "TS_RUN"}
  /\ n.state[s.current] = "TS_REMOVED"
  /\ n.mask = s.mask /\ n.recvd = s.recvd

\* What Croi_Signal leaves.
Signalled(s, t, m, n) ==
  /\ n.current = s.current /\ n.pri = s.pri /\ n.mask = s.mask
  /\ n.recvd = [s.recvd EXCEPT ![t] = @ \cup m]
  /\ \/ /\ s.state[t] = "TS_WAIT" /\ (s.recvd[t] \cup m) \cap s.wait[t] # {}
        /\ n.runq = RunqInsert(s.runq, s.pri, t)
        /\ n.state = [s.state EXCEPT ![t] = "TS_READY"]
     \/ /\ ~(s.state[t] = "TS_WAIT" /\ (s.recvd[t] \cup m) \cap s.wait[t] # {})
        /\ n.runq = s.runq /\ n.state = s.state

\* What a turn of Croi_Wait leaves that returns ...
WaitReturned(s, m, n) ==
  /\ n.current = s.current /\ n.runq = s.runq /\ n.pri = s.pri /\ n.state = s.state
  /\ n.mask = [s.mask EXCEPT ![s.current] = {}]
  /\ n.recvd = [s.recvd EXCEPT ![s.current] = @ \ m]

\* ... and one that sleeps.
WaitSlept(s, m, n) ==
  /\ SwitchedAway(s, n) \/ StoodStill(s, n)
  /\ \A u \in Task : u # s.current /\ s.state[u] # "TS_READY" => n.state[u] = s.state[u]
  /\ \A u \in Task : s.state[u] = "TS_READY" => n.state[u] \in {"TS_READY", "TS_RUN"}
  /\ n.state[s.current] = "TS_WAIT"
  /\ n.mask = [s.mask EXCEPT ![s.current] = m] /\ n.recvd = s.recvd

\* What Croi_SetSignal leaves.
SignalsSet(s, new, which, n) ==
  /\ n.current = s.current /\ n.runq = s.runq /\ n.state = s.state /\ n.pri = s.pri
  /\ n.mask = s.mask /\ n.halted = s.halted
  /\ n.recvd = [s.recvd EXCEPT ![s.current] = (@ \ which) \cup (new \cap which)]

\* runq_add changes g_runq only.
LEMMA RunqAddFields ==
  ASSUME NEW s \in SchedState, NEW t \in Task, NEW n, n = RunqAdd(s, t)
  PROVE  /\ n.runq = RunqInsert(s.runq, s.pri, t)
         /\ n.current = s.current /\ n.state = s.state /\ n.pri = s.pri
         /\ n.mask = s.mask /\ n.recvd = s.recvd
<1>1. n = [s EXCEPT !.runq = RunqInsert(s.runq, s.pri, t)]
  BY DEF RunqAdd
<1> QED BY <1>1, Zenon DEF SchedState

\* Switching to the head changes g_runq, g_current and the head's tc_State.
LEMMA RunHeadFields ==
  ASSUME NEW s \in SchedState, NEW n, n = RunHead(s)
  PROVE  /\ n.runq = Tail(s.runq) /\ n.current = Head(s.runq)
         /\ n.state = [s.state EXCEPT ![Head(s.runq)] = "TS_RUN"]
         /\ n.pri = s.pri /\ n.mask = s.mask /\ n.recvd = s.recvd
  BY Zenon DEF RunHead, SchedState

\* Croi_Spawn.
LEMMA SpawnFields ==
  ASSUME NEW s \in SchedState, NEW t \in Task, NEW p \in Int, NEW n, n = Spawn(s, t, p)
  PROVE  Launched(s, t, p, n)
<1> USE DEF Launched
<1>1. PICK m : m = [s EXCEPT !.state[t] = "TS_READY", !.pri[t] = ClampPri(p),
                             !.alloc[t] = {}, !.recvd[t] = {}, !.wait[t] = {}, !.mask[t] = {},
                             !.td[t] = -1, !.id[t] = -1]
  OBVIOUS
<1>2. /\ m \in SchedState
      /\ m.current = s.current /\ m.runq = s.runq
      /\ m.state = [s.state EXCEPT ![t] = "TS_READY"]
      /\ m.pri = [s.pri EXCEPT ![t] = ClampPri(p)]
      /\ m.mask = [s.mask EXCEPT ![t] = {}]
      /\ m.recvd = [s.recvd EXCEPT ![t] = {}]
  <2>1. /\ [s.state EXCEPT ![t] = "TS_READY"] \in [Task -> State]
        /\ [s.pri EXCEPT ![t] = ClampPri(p)] \in [Task -> Pri]
    BY FieldTypes, ClampPriType DEF State
  <2>2. /\ [s.alloc EXCEPT ![t] = {}] \in [Task -> SUBSET Sig]
        /\ [s.recvd EXCEPT ![t] = {}] \in [Task -> SUBSET Sig]
        /\ [s.wait EXCEPT ![t] = {}] \in [Task -> SUBSET Sig]
        /\ [s.mask EXCEPT ![t] = {}] \in [Task -> SUBSET Sig]
    BY FieldTypes
  <2>3. /\ [s.td EXCEPT ![t] = -1] \in [Task -> Int]
        /\ [s.id EXCEPT ![t] = -1] \in [Task -> Int]
    BY FieldTypes
  <2> QED BY <1>1, <2>1, <2>2, <2>3, Zenon DEF SchedState
<1>3. n = RunqAdd(m, t)
  BY <1>1 DEF Spawn
<1> QED BY <1>2, <1>3, RunqAddFields

\* Croi_Yield that switches: the head runs, and the caller is queued.
LEMMA YieldFields ==
  ASSUME NEW s, SchedInv(s), MaySwitch(s), NEW n, n = Yield(s)
  PROVE  /\ n.runq = RunqInsert(Tail(s.runq), s.pri, s.current)
         /\ n.current = Head(s.runq)
         /\ n.state = [[s.state EXCEPT ![Head(s.runq)] = "TS_RUN"] EXCEPT ![s.current] = "TS_READY"]
         /\ n.pri = s.pri /\ n.mask = s.mask /\ n.recvd = s.recvd
<1>0. s \in SchedState /\ s.runq # << >> /\ s.current \in Task
  BY FieldTypes DEF SchedInv, MaySwitch
<1>1. Head(s.runq) \in Task /\ Tail(s.runq) \in Seq(Task)
  BY <1>0, FieldTypes, HeadTailProperties
<1>2. PICK m : m = [RunHead(s) EXCEPT !.state[s.current] = "TS_READY"]
  BY Zenon
<1>3. /\ m \in SchedState
      /\ m.runq = Tail(s.runq) /\ m.current = Head(s.runq)
      /\ m.state = [[s.state EXCEPT ![Head(s.runq)] = "TS_RUN"] EXCEPT ![s.current] = "TS_READY"]
      /\ m.pri = s.pri /\ m.mask = s.mask /\ m.recvd = s.recvd
  BY <1>0, <1>1, <1>2, FieldTypes, Zenon DEF RunHead, SchedState, State
<1>4. n = RunqAdd(m, s.current)
  BY <1>2 DEF Yield
<1> QED BY <1>0, <1>3, <1>4, RunqAddFields

\* Croi_TaskExit.
LEMMA TaskExitFields ==
  ASSUME NEW s, SchedInv(s), ~s.halted, NEW n, n = TaskExit(s)
  PROVE  Exited(s, n)
<1> USE DEF Exited
<1>0. s \in SchedState /\ s.current \in Task /\ s.state \in [Task -> State]
  BY FieldTypes DEF SchedInv
<1>1. PICK g : g = [s EXCEPT !.state[s.current] = "TS_REMOVED", !.dead = @ \cup {s.current}]
  OBVIOUS
<1>2. /\ g \in SchedState
      /\ g.current = s.current /\ g.runq = s.runq
      /\ g.state = [s.state EXCEPT ![s.current] = "TS_REMOVED"]
      /\ g.pri = s.pri /\ g.mask = s.mask /\ g.recvd = s.recvd
  BY <1>0, <1>1, FieldTypes, Zenon DEF SchedState, State
<1>3. CASE s.runq = << >>
  <2>1. n = [g EXCEPT !.halted = TRUE]
    BY <1>1, <1>3 DEF TaskExit
  <2>2. /\ n.current = s.current /\ n.runq = s.runq /\ n.pri = s.pri
        /\ n.state = g.state /\ n.mask = s.mask /\ n.recvd = s.recvd
    BY <1>2, <2>1, Zenon DEF SchedState
  <2>3. s.state[s.current] # "TS_READY"
    BY <1>0 DEF SchedInv, Placed
  <2> QED BY <1>0, <1>2, <1>3, <2>2, <2>3 DEF StoodStill
<1>4. CASE s.runq # << >>
  <2>1. n = RunHead(g)
    BY <1>1, <1>4 DEF TaskExit
  <2>2. /\ n.runq = Tail(s.runq) /\ n.current = Head(s.runq) /\ n.pri = s.pri
        /\ n.state = [g.state EXCEPT ![Head(s.runq)] = "TS_RUN"]
        /\ n.mask = s.mask /\ n.recvd = s.recvd
    BY <1>2, <2>1, RunHeadFields
  <2>3. Head(s.runq) \in Task /\ s.state[Head(s.runq)] = "TS_READY"
    <3>1. Head(s.runq) \in Task /\ Holds(s.runq, Head(s.runq))
      BY <1>0, <1>4, FieldTypes, TailProperty, Zenon DEF SchedInv, Placed
    <3> QED BY <3>1 DEF SchedInv, Placed
  <2>4. Head(s.runq) # s.current /\ s.state[s.current] = "TS_RUN"
    BY <1>0, <2>3 DEF SchedInv, Placed
  <2>5. \A u \in Task : n.state[u] = IF u = Head(s.runq) THEN "TS_RUN"
                                    ELSE IF u = s.current THEN "TS_REMOVED" ELSE s.state[u]
    BY <1>0, <1>2, <2>2, <2>3
  <2> QED BY <1>0, <1>4, <2>2, <2>3, <2>4, <2>5 DEF SwitchedAway
<1> QED BY <1>3, <1>4

\* Croi_Signal: the bits arrive, and a sleeper that waits for one is queued.
LEMMA SignalFields ==
  ASSUME NEW s, SchedInv(s), NEW t \in Task, NEW m \in SUBSET Sig, NEW n, n = Signal(s, t, m)
  PROVE  Signalled(s, t, m, n)
<1> USE DEF Signalled
<1>0. s \in SchedState /\ s.recvd \in [Task -> SUBSET Sig]
  BY FieldTypes DEF SchedInv
<1>1. PICK r : r = [s EXCEPT !.recvd[t] = @ \cup m]
  BY Zenon
<1>2. /\ r \in SchedState
      /\ r.current = s.current /\ r.runq = s.runq /\ r.state = s.state /\ r.pri = s.pri
      /\ r.wait = s.wait /\ r.mask = s.mask
      /\ r.recvd = [s.recvd EXCEPT ![t] = @ \cup m]
  <2>1. [s.recvd EXCEPT ![t] = @ \cup m] \in [Task -> SUBSET Sig]
    BY <1>0
  <2> QED BY <1>0, <1>1, <2>1, Zenon DEF SchedState
<1>3. r.recvd[t] = s.recvd[t] \cup m
  BY <1>0, <1>2
<1>4. CASE r.state[t] = "TS_WAIT" /\ r.recvd[t] \cap r.wait[t] # {}
  <2>1. PICK k : k = [r EXCEPT !.sleepers = @ \ {t}, !.state[t] = "TS_READY", !.wait[t] = {}]
    OBVIOUS
  <2>2. /\ k \in SchedState
        /\ k.current = s.current /\ k.runq = s.runq /\ k.pri = s.pri
        /\ k.state = [s.state EXCEPT ![t] = "TS_READY"]
        /\ k.mask = s.mask /\ k.recvd = r.recvd
    <3>1. /\ [r.state EXCEPT ![t] = "TS_READY"] \in [Task -> State]
          /\ [r.wait EXCEPT ![t] = {}] \in [Task -> SUBSET Sig]
      BY <1>2, FieldTypes DEF State
    <3> QED BY <1>2, <2>1, <3>1, Zenon DEF SchedState
  <2>3. n = RunqAdd(k, t)
    BY <1>1, <1>4, <2>1 DEF Signal
  <2> QED BY <1>2, <1>3, <1>4, <2>2, <2>3, RunqAddFields
<1>5. CASE ~(r.state[t] = "TS_WAIT" /\ r.recvd[t] \cap r.wait[t] # {})
  <2>1. n = r
    BY <1>1, <1>5 DEF Signal
  <2> QED BY <1>2, <1>3, <1>5, <2>1
<1> QED BY <1>4, <1>5

\* A turn of Croi_Wait that finds a bit it waits for returns.
LEMMA WaitReturnsFields ==
  ASSUME NEW s, SchedInv(s), NEW m \in SUBSET Sig, s.recvd[s.current] \cap m # {},
         NEW n, n = Wait(s, m)
  PROVE  WaitReturned(s, m, n)
<1> USE DEF WaitReturned
<1>0. s \in SchedState /\ s.current \in Task /\ s.recvd \in [Task -> SUBSET Sig]
  BY FieldTypes DEF SchedInv
<1>1. n = [s EXCEPT !.recvd[s.current] = @ \ (s.recvd[s.current] \cap m),
                    !.wait[s.current] = {}, !.mask[s.current] = {}]
  BY DEF Wait
<1>2. /\ n.current = s.current /\ n.runq = s.runq /\ n.pri = s.pri /\ n.state = s.state
      /\ n.mask = [s.mask EXCEPT ![s.current] = {}]
      /\ n.recvd = [s.recvd EXCEPT ![s.current] = @ \ (s.recvd[s.current] \cap m)]
  BY <1>0, <1>1, Zenon DEF SchedState
<1>3. s.recvd[s.current] \ (s.recvd[s.current] \cap m) = s.recvd[s.current] \ m
  OBVIOUS
<1> QED BY <1>2, <1>3

\* A turn of Croi_Wait that finds none sleeps.
LEMMA WaitSleepsFields ==
  ASSUME NEW s, SchedInv(s), ~s.halted, NEW m \in SUBSET Sig, s.recvd[s.current] \cap m = {},
         NEW n, n = Wait(s, m)
  PROVE  WaitSlept(s, m, n)
<1> USE DEF WaitSlept
<1>0. s \in SchedState /\ s.current \in Task /\ s.state \in [Task -> State]
  BY FieldTypes DEF SchedInv
<1>1. PICK a : a = [s EXCEPT !.wait[s.current] = m, !.mask[s.current] = m,
                             !.state[s.current] = "TS_WAIT"]
  OBVIOUS
<1>2. /\ a \in SchedState
      /\ a.current = s.current /\ a.runq = s.runq
      /\ a.state = [s.state EXCEPT ![s.current] = "TS_WAIT"]
      /\ a.pri = s.pri /\ a.recvd = s.recvd
      /\ a.mask = [s.mask EXCEPT ![s.current] = m]
  <2>1. /\ [s.state EXCEPT ![s.current] = "TS_WAIT"] \in [Task -> State]
        /\ [s.wait EXCEPT ![s.current] = m] \in [Task -> SUBSET Sig]
        /\ [s.mask EXCEPT ![s.current] = m] \in [Task -> SUBSET Sig]
    BY <1>0, FieldTypes DEF State
  <2> QED BY <1>0, <1>1, <2>1, Zenon DEF SchedState
<1>3. CASE s.runq = << >>
  <2>1. n = [a EXCEPT !.halted = TRUE]
    BY <1>1, <1>3 DEF Wait
  <2>2. /\ n.current = s.current /\ n.runq = s.runq /\ n.pri = s.pri
        /\ n.state = a.state /\ n.mask = a.mask /\ n.recvd = s.recvd
    BY <1>2, <2>1, Zenon DEF SchedState
  <2>3. s.state[s.current] # "TS_READY"
    BY <1>0 DEF SchedInv, Placed
  <2> QED BY <1>0, <1>2, <1>3, <2>2, <2>3 DEF StoodStill
<1>4. CASE s.runq # << >>
  <2>1. PICK g : g = [a EXCEPT !.sleepers = @ \cup {s.current}]
    BY Zenon
  <2>2. /\ g \in SchedState
        /\ g.current = s.current /\ g.runq = s.runq /\ g.state = a.state
        /\ g.pri = s.pri /\ g.recvd = s.recvd /\ g.mask = a.mask
    BY <1>0, <1>2, <2>1, Zenon DEF SchedState
  <2>3. n = RunHead(g)
    BY <1>1, <1>4, <2>1 DEF Wait
  <2>4. /\ n.runq = Tail(s.runq) /\ n.current = Head(s.runq) /\ n.pri = s.pri
        /\ n.state = [a.state EXCEPT ![Head(s.runq)] = "TS_RUN"]
        /\ n.mask = a.mask /\ n.recvd = s.recvd
    BY <2>2, <2>3, RunHeadFields
  <2>5. Head(s.runq) \in Task /\ s.state[Head(s.runq)] = "TS_READY"
    <3>1. Head(s.runq) \in Task /\ Holds(s.runq, Head(s.runq))
      BY <1>0, <1>4, FieldTypes, TailProperty, Zenon DEF SchedInv, Placed
    <3> QED BY <3>1 DEF SchedInv, Placed
  <2>6. Head(s.runq) # s.current /\ s.state[s.current] = "TS_RUN"
    BY <1>0, <2>5 DEF SchedInv, Placed
  <2>7. \A u \in Task : n.state[u] = IF u = Head(s.runq) THEN "TS_RUN"
                                    ELSE IF u = s.current THEN "TS_WAIT" ELSE s.state[u]
    BY <1>0, <1>2, <2>4, <2>5
  <2> QED BY <1>0, <1>2, <1>4, <2>4, <2>5, <2>6, <2>7 DEF SwitchedAway
<1> QED BY <1>3, <1>4

\* The calls that leave the queues alone.
LEMMA ReapDeadFields ==
  ASSUME NEW s \in SchedState, NEW n, n = ReapDead(s)
  PROVE  /\ n.current = s.current /\ n.runq = s.runq /\ n.pri = s.pri
         /\ n.state = [t \in Task |-> IF t \in s.dead THEN "TS_INVALID" ELSE s.state[t]]
         /\ n.mask = s.mask /\ n.recvd = s.recvd
  BY Zenon DEF ReapDead, SchedState

\* Croi_SetSelfPriority.
LEMMA SetSelfPriorityFields ==
  ASSUME NEW s \in SchedState, NEW p \in Int, NEW n, n = SetSelfPriority(s, p)
  PROVE  /\ n.current = s.current /\ n.runq = s.runq /\ n.state = s.state
         /\ n.pri = [s.pri EXCEPT ![s.current] = ClampPri(p)]
         /\ n.mask = s.mask /\ n.recvd = s.recvd
  BY Zenon DEF SetSelfPriority, SchedState

\* Croi_SetSignal.
LEMMA SetSignalFields ==
  ASSUME NEW s \in SchedState, NEW new \in SUBSET Sig, NEW which \in SUBSET Sig,
         NEW n, n = SetSignal(s, new, which)
  PROVE  SignalsSet(s, new, which, n)
  BY Zenon DEF SetSignal, SchedState, SignalsSet

\* The nest counts and the allocation of signals.
LEMMA OwnCallsFields ==
  ASSUME NEW s \in SchedState, NEW n,
         \/ n \in {Forbid(s), Permit(s), Disable(s), Enable(s), AllocSignal(s)}
         \/ \E b \in Sig : n = FreeSignal(s, b)
  PROVE  n.current = s.current /\ n.runq = s.runq /\ n.pri = s.pri
<1>1. CASE n = Forbid(s)
  BY <1>1, Zenon DEF Forbid, SchedState
<1>2. CASE n = Permit(s)
  BY <1>2, Zenon DEF Permit, SchedState
<1>3. CASE n = Disable(s)
  BY <1>3, Zenon DEF Disable, SchedState
<1>4. CASE n = Enable(s)
  BY <1>4, Zenon DEF Enable, SchedState
<1>5. CASE n = AllocSignal(s)
  BY <1>5, Zenon DEF AllocSignal, SchedState
<1>6. ASSUME NEW b \in Sig, n = FreeSignal(s, b)
      PROVE  n.current = s.current /\ n.runq = s.runq /\ n.pri = s.pri
  BY <1>6, Zenon DEF FreeSignal, SchedState
<1> QED BY <1>1, <1>2, <1>3, <1>4, <1>5, <1>6

-----------------------------------------------------------------------------
(* What the calls do to one task, for the proofs about their callers.      *)

\* u is a task that can still run.
Alive(s, u) == s.state[u] \in {"TS_RUN", "TS_READY", "TS_WAIT"}

\* From s to n, u's signals stay as they are and it neither starts nor ends.
Untouched(s, n, u) ==
  /\ Alive(n, u) <=> Alive(s, u)
  /\ n.alloc[u] = s.alloc[u] /\ n.recvd[u] = s.recvd[u] /\ n.mask[u] = s.mask[u]

\* Only AllocSignal, FreeSignal and Spawn write tc_SigAlloc.
LEMMA AllocKept ==
  ASSUME NEW s \in SchedState, NEW t \in Task, NEW m \in SUBSET Sig, NEW n,
         n \in {Yield(s), TaskExit(s), ReapDead(s), Signal(s, t, m), Wait(s, m)}
  PROVE  n.alloc = s.alloc
<1>1. CASE n = Yield(s)
  BY <1>1, Zenon DEF Yield, RunqAdd, RunHead, SchedState
<1>2. CASE n = TaskExit(s)
  BY <1>2, Zenon DEF TaskExit, RunHead, SchedState
<1>3. CASE n = ReapDead(s)
  BY <1>3, Zenon DEF ReapDead, SchedState
<1>4. CASE n = Signal(s, t, m)
  BY <1>4, Zenon DEF Signal, RunqAdd, SchedState
<1>5. CASE n = Wait(s, m)
  BY <1>5, Zenon DEF Wait, RunHead, SchedState
<1> QED BY <1>1, <1>2, <1>3, <1>4, <1>5

\* Croi_Spawn touches the new task only, which has no signals.
LEMMA SpawnEffect ==
  ASSUME NEW s \in SchedState, NEW t \in Task, NEW p \in Int, NEW n, n = Spawn(s, t, p)
  PROVE  /\ \A u \in Task : u # t => Untouched(s, n, u)
         /\ Alive(n, t) /\ n.alloc[t] = {} /\ n.recvd[t] = {} /\ n.mask[t] = {}
         /\ n.current = s.current /\ n.halted = s.halted
<1>1. n.alloc = [s.alloc EXCEPT ![t] = {}] /\ n.halted = s.halted
  BY Zenon DEF Spawn, RunqAdd, SchedState
<1>2. Launched(s, t, p, n)
  BY SpawnFields
<1> QED BY <1>1, <1>2, FieldTypes DEF Launched, Untouched, Alive

\* Croi_Yield touches nobody.
LEMMA YieldEffect ==
  ASSUME NEW s, SchedInv(s), ~s.halted, NEW n, n = Yield(s)
  PROVE  \A u \in Task : Untouched(s, n, u)
<1>0. s \in SchedState /\ n.alloc = s.alloc
  <2>1. s \in SchedState
    BY DEF SchedInv
  <2>2. Boot \in Task /\ {} \in SUBSET Sig
    BY BootAssumption
  <2>3. n \in {Yield(s), TaskExit(s), ReapDead(s), Signal(s, Boot, {}), Wait(s, {})}
    OBVIOUS
  <2> QED BY <2>1, <2>2, <2>3, AllocKept, Zenon
<1>1. CASE ~MaySwitch(s)
  BY <1>1 DEF Yield, Untouched
<1>2. CASE MaySwitch(s)
  <2>1. /\ n.state = [[s.state EXCEPT ![Head(s.runq)] = "TS_RUN"] EXCEPT ![s.current] = "TS_READY"]
        /\ n.mask = s.mask /\ n.recvd = s.recvd
    BY <1>2, YieldFields
  <2>2. s.runq # << >>
    BY <1>2 DEF MaySwitch
  <2>3. Head(s.runq) \in Task /\ Holds(s.runq, Head(s.runq))
    BY <1>0, <2>2, FieldTypes, TailProperty, Zenon DEF SchedInv, Placed
  <2>4. s.state[Head(s.runq)] = "TS_READY" /\ s.state[s.current] = "TS_RUN"
    BY <1>0, <2>3, FieldTypes DEF SchedInv, Placed
  <2> QED BY <1>0, <2>1, <2>3, <2>4, FieldTypes DEF Untouched, Alive
<1> QED BY <1>1, <1>2

\* Croi_Signal touches its target only, which gets the bits.
LEMMA SignalEffect ==
  ASSUME NEW s, SchedInv(s), NEW t \in Task, NEW m \in SUBSET Sig, NEW n, n = Signal(s, t, m)
  PROVE  /\ \A u \in Task : u # t => Untouched(s, n, u)
         /\ Alive(n, t) <=> Alive(s, t)
         /\ n.alloc[t] = s.alloc[t] /\ n.recvd[t] = s.recvd[t] \cup m /\ n.mask[t] = s.mask[t]
         /\ n.current = s.current /\ n.halted = s.halted
<1>0. s \in SchedState
  BY DEF SchedInv
<1>1. n.halted = s.halted
  BY <1>0, Zenon DEF Signal, RunqAdd, SchedState
<1>2. n.alloc = s.alloc
  BY <1>0, AllocKept
<1>3. Signalled(s, t, m, n)
  BY SignalFields
<1> QED BY <1>0, <1>1, <1>2, <1>3, FieldTypes DEF Signalled, Untouched, Alive

\* A turn of Croi_Wait touches its caller only, which stays alive: it loses
\* the bits it waited for and goes on, or it sleeps with that mask.
LEMMA WaitEffect ==
  ASSUME NEW s, SchedInv(s), ~s.halted, NEW m \in SUBSET Sig, NEW n, n = Wait(s, m)
  PROVE  /\ \A u \in Task : u # s.current => Untouched(s, n, u)
         /\ Alive(n, s.current) /\ n.alloc[s.current] = s.alloc[s.current]
         /\ s.recvd[s.current] \cap m # {} =>
              /\ n.recvd[s.current] = s.recvd[s.current] \ m /\ n.mask[s.current] = {}
              /\ n.current = s.current /\ ~n.halted
         /\ s.recvd[s.current] \cap m = {} =>
              n.recvd[s.current] = s.recvd[s.current] /\ n.mask[s.current] = m
<1>0. s \in SchedState /\ s.current \in Task /\ s.state[s.current] = "TS_RUN"
  BY FieldTypes DEF SchedInv, Placed
<1>1. n.alloc = s.alloc
  BY <1>0, AllocKept, Zenon
<1>2. CASE s.recvd[s.current] \cap m # {}
  <2>1. WaitReturned(s, m, n)
    BY <1>2, WaitReturnsFields
  <2>2. n.halted = s.halted
    BY <1>0, <1>2, Zenon DEF Wait, SchedState
  <2> QED BY <1>0, <1>1, <1>2, <2>1, <2>2, FieldTypes DEF WaitReturned, Untouched, Alive
<1>3. CASE s.recvd[s.current] \cap m = {}
  <2>1. WaitSlept(s, m, n)
    BY <1>3, WaitSleepsFields
  <2> QED BY <1>0, <1>1, <1>3, <2>1, FieldTypes DEF WaitSlept, Untouched, Alive
<1> QED BY <1>2, <1>3

\* Croi_TaskExit touches its caller only, which is gone.
LEMMA TaskExitEffect ==
  ASSUME NEW s, SchedInv(s), ~s.halted, NEW n, n = TaskExit(s)
  PROVE  ~Alive(n, s.current) /\ \A u \in Task : u # s.current => Untouched(s, n, u)
<1>0. s \in SchedState /\ n.alloc = s.alloc
  <2>1. s \in SchedState
    BY DEF SchedInv
  <2>2. Boot \in Task /\ {} \in SUBSET Sig
    BY BootAssumption
  <2>3. n \in {Yield(s), TaskExit(s), ReapDead(s), Signal(s, Boot, {}), Wait(s, {})}
    OBVIOUS
  <2> QED BY <2>1, <2>2, <2>3, AllocKept, Zenon
<1>1. Exited(s, n)
  BY TaskExitFields
<1> QED BY <1>0, <1>1 DEF Exited, Untouched, Alive

\* Sched_ReapDead touches no task that can run.
LEMMA ReapDeadEffect ==
  ASSUME NEW s, SchedInv(s), NEW n, n = ReapDead(s)
  PROVE  \A u \in Task : Untouched(s, n, u)
<1>0. s \in SchedState /\ n.alloc = s.alloc
  <2>1. s \in SchedState
    BY DEF SchedInv
  <2>2. Boot \in Task /\ {} \in SUBSET Sig
    BY BootAssumption
  <2>3. n \in {Yield(s), TaskExit(s), ReapDead(s), Signal(s, Boot, {}), Wait(s, {})}
    OBVIOUS
  <2> QED BY <2>1, <2>2, <2>3, AllocKept, Zenon
<1>1. /\ n.state = [t \in Task |-> IF t \in s.dead THEN "TS_INVALID" ELSE s.state[t]]
      /\ n.mask = s.mask /\ n.recvd = s.recvd
  BY <1>0, ReapDeadFields
<1>2. \A t \in Task : t \in s.dead => s.state[t] = "TS_REMOVED"
  BY DEF SchedInv, Placed
<1> QED BY <1>0, <1>1, <1>2 DEF Untouched, Alive

\* A bit that AllocSignal hands out is one of the user's, and was not
\* allocated.
LEMMA AllocatedSigProperty ==
  ASSUME NEW s \in SchedState, NEW t \in Task, AllocatedSig(s, t) >= 0
  PROVE  /\ AllocatedSig(s, t) \in FirstUserSig..(NSig - 1)
         /\ AllocatedSig(s, t) \in Sig /\ AllocatedSig(s, t) \notin s.alloc[t]
<1>1. FreeSigs(s, t) \in SUBSET Nat /\ FreeSigs(s, t) # {}
  BY SigAssumption DEF FreeSigs, AllocatedSig
<1>2. AllocatedSig(s, t) = Min(FreeSigs(s, t))
  BY <1>1 DEF AllocatedSig
<1>3. AllocatedSig(s, t) \in FreeSigs(s, t)
  BY <1>1, <1>2, MinProperty
<1> QED BY <1>3, SigAssumption DEF FreeSigs, Sig

\* AllocSignal touches its caller only, which gets the bit, cleared.
LEMMA AllocSignalEffect ==
  ASSUME NEW s \in SchedState, AllocatedSig(s, s.current) >= 0, NEW n, n = AllocSignal(s)
  PROVE  LET b == AllocatedSig(s, s.current) IN
         /\ \A u \in Task : u # s.current => Untouched(s, n, u)
         /\ Alive(n, s.current) <=> Alive(s, s.current)
         /\ n.alloc[s.current] = s.alloc[s.current] \cup {b}
         /\ n.recvd[s.current] = s.recvd[s.current] \ {b}
         /\ n.mask = s.mask /\ n.state = s.state
         /\ n.current = s.current /\ n.halted = s.halted
<1>0. PICK b : b = AllocatedSig(s, s.current)
  BY Zenon
<1>1. b \in Sig /\ ~(b < 0)
  BY <1>0, FieldTypes, AllocatedSigProperty DEF Sig
<1>2. n = [s EXCEPT !.alloc[s.current] = @ \cup {b}, !.recvd[s.current] = @ \ {b}]
  BY <1>0, <1>1 DEF AllocSignal
<1>3. /\ n.alloc = [s.alloc EXCEPT ![s.current] = @ \cup {b}]
      /\ n.recvd = [s.recvd EXCEPT ![s.current] = @ \ {b}]
      /\ n.mask = s.mask /\ n.state = s.state /\ n.current = s.current /\ n.halted = s.halted
  BY <1>2, Zenon DEF SchedState
<1> QED BY <1>0, <1>3, FieldTypes DEF Untouched, Alive

\* FreeSignal touches its caller only, and no other bit of it.
LEMMA FreeSignalEffect ==
  ASSUME NEW s \in SchedState, NEW b \in Sig, NEW n, n = FreeSignal(s, b)
  PROVE  /\ \A u \in Task : u # s.current => Untouched(s, n, u)
         /\ Alive(n, s.current) <=> Alive(s, s.current)
         /\ n.recvd[s.current] \in {s.recvd[s.current], s.recvd[s.current] \ {b}}
         /\ n.mask = s.mask /\ n.state = s.state
         /\ n.current = s.current /\ n.halted = s.halted
<1>1. /\ n.alloc = [s.alloc EXCEPT ![s.current] = @ \ {b}]
      /\ n.recvd = [s.recvd EXCEPT ![s.current] = @ \ {b}]
      /\ n.mask = s.mask /\ n.state = s.state /\ n.current = s.current /\ n.halted = s.halted
  BY Zenon DEF FreeSignal, SchedState
<1> QED BY <1>1, FieldTypes DEF Untouched, Alive

-----------------------------------------------------------------------------
(* The order of the run queue from one state to the next.                  *)

\* b is q without its first d tasks.
Dropped(q, b, d) == Len(b) = Len(q) - d /\ \A i \in 1..Len(b) : b[i] = q[i + d]

\* What is left of a queue is in its order.
LEMMA DroppedKept ==
  ASSUME NEW q \in Seq(Task), Distinct(q), NEW d \in {0, 1}, NEW b \in Seq(Task), Dropped(q, b, d),
         NEW k \in 1..Len(b), NEW l \in 1..Len(b), k < l
  PROVE  ~Later(q, b[k], b[l])
<1> SUFFICES ASSUME NEW j \in DOMAIN q, q[j] = b[l], \A i \in 1..j : q[i] # b[k] PROVE FALSE
  BY DEF Later
<1>0. Len(q) \in Nat /\ Len(b) \in Nat /\ Len(b) = Len(q) - d /\ DOMAIN q = 1..Len(q)
  BY DEF Dropped
<1>1. l + d \in 1..Len(q) /\ k + d \in 1..Len(q) /\ k + d < l + d
  BY <1>0
<1>2. b[l] = q[l + d] /\ b[k] = q[k + d]
  BY DEF Dropped
<1>3. j = l + d
  BY <1>0, <1>1, <1>2 DEF Distinct
<1>4. k + d \in 1..j
  BY <1>0, <1>1, <1>3
<1> QED BY <1>2, <1>4

\* runq_add overtakes strictly lower priorities only.
LEMMA InsertedKept ==
  ASSUME NEW q \in Seq(Task), Distinct(q), NEW d \in {0, 1}, NEW b \in Seq(Task), Dropped(q, b, d),
         NEW pri \in [Task -> Pri], InOrder(b, pri), NEW t \in Task, ~Holds(q, t),
         NEW k \in DOMAIN RunqInsert(b, pri, t), NEW l \in DOMAIN RunqInsert(b, pri, t), k < l,
         Later(q, RunqInsert(b, pri, t)[k], RunqInsert(b, pri, t)[l])
  PROVE  pri[RunqInsert(b, pri, t)[k]] > pri[RunqInsert(b, pri, t)[l]]
<1>1. PICK p \in 1..(Len(b) + 1) : p = RunqPosition(b, pri, t) /\ IsPlace(p, b, pri, t)
  BY RunqPositionProperty
<1>2. PICK r \in Seq(Task) : r = RunqInsert(b, pri, t) /\ Inserted(r, b, p, t)
  BY <1>1, InsertAtProperty DEF RunqInsert
<1>3. PICK m \in Nat : m = Len(b)
  OBVIOUS
<1>4. k \in 1..(m + 1) /\ l \in 1..(m + 1) /\ p \in 1..(m + 1)
  BY <1>1, <1>2, <1>3 DEF Inserted
<1>5. \A i \in 1..(m + 1) : r[i] = IF i < p THEN b[i] ELSE IF i = p THEN t ELSE b[i - 1]
  BY <1>2, <1>3, Zenon DEF Inserted
<1>6. l # p
  <2> SUFFICES ASSUME l = p PROVE FALSE
    OBVIOUS
  <2>1. Later(q, r[k], t)
    BY <1>2, <1>4, <1>5
  <2> QED BY <2>1 DEF Later, Holds
<1>7. CASE k # p
  <2>1. PICK i \in 1..m, j \in 1..m : i < j /\ r[k] = b[i] /\ r[l] = b[j]
    <3>1. CASE k < p /\ l < p
      BY <1>4, <1>5, <3>1
    <3>2. CASE k < p /\ l > p
      <4>1. k \in 1..m /\ l - 1 \in 1..m /\ k < l - 1 /\ r[k] = b[k] /\ r[l] = b[l - 1]
        BY <1>4, <1>5, <3>2
      <4> QED BY <4>1
    <3>3. CASE k > p
      <4>1. k - 1 \in 1..m /\ l - 1 \in 1..m /\ k - 1 < l - 1 /\ r[k] = b[k - 1] /\ r[l] = b[l - 1]
        BY <1>4, <1>5, <3>3
      <4> QED BY <4>1
    <3> QED BY <1>4, <1>6, <1>7, <3>1, <3>2, <3>3
  <2>2. ~Later(q, b[i], b[j])
    BY <1>3, <2>1, DroppedKept, Zenon
  <2> QED BY <1>2, <2>1, <2>2
<1>8. CASE k = p
  <2>1. l - 1 \in 1..m /\ p \in 1..m /\ r[k] = t /\ r[l] = b[l - 1]
    BY <1>4, <1>5, <1>8
  <2>2. b[p] \in Task /\ b[l - 1] \in Task
    BY <1>3, <2>1
  <2>3. pri[b[p]] < pri[t] /\ (p < l - 1 => pri[b[p]] >= pri[b[l - 1]])
    BY <1>1, <1>3, <2>1 DEF IsPlace, InOrder
  <2>4. pri[b[p]] \in Int /\ pri[b[l - 1]] \in Int /\ pri[t] \in Int
    BY <2>2, PriInt
  <2>5. p = l - 1 \/ p < l - 1
    BY <1>4, <1>8
  <2>6. pri[t] > pri[b[l - 1]]
    BY <2>3, <2>4, <2>5
  <2> QED BY <1>2, <2>1, <2>6
<1> QED BY <1>7, <1>8

\* Croi_Yield's exchange of the caller for the head of the queue.
TookTurns(s, n) ==
  /\ ~s.halted /\ MaySwitch(s)
  /\ n.runq = RunqInsert(Tail(s.runq), s.pri, s.current)
  /\ n.current = Head(s.runq) /\ n.pri = s.pri

\* All that a call can do to g_runq and g_current.
QueueStep(s, n) ==
  \/ n.runq = s.runq /\ n.current = s.current
  \/ \E t \in Task :
       /\ ~Holds(s.runq, t) /\ InOrder(s.runq, n.pri)
       /\ n.runq = RunqInsert(s.runq, n.pri, t) /\ n.current = s.current
  \/ SwitchedAway(s, n) /\ n.state[s.current] \in {"TS_WAIT", "TS_REMOVED"}
  \/ TookTurns(s, n)

\* One turn of Croi_Wait.
LEMMA WaitQueueStep ==
  ASSUME NEW s, SchedInv(s), ~s.halted, NEW m \in SUBSET Sig
  PROVE  QueueStep(s, Wait(s, m))
<1>1. CASE s.recvd[s.current] \cap m # {}
  <2>1. PICK n : n = Wait(s, m)
    OBVIOUS
  <2>2. WaitReturned(s, m, n)
    BY <1>1, <2>1, WaitReturnsFields, Zenon
  <2> QED BY <2>1, <2>2 DEF QueueStep, WaitReturned
<1>2. CASE s.recvd[s.current] \cap m = {}
  <2>1. PICK n : n = Wait(s, m)
    OBVIOUS
  <2>2. WaitSlept(s, m, n)
    BY <1>2, <2>1, WaitSleepsFields, Zenon
  <2> QED BY <2>1, <2>2 DEF WaitSlept, QueueStep, StoodStill
<1> QED BY <1>1, <1>2

\* Every step of the scheduler is one of these.
LEMMA NextQueueStep ==
  ASSUME SchedInv(sched), [Next]_vars
  PROVE  QueueStep(sched, sched')
<1>0. sched \in SchedState /\ Me \in Task
  BY FieldTypes DEF SchedInv, Me
<1>1. CASE DoSpawn
  <2>1. PICK t \in Task, p \in Int : sched.state[t] = "TS_INVALID" /\ sched' = Spawn(sched, t, p)
    BY <1>1, PriAssumption DEF DoSpawn, Allocated
  <2>2. ~Holds(sched.runq, t)
    BY <2>1 DEF SchedInv, Placed
  <2>3. /\ sched'.runq = RunqInsert(sched.runq, sched'.pri, t)
        /\ sched'.current = sched.current
        /\ sched'.pri = [sched.pri EXCEPT ![t] = ClampPri(p)]
    <3>1. Launched(sched, t, p, sched')
      BY <1>0, <2>1, SpawnFields, Zenon
    <3> QED BY <3>1 DEF Launched
  <2>4. InOrder(sched.runq, sched'.pri)
    <3>1. \A i \in 1..Len(sched.runq) :
            sched.runq[i] \in Task /\ sched'.pri[sched.runq[i]] = sched.pri[sched.runq[i]]
      BY <1>0, <2>2, <2>3, FieldTypes DEF Holds
    <3> QED BY <3>1 DEF SchedInv, InOrder
  <2> QED BY <2>2, <2>3, <2>4 DEF QueueStep
<1>2. CASE DoYield
  <2>1. CASE MaySwitch(sched)
    BY <1>2, <2>1, YieldFields, Zenon DEF DoYield, Running, QueueStep, TookTurns
  <2>2. CASE ~MaySwitch(sched)
    BY <1>2, <2>2 DEF DoYield, Yield, QueueStep
  <2> QED BY <2>1, <2>2
<1>3. CASE DoTaskExit
  <2>1. /\ SwitchedAway(sched, sched') \/ StoodStill(sched, sched')
        /\ sched'.state[sched.current] = "TS_REMOVED"
    BY <1>3, TaskExitFields DEF DoTaskExit, Running, Exited
  <2> QED BY <2>1 DEF QueueStep, StoodStill
<1>4. CASE DoReapDead
  BY <1>0, <1>4, ReapDeadFields, Zenon DEF DoReapDead, QueueStep
<1>5. CASE DoSetSelfPriority
  <2>1. PICK p \in Int : sched' = SetSelfPriority(sched, p)
    BY <1>5, PriAssumption DEF DoSetSelfPriority
  <2>2. sched'.current = sched.current /\ sched'.runq = sched.runq
    BY <1>0, <2>1, SetSelfPriorityFields, Zenon
  <2> QED BY <2>2 DEF QueueStep
<1>6. CASE DoForbid \/ DoPermit \/ DoDisable \/ DoEnable \/ DoAllocSignal \/ DoFreeSignal
  <2>1. \/ sched' \in {Forbid(sched), Permit(sched), Disable(sched), Enable(sched), AllocSignal(sched)}
        \/ \E b \in Sig : sched' = FreeSignal(sched, b)
    BY <1>6 DEF DoForbid, DoPermit, DoDisable, DoEnable, DoAllocSignal, DoFreeSignal
  <2> QED BY <1>0, <2>1, OwnCallsFields DEF QueueStep
<1>7. CASE DoSignal
  <2>1. PICK t \in Task, m \in SUBSET Sig : sched' = Signal(sched, t, m)
    BY <1>7 DEF DoSignal, Allocated
  <2>2. sched.state[t] = "TS_WAIT" => ~Holds(sched.runq, t)
    BY DEF SchedInv, Placed
  <2>3. InOrder(sched.runq, sched.pri)
    BY DEF SchedInv
  <2>4. /\ sched'.current = sched.current /\ sched'.pri = sched.pri
        /\ \/ sched.state[t] = "TS_WAIT" /\ sched'.runq = RunqInsert(sched.runq, sched.pri, t)
           \/ sched'.runq = sched.runq
    <3>1. Signalled(sched, t, m, sched')
      BY <2>1, SignalFields, Zenon
    <3> QED BY <3>1 DEF Signalled
  <2> QED BY <2>2, <2>3, <2>4 DEF QueueStep
<1>8. CASE DoSetSignal
  <2>1. PICK new \in SUBSET Sig, which \in SUBSET Sig : sched' = SetSignal(sched, new, which)
    BY <1>8 DEF DoSetSignal
  <2>2. sched'.current = sched.current /\ sched'.runq = sched.runq
    <3>1. SignalsSet(sched, new, which, sched')
      BY <1>0, <2>1, SetSignalFields, Zenon
    <3> QED BY <3>1 DEF SignalsSet
  <2> QED BY <2>2 DEF QueueStep
<1>9. CASE DoWait
  BY <1>9, WaitQueueStep DEF DoWait, Running
<1>10. CASE ResumeWait
  <2>1. sched.mask[Me] \in SUBSET Sig
    BY <1>0, FieldTypes
  <2> QED BY <1>10, <2>1, WaitQueueStep DEF ResumeWait
<1>11. CASE UNCHANGED vars
  BY <1>11 DEF vars, QueueStep
<1> QED BY <1>1, <1>2, <1>3, <1>4, <1>5, <1>6, <1>7, <1>8, <1>9, <1>10, <1>11 DEF Next

-----------------------------------------------------------------------------
(* The theorems.                                                           *)

\* The boot task runs, alone and outside any call.
LEMMA InitInv == Init => SchedInv(sched)
<1> SUFFICES ASSUME Init PROVE SchedInv(sched)
  OBVIOUS
<1>1. PICK s : s = InitSched
  OBVIOUS
<1>2. /\ s.current = Boot /\ s.runq = << >> /\ s.sleepers = {} /\ s.dead = {} /\ ~s.halted
      /\ s.state = [t \in Task |-> IF t = Boot THEN "TS_RUN" ELSE "TS_INVALID"]
      /\ s.mask = [t \in Task |-> {}]
  BY <1>1 DEF InitSched
<1>3. s \in SchedState
  <2>1. /\ 100 \in Pri /\ 0 \in Pri
    BY DEF Pri
  <2>2. << >> \in Seq(Task)
    OBVIOUS
  <2> QED BY <1>1, <2>1, <2>2, BootAssumption DEF InitSched, SchedState, State
<1>4. \A t \in Task : ~Holds(s.runq, t)
  BY <1>2 DEF Holds
<1>5. Distinct(s.runq) /\ InOrder(s.runq, s.pri)
  BY <1>2 DEF Distinct, InOrder
<1>6. Placed(s)
  BY <1>2, <1>4, <1>5, BootAssumption DEF Placed
<1>7. Wakeful(s)
  BY <1>2 DEF Wakeful
<1> QED BY <1>1, <1>3, <1>5, <1>6, <1>7 DEF Init, SchedInv

\* One step per action of the scheduler.
LEMMA NextInv == SchedInv(sched) /\ [Next]_vars => SchedInv(sched)'
<1> SUFFICES ASSUME SchedInv(sched), [Next]_vars PROVE SchedInv(sched')
  OBVIOUS
<1>1. CASE DoSpawn
  BY <1>1, SpawnInv, PriAssumption DEF DoSpawn, Running, Allocated
<1>2. CASE DoYield
  BY <1>2, YieldInv DEF DoYield, Running, Me
<1>3. CASE DoTaskExit
  BY <1>3, TaskExitInv DEF DoTaskExit, Running
<1>4. CASE DoReapDead
  BY <1>4, ReapDeadInv DEF DoReapDead, Running
<1>5. CASE DoSetSelfPriority
  BY <1>5, SetSelfPriorityInv, PriAssumption DEF DoSetSelfPriority, Running
<1>6. CASE DoForbid \/ DoPermit \/ DoDisable \/ DoEnable
  BY <1>6, NestCallsInv DEF DoForbid, DoPermit, DoDisable, DoEnable, Running, Me
<1>7. CASE DoAllocSignal
  BY <1>7, AllocSignalInv DEF DoAllocSignal, Running, Me
<1>8. CASE DoFreeSignal
  BY <1>8, FreeSignalInv DEF DoFreeSignal, Running, Me
<1>9. CASE DoSignal
  BY <1>9, SignalInv DEF DoSignal, Running, Me, Allocated
<1>10. CASE DoSetSignal
  BY <1>10, SetSignalInv DEF DoSetSignal, Running, Me
<1>11. CASE DoWait
  BY <1>11, WaitInv DEF DoWait, Running
<1>12. CASE ResumeWait
  <2>1. sched.mask[Me] \in SUBSET Sig
    BY FieldTypes DEF SchedInv, Me
  <2> QED BY <1>12, <2>1, WaitInv DEF ResumeWait
<1>13. CASE UNCHANGED vars
  BY <1>13 DEF vars
<1> QED BY <1>1, <1>2, <1>3, <1>4, <1>5, <1>6, <1>7, <1>8, <1>9, <1>10, <1>11, <1>12, <1>13 DEF Next

\* The scheduler's state always has its type.
THEOREM SchedTypeOK == Spec => []TypeOK
<1>1. SchedInv(sched) => TypeOK
  BY DEF SchedInv, TypeOK
<1> QED BY <1>1, InitInv, NextInv, PTL DEF Spec

\* Every task is always in exactly the place its tc_State names.
THEOREM SchedQueuesMatchStates == Spec => []QueuesMatchStates
<1>1. SchedInv(sched) => QueuesMatchStates
  BY DEF SchedInv, QueuesMatchStates
<1> QED BY <1>1, InitInv, NextInv, PTL DEF Spec

\* The run queue is always in priority order.
THEOREM SchedRunqSorted == Spec => []RunqSorted
<1>1. SchedInv(sched) => RunqSorted
  BY DEF SchedInv, RunqSorted
<1> QED BY <1>1, InitInv, NextInv, PTL DEF Spec

\* No signal a task waits for is ever lost.
THEOREM SchedNoLostWakeup == Spec => []NoLostWakeup
<1>1. SchedInv(sched) => NoLostWakeup
  BY DEF SchedInv, NoLostWakeup
<1> QED BY <1>1, InitInv, NextInv, PTL DEF Spec

\* Croi_Yield, Croi_Wait and Croi_TaskExit hand the CPU only to a task that no
\* ready task outranks.
THEOREM SchedDispatchesHighest == Spec => DispatchesHighest
<1>1. SchedInv(sched) /\ SchedInv(sched)' /\ [Next]_vars =>
        [sched'.current # sched.current =>
           \A t \in Task : sched'.state[t] = "TS_READY" =>
             sched'.pri[t] <= sched'.pri[sched'.current]]_vars
  <2> SUFFICES ASSUME SchedInv(sched), SchedInv(sched'), [Next]_vars,
                      sched'.current # sched.current,
                      NEW t \in Task, sched'.state[t] = "TS_READY"
               PROVE  sched'.pri[t] <= sched'.pri[sched'.current]
    OBVIOUS
  <2>0. sched \in SchedState /\ sched.current \in Task /\ sched.pri \in [Task -> Pri]
    BY FieldTypes DEF SchedInv
  <2>1. Holds(sched'.runq, t)
    BY DEF SchedInv, Placed
  <2>2. \/ SwitchedAway(sched, sched')
        \/ TookTurns(sched, sched')
    BY NextQueueStep DEF QueueStep
  <2>3. /\ sched.runq # << >> /\ sched'.current = Head(sched.runq) /\ sched'.pri = sched.pri
    BY <2>2 DEF SwitchedAway, TookTurns, MaySwitch
  <2>4. /\ Head(sched.runq) \in Task
        /\ Tail(sched.runq) \in Seq(Task)
        /\ Distinct(Tail(sched.runq)) /\ InOrder(Tail(sched.runq), sched.pri)
        /\ \A u \in Task : Holds(Tail(sched.runq), u) <=> Holds(sched.runq, u) /\ u # Head(sched.runq)
        /\ \A u \in Task : Holds(sched.runq, u) => sched.pri[u] <= sched.pri[Head(sched.runq)]
    BY <2>0, <2>3, FieldTypes, TailProperty, Zenon DEF SchedInv, Placed
  <2>5. CASE SwitchedAway(sched, sched')
    BY <2>1, <2>3, <2>4, <2>5 DEF SwitchedAway
  <2>6. CASE TookTurns(sched, sched')
    <3>1. ~Holds(Tail(sched.runq), sched.current)
      BY <2>0, <2>4, <2>6 DEF TookTurns, SchedInv, Placed
    <3>2. t = sched.current \/ Holds(Tail(sched.runq), t)
      <4>1. \A u \in Task : Holds(RunqInsert(Tail(sched.runq), sched.pri, sched.current), u) <=>
                            u = sched.current \/ Holds(Tail(sched.runq), u)
        BY <2>0, <2>4, <3>1, RunqInsertProperty, Zenon
      <4>2. sched'.runq = RunqInsert(Tail(sched.runq), sched.pri, sched.current)
        BY <2>6 DEF TookTurns
      <4> QED BY <2>1, <4>1, <4>2
    <3>3. sched.pri[sched.current] <= sched.pri[Head(sched.runq)]
      <4>1. sched.pri[Head(sched.runq)] >= sched.pri[sched.current]
        BY <2>6 DEF TookTurns, MaySwitch
      <4>2. sched.pri[sched.current] \in Int /\ sched.pri[Head(sched.runq)] \in Int
        BY <2>0, <2>4, PriInt
      <4> QED BY <4>1, <4>2
    <3> QED BY <2>3, <2>4, <3>2, <3>3
  <2> QED BY <2>2, <2>5, <2>6
<1> QED BY <1>1, InitInv, NextInv, PTL DEF Spec, DispatchesHighest

\* Round robin among equals: no call lets a task overtake one that was ready
\* before it, unless it has the higher priority.
THEOREM SchedKeepsQueueOrder == Spec => KeepsQueueOrder
<1>1. SchedInv(sched) /\ SchedInv(sched)' /\ [Next]_vars =>
        [\A k, l \in DOMAIN sched'.runq :
           k < l /\ Later(sched.runq, sched'.runq[k], sched'.runq[l]) =>
             sched'.pri[sched'.runq[k]] > sched'.pri[sched'.runq[l]]]_vars
  <2> SUFFICES ASSUME SchedInv(sched), SchedInv(sched'), [Next]_vars,
                      NEW k \in DOMAIN sched'.runq, NEW l \in DOMAIN sched'.runq, k < l,
                      Later(sched.runq, sched'.runq[k], sched'.runq[l])
               PROVE  sched'.pri[sched'.runq[k]] > sched'.pri[sched'.runq[l]]
    OBVIOUS
  <2>0. PICK q \in Seq(Task), r \in Seq(Task), pri \in [Task -> Pri] :
          q = sched.runq /\ r = sched'.runq /\ pri = sched'.pri
    BY FieldTypes DEF SchedInv
  <2>1. Distinct(q) /\ k \in 1..Len(r) /\ l \in 1..Len(r) /\ Later(q, r[k], r[l])
    BY <2>0 DEF SchedInv, Placed
  <2>2. Dropped(q, q, 0)
    BY DEF Dropped
  <2>3. q # << >> => /\ Tail(q) \in Seq(Task) /\ Dropped(q, Tail(q), 1)
                     /\ InOrder(Tail(q), sched.pri)
                     /\ \A u \in Task : Holds(Tail(q), u) => Holds(q, u)
    <3> HAVE q # << >>
    <3>1. /\ Tail(q) \in Seq(Task) /\ InOrder(Tail(q), sched.pri)
          /\ \A u \in Task : Holds(Tail(q), u) => Holds(q, u)
      BY <2>0, FieldTypes, TailProperty, Zenon DEF SchedInv, Placed
    <3>2. Dropped(q, Tail(q), 1)
      BY HeadTailProperties DEF Dropped
    <3> QED BY <3>1, <3>2
  <2>4. CASE r = q
    BY <2>1, <2>2, <2>4, DroppedKept
  <2>5. ASSUME NEW t \in Task, ~Holds(q, t), InOrder(q, pri), r = RunqInsert(q, pri, t)
        PROVE  pri[r[k]] > pri[r[l]]
    <3>1. /\ k \in DOMAIN RunqInsert(q, pri, t) /\ l \in DOMAIN RunqInsert(q, pri, t)
          /\ Later(q, RunqInsert(q, pri, t)[k], RunqInsert(q, pri, t)[l]) /\ k < l
      BY <2>1, <2>5
    <3>2. 0 \in {0, 1}
      OBVIOUS
    <3>3. pri[RunqInsert(q, pri, t)[k]] > pri[RunqInsert(q, pri, t)[l]]
      BY <2>1, <2>2, <2>5, <3>1, <3>2, InsertedKept, Zenon
    <3> QED BY <2>5, <3>3
  <2>6. CASE q # << >> /\ r = Tail(q)
    BY <2>1, <2>3, <2>6, DroppedKept, Zenon
  <2>7. CASE TookTurns(sched, sched')
    <3>1. q # << >> /\ r = RunqInsert(Tail(q), pri, sched.current) /\ pri = sched.pri
      BY <2>0, <2>7 DEF TookTurns, MaySwitch
    <3>2. sched.current \in Task /\ ~Holds(q, sched.current)
      <4>1. sched.current \in Task
        BY FieldTypes DEF SchedInv
      <4> QED BY <2>0, <2>7, <4>1 DEF TookTurns, SchedInv, Placed
    <3>3. pri[r[k]] > pri[r[l]]
      <4>1. Tail(q) \in Seq(Task) /\ Dropped(q, Tail(q), 1) /\ InOrder(Tail(q), pri)
        BY <2>3, <3>1
      <4>2. /\ k \in DOMAIN RunqInsert(Tail(q), pri, sched.current)
            /\ l \in DOMAIN RunqInsert(Tail(q), pri, sched.current)
            /\ Later(q, RunqInsert(Tail(q), pri, sched.current)[k],
                     RunqInsert(Tail(q), pri, sched.current)[l])
        BY <2>0, <2>1, <3>1
      <4>3. 1 \in {0, 1}
        OBVIOUS
      <4>4. pri[RunqInsert(Tail(q), pri, sched.current)[k]] > pri[RunqInsert(Tail(q), pri, sched.current)[l]]
        BY <2>1, <3>2, <4>1, <4>2, <4>3, InsertedKept, Zenon
      <4> QED BY <3>1, <4>4
    <3> QED BY <2>0, <3>3
  <2> QED BY <2>0, <2>4, <2>5, <2>6, <2>7, NextQueueStep DEF QueueStep, SwitchedAway
<1> QED BY <1>1, InitInv, NextInv, PTL DEF Spec, KeepsQueueOrder

\* Inside Forbid or Disable the running task loses the CPU only by a call of
\* its own that sleeps or exits.
THEOREM SchedForbidKeepsCpu == Spec => ForbidKeepsCpu
<1>1. SchedInv(sched) /\ [Next]_vars =>
        [(sched.td[Me] >= 0 \/ sched.id[Me] >= 0) /\ sched'.current # sched.current =>
           sched'.state[Me] \in {"TS_WAIT", "TS_REMOVED"}]_vars
  <2> SUFFICES ASSUME SchedInv(sched), [Next]_vars,
                      sched.td[Me] >= 0 \/ sched.id[Me] >= 0, sched'.current # sched.current
               PROVE  sched'.state[Me] \in {"TS_WAIT", "TS_REMOVED"}
    OBVIOUS
  <2>1. sched.td[Me] \in Int /\ sched.id[Me] \in Int
    BY FieldTypes DEF SchedInv, Me
  <2>2. ~TookTurns(sched, sched')
    BY <2>1 DEF TookTurns, MaySwitch, Me
  <2> QED BY <2>2, NextQueueStep DEF QueueStep, Me
<1> QED BY <1>1, InitInv, NextInv, PTL DEF Spec, ForbidKeepsCpu
=============================================================================
