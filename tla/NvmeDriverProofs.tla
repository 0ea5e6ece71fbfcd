-------------------------- MODULE NvmeDriverProofs --------------------------
(***************************************************************************)
(* A transfer that returns EOK has moved its own data, and fails only for a  *)
(* cause (ResultsTrue), for queues, transfers, bounce buffers and command     *)
(* identifiers of any size, and any number of timeouts, errors and reboots.   *)
(*                                                                         *)
(* ResultsTrue is not inductive.  What the driver makes of a completion       *)
(* rests on the phase bits: the entries of the completion queue before the    *)
(* controller's tail have the phase the controller writes now, the others     *)
(* the phase of its last round, and the driver expects the one or the other   *)
(* as its head is behind the tail or ahead of it (InStep).  That holds from   *)
(* the moment the I/O queues are made because a controller that was reset     *)
(* holds no queue and no command of an earlier boot.  In a transfer that       *)
(* began with nothing abandoned there is at most one command, and what its     *)
(* chunk has moved so far depends on where that command is (CallOK).           *)
(***************************************************************************)
EXTENDS NvmeDriver, TLAPS

BringUp == {"idctrl", "idctrl?", "idns", "idns?", "ioqueues"}
Creating == {"createcq", "createcq?", "createsq", "createsq?"}
InCall == {"chunk", "chunk?", "copy"}

QueueType == [tail : Slots, head : Slots, phase : BOOLEAN, cid : Nat]
DevQueueType == [live : BOOLEAN, sqHead : Slots, sqTail : Slots, cqHead : Slots, cqTail : Slots, phase : BOOLEAN]
ControllerType == [regs : BOOLEAN, enabled : BOOLEAN, ioReady : BOOLEAN, ns : BOOLEAN, q : [Qids -> QueueType]]

DevOK ==
  /\ dev = [is |-> dev.is, en |-> dev.en, q |-> dev.q, flying |-> dev.flying, boot |-> dev.boot, disk |-> dev.disk,
            errors |-> dev.errors]
  /\ dev.en \in BOOLEAN
  /\ dev.q \in [Qids -> DevQueueType]
  /\ \A f \in dev.flying : f.q \in Qids
  /\ dev.disk = [b \in 0 .. NBlocks - 1 |-> dev.disk[b]]

QueueRam(s) == s = [q \in Qids |-> s[q]] /\ \A q \in Qids : s[q] = [i \in Slots |-> s[q][i]]
RamOK ==
  /\ ram = [sq |-> ram.sq, cq |-> ram.cq, dma |-> ram.dma, bounce |-> ram.bounce]
  /\ QueueRam(ram.sq) /\ QueueRam(ram.cq)
  /\ \A q \in Qids, i \in Slots : ram.cq[q][i].phase \in BOOLEAN
  /\ ram.bounce = [i \in 1 .. Chunk |-> ram.bounce[i]]

CallShape ==
  call = [pc |-> call.pc, op |-> call.op, lba |-> call.lba, n |-> call.n, buf |-> call.buf, off |-> call.off,
          rc |-> call.rc, cid |-> call.cid, calm |-> call.calm, cause |-> call.cause, count |-> call.count,
          timeouts |-> call.timeouts]

TypeOK == nv \in ControllerType /\ DevOK /\ RamOK /\ CallShape

(* A controller that is not enabled has no queue and no command. *)
OffOK == ~dev.en => dev.q = [q \in Qids |-> FreshDevQueue] /\ dev.flying = {}

(* The controller has not used the I/O queue. *)
Unused(d) == d.sqHead = 0 /\ d.sqTail = 0 /\ d.cqHead = 0 /\ d.cqTail = 0 /\ d.phase = TRUE

PhaseOK ==
  /\ call.pc = "setup" => ~dev.en
  /\ call.pc \in BringUp \cup Creating \cup InCall \cup {"idle"} => dev.en
  /\ call.pc \in {"setup"} \cup BringUp \cup Creating => ~nv.ioReady
  /\ call.pc \in BringUp => Unused(dev.q[1]) /\ \A f \in dev.flying : f.q = 0

(* The controller's side d and the driver's side n of a completion queue cq. *)
InStep(d, n, cq) ==
  /\ d.cqHead = n.head
  /\ \A i \in Slots : cq[i].phase = d.phase <=> i < d.cqTail
  /\ n.phase = d.phase <=> n.head <= d.cqTail

QueueOK ==
  call.pc \in Creating \cup InCall \cup {"idle"} =>
    InStep(dev.q[1], nv.q[1], ram.cq[1]) /\ dev.q[1].sqTail = nv.q[1].tail

(* Nothing waits to be fetched, or to be consumed. *)
Fetched(q) == dev.q[q].sqHead = dev.q[q].sqTail
Consumed(q) == dev.q[q].cqTail = nv.q[q].head

(* The command of this chunk, the data a write hands over with it, and what a   *)
(* successful one leaves behind.                                               *)
Issued ==
  IF call.op = "flush" THEN [op |-> "flush", lba |-> 0, n |-> 0, cid |-> call.cid]
  ELSE [op |-> call.op, lba |-> ChunkLba, n |-> ChunkLen, cid |-> call.cid]
Handed == call.op = "write" => \A i \in 1 .. ChunkLen : ram.bounce[i] = call.buf[call.off + i]
Moved ==
  /\ call.op = "write" => \A i \in 1 .. ChunkLen : dev.disk[call.lba + call.off + i - 1] = call.buf[call.off + i]
  /\ call.op = "read" => \A i \in 1 .. ChunkLen : dev.disk[call.lba + call.off + i - 1] = ram.bounce[i]

(* Where the command is: in the submission queue, with the controller, in the   *)
(* completion queue.                                                           *)
InSubmission ==
  /\ dev.flying = {} /\ Consumed(1) /\ Handed
  /\ dev.q[1].sqTail = (dev.q[1].sqHead + 1) % Entries
  /\ ram.sq[1][dev.q[1].sqHead] = Issued
InFlight == Fetched(1) /\ Consumed(1) /\ Handed /\ \E f \in dev.flying : dev.flying = {f} /\ f.q = 1 /\ f.cmd = Issued
InCompletion ==
  /\ dev.flying = {} /\ Fetched(1)
  /\ dev.q[1].cqTail = (nv.q[1].head + 1) % Entries
  /\ ram.cq[1][nv.q[1].head].cid = call.cid
  /\ IF ram.cq[1][nv.q[1].head].ok THEN Moved ELSE call.cause

(* What the chunks before this one have moved. *)
SoFar ==
  /\ call.op \in {"read", "write", "flush"}
  /\ call.lba \in Nat /\ call.n \in Nat /\ call.off \in 0 .. call.n
  /\ call.op = "write" => Len(call.buf) = call.n
  /\ call.op = "read" => call.buf = [i \in 1 .. call.off |-> call.buf[i]]
  /\ call.op # "flush" => \A i \in 1 .. call.off : call.buf[i] = dev.disk[call.lba + i - 1]

InRange == call.op # "flush" => call.lba + call.off + ChunkLen <= NBlocks

Still == dev.flying = {} /\ Fetched(1) /\ Consumed(1)

CallOK ==
  call.pc \in InCall /\ call.calm =>
    /\ SoFar /\ Fetched(0)
    /\ call.pc = "chunk" => Still
    /\ call.pc = "chunk?" => InRange /\ (InSubmission \/ InFlight \/ InCompletion)
    /\ call.pc = "copy" => InRange /\ Still /\ Moved

NvmeInv == TypeOK /\ OffOK /\ PhaseOK /\ QueueOK /\ CallOK

-----------------------------------------------------------------------------
(* Queue indices and phases.                                               *)

Succ(t) == IF t + 1 = Entries THEN 0 ELSE t + 1

(* An index of a queue moves to the next slot, and wraps at the end. *)
LEMMA SuccSlot == ASSUME NEW t \in Slots PROVE (t + 1) % Entries = Succ(t) /\ Succ(t) \in Slots
<1>1. Entries \in Nat /\ Entries > 1 /\ t \in Int /\ 0 <= t /\ t < Entries
  BY NvmeAssumption DEF Slots
<1>2. CASE t + 1 = Entries
  <2>1. Entries % Entries = 0
    BY <1>1
  <2> QED BY <1>1, <1>2, <2>1 DEF Succ, Slots
<1>3. CASE t + 1 # Entries
  <2>1. (t + 1) % Entries = t + 1
    BY <1>1, <1>3
  <2> QED BY <1>1, <1>3, <2>1 DEF Succ, Slots
<1> QED BY <1>2, <1>3

(* The next command identifier. *)
LEMMA CidNat == ASSUME NEW c \in Nat PROVE (c + 1) % CidMod \in Nat
BY NvmeAssumption

(* DevComplete: a posted completion keeps the phases in step. *)
LEMMA PostInStep ==
  ASSUME NEW d \in DevQueueType, NEW n \in QueueType, NEW cq, NEW e, NEW c,
         \A i \in Slots : cq[i].phase \in BOOLEAN,
         InStep(d, n, cq), Succ(d.cqTail) # d.cqHead,
         e \in DevQueueType, e.cqHead = d.cqHead, e.cqTail = Succ(d.cqTail),
         e.phase = IF d.cqTail + 1 = Entries THEN ~d.phase ELSE d.phase,
         \A i \in Slots : c[i].phase = IF i = d.cqTail THEN d.phase ELSE cq[i].phase
  PROVE  InStep(e, n, c)
<1>1. /\ d.cqTail \in Slots /\ d.cqHead \in Slots /\ n.head \in Slots
      /\ d.phase \in BOOLEAN /\ n.phase \in BOOLEAN /\ e.phase \in BOOLEAN
  BY DEF DevQueueType, QueueType
<1>2. Entries \in Nat
  BY NvmeAssumption
<1>3. CASE d.cqTail + 1 = Entries
  <2>1. e.cqTail = 0 /\ e.phase # d.phase /\ d.cqHead # 0
    BY <1>1, <1>3 DEF Succ
  <2>2. ASSUME NEW i \in Slots PROVE c[i].phase = e.phase <=> i < e.cqTail
    BY <1>1, <1>2, <1>3, <2>1 DEF InStep, Slots
  <2> QED BY <1>1, <1>2, <1>3, <2>1, <2>2 DEF InStep, Slots
<1>4. CASE d.cqTail + 1 # Entries
  <2>1. e.cqTail = d.cqTail + 1 /\ e.phase = d.phase /\ d.cqHead # d.cqTail + 1
    BY <1>1, <1>4 DEF Succ
  <2>2. ASSUME NEW i \in Slots PROVE c[i].phase = e.phase <=> i < e.cqTail
    BY <1>1, <1>2, <1>4, <2>1 DEF InStep, Slots
  <2> QED BY <1>1, <1>2, <1>4, <2>1, <2>2 DEF InStep, Slots
<1> QED BY <1>3, <1>4

(* nvme_submit_sync: the entry at the head has the expected phase exactly when   *)
(* the controller has posted it.                                               *)
LEMMA NewIsPosted ==
  ASSUME NEW d \in DevQueueType, NEW n \in QueueType, NEW cq, \A i \in Slots : cq[i].phase \in BOOLEAN,
         InStep(d, n, cq)
  PROVE  cq[n.head].phase = n.phase <=> n.head # d.cqTail
<1>1. /\ d.cqTail \in Slots /\ n.head \in Slots
      /\ d.phase \in BOOLEAN /\ n.phase \in BOOLEAN /\ cq[n.head].phase \in BOOLEAN
  BY DEF DevQueueType, QueueType
<1>2. (cq[n.head].phase = d.phase <=> n.head < d.cqTail) /\ (n.phase = d.phase <=> n.head <= d.cqTail)
  BY <1>1 DEF InStep
<1> QED BY <1>1, <1>2, NvmeAssumption DEF Slots

(* nvme_submit_sync: an entry consumed keeps the phases in step. *)
LEMMA ConsumeInStep ==
  ASSUME NEW d \in DevQueueType, NEW n \in QueueType, NEW cq, NEW e \in DevQueueType, NEW m \in QueueType,
         InStep(d, n, cq), n.head # d.cqTail,
         m.head = Succ(n.head), m.phase = NextPhase(m.head, n.phase),
         e.cqHead = m.head, e.cqTail = d.cqTail, e.phase = d.phase
  PROVE  InStep(e, m, cq)
<1>1. /\ d.cqTail \in Slots /\ n.head \in Slots
      /\ d.phase \in BOOLEAN /\ n.phase \in BOOLEAN /\ m.phase \in BOOLEAN
  BY DEF DevQueueType, QueueType
<1>2. Entries \in Nat
  BY NvmeAssumption
<1>3. n.phase = d.phase <=> n.head <= d.cqTail
  BY DEF InStep
<1>4. m.phase = e.phase <=> m.head <= e.cqTail
  <2>1. CASE n.head + 1 = Entries
    BY <1>1, <1>2, <1>3, <2>1 DEF Succ, NextPhase, Slots
  <2>2. CASE n.head + 1 # Entries
    BY <1>1, <1>2, <1>3, <2>2 DEF Succ, NextPhase, Slots
  <2> QED BY <2>1, <2>2
<1> QED BY <1>4 DEF InStep

-----------------------------------------------------------------------------
(* What the steps do to the queues, field by field.                        *)

Stored(t, s, q, i, e) == t = [s EXCEPT ![q] = [s[q] EXCEPT ![i] = e]]
InSlot(t, s, q, i, e) ==
  /\ t[q][i] = e
  /\ \A j \in Slots \ {i} : t[q][j] = s[q][j]
  /\ \A r \in Qids \ {q} : t[r] = s[r]

(* An entry written into one slot of one queue. *)
LEMMA SlotWrite ==
  ASSUME NEW s, NEW q \in Qids, NEW i \in Slots, NEW e, NEW t,
         QueueRam(s), Stored(t, s, q, i, e)
  PROVE  QueueRam(t) /\ InSlot(t, s, q, i, e)
<1> DEFINE a == [s[q] EXCEPT ![i] = e]
<1>1. a = [j \in Slots |-> a[j]] /\ a[i] = e /\ \A j \in Slots \ {i} : a[j] = s[q][j]
  BY DEF QueueRam
<1>0. t = [s EXCEPT ![q] = a]
  BY DEF Stored
<1> HIDE DEF a
<1>2. t = [r \in Qids |-> t[r]] /\ t[q] = a /\ \A r \in Qids \ {q} : t[r] = s[r]
  BY <1>0 DEF QueueRam
<1>3. \A r \in Qids : t[r] = [j \in Slots |-> t[r][j]]
  BY <1>1, <1>2 DEF QueueRam
<1>4. QueueRam(t) /\ t[q][i] = e /\ \A j \in Slots \ {i} : t[q][j] = s[q][j]
  BY <1>1, <1>2, <1>3 DEF QueueRam
<1> QED BY <1>2, <1>4 DEF InSlot

SetDevQueue(q, d) == dev' = [dev EXCEPT !.q = [dev.q EXCEPT ![q] = d]]
DevQueueSet(q, d) ==
  /\ DevOK'
  /\ dev'.q[q] = d /\ \A r \in Qids \ {q} : dev'.q[r] = dev.q[r]
  /\ dev'.en = dev.en /\ dev'.flying = dev.flying /\ dev'.disk = dev.disk

(* A step that changes one queue of the controller and nothing else of it. *)
LEMMA DevQueueStep == ASSUME DevOK, NEW q \in Qids, NEW d \in DevQueueType, SetDevQueue(q, d) PROVE DevQueueSet(q, d)
<1>1. [dev.q EXCEPT ![q] = d] \in [Qids -> DevQueueType]
  BY DEF DevOK
<1>2. /\ dev'.q = [dev.q EXCEPT ![q] = d] /\ dev'.en = dev.en /\ dev'.flying = dev.flying /\ dev'.disk = dev.disk
      /\ dev' = [is |-> dev'.is, en |-> dev'.en, q |-> dev'.q, flying |-> dev'.flying, boot |-> dev'.boot,
                 disk |-> dev'.disk, errors |-> dev'.errors]
  BY DEF SetDevQueue, DevOK
<1>3. DevOK'
  BY <1>1, <1>2 DEF DevOK
<1> QED BY <1>1, <1>2, <1>3 DEF DevOK, DevQueueSet

(* nvme_submit_sync: the entry goes into the slot at the tail, and nowhere else. *)
SubmitEffect(q, cmd, pc) ==
  /\ TypeOK'
  /\ nv'.ioReady = nv.ioReady
  /\ \A r \in Qids : nv'.q[r].head = nv.q[r].head /\ nv'.q[r].phase = nv.q[r].phase
  /\ nv'.q[q].tail = Succ(nv.q[q].tail)
  /\ \A r \in Qids \ {q} : nv'.q[r] = nv.q[r]
  /\ DevQueueSet(q, [dev.q[q] EXCEPT !.sqTail = Succ(nv.q[q].tail)])
  /\ ram'.cq = ram.cq
  /\ ram'.sq[q][nv.q[q].tail] = [op |-> cmd.op, lba |-> cmd.lba, n |-> cmd.n, cid |-> nv.q[q].cid]
  /\ ram'.bounce = Filled(cmd)
  /\ call' = [call EXCEPT !.pc = pc, !.cid = nv.q[q].cid]

(* nvme_submit_sync: what the first half changes. *)
LEMMA SubmitStep == ASSUME TypeOK, NEW q \in Qids, NEW cmd, NEW pc, Submit(q, cmd, pc) PROVE SubmitEffect(q, cmd, pc)
<1> DEFINE n == nv.q[q]
           d == dev.q[q]
           n2 == [n EXCEPT !.tail = Succ(n.tail), !.cid = (n.cid + 1) % CidMod]
           d2 == [d EXCEPT !.sqTail = Succ(n.tail)]
           e == [op |-> cmd.op, lba |-> cmd.lba, n |-> cmd.n, cid |-> n.cid]
<1>1. n \in QueueType /\ d \in DevQueueType
  BY DEF TypeOK, ControllerType, DevOK
<1>2. n.tail \in Slots /\ n.cid \in Nat
  BY <1>1 DEF QueueType
<1>3. (n.tail + 1) % Entries = Succ(n.tail) /\ Succ(n.tail) \in Slots
  BY <1>2, SuccSlot
<1>4. (n.cid + 1) % CidMod \in Nat
  BY <1>2, CidNat
<1>5. n2 \in QueueType
  BY <1>1, <1>3, <1>4, Zenon DEF QueueType
<1>6. d2 \in DevQueueType
  BY <1>1, <1>3 DEF DevQueueType
<1>7. nv' = [nv EXCEPT !.q = [nv.q EXCEPT ![q] = n2]]
  BY <1>3, Zenon DEF Submit, TypeOK, ControllerType
<1>8. /\ nv' \in ControllerType /\ nv'.ioReady = nv.ioReady
      /\ nv'.q[q] = n2 /\ \A r \in Qids \ {q} : nv'.q[r] = nv.q[r]
  <2>1. [nv.q EXCEPT ![q] = n2] \in [Qids -> QueueType]
    BY <1>5 DEF TypeOK, ControllerType
  <2> HIDE DEF n2
  <2> QED BY <1>7, <2>1 DEF TypeOK, ControllerType
<1>9. SetDevQueue(q, d2)
  BY <1>3 DEF Submit, TypeOK, DevOK, SetDevQueue
<1>10. DevQueueSet(q, d2)
  BY <1>6, <1>9, DevQueueStep, Zenon DEF TypeOK
<1>11. ram' = [ram EXCEPT !.sq = [ram.sq EXCEPT ![q] = [ram.sq[q] EXCEPT ![n.tail] = e]], !.bounce = Filled(cmd)]
  BY DEF Submit, TypeOK, RamOK
<1>12. Filled(cmd) = [i \in 1 .. Chunk |-> Filled(cmd)[i]]
  BY Zenon DEF Filled, TypeOK, RamOK
<1>13. RamOK' /\ ram'.cq = ram.cq /\ ram'.sq[q][n.tail] = e /\ ram'.bounce = Filled(cmd)
  <2> HIDE DEF e
  <2>1. /\ ram'.cq = ram.cq /\ ram'.bounce = Filled(cmd)
        /\ ram'.sq = [ram.sq EXCEPT ![q] = [ram.sq[q] EXCEPT ![n.tail] = e]]
        /\ ram' = [sq |-> ram'.sq, cq |-> ram'.cq, dma |-> ram'.dma, bounce |-> ram'.bounce]
    BY <1>11, Zenon DEF TypeOK, RamOK
  <2>2. QueueRam(ram.sq)
    BY DEF TypeOK, RamOK
  <2>3. Stored(ram'.sq, ram.sq, q, n.tail, e)
    BY <2>1 DEF Stored
  <2>4. QueueRam(ram'.sq) /\ InSlot(ram'.sq, ram.sq, q, n.tail, e)
    BY <1>2, <2>2, <2>3, SlotWrite, Zenon
  <2>5. ram'.sq[q][n.tail] = e
    BY <2>4 DEF InSlot
  <2> QED BY <1>12, <2>1, <2>4, <2>5 DEF TypeOK, RamOK
<1>14. CallShape' /\ call' = [call EXCEPT !.pc = pc, !.cid = n.cid]
  BY Zenon DEF Submit, TypeOK, CallShape
<1>15. TypeOK'
  BY <1>8, <1>10, <1>13, <1>14 DEF TypeOK, DevQueueSet
<1>16. n2.head = n.head /\ n2.phase = n.phase /\ n2.tail = Succ(n.tail)
  BY <1>1 DEF QueueType
<1>17. \A r \in Qids : nv'.q[r].head = nv.q[r].head /\ nv'.q[r].phase = nv.q[r].phase
  BY <1>8, <1>16, Zenon
<1> QED BY <1>8, <1>10, <1>13, <1>14, <1>15, <1>16, <1>17 DEF SubmitEffect

(* nvme_submit_sync: an entry with the expected phase is consumed, and the       *)
(* verdict is its own; without one the driver gives up.                        *)
LookIs(q, look) ==
  /\ look.q \in QueueType /\ look.q.tail = nv.q[q].tail
  /\ \/ /\ New(q) /\ look.rc = Verdict(q, call.cid) /\ look.q.head = Succ(nv.q[q].head)
        /\ look.q.phase = NextPhase(look.q.head, nv.q[q].phase)
     \/ ~New(q) /\ look.rc = "EAGAIN" /\ look.q = nv.q[q]

(* nvme_submit_sync: the two ways a look at the completion queue may end. *)
LEMMA LookKinds == ASSUME TypeOK, NEW q \in Qids, NEW look \in Looks(q) PROVE LookIs(q, look)
<1> DEFINE n == nv.q[q]
<1>1. n \in QueueType
  BY DEF TypeOK, ControllerType
<1>2. n.head \in Slots /\ n.phase \in BOOLEAN
  BY <1>1 DEF QueueType
<1>3. (n.head + 1) % Entries = Succ(n.head) /\ Succ(n.head) \in Slots
  BY <1>2, SuccSlot
<1>4. NextPhase(Succ(n.head), n.phase) \in BOOLEAN
  BY <1>2, Zenon DEF NextPhase
<1>5. /\ ConsumedQueue(n) \in QueueType /\ ConsumedQueue(n).tail = n.tail
      /\ ConsumedQueue(n).head = Succ(n.head) /\ ConsumedQueue(n).phase = NextPhase(Succ(n.head), n.phase)
  BY <1>1, <1>3, <1>4, Zenon DEF ConsumedQueue, QueueType
<1>6. CASE New(q)
  <2>1. look = [rc |-> Verdict(q, call.cid), q |-> ConsumedQueue(n), late |-> 0]
    BY <1>6 DEF Looks
  <2> QED BY <1>5, <1>6, <2>1 DEF LookIs
<1>7. CASE ~New(q)
  <2>1. look = [rc |-> "EAGAIN", q |-> n, late |-> 1]
    BY <1>7 DEF Looks
  <2> QED BY <1>1, <1>7, <2>1 DEF LookIs
<1> QED BY <1>6, <1>7

(* The queues after a look, whatever else of the driver's state has changed. *)
LookEffect(q, look) ==
  /\ nv' \in ControllerType
  /\ nv'.q[q] = look.q /\ \A r \in Qids \ {q} : nv'.q[r] = nv.q[r]
  /\ DevQueueSet(q, [dev.q[q] EXCEPT !.cqHead = look.q.head])

(* AdminAnswer, ChunkAnswer: the driver's queue and the doorbell. *)
LEMMA LookStep ==
  ASSUME TypeOK, NEW q \in Qids, NEW look, LookIs(q, look),
         nv' \in ControllerType, nv'.q = [nv.q EXCEPT ![q] = look.q],
         dev' = [dev EXCEPT !.q[q].cqHead = look.q.head]
  PROVE  LookEffect(q, look)
<1> DEFINE d2 == [dev.q[q] EXCEPT !.cqHead = look.q.head]
<1>1. dev.q[q] \in DevQueueType /\ look.q.head \in Slots
  BY DEF TypeOK, DevOK, LookIs, QueueType
<1>2. d2 \in DevQueueType
  BY <1>1 DEF DevQueueType
<1>3. SetDevQueue(q, d2)
  BY DEF TypeOK, DevOK, SetDevQueue
<1>4. DevQueueSet(q, d2)
  BY <1>2, <1>3, DevQueueStep, Zenon DEF TypeOK
<1>5. nv'.q[q] = look.q /\ \A r \in Qids \ {q} : nv'.q[r] = nv.q[r]
  BY DEF TypeOK, ControllerType
<1> QED BY <1>4, <1>5 DEF LookEffect

(* DevFetch: a command leaves the submission queue. *)
FetchEffect(q) ==
  /\ TypeOK'
  /\ dev.q[q].sqHead # dev.q[q].sqTail /\ dev.q[q].live
  /\ \A r \in Qids \ {q} : dev'.q[r] = dev.q[r]
  /\ dev'.q[q] = [dev.q[q] EXCEPT !.sqHead = Succ(dev.q[q].sqHead)]
  /\ dev'.en = dev.en /\ dev'.disk = dev.disk
  /\ \E f : f.q = q /\ f.cmd = ram.sq[q][dev.q[q].sqHead] /\ dev'.flying = dev.flying \cup {f}
  /\ nv' = nv /\ ram' = ram /\ call' = call

(* DevFetch: what it changes. *)
LEMMA FetchStep == ASSUME TypeOK, NEW q \in Qids, DevFetch(q) PROVE FetchEffect(q)
<1> DEFINE d == dev.q[q]
           d2 == [d EXCEPT !.sqHead = Succ(d.sqHead)]
           f == [q |-> q, boot |-> dev.boot, slot |-> d.sqHead, cmd |-> ram.sq[q][d.sqHead]]
<1>1. d \in DevQueueType /\ d.sqHead \in Slots
  BY DEF TypeOK, DevOK, DevQueueType
<1>2. (d.sqHead + 1) % Entries = Succ(d.sqHead) /\ Succ(d.sqHead) \in Slots
  BY <1>1, SuccSlot
<1>3. d2 \in DevQueueType
  BY <1>1, <1>2 DEF DevQueueType
<1>4. dev' = [dev EXCEPT !.q = [dev.q EXCEPT ![q] = d2], !.flying = dev.flying \cup {f}]
  BY <1>2, Zenon DEF DevFetch, TypeOK, DevOK
<1>5. [dev.q EXCEPT ![q] = d2] \in [Qids -> DevQueueType]
  BY <1>3 DEF TypeOK, DevOK
<1>6. f.q = q /\ f.cmd = ram.sq[q][d.sqHead]
  OBVIOUS
<1> HIDE DEF d2, f
<1>7. /\ dev'.q = [dev.q EXCEPT ![q] = d2] /\ dev'.flying = dev.flying \cup {f} /\ dev'.en = dev.en /\ dev'.disk = dev.disk
      /\ dev' = [is |-> dev'.is, en |-> dev'.en, q |-> dev'.q, flying |-> dev'.flying, boot |-> dev'.boot,
                 disk |-> dev'.disk, errors |-> dev'.errors]
  BY <1>4, Zenon DEF TypeOK, DevOK
<1>8. DevOK'
  BY <1>5, <1>6, <1>7 DEF TypeOK, DevOK
<1>9. nv' = nv /\ ram' = ram /\ call' = call /\ d.sqHead # d.sqTail /\ d.live
  BY DEF DevFetch
<1>10. TypeOK'
  BY <1>8, <1>9 DEF TypeOK, RamOK, CallShape
<1>11. dev'.q[q] = d2 /\ \A r \in Qids \ {q} : dev'.q[r] = dev.q[r]
  BY <1>5, <1>7 DEF TypeOK, DevOK
<1> QED BY <1>6, <1>7, <1>9, <1>10, <1>11, Zenon DEF FetchEffect, d2

Posted(f, ok) == [phase |-> dev.q[f.q].phase, cid |-> f.cmd.cid, ok |-> ok]

(* The queues after a completion was posted. *)
PostEffect(f) ==
  /\ dev'.q \in [Qids -> DevQueueType]
  /\ \A r \in Qids :
       dev'.q[r].sqHead = dev.q[r].sqHead /\ dev'.q[r].sqTail = dev.q[r].sqTail /\ dev'.q[r].cqHead = dev.q[r].cqHead
  /\ \A r \in Qids \ {f.q} : dev'.q[r].cqTail = dev.q[r].cqTail /\ dev'.q[r].phase = dev.q[r].phase
  /\ dev'.q[f.q].cqTail = Succ(dev.q[f.q].cqTail)
  /\ dev'.q[f.q].phase = IF dev.q[f.q].cqTail + 1 = Entries THEN ~dev.q[f.q].phase ELSE dev.q[f.q].phase

(* DevComplete: a completion is posted and the data moved. *)
CompleteEffect(f, ok) ==
  /\ TypeOK' /\ PostEffect(f)
  /\ f.q \in Qids /\ Succ(dev.q[f.q].cqTail) # dev.q[f.q].cqHead
  /\ dev'.en = dev.en /\ dev'.flying = dev.flying \ {f}
  /\ dev'.disk = IF ok THEN Disk(f.cmd) ELSE dev.disk
  /\ ram'.sq = ram.sq
  /\ InSlot(ram'.cq, ram.cq, f.q, dev.q[f.q].cqTail, Posted(f, ok))
  /\ ram'.bounce = IF ok THEN Bounce(f.cmd) ELSE ram.bounce
  /\ call' = [call EXCEPT !.cause = @ \/ ~ok]
  /\ nv' = nv

(* DevComplete: what it does to the controller's queues. *)
LEMMA PostStep ==
  ASSUME TypeOK, NEW f \in dev.flying, NEW ok \in BOOLEAN, DevComplete(f, ok)
  PROVE  PostEffect(f)
<1> DEFINE d == dev.q[f.q]
           x == ok /\ f.cmd.op = "createsq"
           p == IF d.cqTail + 1 = Entries THEN ~d.phase ELSE d.phase
           d2 == [d EXCEPT !.cqTail = Succ(d.cqTail), !.phase = p]
<1>1. f.q \in Qids /\ dev.q \in [Qids -> DevQueueType]
  BY DEF TypeOK, DevOK
<1>2. d \in DevQueueType /\ d.cqTail \in Slots /\ d.phase \in BOOLEAN /\ dev.q[1] \in DevQueueType
  BY <1>1 DEF DevQueueType, Qids
<1>3. (d.cqTail + 1) % Entries = Succ(d.cqTail) /\ Succ(d.cqTail) \in Slots
  BY <1>2, SuccSlot
<1>4. p \in BOOLEAN /\ x \in BOOLEAN
  BY <1>2, Zenon
<1>5. dev'.q = [[dev.q EXCEPT ![f.q] = d2] EXCEPT ![1].live = @ \/ x]
  <2> DEFINE posted == [dev.q EXCEPT ![f.q].cqTail = Succ(d.cqTail),
                                     ![f.q].phase = IF d.cqTail + 1 = Entries THEN ~@ ELSE @]
  <2>1. dev'.q = [posted EXCEPT ![1].live = @ \/ x]
    <3>1. dev'.q = PostedQueues(f, ok)
      BY DEF DevComplete, TypeOK, DevOK
    <3> QED BY <1>3, <3>1, Zenon DEF PostedQueues
  <2>2. posted = [dev.q EXCEPT ![f.q] = d2]
    BY <1>1, <1>2, Zenon DEF DevQueueType
  <2> HIDE DEF posted, d2, x
  <2> QED BY <2>1, <2>2, Zenon
<1> HIDE DEF p, x
<1>6. /\ d2 \in DevQueueType /\ d2.cqTail = Succ(d.cqTail) /\ d2.phase = p
      /\ d2.sqHead = d.sqHead /\ d2.sqTail = d.sqTail /\ d2.cqHead = d.cqHead
  BY <1>2, <1>3, <1>4, Zenon DEF DevQueueType
<1> HIDE DEF d2
<1> DEFINE e == [dev.q EXCEPT ![f.q] = d2]
<1>7. e \in [Qids -> DevQueueType] /\ e[f.q] = d2 /\ \A r \in Qids \ {f.q} : e[r] = dev.q[r]
  BY <1>1, <1>6
<1>8. dev'.q = [e EXCEPT ![1].live = @ \/ x]
  BY <1>5
<1> HIDE DEF e
<1>9. e[1] \in DevQueueType
  BY <1>7 DEF Qids
<1> DEFINE l == [e[1] EXCEPT !.live = e[1].live \/ x]
<1>10. /\ l \in DevQueueType /\ l.cqTail = e[1].cqTail /\ l.phase = e[1].phase
       /\ l.sqHead = e[1].sqHead /\ l.sqTail = e[1].sqTail /\ l.cqHead = e[1].cqHead
  BY <1>4, <1>9 DEF DevQueueType
<1>11. dev'.q = [e EXCEPT ![1] = l]
  BY <1>7, <1>8 DEF Qids
<1> HIDE DEF l
<1>12. dev'.q \in [Qids -> DevQueueType] /\ dev'.q[1] = l /\ dev'.q[0] = e[0]
  BY <1>7, <1>10, <1>11 DEF Qids
<1>13. \A r \in Qids :
         /\ dev'.q[r].cqTail = e[r].cqTail /\ dev'.q[r].phase = e[r].phase
         /\ dev'.q[r].sqHead = e[r].sqHead /\ dev'.q[r].sqTail = e[r].sqTail /\ dev'.q[r].cqHead = e[r].cqHead
  BY <1>10, <1>12 DEF Qids
<1> QED BY SMTT(20), <1>1, <1>6, <1>7, <1>12, <1>13 DEF PostEffect, p

(* DevComplete: what it changes. *)
LEMMA CompleteStep ==
  ASSUME TypeOK, NEW f \in dev.flying, NEW ok \in BOOLEAN, DevComplete(f, ok)
  PROVE  CompleteEffect(f, ok)
<1> DEFINE d == dev.q[f.q]
           k == IF ok THEN Disk(f.cmd) ELSE dev.disk
           b == IF ok THEN Bounce(f.cmd) ELSE ram.bounce
           e == Posted(f, ok)
<1>1. PostEffect(f)
  BY PostStep
<1>2. f.q \in Qids /\ d \in DevQueueType /\ d.cqTail \in Slots /\ d.phase \in BOOLEAN
  BY DEF TypeOK, DevOK, DevQueueType
<1>3. Succ(d.cqTail) # d.cqHead
  BY <1>2, SuccSlot DEF DevComplete
<1>4. /\ dev'.en = dev.en /\ dev'.flying = dev.flying \ {f} /\ dev'.disk = k
      /\ dev' = [is |-> dev'.is, en |-> dev'.en, q |-> dev'.q, flying |-> dev'.flying, boot |-> dev'.boot,
                 disk |-> dev'.disk, errors |-> dev'.errors]
  BY Zenon DEF DevComplete, TypeOK, DevOK
<1>5. k = [i \in 0 .. NBlocks - 1 |-> k[i]]
  BY Zenon DEF Disk, TypeOK, DevOK
<1>6. DevOK'
  BY <1>1, <1>4, <1>5 DEF TypeOK, DevOK, PostEffect
<1>7. /\ ram'.sq = ram.sq /\ ram'.bounce = b
      /\ ram'.cq = [ram.cq EXCEPT ![f.q] = [ram.cq[f.q] EXCEPT ![d.cqTail] = e]]
      /\ ram' = [sq |-> ram'.sq, cq |-> ram'.cq, dma |-> ram'.dma, bounce |-> ram'.bounce]
  BY Zenon DEF DevComplete, TypeOK, RamOK, Posted
<1>8. b = [i \in 1 .. Chunk |-> b[i]]
  BY Zenon DEF Bounce, TypeOK, RamOK
<1>9. e.phase \in BOOLEAN
  BY <1>2 DEF Posted
<1>10. Stored(ram'.cq, ram.cq, f.q, d.cqTail, e) /\ QueueRam(ram.cq)
  BY <1>7 DEF Stored, TypeOK, RamOK
<1> HIDE DEF e, b, k
<1>11. QueueRam(ram'.cq) /\ InSlot(ram'.cq, ram.cq, f.q, d.cqTail, e)
  BY <1>2, <1>10, SlotWrite, Zenon
<1>12. \A q \in Qids, i \in Slots : ram'.cq[q][i].phase \in BOOLEAN
  BY <1>2, <1>9, <1>11 DEF InSlot, TypeOK, RamOK
<1>13. RamOK'
  BY <1>7, <1>8, <1>11, <1>12, Zenon DEF TypeOK, RamOK
<1>14. CallShape' /\ call' = [call EXCEPT !.cause = @ \/ ~ok] /\ nv' = nv
  BY DEF DevComplete, TypeOK, CallShape
<1>15. TypeOK'
  BY <1>6, <1>13, <1>14 DEF TypeOK
<1> QED BY <1>1, <1>2, <1>3, <1>4, <1>7, <1>11, <1>14, <1>15 DEF CompleteEffect, e, b, k

-----------------------------------------------------------------------------
(* The invariant holds at first, and through bring-up and restart.         *)

(* The queues the driver and the controller start with. *)
LEMMA FreshTypes == FreshQueue \in QueueType /\ FreshDevQueue \in DevQueueType /\ ZeroController \in ControllerType
<1>1. 0 \in Slots
  BY NvmeAssumption DEF Slots
<1>2. FreshQueue \in QueueType /\ FreshDevQueue \in DevQueueType
  BY <1>1 DEF FreshQueue, FreshDevQueue, QueueType, DevQueueType
<1>3. [q \in Qids |-> FreshQueue] \in [Qids -> QueueType]
  BY <1>2
<1> QED BY <1>2, <1>3 DEF ZeroController, ControllerType

(* Queue memory of zeroes. *)
LEMMA ZeroRam == Zero = [i \in Slots |-> Zero[i]] /\ \A i \in Slots : Zero[i].phase = FALSE
BY DEF Zero

Zeroed(t, s, q) == t = [s EXCEPT ![q] = Zero]

(* Queue memory of which one queue is zeroed. *)
LEMMA ZeroWrite ==
  ASSUME NEW s, NEW q \in Qids, NEW t, QueueRam(s), Zeroed(t, s, q)
  PROVE  QueueRam(t) /\ t[q] = Zero /\ \A r \in Qids \ {q} : t[r] = s[r]
<1>1. t = [r \in Qids |-> t[r]] /\ t[q] = Zero /\ \A r \in Qids \ {q} : t[r] = s[r]
  BY DEF Zeroed, QueueRam
<1>2. \A r \in Qids : t[r] = [i \in Slots |-> t[r][i]]
  BY <1>1, ZeroRam DEF QueueRam
<1> QED BY <1>1, <1>2 DEF QueueRam

(* A machine that is switched on. *)
LEMMA InitInv == ASSUME NvmeInit PROVE NvmeInv
<1>1. PICK c \in Controllers :
        dev = [is |-> c, en |-> FALSE, q |-> [q \in Qids |-> FreshDevQueue], flying |-> {}, boot |-> 0,
               disk |-> [b \in 0 .. NBlocks - 1 |-> b], errors |-> 0]
  BY Zenon DEF NvmeInit
<1>2. [q \in Qids |-> FreshDevQueue] \in [Qids -> DevQueueType]
  BY FreshTypes
<1>3. DevOK
  BY <1>1, <1>2 DEF DevOK
<1>4. RamOK
  BY ZeroRam, Zenon DEF NvmeInit, RamOK, QueueRam
<1>5. CallShape /\ call.pc = "off"
  BY DEF NvmeInit, CallShape
<1>6. TypeOK
  BY <1>3, <1>4, <1>5, FreshTypes DEF TypeOK, NvmeInit
<1>7. OffOK
  BY <1>1 DEF OffOK
<1>8. PhaseOK /\ QueueOK /\ CallOK
  BY <1>5 DEF PhaseOK, QueueOK, CallOK, BringUp, Creating, InCall
<1> QED BY <1>6, <1>7, <1>8 DEF NvmeInv

(* Nothing is asked of a machine that is off or has given up. *)
LEMMA DownInv == ASSUME TypeOK', OffOK', call'.pc \in {"off", "dead"} PROVE NvmeInv'
<1>1. PhaseOK' /\ QueueOK' /\ CallOK'
  BY DEF PhaseOK, QueueOK, CallOK, BringUp, Creating, InCall
<1> QED BY <1>1 DEF NvmeInv

(* Croi_Nvme_Probe: the controller is stopped, or was. *)
LEMMA ProbeInv == ASSUME NvmeInv, NEW bar \in BOOLEAN, NEW rdyFalls \in BOOLEAN, Croi_Nvme_Probe(bar, rdyFalls) PROVE NvmeInv'
<1>1. TypeOK /\ OffOK
  BY DEF NvmeInv
<1>2. RamOK'
  BY <1>1 DEF Croi_Nvme_Probe, TypeOK, RamOK
<1>3. CASE bar /\ dev.is.nvm /\ rdyFalls
  <2>1. nv' = [ZeroController EXCEPT !.regs = TRUE] /\ dev' = ProbeStops(dev) /\ call' = [call EXCEPT !.pc = "setup"]
    BY <1>3 DEF Croi_Nvme_Probe, Goto
  <2>2. CallShape' /\ call'.pc = "setup"
    BY <1>1, <2>1 DEF TypeOK, CallShape
  <2>3. nv' \in ControllerType /\ nv'.ioReady = FALSE
    BY <2>1, FreshTypes, Zenon DEF ControllerType, ZeroController
  <2>4. [q \in Qids |-> FreshDevQueue] \in [Qids -> DevQueueType]
    BY FreshTypes
  <2>5. DevOK' /\ ~dev'.en /\ dev'.q = [q \in Qids |-> FreshDevQueue] /\ dev'.flying = {}
    <3>1. CASE dev.en
      BY <1>1, <2>1, <2>4, <3>1, Zenon DEF ProbeStops, Stopped, TypeOK, DevOK
    <3>2. CASE ~dev.en
      BY <1>1, <2>1, <3>2 DEF ProbeStops, TypeOK, DevOK, OffOK
    <3> QED BY <3>1, <3>2
  <2>6. TypeOK' /\ OffOK'
    BY <1>2, <2>2, <2>3, <2>5 DEF TypeOK, OffOK
  <2>7. PhaseOK' /\ QueueOK' /\ CallOK'
    BY <2>2, <2>3, <2>5 DEF PhaseOK, QueueOK, CallOK, BringUp, Creating, InCall
  <2> QED BY <2>6, <2>7 DEF NvmeInv
<1>4. CASE ~(bar /\ dev.is.nvm /\ rdyFalls)
  <2>1. nv' = [ZeroController EXCEPT !.regs = bar] /\ dev' = dev /\ call' = [call EXCEPT !.pc = "dead"]
    BY <1>4 DEF Croi_Nvme_Probe, Goto
  <2>2. CallShape' /\ call'.pc = "dead"
    BY <1>1, <2>1 DEF TypeOK, CallShape
  <2>3. nv' \in ControllerType
    BY <2>1, FreshTypes DEF ControllerType
  <2>4. TypeOK' /\ OffOK'
    BY <1>1, <1>2, <2>1, <2>2, <2>3 DEF TypeOK, DevOK, OffOK
  <2> QED BY <2>2, <2>4, DownInv
<1> QED BY <1>3, <1>4

(* Croi_Nvme_Setup: the queues of the controller that is enabled are fresh. *)
LEMMA SetupInv == ASSUME NvmeInv, NEW pages \in BOOLEAN, NEW ready \in BOOLEAN, Croi_Nvme_Setup(pages, ready) PROVE NvmeInv'
<1>1. TypeOK /\ OffOK /\ PhaseOK /\ call.pc = "setup"
  BY DEF NvmeInv, Croi_Nvme_Setup
<1>2. dev.en = FALSE /\ dev.q = [q \in Qids |-> FreshDevQueue] /\ dev.flying = {} /\ ~nv.ioReady
  BY <1>1 DEF OffOK, PhaseOK, TypeOK, DevOK
<1>3. nv' \in ControllerType /\ ~nv'.ioReady
  BY <1>1, <1>2, FreshTypes, Zenon DEF Croi_Nvme_Setup, TypeOK, ControllerType, Qids
<1>4. RamOK'
  <2>1. CASE pages
    <3>1. ram' = [ram EXCEPT !.sq = [ram.sq EXCEPT ![0] = Zero], !.cq = [ram.cq EXCEPT ![0] = Zero], !.dma = "zero"]
      BY <2>1 DEF Croi_Nvme_Setup
    <3>2. /\ ram'.sq = [ram.sq EXCEPT ![0] = Zero] /\ ram'.cq = [ram.cq EXCEPT ![0] = Zero] /\ ram'.bounce = ram.bounce
          /\ ram' = [sq |-> ram'.sq, cq |-> ram'.cq, dma |-> ram'.dma, bounce |-> ram'.bounce]
      BY <1>1, <3>1, Zenon DEF TypeOK, RamOK
    <3>3. QueueRam(ram'.sq) /\ QueueRam(ram'.cq) /\ \A q \in Qids, i \in Slots : ram'.cq[q][i].phase \in BOOLEAN
      <4>1. /\ Zeroed(ram'.sq, ram.sq, 0) /\ Zeroed(ram'.cq, ram.cq, 0) /\ 0 \in Qids
            /\ QueueRam(ram.sq) /\ QueueRam(ram.cq)
        BY <1>1, <3>2 DEF TypeOK, RamOK, Zeroed, Qids
      <4>2. QueueRam(ram'.sq) /\ QueueRam(ram'.cq) /\ ram'.cq[0] = Zero /\ \A r \in Qids \ {0} : ram'.cq[r] = ram.cq[r]
        BY <4>1, ZeroWrite
      <4> QED BY <1>1, <4>1, <4>2, ZeroRam, Zenon DEF TypeOK, RamOK
    <3> QED BY <1>1, <3>2, <3>3 DEF TypeOK, RamOK
  <2>2. CASE ~pages
    BY <1>1, <2>2 DEF Croi_Nvme_Setup, TypeOK, RamOK
  <2> QED BY <2>1, <2>2
<1>5. CallShape' /\ call'.pc = IF ready THEN "idctrl" ELSE "dead"
  BY <1>1 DEF Croi_Nvme_Setup, Goto, TypeOK, CallShape
<1>6. CASE pages
  <2> DEFINE d == [FreshDevQueue EXCEPT !.live = ready]
  <2>1. dev' = [dev EXCEPT !.en = TRUE, !.q = [dev.q EXCEPT ![0] = d]]
    BY <1>1, <1>2, <1>6, Zenon DEF Croi_Nvme_Setup, TypeOK, DevOK, Qids
  <2>2. d \in DevQueueType
    BY FreshTypes DEF DevQueueType
  <2> HIDE DEF d
  <2>3. /\ DevOK' /\ dev'.en = TRUE /\ dev'.q[1] = FreshDevQueue /\ dev'.flying = {}
    <3>1. [dev.q EXCEPT ![0] = d] \in [Qids -> DevQueueType] /\ [dev.q EXCEPT ![0] = d][1] = FreshDevQueue
      BY <1>1, <1>2, <2>2 DEF TypeOK, DevOK, Qids
    <3> QED BY <1>1, <1>2, <2>1, <3>1, Zenon DEF TypeOK, DevOK
  <2>4. TypeOK' /\ OffOK'
    BY <1>3, <1>4, <1>5, <2>3 DEF TypeOK, OffOK
  <2>5. PhaseOK'
    BY <1>3, <1>5, <2>3 DEF PhaseOK, BringUp, Creating, InCall, Unused, FreshDevQueue
  <2>6. QueueOK' /\ CallOK'
    BY <1>5 DEF QueueOK, CallOK, Creating, InCall
  <2> QED BY <2>4, <2>5, <2>6 DEF NvmeInv
<1>7. CASE ~pages
  <2>1. dev' = dev /\ ~ready
    BY <1>7 DEF Croi_Nvme_Setup
  <2>2. TypeOK' /\ OffOK' /\ call'.pc = "dead"
    BY <1>1, <1>3, <1>4, <1>5, <2>1 DEF TypeOK, DevOK, OffOK
  <2> QED BY <2>2, DownInv
<1> QED BY <1>6, <1>7

AdminWaits == {"idctrl?", "idns?", "createcq?", "createsq?"}

(* What each administration command waits in. *)
LEMMA WaitsAre ==
  /\ Waits("idctrl") = "idctrl?" /\ Waits("idns") = "idns?" /\ Waits("createcq") = "createcq?"
  /\ Waits("createsq") = "createsq?" /\ Waits("chunk") = "chunk?"
BY DEF Waits

(* Croi_Nvme_AdminCmd: a command in the administration queue. *)
LEMMA AdminCmdInv == ASSUME NvmeInv, NEW op \in AdminCmds, Croi_Nvme_AdminCmd(op) PROVE NvmeInv'
<1>1. TypeOK /\ OffOK /\ PhaseOK /\ QueueOK
  BY DEF NvmeInv
<1>2. call.pc = op /\ Submit(0, Command(op, 0, 0), Waits(op)) /\ 0 \in Qids /\ 1 \in Qids \ {0}
  BY DEF Croi_Nvme_AdminCmd, Qids
<1>3. /\ TypeOK' /\ nv'.ioReady = nv.ioReady /\ nv'.q[1] = nv.q[1] /\ dev'.q[1] = dev.q[1]
      /\ dev'.en = dev.en /\ dev'.flying = dev.flying /\ ram'.cq = ram.cq
      /\ call' = [call EXCEPT !.pc = Waits(op), !.cid = nv.q[0].cid]
  <2>1. SubmitEffect(0, Command(op, 0, 0), Waits(op))
    BY <1>1, <1>2, SubmitStep
  <2> QED BY <1>2, <2>1 DEF SubmitEffect, DevQueueSet
<1>4. call'.pc = Waits(op)
  BY <1>1, <1>3 DEF TypeOK, CallShape
<1>5. dev'.en
  BY <1>1, <1>2, <1>3 DEF PhaseOK, AdminCmds, BringUp, Creating
<1>6. OffOK'
  BY <1>5 DEF OffOK
<1>7. PhaseOK' /\ QueueOK' /\ CallOK'
  <2>1. CASE op \in {"idctrl", "idns"}
    <3>1. call.pc \in BringUp /\ call'.pc \in {"idctrl?", "idns?"}
      BY <1>2, <1>4, <2>1, WaitsAre DEF BringUp
    <3>2. Unused(dev'.q[1]) /\ (\A f \in dev'.flying : f.q = 0) /\ ~nv'.ioReady
      BY <1>1, <1>3, <3>1 DEF PhaseOK
    <3> QED BY <1>5, <3>1, <3>2 DEF PhaseOK, QueueOK, CallOK, BringUp, Creating, InCall
  <2>2. CASE op \in {"createcq", "createsq"}
    <3>1. call.pc \in Creating /\ call'.pc \in {"createcq?", "createsq?"}
      BY <1>2, <1>4, <2>2, WaitsAre DEF Creating
    <3>2. ~nv'.ioReady
      BY <1>1, <1>3, <3>1 DEF PhaseOK
    <3>3. InStep(dev'.q[1], nv'.q[1], ram'.cq[1]) /\ dev'.q[1].sqTail = nv'.q[1].tail
      BY <1>1, <1>3, <3>1 DEF QueueOK
    <3> QED BY <1>5, <3>1, <3>2, <3>3 DEF PhaseOK, QueueOK, CallOK, BringUp, Creating, InCall
  <2> QED BY <2>1, <2>2 DEF AdminCmds
<1> QED BY <1>3, <1>6, <1>7 DEF NvmeInv

(* Where an answered administration command leads. *)
LEMMA AnsweredLeads ==
  /\ Answered("idctrl") \in {"idns", "dead"} /\ Answered("idns") \in {"ioqueues", "dead"}
  /\ Answered("createcq") = "createsq" /\ Answered("createsq") = "idle"
BY DEF Answered

(* AdminAnswer: the driver goes on, or gives up. *)
LEMMA AdminAnswerInv == ASSUME NvmeInv, NEW op \in AdminCmds, AdminAnswer(op) PROVE NvmeInv'
<1>1. TypeOK /\ OffOK /\ PhaseOK /\ QueueOK /\ call.pc = Waits(op) /\ ram' = ram
  BY DEF NvmeInv, AdminAnswer
<1>2. 0 \in Qids /\ 1 \in Qids \ {0}
  BY DEF Qids
<1>3. PICK look \in Looks(0) :
        LET next == IF look.rc = "EOK" THEN Answered(op) ELSE "dead" IN
        /\ nv' = [nv EXCEPT !.q[0] = look.q, !.ns = @ \/ next = "ioqueues", !.ioReady = @ \/ next = "idle"]
        /\ dev' = [dev EXCEPT !.q[0].cqHead = look.q.head]
        /\ call' = [call EXCEPT !.pc = next, !.timeouts = @ + look.late]
  BY Zenon DEF AdminAnswer
<1> DEFINE next == IF look.rc = "EOK" THEN Answered(op) ELSE "dead"
<1>4. LookIs(0, look) /\ look.q \in QueueType
  BY <1>1, <1>2, LookKinds DEF LookIs
<1>5. nv' \in ControllerType /\ nv'.q = [nv.q EXCEPT ![0] = look.q] /\ nv'.ioReady = (nv.ioReady \/ next = "idle")
  <2>1. [nv.q EXCEPT ![0] = look.q] \in [Qids -> QueueType]
    BY <1>1, <1>4, Zenon DEF TypeOK, ControllerType
  <2>2. nv' = [nv EXCEPT !.q = [nv.q EXCEPT ![0] = look.q], !.ns = nv.ns \/ next = "ioqueues", !.ioReady = nv.ioReady \/ next = "idle"]
    BY <1>3
  <2>3. (nv.ns \/ next = "ioqueues") \in BOOLEAN /\ (nv.ioReady \/ next = "idle") \in BOOLEAN
    OBVIOUS
  <2> HIDE DEF next
  <2> QED BY <1>1, <2>1, <2>2, <2>3, Zenon DEF TypeOK, ControllerType
<1>6. LookEffect(0, look)
  BY <1>1, <1>2, <1>3, <1>4, <1>5, LookStep
<1>7. /\ nv'.q[1] = nv.q[1] /\ dev'.q[1] = dev.q[1] /\ DevOK'
      /\ dev'.en = dev.en /\ dev'.flying = dev.flying
  BY <1>2, <1>6 DEF LookEffect, DevQueueSet
<1>8. CallShape' /\ call'.pc = next
  BY <1>1, <1>3, Zenon DEF TypeOK, CallShape
<1>9. TypeOK'
  BY <1>1, <1>5, <1>7, <1>8 DEF TypeOK, RamOK
<1>10. dev'.en
  BY <1>1, <1>7, WaitsAre DEF PhaseOK, AdminCmds, BringUp, Creating
<1>11. OffOK'
  BY <1>10 DEF OffOK
<1>12. CASE next = "dead"
  BY <1>8, <1>9, <1>11, <1>12, DownInv
<1>13. CASE op \in {"idctrl", "idns"} /\ next # "dead"
  <2>1. call.pc \in BringUp /\ call'.pc \in {"idns", "ioqueues"}
    BY <1>1, <1>8, <1>13, WaitsAre, AnsweredLeads DEF BringUp
  <2>2. Unused(dev'.q[1]) /\ (\A f \in dev'.flying : f.q = 0) /\ ~nv'.ioReady
    BY <1>1, <1>5, <1>7, <1>8, <2>1, Zenon DEF PhaseOK
  <2>3. PhaseOK' /\ QueueOK' /\ CallOK'
    BY <1>10, <2>1, <2>2 DEF PhaseOK, QueueOK, CallOK, BringUp, Creating, InCall
  <2> QED BY <1>9, <1>11, <2>3 DEF NvmeInv
<1>14. CASE op \in {"createcq", "createsq"} /\ next # "dead"
  <2>1. call.pc \in Creating /\ call'.pc \in {"createsq", "idle"}
    BY <1>1, <1>8, <1>14, WaitsAre, AnsweredLeads DEF Creating
  <2>2. call'.pc = "createsq" => ~nv'.ioReady
    BY <1>1, <1>5, <1>8, <2>1, Zenon DEF PhaseOK
  <2>3. InStep(dev'.q[1], nv'.q[1], ram'.cq[1]) /\ dev'.q[1].sqTail = nv'.q[1].tail
    BY <1>1, <1>7, <2>1 DEF QueueOK
  <2>4. PhaseOK' /\ QueueOK' /\ CallOK'
    BY <1>10, <2>1, <2>2, <2>3 DEF PhaseOK, QueueOK, CallOK, BringUp, Creating, InCall
  <2> QED BY <1>9, <1>11, <2>4 DEF NvmeInv
<1> QED BY <1>12, <1>13, <1>14 DEF AdminCmds

(* Croi_Nvme_CreateIoQueues: both sides of the I/O queues start at the first     *)
(* slot, with no entry of the expected phase.                                  *)
LEMMA CreateInv == ASSUME NvmeInv, NEW pages \in BOOLEAN, Croi_Nvme_CreateIoQueues(pages) PROVE NvmeInv'
<1>1. TypeOK /\ OffOK /\ PhaseOK /\ call.pc = "ioqueues" /\ dev' = dev
  BY DEF NvmeInv, Croi_Nvme_CreateIoQueues
<1>2. dev.en /\ ~nv.ioReady /\ Unused(dev.q[1])
  BY <1>1 DEF PhaseOK, BringUp
<1>3. nv' \in ControllerType /\ ~nv'.ioReady /\ nv'.q[1] = FreshQueue
  <2>1. [nv.q EXCEPT ![1] = FreshQueue] \in [Qids -> QueueType] /\ [nv.q EXCEPT ![1] = FreshQueue][1] = FreshQueue
    BY <1>1, FreshTypes DEF TypeOK, ControllerType, Qids
  <2>2. nv' = [nv EXCEPT !.q = [nv.q EXCEPT ![1] = FreshQueue]]
    BY DEF Croi_Nvme_CreateIoQueues
  <2> QED BY <1>1, <1>2, <2>1, <2>2 DEF TypeOK, ControllerType
<1>4. CallShape' /\ call'.pc = IF pages THEN "createcq" ELSE "dead"
  BY <1>1 DEF Croi_Nvme_CreateIoQueues, Goto, TypeOK, CallShape
<1>5. CASE pages
  <2>1. ram' = [ram EXCEPT !.sq = [ram.sq EXCEPT ![1] = Zero], !.cq = [ram.cq EXCEPT ![1] = Zero]]
    BY <1>1, <1>5 DEF Croi_Nvme_CreateIoQueues, TypeOK, RamOK
  <2>2. /\ ram'.sq = [ram.sq EXCEPT ![1] = Zero] /\ ram'.cq = [ram.cq EXCEPT ![1] = Zero] /\ ram'.bounce = ram.bounce
        /\ ram' = [sq |-> ram'.sq, cq |-> ram'.cq, dma |-> ram'.dma, bounce |-> ram'.bounce]
    BY <1>1, <2>1, Zenon DEF TypeOK, RamOK
  <2>3. /\ QueueRam(ram'.sq) /\ QueueRam(ram'.cq) /\ ram'.cq[1] = Zero
        /\ \A q \in Qids, i \in Slots : ram'.cq[q][i].phase \in BOOLEAN
    <3>1. /\ Zeroed(ram'.sq, ram.sq, 1) /\ Zeroed(ram'.cq, ram.cq, 1) /\ 1 \in Qids
          /\ QueueRam(ram.sq) /\ QueueRam(ram.cq)
      BY <1>1, <2>2 DEF TypeOK, RamOK, Zeroed, Qids
    <3>2. QueueRam(ram'.sq) /\ QueueRam(ram'.cq) /\ ram'.cq[1] = Zero /\ \A r \in Qids \ {1} : ram'.cq[r] = ram.cq[r]
      BY <3>1, ZeroWrite
    <3> QED BY <1>1, <3>1, <3>2, ZeroRam, Zenon DEF TypeOK, RamOK
  <2>4. RamOK'
    BY <1>1, <2>2, <2>3 DEF TypeOK, RamOK
  <2>5. TypeOK' /\ OffOK' /\ PhaseOK' /\ CallOK'
    BY <1>1, <1>2, <1>3, <1>4, <1>5, <2>4 DEF TypeOK, DevOK, OffOK, PhaseOK, CallOK, BringUp, Creating, InCall
  <2>6. InStep(dev.q[1], FreshQueue, Zero)
    <3>1. \A i \in Slots : Zero[i].phase # dev.q[1].phase /\ ~(i < dev.q[1].cqTail)
      BY <1>2, ZeroRam DEF Unused, Slots
    <3>2. FreshQueue.phase = dev.q[1].phase
      BY <1>2, Zenon DEF Unused, FreshQueue
    <3>3. dev.q[1].cqHead = FreshQueue.head /\ FreshQueue.head <= dev.q[1].cqTail
      BY <1>2 DEF Unused, FreshQueue
    <3> QED BY <3>1, <3>2, <3>3, Zenon DEF InStep
  <2>7. QueueOK'
    BY <1>1, <1>2, <1>3, <2>3, <2>6 DEF QueueOK, Unused, FreshQueue
  <2> QED BY <2>5, <2>7 DEF NvmeInv
<1>6. CASE ~pages
  <2>1. ram' = ram
    BY <1>6 DEF Croi_Nvme_CreateIoQueues
  <2>2. TypeOK' /\ OffOK' /\ call'.pc = "dead"
    BY <1>1, <1>3, <1>4, <1>6, <2>1 DEF TypeOK, DevOK, RamOK, OffOK
  <2> QED BY <2>2, DownInv
<1> QED BY <1>5, <1>6

(* A restart: the driver forgets, the controller does not. *)
LEMMA RebootInv == ASSUME NvmeInv, Reboot PROVE NvmeInv'
<1>1. TypeOK /\ OffOK
  BY DEF NvmeInv
<1>2. CallShape' /\ call'.pc = "off"
  BY <1>1, Zenon DEF Reboot, TypeOK, CallShape
<1>3. DevOK' /\ OffOK'
  BY <1>1 DEF Reboot, TypeOK, DevOK, OffOK
<1>4. TypeOK'
  BY <1>1, <1>2, <1>3, FreshTypes DEF Reboot, TypeOK, RamOK
<1> QED BY <1>2, <1>3, <1>4, DownInv

-----------------------------------------------------------------------------
(* The transfers.                                                          *)

Asked == <<call.op, call.lba, call.n, call.buf, call.off>>

(* Two sides of a queue that agree in what the phases are about. *)
LEMMA InStepSame ==
  ASSUME NEW d, NEW n, NEW e, NEW m, NEW cq, InStep(d, n, cq),
         e.cqHead = m.head, e.cqTail = d.cqTail, e.phase = d.phase, m.head = n.head, m.phase = n.phase
  PROVE  InStep(e, m, cq)
BY Zenon DEF InStep

(* The length of a chunk: what is left, and no more than the bounce buffer. *)
LEMMA ChunkLenIs ==
  ASSUME SoFar
  PROVE  ChunkLen \in Nat /\ ChunkLen <= Chunk /\ call.off + ChunkLen <= call.n /\ (call.off < call.n => ChunkLen > 0)
BY NvmeAssumption DEF SoFar, ChunkLen, Smaller

(* A step that leaves the request alone leaves the chunk alone. *)
LEMMA SameChunk ==
  ASSUME Asked' = Asked
  PROVE  /\ call'.op = call.op /\ call'.lba = call.lba /\ call'.n = call.n /\ call'.buf = call.buf /\ call'.off = call.off
         /\ ChunkLen' = ChunkLen /\ ChunkLba' = ChunkLba
BY DEF Asked, ChunkLen, Smaller, ChunkLba

(* What has been moved, after a step that leaves it alone. *)
LEMMA SameSoFar == ASSUME SoFar, Asked' = Asked, dev'.disk = dev.disk PROVE SoFar'
BY SameChunk DEF SoFar

(* Where the range of a chunk ends, after such a step. *)
LEMMA SameRange == ASSUME InRange, Asked' = Asked PROVE InRange'
BY SameChunk DEF InRange

(* A call from the volume: nothing is moved yet. *)
LEMMA CallStart == ASSUME NvmeInv, NEW t \in Transfers, bd_call(t) PROVE NvmeInv'
<1>1. TypeOK /\ OffOK /\ PhaseOK /\ QueueOK /\ call.pc = "idle" /\ nv' = nv /\ dev' = dev /\ ram' = ram
  BY DEF NvmeInv, bd_call
<1>2. /\ CallShape' /\ call'.pc \in {"chunk", "idle"} /\ call'.op = t.op /\ call'.lba = t.lba /\ call'.n = t.n /\ call'.off = 0
      /\ call'.buf = (IF t.op = "write" THEN t.buf ELSE << >>) /\ call'.calm = ~Abandoned
  BY <1>1, Zenon DEF bd_call, TypeOK, CallShape
<1>3. TypeOK' /\ OffOK' /\ PhaseOK' /\ QueueOK'
  BY <1>1, <1>2 DEF TypeOK, DevOK, RamOK, OffOK, PhaseOK, QueueOK, BringUp, Creating, InCall
<1>4. CallOK'
  <2>1. SUFFICES ASSUME call'.calm PROVE SoFar' /\ Fetched(0)' /\ Still'
    BY <1>2 DEF CallOK, InCall
  <2>2. ~Abandoned
    BY <1>2, <2>1, Zenon
  <2>3. dev.flying = {} /\ Fetched(0) /\ Fetched(1) /\ Consumed(1)
    BY <2>2 DEF Abandoned, Fetched, Consumed, Qids
  <2>4. SoFar'
    <3>1. << >> = [i \in 1 .. 0 |-> << >>[i]]
      OBVIOUS
    <3>2. call'.op = "read" => call'.buf = [i \in 1 .. call'.off |-> call'.buf[i]]
      BY <1>2, <3>1
    <3> QED BY <1>2, <3>2, TransfersAssumption DEF SoFar
  <2> QED BY <1>1, <2>3, <2>4 DEF Still, Fetched, Consumed
<1> QED BY <1>3, <1>4 DEF NvmeInv

(* nvme_io_cmd and Croi_Nvme_Flush: the command of the chunk is submitted. *)
LEMMA ChunkSubmit ==
  ASSUME NvmeInv, call.pc = "chunk", call.calm => InRange, NEW cmd, Submit(1, cmd, "chunk?"),
         cmd = IF call.op = "flush" THEN Command("flush", 0, 0) ELSE Command(call.op, ChunkLba, ChunkLen)
  PROVE  NvmeInv'
<1>1. TypeOK /\ OffOK /\ PhaseOK /\ QueueOK /\ CallOK
  BY DEF NvmeInv
<1>2. 1 \in Qids /\ 0 \in Qids \ {1}
  BY DEF Qids
<1>3. SubmitEffect(1, cmd, "chunk?")
  BY <1>1, <1>2, SubmitStep
<1> DEFINE d == dev.q[1]
           n == nv.q[1]
<1>4. /\ TypeOK' /\ nv'.ioReady = nv.ioReady /\ nv'.q[1].head = n.head /\ nv'.q[1].phase = n.phase
      /\ nv'.q[1].tail = Succ(n.tail) /\ nv'.q[0] = nv.q[0] /\ dev'.q[0] = dev.q[0]
      /\ dev'.q[1] = [d EXCEPT !.sqTail = Succ(n.tail)]
      /\ dev'.en = dev.en /\ dev'.flying = dev.flying /\ dev'.disk = dev.disk
      /\ ram'.cq = ram.cq /\ ram'.bounce = Filled(cmd)
      /\ ram'.sq[1][n.tail] = [op |-> cmd.op, lba |-> cmd.lba, n |-> cmd.n, cid |-> n.cid]
      /\ call' = [call EXCEPT !.pc = "chunk?", !.cid = n.cid]
  BY <1>2, <1>3 DEF SubmitEffect, DevQueueSet
<1>5. d \in DevQueueType /\ n \in QueueType /\ n.tail \in Slots
  BY <1>1, <1>2 DEF TypeOK, DevOK, ControllerType, QueueType
<1>6. /\ dev'.q[1].sqTail = Succ(n.tail) /\ dev'.q[1].sqHead = d.sqHead /\ dev'.q[1].cqHead = d.cqHead
      /\ dev'.q[1].cqTail = d.cqTail /\ dev'.q[1].phase = d.phase
  BY <1>4, <1>5 DEF DevQueueType
<1>7. Asked' = Asked /\ call'.pc = "chunk?" /\ call'.cid = n.cid /\ call'.calm = call.calm
  BY <1>1, <1>4 DEF TypeOK, CallShape, Asked
<1>8. OffOK' /\ PhaseOK'
  BY <1>1, <1>4, <1>7 DEF OffOK, PhaseOK, BringUp, Creating, InCall
<1>9. InStep(d, n, ram.cq[1]) /\ d.sqTail = n.tail
  BY <1>1 DEF QueueOK, InCall
<1>10. QueueOK'
  <2>1. d.cqHead = n.head
    BY <1>9 DEF InStep
  <2>2. InStep(dev'.q[1], nv'.q[1], ram.cq[1])
    <3>1. /\ dev'.q[1].cqHead = nv'.q[1].head /\ dev'.q[1].cqTail = d.cqTail /\ dev'.q[1].phase = d.phase
          /\ nv'.q[1].head = n.head /\ nv'.q[1].phase = n.phase
      BY <1>4, <1>6, <2>1
    <3> QED BY <1>9, <3>1, InStepSame
  <2> QED BY <1>4, <1>6, <2>2 DEF QueueOK
<1>11. CallOK'
  <2>1. SUFFICES ASSUME call.calm PROVE SoFar' /\ Fetched(0)' /\ InRange' /\ InSubmission'
    BY <1>7 DEF CallOK
  <2>2. SoFar /\ Fetched(0) /\ Still /\ InRange
    BY <1>1, <2>1 DEF CallOK, InCall
  <2>3. SoFar' /\ InRange' /\ Fetched(0)'
    BY <1>4, <1>7, <2>2, SameSoFar, SameRange DEF Fetched
  <2>4. Handed'
    <3>1. SUFFICES ASSUME call.op = "write", NEW i \in 1 .. ChunkLen PROVE ram'.bounce[i] = call.buf[call.off + i]
      BY <1>7, SameChunk DEF Handed
    <3>2. cmd.op = "write" /\ cmd.n = ChunkLen
      BY <3>1 DEF Command
    <3>3. i \in 1 .. Chunk /\ i <= cmd.n
      BY <2>2, <3>1, <3>2, ChunkLenIs, NvmeAssumption
    <3> QED BY <1>4, <3>2, <3>3 DEF Filled
  <2>5. dev'.flying = {} /\ Consumed(1)'
    BY <1>4, <1>6, <2>2 DEF Still, Consumed
  <2>6. d.sqHead = n.tail /\ dev'.q[1].sqTail = (dev'.q[1].sqHead + 1) % Entries
    BY <1>5, <1>6, <1>9, <2>2, SuccSlot DEF Still, Fetched
  <2>7. ram'.sq[1][dev'.q[1].sqHead] = Issued'
    BY <1>4, <1>6, <1>7, <2>6, SameChunk DEF Issued, Command
  <2> QED BY <2>3, <2>4, <2>5, <2>6, <2>7 DEF InSubmission
<1> QED BY <1>4, <1>8, <1>10, <1>11 DEF NvmeInv

(* A transfer that returns leaves the queues alone. *)
LEMMA ReturnInv ==
  ASSUME NvmeInv, call.pc = "chunk", NEW rc, Return(rc), UNCHANGED <<nv, dev, ram>>
  PROVE  NvmeInv' /\ call'.rc = rc
<1>1. CallShape' /\ call'.pc = "idle" /\ call'.rc = rc
  BY Zenon DEF NvmeInv, TypeOK, CallShape, Return
<1>2. TypeOK' /\ OffOK' /\ PhaseOK' /\ QueueOK' /\ CallOK'
  BY <1>1 DEF NvmeInv, TypeOK, DevOK, RamOK, OffOK, PhaseOK, QueueOK, CallOK, BringUp, Creating, InCall
<1> QED BY <1>1, <1>2 DEF NvmeInv

(* nvme_io_cmd: the range is refused, or the command is submitted. *)
LEMMA IoCmdInv == ASSUME NvmeInv, nvme_io_cmd PROVE NvmeInv' /\ (call'.pc = "idle" => call'.rc = "ERANGE")
<1>1. CASE ChunkLba + ChunkLen > NBlocks
  BY <1>1, ReturnInv DEF nvme_io_cmd
<1>2. CASE ~(ChunkLba + ChunkLen > NBlocks)
  <2>1. /\ call.pc = "chunk" /\ call.op # "flush" /\ Submit(1, Command(call.op, ChunkLba, ChunkLen), "chunk?")
    BY <1>2, WaitsAre DEF nvme_io_cmd
  <2>2. ASSUME call.calm PROVE InRange
    <3>1. SoFar
      BY <2>1, <2>2 DEF NvmeInv, CallOK, InCall
    <3> QED BY <1>2, <3>1, ChunkLenIs, NvmeAssumption DEF InRange, ChunkLba, SoFar
  <2>3. NvmeInv'
    BY <2>1, <2>2, ChunkSubmit
  <2>4. call'.pc = "chunk?"
    BY <2>1 DEF Submit, NvmeInv, TypeOK, CallShape
  <2> QED BY <2>3, <2>4
<1> QED BY <1>1, <1>2

(* Croi_Nvme_Flush: the command is submitted. *)
LEMMA FlushInv == ASSUME NvmeInv, Croi_Nvme_Flush PROVE NvmeInv' /\ call'.pc = "chunk?"
<1>1. call.pc = "chunk" /\ call.op = "flush" /\ Submit(1, Command("flush", 0, 0), "chunk?")
  BY WaitsAre DEF Croi_Nvme_Flush
<1>2. InRange
  BY <1>1 DEF InRange
<1>3. call'.pc = "chunk?"
  BY <1>1 DEF Submit, NvmeInv, TypeOK, CallShape
<1> QED BY <1>1, <1>2, <1>3, ChunkSubmit

(* ChunkAnswer: a verdict of EOK is the verdict on the command of this chunk,    *)
(* and so is one of EIO.                                                       *)
LEMMA ChunkAnswerInv ==
  ASSUME NvmeInv, ChunkAnswer
  PROVE  NvmeInv' /\ (call'.pc = "idle" => call'.rc # "EOK" /\ (call'.rc = "EIO" => call.cause \/ ~call.calm))
<1>1. TypeOK /\ OffOK /\ PhaseOK /\ QueueOK /\ CallOK /\ call.pc = "chunk?" /\ ram' = ram
  BY WaitsAre DEF NvmeInv, ChunkAnswer
<1>2. 1 \in Qids /\ 0 \in Qids \ {1}
  BY DEF Qids
<1>3. PICK look \in Looks(1) :
        /\ Looked(1, look)
        /\ call' = [call EXCEPT !.timeouts = @ + look.late, !.pc = IF look.rc = "EOK" THEN "copy" ELSE "idle",
                                !.rc = IF look.rc = "EOK" THEN @ ELSE look.rc]
  BY Zenon DEF ChunkAnswer
<1>4. LookIs(1, look) /\ look.q \in QueueType
  BY <1>1, <1>2, LookKinds DEF LookIs
<1>5. nv' \in ControllerType /\ nv'.q = [nv.q EXCEPT ![1] = look.q] /\ nv'.ioReady = nv.ioReady
  <2>1. [nv.q EXCEPT ![1] = look.q] \in [Qids -> QueueType]
    BY <1>1, <1>4, Zenon DEF TypeOK, ControllerType
  <2>2. nv' = [nv EXCEPT !.q = [nv.q EXCEPT ![1] = look.q]]
    BY <1>3 DEF Looked
  <2> QED BY <1>1, <2>1, <2>2 DEF TypeOK, ControllerType
<1>6. LookEffect(1, look)
  BY <1>1, <1>2, <1>3, <1>4, <1>5, LookStep DEF Looked
<1> DEFINE d == dev.q[1]
           n == nv.q[1]
<1>7. d \in DevQueueType /\ n \in QueueType /\ n.head \in Slots /\ \A i \in Slots : ram.cq[1][i].phase \in BOOLEAN
  BY <1>1, <1>2 DEF TypeOK, DevOK, RamOK, ControllerType, QueueType
<1>8. /\ nv'.q[1] = look.q /\ nv'.q[0] = nv.q[0] /\ dev'.q[0] = dev.q[0] /\ DevOK'
      /\ dev'.q[1] = [d EXCEPT !.cqHead = look.q.head]
      /\ dev'.en = dev.en /\ dev'.flying = dev.flying /\ dev'.disk = dev.disk
  BY <1>2, <1>6 DEF LookEffect, DevQueueSet
<1>9. /\ dev'.q[1] \in DevQueueType /\ dev'.q[1].cqHead = look.q.head /\ dev'.q[1].sqTail = d.sqTail
      /\ dev'.q[1].sqHead = d.sqHead /\ dev'.q[1].cqTail = d.cqTail /\ dev'.q[1].phase = d.phase
  BY <1>2, <1>7, <1>8 DEF DevQueueType, DevOK
<1>10. /\ CallShape' /\ Asked' = Asked /\ call'.calm = call.calm
       /\ call'.pc = (IF look.rc = "EOK" THEN "copy" ELSE "idle") /\ (look.rc # "EOK" => call'.rc = look.rc)
  BY <1>1, <1>3, Zenon DEF TypeOK, CallShape, Asked
<1>11. TypeOK' /\ OffOK' /\ PhaseOK'
  BY <1>1, <1>5, <1>8, <1>10 DEF TypeOK, RamOK, OffOK, PhaseOK, BringUp, Creating, InCall
<1>12. InStep(d, n, ram.cq[1]) /\ d.sqTail = n.tail
  BY <1>1 DEF QueueOK, InCall
<1>13. New(1) <=> n.head # d.cqTail
  BY <1>7, <1>12, NewIsPosted DEF New
<1>14. QueueOK'
  <2>1. InStep(dev'.q[1], look.q, ram.cq[1])
    <3>1. CASE New(1)
      <4>1. look.q.head = Succ(n.head) /\ look.q.phase = NextPhase(look.q.head, n.phase)
        BY <1>4, <3>1 DEF LookIs
      <4> QED BY <1>4, <1>7, <1>9, <1>12, <1>13, <3>1, <4>1, ConsumeInStep
    <3>2. CASE ~New(1)
      <4>1. look.q = n
        BY <1>4, <3>2 DEF LookIs
      <4> QED BY <1>9, <1>12, <4>1, InStepSame
    <3> QED BY <3>1, <3>2
  <2> QED BY <1>1, <1>4, <1>8, <1>9, <1>12, <2>1 DEF QueueOK, LookIs
<1>15. ASSUME call.calm, New(1)
       PROVE  InCompletion /\ SoFar /\ Fetched(0) /\ InRange
  <2>1. SoFar /\ Fetched(0) /\ InRange /\ (InSubmission \/ InFlight \/ InCompletion)
    BY <1>1, <1>15 DEF CallOK, InCall
  <2>2. ~Consumed(1)
    BY <1>13, <1>15 DEF Consumed
  <2> QED BY <2>1, <2>2 DEF InSubmission, InFlight
<1>16. look.rc # "EOK" => (look.rc = "EIO" => call.cause \/ ~call.calm)
  <2>1. SUFFICES ASSUME look.rc = "EIO", call.calm PROVE call.cause
    OBVIOUS
  <2>2. New(1) /\ Verdict(1, call.cid) = "EIO"
    BY <1>4, <2>1 DEF LookIs
  <2> QED BY <1>15, <2>1, <2>2 DEF InCompletion, Verdict
<1>17. CallOK'
  <2>1. SUFFICES ASSUME call.calm, look.rc = "EOK" PROVE SoFar' /\ Fetched(0)' /\ InRange' /\ Still' /\ Moved'
    BY <1>10 DEF CallOK, InCall
  <2>2. New(1) /\ Verdict(1, call.cid) = "EOK" /\ look.q.head = Succ(n.head)
    BY <1>4, <2>1 DEF LookIs
  <2>3. InCompletion /\ SoFar /\ Fetched(0) /\ InRange
    BY <1>15, <2>1, <2>2
  <2>4. SoFar' /\ InRange' /\ Fetched(0)'
    BY <1>8, <1>10, <2>3, SameSoFar, SameRange DEF Fetched
  <2>5. Still'
    BY <1>7, <1>8, <1>9, <2>2, <2>3, SuccSlot DEF InCompletion, Still, Fetched, Consumed
  <2>6. Moved
    BY <2>2, <2>3 DEF InCompletion, Verdict
  <2>7. Moved'
    BY <1>1, <1>8, <1>10, <2>6, SameChunk DEF Moved
  <2> QED BY <2>4, <2>5, <2>7
<1> QED BY <1>10, <1>11, <1>14, <1>16, <1>17 DEF NvmeInv

IsArray(s, m) == s = [i \in 1 .. m |-> s[i]]
Joined(s, buf, b, off, k) ==
  IsArray(s, off + k) /\ \A i \in 1 .. off + k : s[i] = IF i <= off THEN buf[i] ELSE b[i - off]

(* nvme_chunked: the bytes of a read are appended in order. *)
LEMMA Appended ==
  ASSUME NEW off \in Nat, NEW k \in Nat, NEW buf, NEW b, NEW m \in Nat, k <= m,
         IsArray(buf, off), IsArray(b, m)
  PROVE  Joined(buf \o SubSeq(b, 1, k), buf, b, off, k)
<1> DEFINE S == {buf[i] : i \in 1 .. off} \cup {b[i] : i \in 1 .. m}
<1>1. buf \in Seq(S) /\ Len(buf) = off
  <2>1. buf \in [1 .. off -> S]
    BY DEF IsArray
  <2> QED BY <2>1
<1>2. b \in Seq(S) /\ Len(b) = m
  <2>1. b \in [1 .. m -> S]
    BY DEF IsArray
  <2> QED BY <2>1
<1> HIDE DEF S
<1>3. SubSeq(b, 1, k) \in Seq(S) /\ Len(SubSeq(b, 1, k)) = k /\ \A i \in 1 .. k : SubSeq(b, 1, k)[i] = b[i]
  BY <1>2
<1> DEFINE c == SubSeq(b, 1, k)
<1>10. c \in Seq(S) /\ Len(c) = k /\ \A i \in 1 .. k : c[i] = b[i]
  BY <1>3
<1> HIDE DEF c
<1>4. buf \o c \in Seq(S) /\ Len(buf \o c) = off + k
  BY <1>1, <1>10
<1>5. \A i \in 1 .. off + k : (buf \o c)[i] = IF i <= off THEN buf[i] ELSE c[i - off]
  BY <1>1, <1>10
<1>6. \A i \in 1 .. off + k : ~(i <= off) => i - off \in 1 .. k
  OBVIOUS
<1>7. \A i \in 1 .. off + k : (buf \o c)[i] = IF i <= off THEN buf[i] ELSE b[i - off]
  BY <1>5, <1>6, <1>10, Zenon
<1>8. IsArray(buf \o c, off + k)
  BY <1>4 DEF IsArray
<1> QED BY <1>7, <1>8, Zenon DEF Joined, c

(* nvme_chunked: the data of the chunk joins that of the chunks before it. *)
LEMMA ChunkedMoves == ASSUME NvmeInv, nvme_chunked, call.calm PROVE SoFar'
<1>1. TypeOK /\ SoFar /\ Moved /\ InRange /\ dev' = dev
  BY DEF NvmeInv, CallOK, InCall, nvme_chunked
<1>2. /\ call'.off = call.off + ChunkLen /\ call'.op = call.op /\ call'.lba = call.lba /\ call'.n = call.n
      /\ call'.buf = IF call.op = "read" THEN call.buf \o SubSeq(ram.bounce, 1, ChunkLen) ELSE call.buf
  BY <1>1 DEF nvme_chunked, TypeOK, CallShape
<1>3. /\ ChunkLen \in Nat /\ ChunkLen <= Chunk /\ Chunk \in Nat /\ call.off \in Nat /\ call.n \in Nat /\ call.lba \in Nat
      /\ call'.off \in 0 .. call.n
  BY <1>1, <1>2, ChunkLenIs, NvmeAssumption DEF SoFar
<1> DEFINE off == call.off
           k == ChunkLen
<1>4. CASE call.op = "read"
  <2>1. /\ IsArray(call.buf, off) /\ IsArray(ram.bounce, Chunk)
        /\ \A i \in 1 .. off : call.buf[i] = dev.disk[call.lba + i - 1]
        /\ \A i \in 1 .. k : dev.disk[call.lba + off + i - 1] = ram.bounce[i]
    BY <1>1, <1>4 DEF SoFar, Moved, TypeOK, RamOK, IsArray
  <2>2. /\ IsArray(call'.buf, off + k)
        /\ \A i \in 1 .. off + k : call'.buf[i] = IF i <= off THEN call.buf[i] ELSE ram.bounce[i - off]
    <3>1. off \in Nat /\ k \in Nat /\ Chunk \in Nat /\ k <= Chunk /\ call'.buf = call.buf \o SubSeq(ram.bounce, 1, k)
      BY <1>2, <1>3, <1>4
    <3> HIDE DEF off, k
    <3>2. Joined(call.buf \o SubSeq(ram.bounce, 1, k), call.buf, ram.bounce, off, k)
      BY <2>1, <3>1, Appended, Zenon
    <3> QED BY <3>1, <3>2, Zenon DEF Joined
  <2>3. ASSUME NEW i \in 1 .. off + k PROVE call'.buf[i] = dev.disk[call.lba + i - 1]
    <3>1. CASE i <= off
      BY <1>3, <2>1, <2>2, <3>1
    <3>2. CASE ~(i <= off)
      <4>1. i - off \in 1 .. k /\ call.lba + off + (i - off) - 1 = call.lba + i - 1
        BY <1>3, <3>2
      <4>2. dev.disk[call.lba + off + (i - off) - 1] = ram.bounce[i - off]
        BY <2>1, <4>1
      <4> QED BY <2>2, <3>2, <4>1, <4>2
    <3> QED BY <3>1, <3>2
  <2>4. call'.buf = [i \in 1 .. off + k |-> call'.buf[i]]
    BY <2>2 DEF IsArray
  <2> QED BY <1>1, <1>2, <1>3, <1>4, <2>3, <2>4, Zenon DEF SoFar
<1>5. CASE call.op = "write"
  <2>1. ASSUME NEW i \in 1 .. off + k PROVE call.buf[i] = dev.disk[call.lba + i - 1]
    <3>1. CASE i <= off
      BY <1>1, <1>3, <1>5, <3>1 DEF SoFar
    <3>2. CASE ~(i <= off)
      <4>1. i - off \in 1 .. k /\ call.lba + off + (i - off) - 1 = call.lba + i - 1 /\ off + (i - off) = i
        BY <1>3, <3>2
      <4>2. dev.disk[call.lba + off + (i - off) - 1] = call.buf[off + (i - off)]
        BY <1>1, <1>5, <4>1 DEF Moved
      <4> QED BY <4>1, <4>2
    <3> QED BY <3>1, <3>2
  <2> QED BY <1>1, <1>2, <1>3, <1>5, <2>1 DEF SoFar
<1>6. CASE call.op = "flush"
  BY <1>1, <1>2, <1>3, <1>6 DEF SoFar
<1> QED BY <1>1, <1>4, <1>5, <1>6 DEF SoFar

(* nvme_chunked: the next chunk, or the end of the transfer. *)
LEMMA ChunkedInv == ASSUME NvmeInv, nvme_chunked PROVE NvmeInv'
<1>1. TypeOK /\ OffOK /\ PhaseOK /\ QueueOK /\ CallOK /\ call.pc = "copy" /\ nv' = nv /\ dev' = dev /\ ram' = ram
  BY DEF NvmeInv, nvme_chunked
<1>2. CallShape' /\ call'.pc \in {"idle", "chunk"} /\ call'.calm = call.calm
  BY <1>1, Zenon DEF nvme_chunked, TypeOK, CallShape
<1>3. TypeOK' /\ OffOK' /\ PhaseOK' /\ QueueOK'
  BY <1>1, <1>2 DEF TypeOK, DevOK, RamOK, OffOK, PhaseOK, QueueOK, BringUp, Creating, InCall
<1>4. CallOK'
  <2>1. SUFFICES ASSUME call.calm PROVE SoFar' /\ Fetched(0)' /\ Still'
    BY <1>2 DEF CallOK, InCall
  <2>2. Fetched(0) /\ Still
    BY <1>1, <2>1 DEF CallOK, InCall
  <2> QED BY <1>1, <2>1, <2>2, ChunkedMoves DEF Still, Fetched, Consumed
<1> QED BY <1>3, <1>4 DEF NvmeInv

-----------------------------------------------------------------------------
(* The controller.                                                         *)

(* DevFetch: only a command that was submitted is fetched. *)
LEMMA FetchInv == ASSUME NvmeInv, NEW q \in Qids, DevFetch(q) PROVE NvmeInv'
<1>1. TypeOK /\ OffOK /\ PhaseOK /\ QueueOK /\ CallOK
  BY DEF NvmeInv
<1>2. FetchEffect(q)
  BY <1>1, FetchStep
<1>3. /\ TypeOK' /\ ~Fetched(q) /\ dev.q[q].live /\ dev'.en = dev.en /\ dev'.disk = dev.disk
      /\ nv' = nv /\ ram' = ram /\ call' = call /\ Asked' = Asked
      /\ \A r \in Qids \ {q} : dev'.q[r] = dev.q[r]
      /\ dev'.q[q] = [dev.q[q] EXCEPT !.sqHead = Succ(dev.q[q].sqHead)]
  BY <1>2 DEF FetchEffect, Fetched, Asked
<1>4. PICK f : f.q = q /\ f.cmd = ram.sq[q][dev.q[q].sqHead] /\ dev'.flying = dev.flying \cup {f}
  BY <1>2 DEF FetchEffect
<1>5. dev.q[q] \in DevQueueType /\ dev.q[q].sqHead \in Slots
  BY <1>1 DEF TypeOK, DevOK, DevQueueType
<1>6. /\ dev'.q[q].sqHead = Succ(dev.q[q].sqHead) /\ dev'.q[q].sqTail = dev.q[q].sqTail
      /\ dev'.q[q].cqHead = dev.q[q].cqHead /\ dev'.q[q].cqTail = dev.q[q].cqTail /\ dev'.q[q].phase = dev.q[q].phase
  BY <1>3, <1>5 DEF DevQueueType
<1>7. OffOK'
  <2>1. dev.en
    BY <1>1, <1>3 DEF OffOK, FreshDevQueue
  <2> QED BY <1>3, <2>1 DEF OffOK
<1>8. PhaseOK'
  <2>1. ASSUME call.pc \in BringUp PROVE Unused(dev'.q[1]) /\ \A g \in dev'.flying : g.q = 0
    <3>1. Unused(dev.q[1]) /\ \A g \in dev.flying : g.q = 0
      BY <1>1, <2>1 DEF PhaseOK
    <3>2. q = 0
      BY <1>3, <3>1 DEF Unused, Fetched, Qids
    <3> QED BY <1>3, <1>4, <3>1, <3>2 DEF Qids
  <2> QED BY <1>1, <1>3, <2>1 DEF PhaseOK
<1>9. /\ dev'.q[1].sqTail = dev.q[1].sqTail /\ dev'.q[1].cqHead = dev.q[1].cqHead
      /\ dev'.q[1].cqTail = dev.q[1].cqTail /\ dev'.q[1].phase = dev.q[1].phase
  BY <1>3, <1>6, Zenon DEF Qids
<1>10. QueueOK'
  <2>1. SUFFICES ASSUME call.pc \in Creating \cup InCall \cup {"idle"}
                 PROVE  InStep(dev'.q[1], nv.q[1], ram.cq[1]) /\ dev'.q[1].sqTail = nv.q[1].tail
    BY <1>3 DEF QueueOK
  <2>2. InStep(dev.q[1], nv.q[1], ram.cq[1]) /\ dev.q[1].sqTail = nv.q[1].tail
    BY <1>1, <2>1 DEF QueueOK
  <2>3. dev'.q[1].cqHead = nv.q[1].head
    BY <1>9, <2>2 DEF InStep
  <2> QED BY <1>9, <2>2, <2>3, InStepSame
<1>11. CallOK'
  <2>1. SUFFICES ASSUME call.pc \in InCall, call.calm PROVE CallOK'
    BY <1>3 DEF CallOK
  <2>2. SoFar /\ Fetched(0)
    BY <1>1, <2>1 DEF CallOK
  <2>3. q = 1 /\ 0 \in Qids \ {q}
    BY <1>3, <2>2 DEF Qids
  <2>4. call.pc = "chunk?" /\ InRange /\ InSubmission
    BY <1>1, <1>3, <2>1, <2>3 DEF CallOK, InCall, Still, InFlight, InCompletion
  <2>5. SoFar' /\ InRange' /\ Fetched(0)'
    BY <1>3, <2>2, <2>3, <2>4, SameSoFar, SameRange DEF Fetched
  <2>6. Fetched(1)'
    BY <1>5, <1>6, <2>3, <2>4, SuccSlot DEF InSubmission, Fetched
  <2>7. Consumed(1)' /\ Handed'
    BY <1>3, <1>9, <2>4, SameChunk DEF InSubmission, Consumed, Handed
  <2>8. Issued' = Issued
    BY <1>3, SameChunk DEF Issued
  <2>9. dev'.flying = {f} /\ f.q = 1 /\ f.cmd = Issued'
    BY <1>4, <2>3, <2>4, <2>8 DEF InSubmission
  <2>10. InFlight'
    BY <2>6, <2>7, <2>9 DEF InFlight
  <2> QED BY <1>3, <2>4, <2>5, <2>10 DEF CallOK
<1> QED BY <1>3, <1>7, <1>8, <1>10, <1>11 DEF NvmeInv

(* DevComplete: the data of this chunk's command arrives, and none of that of    *)
(* the chunks before it is lost.                                               *)
LEMMA CompleteMoves ==
  ASSUME TypeOK, SoFar, InRange, Handed, NEW f, f.cmd = Issued, Asked' = Asked,
         dev'.disk = Disk(f.cmd), ram'.bounce = Bounce(f.cmd)
  PROVE  SoFar' /\ Moved'
<1>1. /\ ChunkLen \in Nat /\ ChunkLen <= Chunk /\ Chunk \in Nat /\ NBlocks \in Nat
      /\ call.off \in Nat /\ call.lba \in Nat
  BY ChunkLenIs, NvmeAssumption DEF SoFar
<1>2. DOMAIN dev.disk = 0 .. NBlocks - 1
  BY DEF TypeOK, DevOK
<1>3. CASE call.op = "write"
  <2>1. f.cmd.op = "write" /\ f.cmd.lba = call.lba + call.off /\ f.cmd.n = ChunkLen
    BY <1>3 DEF Issued, ChunkLba
  <2>2. call.lba + call.off + ChunkLen <= NBlocks
    BY <1>3 DEF InRange
  <2>3. dev'.disk = [b \in 0 .. NBlocks - 1 |->
                       IF b \in call.lba + call.off .. call.lba + call.off + ChunkLen - 1
                       THEN ram.bounce[b - (call.lba + call.off) + 1] ELSE dev.disk[b]]
    BY <1>2, <2>1 DEF Disk
  <2>4. ASSUME NEW i \in 1 .. ChunkLen PROVE dev'.disk[call.lba + call.off + i - 1] = call.buf[call.off + i]
    <3> DEFINE b == call.lba + call.off + i - 1
    <3>1. /\ b \in 0 .. NBlocks - 1 /\ b \in call.lba + call.off .. call.lba + call.off + ChunkLen - 1
          /\ b - (call.lba + call.off) + 1 = i
      BY <1>1, <2>2
    <3> HIDE DEF b
    <3>2. dev'.disk[b] = ram.bounce[i]
      BY <2>3, <3>1
    <3> QED BY <1>3, <3>2 DEF Handed, b
  <2>5. ASSUME NEW i \in 1 .. call.off PROVE dev'.disk[call.lba + i - 1] = dev.disk[call.lba + i - 1]
    <3> DEFINE b == call.lba + i - 1
    <3>1. b \in 0 .. NBlocks - 1 /\ b \notin call.lba + call.off .. call.lba + call.off + ChunkLen - 1
      BY <1>1, <2>2
    <3> HIDE DEF b
    <3>2. dev'.disk[b] = dev.disk[b]
      BY <2>3, <3>1
    <3> QED BY <3>2 DEF b
  <2> QED BY SMTT(20), <1>3, <2>4, <2>5, SameChunk DEF SoFar, Moved
<1>4. CASE call.op = "read"
  <2>1. f.cmd.op = "read" /\ f.cmd.lba = call.lba + call.off /\ f.cmd.n = ChunkLen
    BY <1>4 DEF Issued, ChunkLba
  <2>2. dev'.disk = dev.disk
    BY <2>1 DEF Disk
  <2>3. ASSUME NEW i \in 1 .. ChunkLen PROVE ram'.bounce[i] = dev.disk[call.lba + call.off + i - 1]
    BY <1>1, <2>1 DEF Bounce
  <2> QED BY <1>4, <2>2, <2>3, SameChunk, SameSoFar DEF Moved
<1>5. CASE call.op = "flush"
  <2>1. f.cmd.op = "flush"
    BY <1>5 DEF Issued
  <2>2. dev'.disk = dev.disk
    BY <2>1 DEF Disk
  <2> QED BY <1>5, <2>2, SameChunk, SameSoFar DEF Moved
<1> QED BY <1>3, <1>4, <1>5, Zenon DEF SoFar

(* DevComplete: a completion is posted for a command that was fetched. *)
LEMMA CompleteInv == ASSUME NvmeInv, NEW f \in dev.flying, NEW ok \in BOOLEAN, DevComplete(f, ok) PROVE NvmeInv'
<1>1. TypeOK /\ OffOK /\ PhaseOK /\ QueueOK /\ CallOK
  BY DEF NvmeInv
<1>2. CompleteEffect(f, ok)
  BY <1>1, CompleteStep
<1>3. /\ TypeOK' /\ PostEffect(f) /\ f.q \in Qids /\ Succ(dev.q[f.q].cqTail) # dev.q[f.q].cqHead
      /\ dev'.en = dev.en /\ dev'.flying = dev.flying \ {f} /\ nv' = nv
      /\ InSlot(ram'.cq, ram.cq, f.q, dev.q[f.q].cqTail, Posted(f, ok))
      /\ dev'.disk = (IF ok THEN Disk(f.cmd) ELSE dev.disk) /\ ram'.bounce = (IF ok THEN Bounce(f.cmd) ELSE ram.bounce)
      /\ call' = [call EXCEPT !.cause = @ \/ ~ok]
  BY <1>2 DEF CompleteEffect
<1>4. /\ Asked' = Asked /\ call'.pc = call.pc /\ call'.calm = call.calm /\ call'.cid = call.cid
      /\ call'.cause = (call.cause \/ ~ok)
  BY <1>1, <1>3 DEF TypeOK, CallShape, Asked
<1>5. dev.en
  BY <1>1 DEF OffOK
<1>6. OffOK'
  BY <1>3, <1>5 DEF OffOK
<1>7. PhaseOK'
  <2>1. ASSUME call.pc \in BringUp PROVE Unused(dev'.q[1]) /\ \A g \in dev'.flying : g.q = 0
    <3>1. Unused(dev.q[1]) /\ \A g \in dev.flying : g.q = 0
      BY <1>1, <2>1 DEF PhaseOK
    <3>2. 1 \in Qids /\ 1 \in Qids \ {f.q}
      BY <3>1 DEF Qids
    <3> QED BY <1>3, <3>1, <3>2 DEF Unused, PostEffect
  <2> QED BY <1>1, <1>3, <1>4, <2>1 DEF PhaseOK
<1>8. dev.q[1] \in DevQueueType /\ dev'.q[1] \in DevQueueType /\ nv.q[1] \in QueueType
  BY <1>1, <1>3 DEF TypeOK, DevOK, ControllerType, PostEffect, Qids
<1>9. QueueOK'
  <2>1. SUFFICES ASSUME call.pc \in Creating \cup InCall \cup {"idle"}
                 PROVE  InStep(dev'.q[1], nv.q[1], ram'.cq[1]) /\ dev'.q[1].sqTail = nv.q[1].tail
    BY <1>3, <1>4 DEF QueueOK
  <2>2. InStep(dev.q[1], nv.q[1], ram.cq[1]) /\ dev.q[1].sqTail = nv.q[1].tail
    BY <1>1, <2>1 DEF QueueOK
  <2>3. dev'.q[1].sqTail = dev.q[1].sqTail /\ dev'.q[1].cqHead = dev.q[1].cqHead
    BY <1>3 DEF PostEffect, Qids
  <2>4. CASE f.q = 1
    <3>1. \A i \in Slots : ram.cq[1][i].phase \in BOOLEAN
      BY <1>1 DEF TypeOK, RamOK, Qids
    <3>2. /\ dev'.q[1].cqTail = Succ(dev.q[1].cqTail) /\ Succ(dev.q[1].cqTail) # dev.q[1].cqHead
          /\ dev'.q[1].phase = IF dev.q[1].cqTail + 1 = Entries THEN ~dev.q[1].phase ELSE dev.q[1].phase
      BY <1>3, <2>4 DEF PostEffect
    <3>3. Posted(f, ok).phase = dev.q[1].phase
      BY <2>4 DEF Posted
    <3>4. \A i \in Slots : ram'.cq[1][i].phase = IF i = dev.q[1].cqTail THEN dev.q[1].phase ELSE ram.cq[1][i].phase
      BY <1>3, <2>4, <3>3 DEF InSlot
    <3>5. InStep(dev'.q[1], nv.q[1], ram'.cq[1])
      BY SMTT(20), <1>8, <2>2, <2>3, <3>1, <3>2, <3>4, PostInStep
    <3> QED BY <2>2, <2>3, <3>5
  <2>5. CASE f.q = 0
    <3>1. 1 \in Qids \ {f.q}
      BY <2>5 DEF Qids
    <3>2. dev'.q[1].cqTail = dev.q[1].cqTail /\ dev'.q[1].phase = dev.q[1].phase /\ ram'.cq[1] = ram.cq[1]
      BY <1>3, <3>1 DEF PostEffect, InSlot
    <3>3. dev'.q[1].cqHead = nv.q[1].head
      BY <2>2, <2>3 DEF InStep
    <3>4. InStep(dev'.q[1], nv.q[1], ram.cq[1])
      BY <2>2, <3>2, <3>3, InStepSame
    <3> QED BY <2>2, <2>3, <3>2, <3>4
  <2> QED BY <1>3, <2>4, <2>5 DEF Qids
<1>10. CallOK'
  <2>1. SUFFICES ASSUME call.pc \in InCall, call.calm PROVE CallOK'
    BY <1>4 DEF CallOK
  <2>2. SoFar /\ Fetched(0) /\ call.pc = "chunk?" /\ InRange /\ InFlight
    BY <1>1, <2>1 DEF CallOK, InCall, Still, InSubmission, InCompletion
  <2>3. /\ Fetched(1) /\ Consumed(1) /\ Handed /\ dev.flying = {f} /\ f.q = 1 /\ f.cmd = Issued
    BY <2>2 DEF InFlight
  <2>4. Fetched(0)' /\ Fetched(1)' /\ dev'.flying = {} /\ InRange'
    BY <1>3, <1>4, <2>2, <2>3, SameRange DEF PostEffect, Fetched, Qids
  <2>5. nv.q[1].head \in Slots /\ dev.q[1].cqTail = nv.q[1].head
    BY <1>8, <2>3 DEF Consumed, QueueType
  <2>6. dev'.q[1].cqTail = (nv'.q[1].head + 1) % Entries
    BY <1>3, <2>3, <2>5, SuccSlot DEF PostEffect
  <2>7. ram'.cq[1][nv'.q[1].head] = Posted(f, ok)
    BY <1>3, <2>3, <2>5 DEF InSlot
  <2>8. Posted(f, ok).cid = call.cid /\ Posted(f, ok).ok = ok
    BY <2>3 DEF Posted, Issued
  <2>9. SoFar' /\ (ok => Moved')
    <3>1. CASE ok
      BY <1>1, <1>3, <1>4, <2>2, <2>3, <3>1, CompleteMoves
    <3>2. CASE ~ok
      BY <1>3, <1>4, <2>2, <3>2, SameSoFar
    <3> QED BY <3>1, <3>2
  <2>10. InCompletion'
    BY <1>4, <2>4, <2>6, <2>7, <2>8, <2>9, Zenon DEF InCompletion
  <2> QED BY <1>4, <2>2, <2>4, <2>9, <2>10 DEF CallOK
<1> QED BY <1>3, <1>6, <1>7, <1>9, <1>10 DEF NvmeInv

-----------------------------------------------------------------------------
(* The theorems.                                                           *)

(* Every step keeps the invariant. *)
LEMMA NextInv == ASSUME NvmeInv, [NvmeNext]_nvmeVars PROVE NvmeInv'
<1>1. CASE \E bar, rdyFalls \in BOOLEAN : Croi_Nvme_Probe(bar, rdyFalls)
  BY <1>1, ProbeInv
<1>2. CASE \E pages, ready \in BOOLEAN : Croi_Nvme_Setup(pages, ready)
  BY <1>2, SetupInv
<1>3. CASE \E op \in AdminCmds : Croi_Nvme_AdminCmd(op) \/ AdminAnswer(op)
  BY <1>3, AdminCmdInv, AdminAnswerInv
<1>4. CASE \E pages \in BOOLEAN : Croi_Nvme_CreateIoQueues(pages)
  BY <1>4, CreateInv
<1>5. CASE nvme_io_cmd
  BY <1>5, IoCmdInv
<1>6. CASE Croi_Nvme_Flush
  BY <1>6, FlushInv
<1>7. CASE ChunkAnswer
  BY <1>7, ChunkAnswerInv
<1>8. CASE nvme_chunked
  BY <1>8, ChunkedInv
<1>9. CASE \E q \in Qids : DevFetch(q)
  BY <1>9, FetchInv
<1>10. CASE \E f \in dev.flying, ok \in BOOLEAN : DevComplete(f, ok)
  BY <1>10, CompleteInv
<1>11. CASE Reboot
  BY <1>11, RebootInv
<1>12. CASE \E t \in Transfers : bd_call(t)
  BY <1>12, CallStart
<1>13. CASE UNCHANGED nvmeVars
  <2>1. TypeOK' /\ OffOK' /\ PhaseOK'
    BY <1>13 DEF nvmeVars, NvmeInv, TypeOK, DevOK, RamOK, CallShape, OffOK, PhaseOK
  <2>2. QueueOK'
    BY <1>13 DEF nvmeVars, NvmeInv, QueueOK
  <2>3. CallOK'
    <3>1. nv' = nv /\ dev' = dev /\ ram' = ram /\ call' = call
      BY <1>13 DEF nvmeVars
    <3>2. CallOK
      BY DEF NvmeInv
    <3> QED BY <3>1, <3>2, Zenon DEF CallOK, SoFar, Fetched, Consumed, Still, InRange, Moved, Handed, InSubmission, InFlight,
                              InCompletion, Issued, ChunkLba, ChunkLen, Smaller
  <2> QED BY <2>1, <2>2, <2>3 DEF NvmeInv
<1> QED BY <1>1, <1>2, <1>3, <1>4, <1>5, <1>6, <1>7, <1>8, <1>9, <1>10, <1>11, <1>12, <1>13 DEF NvmeNext, Driver, Controller

(* The last chunk of a transfer: all of it has been moved. *)
LEMMA LastChunk ==
  ASSUME NvmeInv, nvme_chunked, call'.pc = "idle", call.calm, call.op # "flush"
  PROVE  Len(call'.buf) = call.n /\ \A i \in 1 .. call.n : call'.buf[i] = dev'.disk[call.lba + i - 1]
<1>1. SoFar /\ SoFar'
  BY ChunkedMoves DEF NvmeInv, CallOK, InCall, nvme_chunked
<1>2. /\ call'.off = call.off + ChunkLen /\ call'.op = call.op /\ call'.lba = call.lba /\ call'.n = call.n
      /\ call.off + ChunkLen >= call.n
  BY DEF nvme_chunked, NvmeInv, TypeOK, CallShape
<1>3. call'.off = call.n /\ call.n \in Nat
  BY <1>1, <1>2, ChunkLenIs DEF SoFar
<1>4. \A i \in 1 .. call.n : call'.buf[i] = dev'.disk[call.lba + i - 1]
  BY <1>1, <1>2, <1>3 DEF SoFar
<1>5. Len(call'.buf) = call.n
  <2>1. CASE call.op = "write"
    BY <1>1, <1>2, <2>1 DEF SoFar
  <2>2. CASE call.op = "read"
    <3>1. call'.buf = [i \in 1 .. call.n |-> call'.buf[i]]
      BY <1>1, <1>2, <1>3, <2>2 DEF SoFar
    <3>2. call'.buf \in [1 .. call.n -> {call'.buf[i] : i \in 1 .. call.n}]
      BY <3>1
    <3> QED BY <1>3, <3>2
  <2> QED BY <1>1, <2>1, <2>2 DEF SoFar
<1> QED BY <1>4, <1>5

(* Every step of a transfer that returns tells the truth. *)
LEMMA StepTrue == ASSUME NvmeInv, [NvmeNext]_nvmeVars PROVE [TrueResult]_nvmeVars
<1>1. SUFFICES ASSUME Returned PROVE TrueResult
  BY DEF TrueResult
<1>2. call.pc # "idle" /\ call'.pc = "idle" /\ nv.ioReady /\ CallShape /\ call'.pc # call.pc
  BY <1>1 DEF Returned, NvmeInv, TypeOK
<1>3. CASE nvme_io_cmd
  BY <1>2, <1>3, IoCmdInv DEF TrueResult
<1>4. CASE Croi_Nvme_Flush
  BY <1>2, <1>4, FlushInv
<1>5. CASE ChunkAnswer
  BY <1>2, <1>5, ChunkAnswerInv DEF TrueResult
<1>6. CASE nvme_chunked
  <2>1. call'.rc = "EOK"
    BY <1>2, <1>6 DEF nvme_chunked, CallShape
  <2> QED BY <1>2, <1>6, <2>1, LastChunk DEF TrueResult
<1>7. CASE Reboot \/ (\E t \in Transfers : bd_call(t)) \/ (\E q \in Qids : DevFetch(q)) \/ UNCHANGED nvmeVars
  BY <1>2, <1>7, Zenon DEF Reboot, bd_call, DevFetch, nvmeVars, CallShape
<1>8. CASE \E f \in dev.flying, ok \in BOOLEAN : DevComplete(f, ok)
  BY <1>2, <1>8 DEF DevComplete, CallShape
<1>9. CASE Driver /\ ~(nvme_io_cmd \/ Croi_Nvme_Flush \/ ChunkAnswer \/ nvme_chunked)
  <2>1. CASE \E bar, rdyFalls \in BOOLEAN : Croi_Nvme_Probe(bar, rdyFalls)
    BY <1>2, <2>1 DEF Croi_Nvme_Probe, Goto, CallShape
  <2>2. CASE \E pages, ready \in BOOLEAN : Croi_Nvme_Setup(pages, ready)
    BY <1>2, <2>2 DEF Croi_Nvme_Setup, Goto, CallShape
  <2>3. CASE \E pages \in BOOLEAN : Croi_Nvme_CreateIoQueues(pages)
    BY <1>2, <2>3 DEF Croi_Nvme_CreateIoQueues, Goto, CallShape
  <2>4. CASE \E op \in AdminCmds : Croi_Nvme_AdminCmd(op) \/ AdminAnswer(op)
    <3>1. call.pc \in BringUp \cup Creating
      BY <2>4, WaitsAre, Zenon DEF AdminCmds, Croi_Nvme_AdminCmd, AdminAnswer, BringUp, Creating
    <3> QED BY <1>2, <3>1 DEF NvmeInv, PhaseOK
  <2> QED BY <1>9, <2>1, <2>2, <2>3, <2>4 DEF Driver
<1> QED BY <1>3, <1>4, <1>5, <1>6, <1>7, <1>8, <1>9 DEF NvmeNext, Controller

(* NvmeInv is an invariant of the driver and its controller. *)
THEOREM NvmeInvariant == NvmeSpec => []NvmeInv
<1>1. NvmeInit => NvmeInv
  BY InitInv
<1>2. NvmeInv /\ [NvmeNext]_nvmeVars => NvmeInv'
  BY NextInv
<1> QED BY <1>1, <1>2, PTL DEF NvmeSpec

(* A transfer that returns EOK has moved its own data, unless a command was given    *)
(* up on before, and EIO has a cause: through every wrap of the queues, every chunk   *)
(* and every reset, for queues and buffers of any size (nvme_submit_sync,             *)
(* nvme_chunked).                                                                    *)
THEOREM TransfersAreTrue == NvmeSpec => ResultsTrue
<1>1. NvmeSpec => []NvmeInv
  BY NvmeInvariant
<1>2. NvmeInv /\ [NvmeNext]_nvmeVars => [TrueResult]_nvmeVars
  BY StepTrue
<1> QED BY <1>1, <1>2, PTL DEF NvmeSpec, ResultsTrue
=============================================================================
