----------------------------- MODULE CroiSched -----------------------------
(***************************************************************************)
(* The Croi task scheduler and its signals (src/croi/sched/sched.c).       *)
(*                                                                         *)
(* The kernel is cooperative and single-hart: the task `current` runs      *)
(* until it calls Croi_Yield, Croi_Wait or Croi_TaskExit, and every other  *)
(* call of this file runs to its end without losing the CPU.  One action   *)
(* is therefore one call made by the current task.  The scheduler's state  *)
(* is a record, each call a function on it, so that the modules that       *)
(* build on the scheduler (CroiSemaphore, CroiMsgPort) can make several calls *)
(* in one step.                                                            *)
(*                                                                         *)
(*   current, runq, sleepers, dead   g_current, g_runq, g_sleepers, g_dead *)
(*   state, pri                      tc_State, ln_Pri                      *)
(*   alloc, recvd, wait              tc_SigAlloc, tc_SigRecvd, tc_SigWait  *)
(*   td, id                          tc_TDNestCnt, tc_IDNestCnt            *)
(*   mask                            the argument of the Croi_Wait call    *)
(*                                   the task is inside of ({}: in none)   *)
(*   halted                          arch_halt was reached                 *)
(*                                                                         *)
(* runq is a sequence, kept in priority order; sleepers and dead are sets, *)
(* since the code never depends on their order.                            *)
(***************************************************************************)
EXTENDS Integers, Sequences, SequencesExt

CONSTANTS
  Task,         \* the task control blocks that can be allocated
  Boot,         \* g_boot_task, the context that called Sched_Init
  PriArg,       \* the priorities that callers pass
  SIGB_SINGLE,  \* the reserved bit that semaphores wait on
  FirstUserSig, \* the first bit AllocSignal hands out (16)
  NSig,         \* the width of a signal mask (32)
  MaxNest       \* bound on the depth of Forbid and Disable nesting

ASSUME BootAssumption == Boot \in Task
ASSUME PriAssumption  == PriArg \subseteq Int
ASSUME SigAssumption  ==
  /\ NSig \in Nat
  /\ FirstUserSig \in 1..NSig
  /\ SIGB_SINGLE \in 0..(FirstUserSig - 1)
ASSUME NestAssumption == MaxNest \in Nat

Sig   == 0..(NSig - 1)
Pri   == (-128)..127
State == {"TS_INVALID", "TS_RUN", "TS_READY", "TS_WAIT", "TS_REMOVED"}

SchedState ==
  [current : Task, runq : Seq(Task), sleepers : SUBSET Task, dead : SUBSET Task,
   state : [Task -> State], pri : [Task -> Pri],
   alloc : [Task -> SUBSET Sig], recvd : [Task -> SUBSET Sig],
   wait : [Task -> SUBSET Sig], mask : [Task -> SUBSET Sig],
   td : [Task -> Int], id : [Task -> Int], halted : BOOLEAN]

-----------------------------------------------------------------------------
(* The calls, as functions of the scheduler state.                         *)

ClampPri(p) == IF p < -128 THEN -128 ELSE IF p > 127 THEN 127 ELSE p

InitSched ==
  [current |-> Boot, runq |-> << >>, sleepers |-> {}, dead |-> {},
   state |-> [t \in Task |-> IF t = Boot THEN "TS_RUN" ELSE "TS_INVALID"],
   pri   |-> [t \in Task |-> IF t = Boot THEN 100 ELSE 0],
   alloc |-> [t \in Task |-> {}], recvd |-> [t \in Task |-> {}],
   wait  |-> [t \in Task |-> {}], mask  |-> [t \in Task |-> {}],
   td |-> [t \in Task |-> -1], id |-> [t \in Task |-> -1], halted |-> FALSE]

\* Mutant of RunqPosition: at the head, whatever the priorities.
RunqPositionHead(q, pri, t) == 1
\* Ahead of the first queued task of strictly lower priority, else at the tail.
RunqPosition(q, pri, t) ==
  LET lower == {i \in 1..Len(q) : pri[q[i]] < pri[t]}
  IN  IF lower = {} THEN Len(q) + 1 ELSE Min(lower)

RunqInsert(q, pri, t) == InsertAt(q, RunqPosition(q, pri, t), t)

RunqAdd(s, t) == [s EXCEPT !.runq = RunqInsert(@, s.pri, t)]

\* Take the head of the run queue and switch to it.
RunHead(s) ==
  [s EXCEPT !.current = Head(s.runq), !.runq = Tail(@),
            !.state[Head(s.runq)] = "TS_RUN"]

Spawn(s, t, p) ==
  RunqAdd([s EXCEPT !.state[t] = "TS_READY", !.pri[t] = ClampPri(p),
                    !.alloc[t] = {}, !.recvd[t] = {}, !.wait[t] = {}, !.mask[t] = {},
                    !.td[t] = -1, !.id[t] = -1], t)

\* Mutant of MaySwitch: Croi_Yield that forgets to compare priorities.
MaySwitchToAny(s) ==
  /\ s.td[s.current] < 0
  /\ s.id[s.current] < 0
  /\ s.runq # << >>

MaySwitch(s) ==
  /\ s.td[s.current] < 0
  /\ s.id[s.current] < 0
  /\ s.runq # << >>
  /\ s.pri[Head(s.runq)] >= s.pri[s.current]

Yield(s) ==
  IF MaySwitch(s)
  THEN RunqAdd([RunHead(s) EXCEPT !.state[s.current] = "TS_READY"], s.current)
  ELSE s

TaskExit(s) ==
  LET gone == [s EXCEPT !.state[s.current] = "TS_REMOVED",
                        !.dead = @ \cup {s.current}]
  IN  IF s.runq = << >> THEN [gone EXCEPT !.halted = TRUE] ELSE RunHead(gone)

ReapDead(s) ==
  [s EXCEPT !.state = [t \in Task |-> IF t \in s.dead THEN "TS_INVALID" ELSE s.state[t]],
            !.dead = {}]

SetSelfPriority(s, p) ==
  [s EXCEPT !.pri[s.current] = ClampPri(p)]

Forbid(s)  == [s EXCEPT !.td[s.current] = @ + 1]
Disable(s) == [s EXCEPT !.id[s.current] = @ + 1]
Permit(s)  ==
  IF s.td[s.current] >= 0 THEN [s EXCEPT !.td[s.current] = @ - 1] ELSE s
Enable(s)  ==
  IF s.id[s.current] >= 0 THEN [s EXCEPT !.id[s.current] = @ - 1] ELSE s

\* The bits Croi_AllocSignal can still hand out to t.
FreeSigs(s, t) == (FirstUserSig..(NSig - 1)) \ s.alloc[t]

\* Croi_AllocSignal returns the lowest free bit, or -1.
AllocatedSig(s, t) == IF FreeSigs(s, t) = {} THEN -1 ELSE Min(FreeSigs(s, t))

AllocSignal(s) ==
  LET t == s.current
      b == AllocatedSig(s, t)
  IN  IF b < 0 THEN s
      ELSE [s EXCEPT !.alloc[t] = @ \cup {b}, !.recvd[t] = @ \ {b}]

FreeSignal(s, b) ==
  IF b \in Sig
  THEN [s EXCEPT !.alloc[s.current] = @ \ {b}, !.recvd[s.current] = @ \ {b}]
  ELSE s

\* Mutant of Signal: makes the sleeper ready but leaves it on g_sleepers.
SignalLeavesSleeper(s, t, m) ==
  LET r == [s EXCEPT !.recvd[t] = @ \cup m]
  IN  IF r.state[t] = "TS_WAIT" /\ r.recvd[t] \cap r.wait[t] # {}
      THEN RunqAdd([r EXCEPT !.state[t] = "TS_READY", !.wait[t] = {}], t)
      ELSE r

Signal(s, t, m) ==
  LET r == [s EXCEPT !.recvd[t] = @ \cup m]
  IN  IF r.state[t] = "TS_WAIT" /\ r.recvd[t] \cap r.wait[t] # {}
      THEN RunqAdd([r EXCEPT !.sleepers = @ \ {t}, !.state[t] = "TS_READY",
                             !.wait[t] = {}], t)
      ELSE r

\* The bits of `which` take the values of `new`.
SetSignal(s, new, which) ==
  [s EXCEPT !.recvd[s.current] = (@ \ which) \cup (new \cap which)]

\* Mutant of Wait: a call that sleeps without a look at what has arrived.
WaitBlind(s, m) ==
  LET t   == s.current
      hit == s.recvd[t] \cap m
      asleep == [s EXCEPT !.wait[t] = m, !.mask[t] = m, !.state[t] = "TS_WAIT"]
  IN  IF hit # {} /\ s.mask[t] # {}
      THEN [s EXCEPT !.recvd[t] = @ \ hit, !.wait[t] = {}, !.mask[t] = {}]
      ELSE IF s.runq = << >>
           THEN [asleep EXCEPT !.halted = TRUE]
           ELSE RunHead([asleep EXCEPT !.sleepers = @ \cup {t}])

\* One turn of Croi_Wait's loop.  A task that sleeps makes the next turn,
\* with the same mask, when it is switched back to.
Wait(s, m) ==
  LET t   == s.current
      hit == s.recvd[t] \cap m
      asleep == [s EXCEPT !.wait[t] = m, !.mask[t] = m, !.state[t] = "TS_WAIT"]
  IN  IF hit # {}
      THEN [s EXCEPT !.recvd[t] = @ \ hit, !.wait[t] = {}, !.mask[t] = {}]
      ELSE IF s.runq = << >>
           THEN [asleep EXCEPT !.halted = TRUE]
           ELSE RunHead([asleep EXCEPT !.sleepers = @ \cup {t}])

-----------------------------------------------------------------------------
VARIABLE sched

vars == <<sched>>

Me == sched.current

\* The current task executes its own code, outside any kernel call.
Running == ~sched.halted /\ sched.mask[Me] = {}

\* Croi_Signal is defined on a task control block that is allocated.
Allocated == {t \in Task : sched.state[t] # "TS_INVALID"}

Init == sched = InitSched

DoSpawn == Running /\ \E t \in Task \ Allocated, p \in PriArg : sched' = Spawn(sched, t, p)
DoYield == Running /\ sched' = Yield(sched)
DoTaskExit == Running /\ sched' = TaskExit(sched)
DoReapDead == Running /\ sched.dead # {} /\ sched' = ReapDead(sched)
DoSetSelfPriority == Running /\ \E p \in PriArg : sched' = SetSelfPriority(sched, p)
DoForbid == Running /\ sched.td[Me] + 1 < MaxNest /\ sched' = Forbid(sched)
DoPermit == Running /\ sched' = Permit(sched)
DoDisable == Running /\ sched.id[Me] + 1 < MaxNest /\ sched' = Disable(sched)
DoEnable == Running /\ sched' = Enable(sched)
DoAllocSignal == Running /\ sched' = AllocSignal(sched)
DoFreeSignal == Running /\ \E b \in Sig : sched' = FreeSignal(sched, b)
DoSignal == Running /\ \E t \in Allocated, m \in SUBSET Sig : sched' = Signal(sched, t, m)
DoSetSignal ==
  Running /\ \E new, which \in SUBSET Sig : sched' = SetSignal(sched, new, which)
DoWait == Running /\ \E m \in (SUBSET Sig) \ {{}} : sched' = Wait(sched, m)

\* A task that was switched to inside Croi_Wait goes round its loop.
ResumeWait ==
  /\ ~sched.halted
  /\ sched.mask[Me] # {}
  /\ sched' = Wait(sched, sched.mask[Me])

Next ==
  \/ DoSpawn \/ DoYield \/ DoTaskExit \/ DoReapDead \/ DoSetSelfPriority
  \/ DoForbid \/ DoPermit \/ DoDisable \/ DoEnable
  \/ DoAllocSignal \/ DoFreeSignal \/ DoSignal \/ DoSetSignal
  \/ DoWait \/ ResumeWait

Spec == Init /\ [][Next]_vars

-----------------------------------------------------------------------------
(* Invariants.                                                             *)

\* The scheduler's fields have their types: what sched.c keeps in struct Task
\* and in its list heads.
TypeOK == sched \in SchedState

Holds(q, t) == \E i \in 1..Len(q) : q[i] = t

Distinct(q) == \A i, j \in 1..Len(q) : q[i] = q[j] => i = j

InOrder(q, pri) == \A i, j \in 1..Len(q) : i < j => pri[q[i]] >= pri[q[j]]

\* Every live task is in exactly the place its tc_State names: the running
\* task is g_current and no other, the ready ones are on g_runq once each, the
\* waiting ones on g_sleepers and the removed ones on g_dead.  (A task that
\* sleeps or exits with nobody to switch to stops the machine.)
Placed(s) ==
  /\ \A t \in Task : s.state[t] = "TS_RUN" <=> t = s.current /\ ~s.halted
  /\ \A t \in Task : s.state[t] = "TS_READY" <=> Holds(s.runq, t)
  /\ Distinct(s.runq)
  /\ \A t \in Task : t \in s.sleepers <=> s.state[t] = "TS_WAIT" /\ t # s.current
  /\ \A t \in Task : t \in s.dead <=> s.state[t] = "TS_REMOVED"

\* The current scheduler state places every task where its tc_State says.
QueuesMatchStates == Placed(sched)

\* g_runq is in non-increasing priority order, which is what lets Croi_Yield
\* and Croi_Wait look at its head only.
RunqSorted == InOrder(sched.runq, sched.pri)

Wakeful(s) ==
  \A t \in Task :
    /\ s.state[t] = "TS_WAIT" =>
         /\ s.wait[t] = s.mask[t]
         /\ s.mask[t] # {}
         /\ s.recvd[t] \cap s.mask[t] = {}
    /\ s.state[t] \in {"TS_RUN", "TS_READY"} /\ s.mask[t] # {} =>
         s.recvd[t] \cap s.mask[t] # {}

\* No wake-up is lost: a task asleep in Croi_Wait has received none of the
\* bits it waits for, and a task that was made ready inside Croi_Wait still
\* has one of them when it gets the CPU, so its next turn of the loop returns.
NoLostWakeup == Wakeful(sched)

\* Together: the invariant that every call of the scheduler preserves.
SchedInv(s) ==
  s \in SchedState /\ Placed(s) /\ InOrder(s.runq, s.pri) /\ Wakeful(s)

-----------------------------------------------------------------------------
(* Action properties.                                                      *)

\* The CPU is only ever handed to a task that no ready task outranks.
DispatchesHighest ==
  [][sched'.current # sched.current =>
       \A t \in Task : sched'.state[t] = "TS_READY" =>
         sched'.pri[t] <= sched'.pri[sched'.current]]_vars

\* u was waiting in the queue old, and t not ahead of it.
Later(old, t, u) == \E j \in DOMAIN old : old[j] = u /\ \A i \in 1..j : old[i] # t

\* Round robin: no step of any call puts a task in front of one that was ready
\* before it, unless its priority is higher.
KeepsQueueOrder ==
  [][\A k, l \in DOMAIN sched'.runq :
       k < l /\ Later(sched.runq, sched'.runq[k], sched'.runq[l]) =>
         sched'.pri[sched'.runq[k]] > sched'.pri[sched'.runq[l]]]_vars

\* Under Forbid or Disable the running task loses the CPU only by sleeping
\* or by exiting.
ForbidKeepsCpu ==
  [][(sched.td[Me] >= 0 \/ sched.id[Me] >= 0) /\ sched'.current # sched.current =>
       sched'.state[Me] \in {"TS_WAIT", "TS_REMOVED"}]_vars
=============================================================================
