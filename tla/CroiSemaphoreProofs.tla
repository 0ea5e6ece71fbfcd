------------------------ MODULE CroiSemaphoreProofs ------------------------
(***************************************************************************)
(* Proofs about the semaphores of module CroiSemaphore, for every number   *)
(* of tasks and semaphores.  They need one thing of the programs: nobody   *)
(* passes the reserved bit SIGB_SINGLE to Signal, which would wake a task  *)
(* inside ObtainSemaphore that has been given nothing.                     *)
(***************************************************************************)
EXTENDS CroiSemaphore, CroiSchedProofs

-----------------------------------------------------------------------------
(* The inductive invariant.                                                *)

\* What the scheduler knows of a task: it sleeps inside ObtainSemaphore, ...
Asleep(s, t) == s.mask[t] = Single /\ s.state[t] = "TS_WAIT"

\* ... it is about to come back from there, ...
Granted(s, t) ==
  /\ s.mask[t] = Single
  /\ SIGB_SINGLE \in s.recvd[t]
  /\ s.state[t] \in {"TS_WAIT", "TS_READY", "TS_RUN"}

\* ... or it is not inside of it.
Outside(s, t) == SIGB_SINGLE \notin s.mask[t]

\* The requests on x's wait queue are those of sleeping callers, and a blocked
\* caller that has none there owns x.
RequestsSound(x) ==
  /\ Distinct(sems[x].queue)
  /\ sems[x].qcount = Len(sems[x].queue) - 1
  /\ \A t \in Task : Holds(sems[x].queue, t) =>
       wanted[t] = x /\ sems[x].owner # t /\ Asleep(sched, t)
  /\ \A t \in Task : wanted[t] = x /\ ~Holds(sems[x].queue, t) =>
       sems[x].owner = t /\ sems[x].nest = 1 /\ Granted(sched, t)

\* An owned semaphore has a holder, or a caller that is about to be one.
OwnerSound(x) ==
  /\ sems[x].queue # << >> => sems[x].owner # NoTask
  /\ sems[x].owner # NoTask => held[sems[x].owner][x] > 0 \/ wanted[sems[x].owner] = x

SemInv ==
  /\ SemTypeOK
  /\ SchedInv(sched)
  /\ HoldersOwn
  /\ \A x \in Sem : RequestsSound(x) /\ OwnerSound(x)
  /\ \A t \in Task : wanted[t] = NoSem => Outside(sched, t)
  /\ \A t \in Task, x \in Sem : wanted[t] = x => held[t][x] = 0

\* Initially nobody holds or wants anything.
LEMMA SemInitInv == SemInit => SemInv
<1> SUFFICES ASSUME SemInit PROVE SemInv
  OBVIOUS
<1>1. SchedInv(sched) /\ sched \in SchedState
  BY InitInv DEF SemInit, Init, SchedInv
<1>2. SemTypeOK
  <2>1. InitSemaphore \in SemType
    BY DEF InitSemaphore, SemType
  <2> QED BY <1>1, <2>1, SemAssumption DEF SemInit, SemTypeOK
<1>3. \A t \in Task : wanted[t] = NoSem /\ \A x \in Sem : held[t][x] = 0
  BY DEF SemInit
<1>4. \A x \in Sem : /\ sems[x].queue = << >> /\ sems[x].qcount = -1
                     /\ sems[x].owner = NoTask
  BY DEF SemInit, InitSemaphore
<1>5. \A t \in Task : Outside(sched, t)
  BY DEF SemInit, InitSched, Outside
<1>6. ASSUME NEW x \in Sem PROVE RequestsSound(x) /\ OwnerSound(x)
  <2>1. Distinct(sems[x].queue) /\ \A t \in Task : ~Holds(sems[x].queue, t)
    BY <1>4 DEF Distinct, Holds
  <2>2. \A t \in Task : wanted[t] # x
    BY <1>3, SemAssumption
  <2> QED BY <1>4, <2>1, <2>2 DEF RequestsSound, OwnerSound
<1>7. HoldersOwn
  BY <1>3 DEF HoldersOwn
<1> QED BY <1>1, <1>2, <1>3, <1>5, <1>6, <1>7, SemAssumption DEF SemInv

-----------------------------------------------------------------------------
(* Calls of the scheduler that concern no semaphore.                       *)

\* From s to n, task t goes neither into nor out of ObtainSemaphore, and none
\* that has been given its semaphore loses the wake-up.
Steady(s, n, t) ==
  /\ Asleep(s, t) => Asleep(n, t)
  /\ Granted(s, t) => Granted(n, t)
  /\ Outside(s, t) => Outside(n, t)

\* SIGB_SINGLE is a bit of a mask, and no bit that AllocSignal hands out.
LEMMA SingleSig ==
  /\ Single \in SUBSET Sig /\ Single # {}
  /\ \A m \in UserMasks : m \in SUBSET Sig /\ m # {} /\ SIGB_SINGLE \notin m
  BY SigAssumption DEF Single, Sig, UserMasks

\* A turn of Croi_Wait on other bits concerns nobody inside ObtainSemaphore.
LEMMA WaitSteady ==
  ASSUME NEW s, SchedInv(s), ~s.halted, NEW m \in SUBSET Sig, SIGB_SINGLE \notin m,
         Outside(s, s.current), NEW t \in Task
  PROVE  Steady(s, Wait(s, m), t)
<1>0. /\ s.current \in Task /\ s.mask \in [Task -> SUBSET Sig] /\ s.recvd \in [Task -> SUBSET Sig]
      /\ s.state[s.current] = "TS_RUN"
  BY FieldTypes DEF SchedInv, Placed
<1>1. PICK n : n = Wait(s, m)
  OBVIOUS
<1>2. s.mask[s.current] # Single
  BY DEF Outside, Single
<1>3. CASE s.recvd[s.current] \cap m # {}
  <2>1. WaitReturned(s, m, n)
    BY <1>1, <1>3, WaitReturnsFields, Zenon
  <2> QED BY <1>0, <1>1, <1>2, <2>1 DEF WaitReturned, Steady, Asleep, Granted, Outside
<1>4. CASE s.recvd[s.current] \cap m = {}
  <2>1. WaitSlept(s, m, n)
    BY <1>1, <1>4, WaitSleepsFields, Zenon
  <2> QED BY <1>0, <1>1, <1>2, <2>1 DEF WaitSlept, Steady, Asleep, Granted, Outside
<1> QED BY <1>3, <1>4

\* Signalling with bits that the receiver does not wait for inside
\* ObtainSemaphore.
LEMMA SignalSteady ==
  ASSUME NEW s, SchedInv(s), NEW u \in Task, NEW m \in SUBSET Sig,
         NEW t \in Task, t # u \/ SIGB_SINGLE \notin m
  PROVE  Steady(s, Signal(s, u, m), t)
<1>0. /\ s.recvd \in [Task -> SUBSET Sig] /\ s.state \in [Task -> State]
  BY FieldTypes DEF SchedInv
<1>1. PICK n : n = Signal(s, u, m)
  OBVIOUS
<1>2. Signalled(s, u, m, n)
  BY <1>1, SignalFields, Zenon
<1>3. n.mask = s.mask /\ s.recvd[t] \subseteq n.recvd[t]
  BY <1>0, <1>2 DEF Signalled
<1>4. n.state[t] = s.state[t] \/ (s.state[t] = "TS_WAIT" /\ n.state[t] = "TS_READY")
  BY <1>0, <1>2 DEF Signalled
<1>5. Asleep(s, t) => n.state[t] = "TS_WAIT"
  <2> HAVE Asleep(s, t)
  <2>1. /\ s.state[t] = "TS_WAIT" /\ s.wait[t] = Single /\ SIGB_SINGLE \notin s.recvd[t]
    BY DEF Asleep, SchedInv, Wakeful, Single
  <2>2. CASE t # u
    BY <1>0, <1>2, <2>1, <2>2 DEF Signalled
  <2>3. CASE t = u
    <3>1. (s.recvd[u] \cup m) \cap s.wait[u] = {}
      BY <2>1, <2>3 DEF Single
    <3> QED BY <1>2, <2>1, <2>3, <3>1 DEF Signalled
  <2> QED BY <2>2, <2>3
<1> QED BY <1>1, <1>3, <1>4, <1>5 DEF Steady, Asleep, Granted, Outside

\* The other calls of the programs are calls of the scheduler, and concern no
\* task inside ObtainSemaphore.
LEMMA OtherCallsSteady ==
  ASSUME SIGB_SINGLE \notin SentSigs, SemInv, ProgramYield \/ OtherCalls
  PROVE  SchedInv(sched') /\ \A t \in Task : Steady(sched, sched', t)
<1>0. /\ SchedInv(sched) /\ sched \in SchedState /\ Me \in Task
      /\ sched.state \in [Task -> State] /\ sched.mask \in [Task -> SUBSET Sig]
      /\ sched.recvd \in [Task -> SUBSET Sig]
  BY FieldTypes DEF SemInv, SchedInv, Me
<1>a. /\ \A t \in Task : sched.state[t] = "TS_RUN" <=> t = Me /\ ~sched.halted
      /\ \A t \in Task : t \in sched.dead <=> sched.state[t] = "TS_REMOVED"
  BY DEF SemInv, SchedInv, Placed, Me
<1>1. Next
  <2>1. SentSigs \subseteq Sig
    BY SemAssumption
  <2>2. \A b \in SentSigs : {b} \in SUBSET Sig
    BY <2>1
  <2>3. UserMasks \subseteq (SUBSET Sig) \ {{}}
    BY SingleSig
  <2> QED BY <2>2, <2>3, Zenon DEF ProgramYield, OtherCalls, Next, DoSignal, DoWait
<1>2. SchedInv(sched')
  BY <1>0, <1>1, NextInv DEF vars
<1>3. CASE ProgramYield
  <2>1. CASE MaySwitch(sched)
    <3>1. /\ sched'.mask = sched.mask /\ sched'.recvd = sched.recvd
          /\ sched'.state = [[sched.state EXCEPT ![Head(sched.runq)] = "TS_RUN"] EXCEPT ![Me] = "TS_READY"]
      BY <1>0, <1>3, <2>1, YieldFields DEF ProgramYield, DoYield, Me
    <3>2. Head(sched.runq) \in Task /\ sched.state[Head(sched.runq)] = "TS_READY"
      <4>1. Head(sched.runq) \in Task /\ Holds(sched.runq, Head(sched.runq))
        BY <1>0, <2>1, FieldTypes, TailProperty, Zenon DEF SchedInv, Placed, MaySwitch
      <4> QED BY <1>0, <4>1 DEF SchedInv, Placed
    <3>3. sched.state[Me] = "TS_RUN"
      BY <1>0, <1>3, <1>a DEF ProgramYield, DoYield, Running
    <3>4. \A t \in Task : sched'.state[t] = IF t = Me THEN "TS_READY"
                                           ELSE IF t = Head(sched.runq) THEN "TS_RUN" ELSE sched.state[t]
      BY <1>0, <3>1
    <3>5. ASSUME NEW t \in Task PROVE Steady(sched, sched', t)
      <4>1. sched'.mask[t] = sched.mask[t] /\ sched'.recvd[t] = sched.recvd[t]
        BY <3>1
      <4>2. sched'.state[t] = sched.state[t] \/
              (sched.state[t] \in {"TS_READY", "TS_RUN"} /\ sched'.state[t] \in {"TS_READY", "TS_RUN"})
        BY <3>2, <3>3, <3>4
      <4> QED BY <4>1, <4>2 DEF Steady, Asleep, Granted, Outside
    <3> QED BY <1>2, <3>5
  <2>2. CASE ~MaySwitch(sched)
    BY <1>2, <1>3, <2>2 DEF ProgramYield, DoYield, Yield, Steady
  <2> QED BY <2>1, <2>2
<1>4. CASE DoSpawn
  <2>1. PICK u \in Task, p \in Int : sched.state[u] = "TS_INVALID" /\ sched' = Spawn(sched, u, p)
    BY <1>4, PriAssumption DEF DoSpawn, Allocated
  <2>2. Launched(sched, u, p, sched')
    BY <1>0, <2>1, SpawnFields, Zenon
  <2>3. ASSUME NEW t \in Task PROVE Steady(sched, sched', t)
    BY <1>0, <2>1, <2>2 DEF Launched, Steady, Asleep, Granted, Outside
  <2> QED BY <1>2, <2>3
<1>5. CASE DoReapDead
  <2>1. /\ sched'.mask = sched.mask /\ sched'.recvd = sched.recvd
        /\ sched'.state = [t \in Task |-> IF t \in sched.dead THEN "TS_INVALID" ELSE sched.state[t]]
    BY <1>0, <1>5, ReapDeadFields DEF DoReapDead
  <2>2. ASSUME NEW t \in Task PROVE Steady(sched, sched', t)
    <3>1. /\ sched'.mask[t] = sched.mask[t] /\ sched'.recvd[t] = sched.recvd[t]
          /\ sched.state[t] # "TS_REMOVED" => sched'.state[t] = sched.state[t]
      BY <1>a, <2>1
    <3> QED BY <3>1 DEF Steady, Asleep, Granted, Outside
  <2> QED BY <1>2, <2>2
<1>6. CASE DoSetSelfPriority
  <2>1. PICK p \in Int : sched' = SetSelfPriority(sched, p)
    BY <1>6, PriAssumption DEF DoSetSelfPriority
  <2>2. sched'.mask = sched.mask /\ sched'.recvd = sched.recvd /\ sched'.state = sched.state
    <3>1. PICK n : n = sched'
      OBVIOUS
    <3>2. n.mask = sched.mask /\ n.recvd = sched.recvd /\ n.state = sched.state
      BY <1>0, <2>1, <3>1, SetSelfPriorityFields, Zenon
    <3> QED BY <3>1, <3>2
  <2> QED BY <1>2, <2>2 DEF Steady, Asleep, Granted, Outside
<1>7. CASE DoTaskExit
  <2>1. Exited(sched, sched') /\ sched.mask[Me] # Single
    BY <1>0, <1>7, TaskExitFields, SingleSig DEF DoTaskExit, Running
  <2>2. ASSUME NEW t \in Task PROVE Steady(sched, sched', t)
    <3>1. CASE t = Me
      BY <1>0, <2>1, <3>1 DEF Exited, Me, Steady, Asleep, Granted, Outside
    <3>2. CASE t # Me
      BY <1>0, <1>a, <2>1, <3>2 DEF Exited, Me, Steady, Asleep, Granted, Outside
    <3> QED BY <3>1, <3>2
  <2> QED BY <1>2, <2>2
<1>8. ASSUME NEW u \in Task, NEW b \in SentSigs, sched' = Signal(sched, u, {b})
      PROVE  \A t \in Task : Steady(sched, sched', t)
  <2>1. {b} \in SUBSET Sig /\ SIGB_SINGLE \notin {b}
    BY SemAssumption
  <2> QED BY <1>0, <1>8, <2>1, SignalSteady
<1>9. ASSUME Running, NEW m \in UserMasks, sched' = Wait(sched, m)
      PROVE  \A t \in Task : Steady(sched, sched', t)
  <2>1. Outside(sched, Me) /\ ~sched.halted
    BY <1>9 DEF Running, Outside
  <2> QED BY <1>0, <1>9, <2>1, SingleSig, WaitSteady DEF Me
<1>10. ASSUME wanted[Me] = NoSem, ResumeWait
       PROVE  \A t \in Task : Steady(sched, sched', t)
  <2>1. Outside(sched, Me) /\ ~sched.halted /\ sched.mask[Me] \in SUBSET Sig
    BY <1>0, <1>10 DEF SemInv, ResumeWait
  <2>2. sched' = Wait(sched, sched.mask[Me]) /\ SIGB_SINGLE \notin sched.mask[Me]
    BY <1>10, <2>1 DEF ResumeWait, Outside
  <2> QED BY <1>0, <2>1, <2>2, WaitSteady DEF Me
<1> QED BY <1>2, <1>3, <1>4, <1>5, <1>6, <1>7, <1>8, <1>9, <1>10, Zenon DEF OtherCalls, Allocated

-----------------------------------------------------------------------------
(* What the invariant gives each call.                                     *)

\* The types of the semaphores and of the callers' view.
LEMMA SemTypes ==
  ASSUME SemInv
  PROVE  /\ Me \in Task
         /\ \A x \in Sem : /\ sems[x].owner \in Task \cup {NoTask} /\ sems[x].nest \in Nat
                           /\ sems[x].queue \in Seq(Task) /\ sems[x].qcount \in Int
         /\ \A t \in Task, x \in Sem : held[t][x] \in 0..MaxHold
         /\ \A t \in Task : wanted[t] \in Sem \cup {NoSem}
  BY FieldTypes DEF SemInv, SemTypeOK, SemType, SchedInv, Me

\* A task that runs its own code is inside no ObtainSemaphore, and so it is on
\* no wait queue.
LEMMA RunningIsOutside ==
  ASSUME SemInv, Running
  PROVE  /\ wanted[Me] = NoSem
         /\ \A x \in Sem : ~Holds(sems[x].queue, Me)
<1>0. Me \in Task /\ wanted[Me] \in Sem \cup {NoSem}
  BY SemTypes
<1>1. sched.mask[Me] # Single
  BY SingleSig DEF Running
<1>2. ASSUME NEW x \in Sem PROVE ~Holds(sems[x].queue, Me) /\ wanted[Me] # x
  BY <1>0, <1>1 DEF SemInv, RequestsSound, Asleep, Granted
<1> QED BY <1>0, <1>2

\* Whoever holds a semaphore owns it.
LEMMA OwnerHolds ==
  ASSUME SemInv, NEW x \in Sem, NEW t \in Task
  PROVE  /\ held[t][x] > 0 => sems[x].owner = t /\ sems[x].nest = held[t][x]
         /\ sems[x].owner = t /\ wanted[t] # x => held[t][x] > 0
  BY SemAssumption DEF SemInv, HoldersOwn, OwnerSound

\* A semaphore that a step leaves alone stays sound.
LEMMA OtherSemKept ==
  ASSUME SemInv, NEW y \in Sem, sems'[y] = sems[y],
         \A t \in Task : wanted'[t] = y <=> wanted[t] = y,
         \A t \in Task : held'[t][y] = held[t][y],
         \A t \in Task : wanted[t] = y => Steady(sched, sched', t)
  PROVE  RequestsSound(y)' /\ OwnerSound(y)'
<1>1. /\ RequestsSound(y) /\ OwnerSound(y) /\ sems[y].owner \in Task \cup {NoTask}
  BY SemTypes DEF SemInv
<1>2. RequestsSound(y)'
  BY <1>1 DEF RequestsSound, Steady
<1>3. OwnerSound(y)'
  BY <1>1 DEF OwnerSound
<1> QED BY <1>2, <1>3

\* The other calls keep the invariant.
LEMMA OtherCallsInv ==
  ASSUME SIGB_SINGLE \notin SentSigs, SemInv, ProgramYield \/ OtherCalls
  PROVE  SemInv'
<1>1. SchedInv(sched') /\ \A t \in Task : Steady(sched, sched', t)
  BY OtherCallsSteady
<1>2. sems' = sems /\ wanted' = wanted /\ held' = held
  BY DEF ProgramYield, OtherCalls
<1>3. SemTypeOK' /\ SchedInv(sched)'
  BY <1>1, <1>2 DEF SemInv, SemTypeOK, SchedInv
<1>4. HoldersOwn'
  BY <1>2 DEF SemInv, HoldersOwn
<1>5. ASSUME NEW x \in Sem PROVE RequestsSound(x)' /\ OwnerSound(x)'
  BY <1>1, <1>2, OtherSemKept
<1>6. \A t \in Task : wanted'[t] = NoSem => Outside(sched', t)
  BY <1>1, <1>2 DEF SemInv, Steady
<1>7. \A t \in Task, x \in Sem : wanted'[t] = x => held'[t][x] = 0
  BY <1>2 DEF SemInv
<1> QED BY <1>3, <1>4, <1>5, <1>6, <1>7 DEF SemInv

\* Taking a free semaphore, or one's own once more.
LEMMA TakeInv ==
  ASSUME SemInv, Running, NEW x \in Sem, held[Me][x] < MaxHold, TakeAtOnce(x)
  PROVE  SemInv'
<1>0. /\ Me \in Task /\ wanted[Me] = NoSem /\ ~Holds(sems[x].queue, Me)
      /\ sched' = sched /\ wanted' = wanted /\ held' = [held EXCEPT ![Me][x] = @ + 1]
  BY SemTypes, RunningIsOutside DEF TakeAtOnce
<1>1. PICK k \in Nat : sems' = [sems EXCEPT ![x].owner = Me, ![x].nest = k + 1] /\ held[Me][x] = k
                       /\ (sems[x].owner = NoTask \/ sems[x].owner = Me)
  <2>1. CASE TakeFree(x)
    <3>1. held[Me][x] = 0
      BY <1>0, <2>1, OwnerHolds, SemTypes, SemAssumption DEF TakeFree
    <3>2. sems' = [sems EXCEPT ![x].owner = Me, ![x].nest = 0 + 1] /\ 0 \in Nat
      BY <2>1 DEF TakeFree
    <3> QED BY <2>1, <3>1, <3>2, Zenon DEF TakeFree
  <2>2. CASE TakeNested(x)
    <3>1. held[Me][x] = sems[x].nest /\ sems[x].nest \in Nat
      BY <1>0, <2>2, OwnerHolds, SemTypes, SemAssumption DEF TakeNested
    <3>2. [sems EXCEPT ![x].nest = @ + 1] = [sems EXCEPT ![x].owner = Me, ![x].nest = sems[x].nest + 1]
      BY <2>2, Zenon DEF SemInv, SemTypeOK, SemType, TakeNested
    <3> QED BY <2>2, <3>1, <3>2, Zenon DEF TakeNested
  <2> QED BY <2>1, <2>2 DEF TakeAtOnce
<1>2. /\ sems \in [Sem -> SemType] /\ held \in [Task -> [Sem -> 0..MaxHold]]
  BY DEF SemInv, SemTypeOK
<1>3. /\ sems' \in [Sem -> SemType]
      /\ \A y \in Sem : y # x => sems'[y] = sems[y]
      /\ sems'[x].owner = Me /\ sems'[x].nest = k + 1
      /\ sems'[x].queue = sems[x].queue /\ sems'[x].qcount = sems[x].qcount
  <2>1. PICK f : f = [sems[x] EXCEPT !.owner = Me, !.nest = k + 1]
    BY Zenon
  <2>2. /\ f \in SemType /\ f.owner = Me /\ f.nest = k + 1
        /\ f.queue = sems[x].queue /\ f.qcount = sems[x].qcount
    <3>1. Me \in Task \cup {NoTask} /\ k + 1 \in Nat /\ sems[x] \in SemType
      BY <1>0, <1>2
    <3> QED BY <2>1, <3>1, Zenon DEF SemType
  <2>3. sems' = [sems EXCEPT ![x] = f]
    BY <1>1, <2>1, Zenon
  <2> QED BY <1>2, <2>2, <2>3
<1>4. /\ held' \in [Task -> [Sem -> 0..MaxHold]]
      /\ held'[Me][x] = k + 1
      /\ \A t \in Task, y \in Sem : t # Me \/ y # x => held'[t][y] = held[t][y]
  <2>1. PICK f : f = [held[Me] EXCEPT ![x] = k + 1]
    BY Zenon
  <2>2. k + 1 \in 0..MaxHold /\ held[Me] \in [Sem -> 0..MaxHold]
    BY <1>0, <1>1, <1>2, SemAssumption
  <2>3. /\ f \in [Sem -> 0..MaxHold] /\ f[x] = k + 1
        /\ \A y \in Sem : y # x => f[y] = held[Me][y]
    BY <2>1, <2>2
  <2>4. held' = [held EXCEPT ![Me] = f]
    BY <1>0, <1>1, <2>1
  <2> QED BY <1>0, <1>2, <2>3, <2>4
<1>5. SemTypeOK' /\ SchedInv(sched)'
  BY <1>0, <1>3, <1>4 DEF SemInv, SemTypeOK
<1>6. HoldersOwn'
  <2> SUFFICES ASSUME NEW t \in Task, NEW y \in Sem, held'[t][y] > 0
               PROVE  sems'[y].owner = t /\ sems'[y].nest = held'[t][y]
    BY DEF HoldersOwn
  <2>1. CASE y = x /\ t = Me
    BY <1>3, <1>4, <2>1
  <2>2. CASE y = x /\ t # Me
    BY <1>1, <1>4, <2>2, OwnerHolds, SemAssumption
  <2>3. CASE y # x
    BY <1>3, <1>4, <2>3, OwnerHolds
  <2> QED BY <2>1, <2>2, <2>3
<1>7. ASSUME NEW y \in Sem PROVE RequestsSound(y)' /\ OwnerSound(y)'
  <2>1. CASE y # x
    BY <1>0, <1>3, <1>4, <2>1, OtherSemKept DEF Steady
  <2>2. CASE y = x
    <3>1. RequestsSound(x) /\ OwnerSound(x)
      BY DEF SemInv
    <3>2. \A t \in Task : wanted[t] = x => Holds(sems[x].queue, t)
      BY <1>0, <1>1, <3>1, SemAssumption DEF RequestsSound
    <3>3. \A t \in Task : Holds(sems[x].queue, t) => t # Me
      BY <1>0
    <3>4. RequestsSound(x)'
      BY <1>0, <1>3, <3>1, <3>2, <3>3 DEF RequestsSound
    <3>5. OwnerSound(x)'
      BY <1>0, <1>3, <1>4, SemAssumption DEF OwnerSound
    <3> QED BY <2>2, <3>4, <3>5
  <2> QED BY <2>1, <2>2
<1>8. \A t \in Task : wanted'[t] = NoSem => Outside(sched', t)
  BY <1>0 DEF SemInv
<1>9. \A t \in Task, y \in Sem : wanted'[t] = y => held'[t][y] = 0
  BY <1>0, <1>4, SemAssumption DEF SemInv
<1> QED BY <1>5, <1>6, <1>7, <1>8, <1>9 DEF SemInv

\* Appending a task to a queue that does not hold it.
LEMMA AppendProperty ==
  ASSUME NEW q \in Seq(Task), NEW t \in Task, Distinct(q), ~Holds(q, t)
  PROVE  /\ Append(q, t) \in Seq(Task)
         /\ Len(Append(q, t)) = Len(q) + 1
         /\ Append(q, t) # << >>
         /\ Distinct(Append(q, t))
         /\ \A u \in Task : Holds(Append(q, t), u) <=> u = t \/ Holds(q, u)
<1>1. PICK n \in Nat : n = Len(q)
  OBVIOUS
<1>a. PICK r : r = Append(q, t)
  BY Zenon
<1>2. r \in Seq(Task) /\ Len(r) = n + 1 /\ r[n + 1] = t /\ \A i \in 1..n : r[i] = q[i]
  BY <1>1, <1>a, AppendProperties
<1>3. \A i \in 1..(n + 1) : i \in 1..n \/ i = n + 1
  BY <1>1
<1>4. n + 1 \in 1..(n + 1) /\ \A i \in 1..n : i \in 1..(n + 1)
  BY <1>1
<1>5. \A i \in 1..n : q[i] # t
  BY <1>1 DEF Holds
<1>6. Distinct(r)
  BY <1>1, <1>2, <1>3, <1>5 DEF Distinct
<1>7. ASSUME NEW u \in Task PROVE Holds(r, u) <=> u = t \/ Holds(q, u)
  <2>1. Holds(r, u) <=> \E i \in 1..(n + 1) : r[i] = u
    BY <1>2, Zenon DEF Holds
  <2>2. Holds(q, u) <=> \E i \in 1..n : q[i] = u
    BY <1>1, Zenon DEF Holds
  <2> QED BY <1>2, <1>3, <1>4, <2>1, <2>2, Zenon
<1>8. r # << >>
  BY <1>1, <1>2
<1> QED BY <1>1, <1>2, <1>6, <1>7, <1>8, <1>a

\* Taking the first task off a queue.
LEMMA FirstProperty ==
  ASSUME NEW q \in Seq(Task), Distinct(q), q # << >>
  PROVE  /\ Head(q) \in Task /\ Holds(q, Head(q))
         /\ Tail(q) \in Seq(Task)
         /\ Len(Tail(q)) = Len(q) - 1
         /\ Distinct(Tail(q))
         /\ \A u \in Task : Holds(Tail(q), u) <=> Holds(q, u) /\ u # Head(q)
<1>1. PICK pri : pri = [t \in Task |-> 0]
  BY Zenon
<1>2. pri \in [Task -> Pri]
  BY <1>1 DEF Pri
<1>3. InOrder(q, pri)
  BY <1>1 DEF InOrder
<1>4. Len(Tail(q)) = Len(q) - 1
  BY HeadTailProperties
<1> QED BY <1>2, <1>3, <1>4, TailProperty, Zenon

\* ObtainSemaphore's wait: the stale bit is cleared, and the caller sleeps.
LEMMA BlockFields ==
  ASSUME SemInv, Running, sched' = Block
  PROVE  /\ SchedInv(sched')
         /\ Asleep(sched', Me)
         /\ \A t \in Task : t # Me => Steady(sched, sched', t)
<1>0. /\ SchedInv(sched) /\ sched \in SchedState /\ Me \in Task /\ Me = sched.current
      /\ sched.recvd \in [Task -> SUBSET Sig] /\ ~sched.halted /\ sched.mask[sched.current] = {}
      /\ sched.mask \in [Task -> SUBSET Sig]
  BY FieldTypes DEF SemInv, SchedInv, Me, Running
<1>1. PICK s : s = SetSignal(sched, {}, Single)
  OBVIOUS
<1>2. SchedInv(s)
  BY <1>0, <1>1, SetSignalInv, SingleSig
<1>3. SignalsSet(sched, {}, Single, s)
  BY <1>0, <1>1, SetSignalFields, SingleSig
<1>4. /\ s.current = Me /\ ~s.halted /\ s.state = sched.state /\ s.mask = sched.mask
      /\ s.recvd[Me] \cap Single = {}
      /\ \A t \in Task : t # Me => s.recvd[t] = sched.recvd[t]
  BY <1>0, <1>3 DEF SignalsSet
<1>5. sched' = Wait(s, Single)
  BY <1>1 DEF Block
<1>6. WaitSlept(s, Single, sched')
  BY <1>2, <1>4, <1>5, SingleSig, WaitSleepsFields, Zenon
<1>7. SchedInv(sched')
  BY <1>2, <1>4, <1>5, SingleSig, WaitInv
<1>8. Asleep(sched', Me)
  BY <1>0, <1>4, <1>6 DEF WaitSlept, Asleep
<1>9. ASSUME NEW t \in Task, t # Me PROVE Steady(sched, sched', t)
  BY <1>0, <1>4, <1>6, <1>9 DEF WaitSlept, Steady, Asleep, Granted, Outside
<1> QED BY <1>7, <1>8, <1>9

\* A call that finds the semaphore taken queues its request and sleeps.
LEMMA BlockInv ==
  ASSUME SemInv, Running, NEW x \in Sem, Contended(x), sems' = Enqueue(x), sched' = Block,
         wanted' = [wanted EXCEPT ![Me] = x], held' = held
  PROVE  SemInv'
<1>0. /\ Me \in Task /\ wanted[Me] = NoSem /\ ~Holds(sems[x].queue, Me)
      /\ sems[x].owner \in Task /\ sems[x].owner # Me
  BY SemTypes, RunningIsOutside DEF Contended
<1>1. /\ SchedInv(sched') /\ Asleep(sched', Me)
      /\ \A t \in Task : t # Me => Steady(sched, sched', t)
  BY BlockFields
<1>2. /\ sems \in [Sem -> SemType] /\ wanted \in [Task -> Sem \cup {NoSem}]
      /\ RequestsSound(x) /\ OwnerSound(x)
  BY DEF SemInv, SemTypeOK
<1>3. sems[x].queue \in Seq(Task) /\ Distinct(sems[x].queue) /\ sems[x].qcount = Len(sems[x].queue) - 1
  BY <1>2, SemTypes DEF RequestsSound
<1>a. PICK q : q = Append(sems[x].queue, Me)
  BY Zenon
<1>4. /\ q \in Seq(Task) /\ q = Append(sems[x].queue, Me)
      /\ Len(q) = Len(sems[x].queue) + 1 /\ Distinct(q)
      /\ \A u \in Task : Holds(q, u) <=> u = Me \/ Holds(sems[x].queue, u)
  BY <1>0, <1>3, <1>a, AppendProperty, Zenon
<1>5. /\ sems' \in [Sem -> SemType]
      /\ \A y \in Sem : y # x => sems'[y] = sems[y]
      /\ sems'[x].owner = sems[x].owner /\ sems'[x].nest = sems[x].nest
      /\ sems'[x].queue = q /\ sems'[x].qcount = Len(q) - 1
  <2>1. PICK f : f = [sems[x] EXCEPT !.queue = q, !.qcount = sems[x].qcount + 1]
    BY Zenon
  <2>2. /\ f \in SemType /\ f.owner = sems[x].owner /\ f.nest = sems[x].nest
        /\ f.queue = q /\ f.qcount = sems[x].qcount + 1
    <3>1. sems[x].qcount + 1 \in Nat \cup {-1} /\ sems[x] \in SemType
      BY <1>2, <1>3
    <3> QED BY <1>4, <2>1, <3>1, Zenon DEF SemType
  <2>3. sems' = [sems EXCEPT ![x] = f]
    BY <1>4, <2>1, Zenon DEF Enqueue
  <2>4. sems[x].qcount + 1 = Len(q) - 1
    BY <1>3, <1>4
  <2> QED BY <1>2, <2>2, <2>3, <2>4
<1>6. /\ wanted' \in [Task -> Sem \cup {NoSem}] /\ wanted'[Me] = x
      /\ \A t \in Task : t # Me => wanted'[t] = wanted[t]
  BY <1>0, <1>2
<1>7. SemTypeOK' /\ SchedInv(sched)'
  BY <1>1, <1>5, <1>6 DEF SemInv, SemTypeOK, SchedInv
<1>8. HoldersOwn'
  BY <1>5 DEF SemInv, HoldersOwn
<1>9. ASSUME NEW y \in Sem PROVE RequestsSound(y)' /\ OwnerSound(y)'
  <2>1. CASE y # x
    BY <1>0, <1>1, <1>5, <1>6, <2>1, OtherSemKept, SemAssumption
  <2>2. CASE y = x
    <3>1. \A t \in Task : Holds(sems[x].queue, t) =>
            wanted[t] = x /\ sems[x].owner # t /\ Asleep(sched, t)
      BY <1>2 DEF RequestsSound
    <3>2. \A t \in Task : wanted[t] = x /\ ~Holds(sems[x].queue, t) =>
            sems[x].owner = t /\ sems[x].nest = 1 /\ Granted(sched, t)
      BY <1>2 DEF RequestsSound
    <3>3. \A t \in Task : Holds(q, t) => wanted'[t] = x /\ sems[x].owner # t /\ Asleep(sched', t)
      BY <1>0, <1>1, <1>4, <1>6, <3>1 DEF Steady
    <3>4. \A t \in Task : wanted'[t] = x /\ ~Holds(q, t) =>
            sems[x].owner = t /\ sems[x].nest = 1 /\ Granted(sched', t)
      BY <1>1, <1>4, <1>6, <3>2 DEF Steady
    <3>5. RequestsSound(x)'
      BY <1>4, <1>5, <3>3, <3>4 DEF RequestsSound
    <3>6. OwnerSound(x)'
      BY <1>0, <1>2, <1>5, <1>6, SemAssumption DEF OwnerSound
    <3> QED BY <2>2, <3>5, <3>6
  <2> QED BY <2>1, <2>2
<1>10. \A t \in Task : wanted'[t] = NoSem => Outside(sched', t)
  BY <1>1, <1>6, SemAssumption DEF SemInv, Steady
<1>11. \A t \in Task, y \in Sem : wanted'[t] = y => held'[t][y] = 0
  <2>1. held[Me][x] = 0
    BY <1>0, OwnerHolds, SemTypes
  <2> QED BY <1>6, <2>1 DEF SemInv
<1> QED BY <1>7, <1>8, <1>9, <1>10, <1>11 DEF SemInv

\* A blocked caller that runs again has been given the semaphore: no other bit
\* and nobody else's signal gets it out of its sleep.
LEMMA RunsOnceGranted ==
  ASSUME SemInv, ~sched.halted, NEW x \in Sem, wanted[Me] = x
  PROVE  /\ ~Holds(sems[x].queue, Me)
         /\ sems[x].owner = Me /\ sems[x].nest = 1
         /\ SIGB_SINGLE \in sched.recvd[Me] /\ sched.mask[Me] = Single
<1>1. Me \in Task /\ sched.state[Me] = "TS_RUN"
  BY SemTypes DEF SemInv, SchedInv, Placed, Me
<1> QED BY <1>1 DEF SemInv, RequestsSound, Asleep, Granted

\* It comes back from ObtainSemaphore as the holder.
LEMMA ObtainReturnsInv ==
  ASSUME SemInv, ObtainReturns
  PROVE  SemInv'
<1>0. /\ Me \in Task /\ Me = sched.current /\ ~sched.halted /\ sems' = sems
      /\ sched' = Wait(sched, Single) /\ SchedInv(sched)
      /\ sched.mask \in [Task -> SUBSET Sig] /\ sched.recvd \in [Task -> SUBSET Sig]
  BY SemTypes, FieldTypes DEF ObtainReturns, Me, SemInv, SchedInv
<1>1. PICK x \in Sem : wanted[Me] = x
  BY SemTypes DEF ObtainReturns
<1>2. /\ ~Holds(sems[x].queue, Me) /\ sems[x].owner = Me /\ sems[x].nest = 1
      /\ SIGB_SINGLE \in sched.recvd[Me] /\ sched.mask[Me] = Single
  BY <1>0, <1>1, RunsOnceGranted
<1>3. WaitReturned(sched, Single, sched')
  <2>1. sched.recvd[sched.current] \cap Single # {}
    BY <1>0, <1>2 DEF Single
  <2> QED BY <1>0, <2>1, SingleSig, WaitReturnsFields, Zenon
<1>4. SchedInv(sched')
  BY <1>0, SingleSig, WaitInv
<1>5. Outside(sched', Me) /\ \A t \in Task : t # Me => Steady(sched, sched', t)
  BY <1>0, <1>3 DEF WaitReturned, Steady, Asleep, Granted, Outside
<1>6. held' = [held EXCEPT ![Me][x] = @ + 1] /\ wanted' = [wanted EXCEPT ![Me] = NoSem]
  BY <1>1, <1>2 DEF ObtainReturns
<1>7. /\ held \in [Task -> [Sem -> 0..MaxHold]] /\ wanted \in [Task -> Sem \cup {NoSem}]
      /\ held[Me][x] = 0
  BY <1>0, <1>1 DEF SemInv, SemTypeOK
<1>8. /\ held' \in [Task -> [Sem -> 0..MaxHold]]
      /\ held'[Me][x] = 1
      /\ \A t \in Task, y \in Sem : t # Me \/ y # x => held'[t][y] = held[t][y]
  <2>1. PICK f : f = [held[Me] EXCEPT ![x] = 1]
    BY Zenon
  <2>2. 1 \in 0..MaxHold /\ held[Me] \in [Sem -> 0..MaxHold]
    BY <1>0, <1>7, SemAssumption
  <2>3. /\ f \in [Sem -> 0..MaxHold] /\ f[x] = 1
        /\ \A y \in Sem : y # x => f[y] = held[Me][y]
    BY <2>1, <2>2
  <2>4. held' = [held EXCEPT ![Me] = f]
    BY SMTT(20), <1>6, <1>7, <2>1
  <2> QED BY <1>0, <1>7, <2>3, <2>4
<1>9. /\ wanted' \in [Task -> Sem \cup {NoSem}] /\ wanted'[Me] = NoSem
      /\ \A t \in Task : t # Me => wanted'[t] = wanted[t]
  BY <1>0, <1>6, <1>7
<1>10. SemTypeOK' /\ SchedInv(sched)'
  BY <1>0, <1>4, <1>8, <1>9 DEF SemInv, SemTypeOK, SchedInv
<1>11. HoldersOwn'
  <2> SUFFICES ASSUME NEW t \in Task, NEW y \in Sem, held'[t][y] > 0
               PROVE  sems[y].owner = t /\ sems[y].nest = held'[t][y]
    BY <1>0 DEF HoldersOwn
  <2>1. CASE y = x /\ t = Me
    BY <1>2, <1>8, <2>1
  <2>2. CASE y # x \/ t # Me
    BY <1>8, <2>2, OwnerHolds
  <2> QED BY <2>1, <2>2
<1>12. ASSUME NEW y \in Sem PROVE RequestsSound(y)' /\ OwnerSound(y)'
  <2>1. CASE y # x
    BY <1>0, <1>1, <1>5, <1>8, <1>9, <2>1, OtherSemKept, SemAssumption
  <2>2. CASE y = x
    <3>1. RequestsSound(x) /\ OwnerSound(x)
      BY DEF SemInv
    <3>2. \A t \in Task : Holds(sems[x].queue, t) => t # Me
      BY <1>2
    <3>3. \A t \in Task : wanted'[t] = x => t # Me
      BY <1>9, SemAssumption
    <3>4. RequestsSound(x)'
      BY <1>0, <1>5, <1>9, <3>1, <3>2, <3>3 DEF RequestsSound, Steady
    <3>5. OwnerSound(x)'
      BY <1>0, <1>2, <1>8, SemAssumption DEF OwnerSound
    <3> QED BY <2>2, <3>4, <3>5
  <2> QED BY <2>1, <2>2
<1>13. \A t \in Task : wanted'[t] = NoSem => Outside(sched', t)
  BY <1>5, <1>9 DEF SemInv, Steady
<1>14. \A t \in Task, y \in Sem : wanted'[t] = y => held'[t][y] = 0
  BY <1>8, <1>9, SemAssumption DEF SemInv
<1> QED BY <1>10, <1>11, <1>12, <1>13, <1>14 DEF SemInv

\* The first waiter is woken, and has the wake-up; nobody else is concerned.
LEMMA HandOverSignal ==
  ASSUME SemInv, Running, NEW u \in Task, Asleep(sched, u), sched' = Signal(sched, u, Single)
  PROVE  /\ SchedInv(sched')
         /\ Granted(sched', u)
         /\ \A t \in Task : t # u => Steady(sched, sched', t)
         /\ \A t \in Task : Outside(sched, t) => Outside(sched', t)
<1>0. /\ SchedInv(sched) /\ sched.recvd \in [Task -> SUBSET Sig] /\ sched.state \in [Task -> State]
      /\ sched.wait[u] = Single /\ sched.state[u] = "TS_WAIT" /\ sched.mask[u] = Single
  BY FieldTypes DEF SemInv, SchedInv, Asleep, Wakeful
<1>1. Signalled(sched, u, Single, sched')
  BY <1>0, SingleSig, SignalFields, Zenon
<1>2. SchedInv(sched')
  BY <1>0, SingleSig, SignalInv DEF Running, Me
<1>3. ASSUME NEW t \in Task, t # u PROVE Steady(sched, sched', t)
  BY <1>0, <1>3, SingleSig, SignalSteady
<1>4. Granted(sched', u) /\ sched'.mask = sched.mask
  BY <1>0, <1>1 DEF Signalled, Granted, Single
<1> QED BY <1>2, <1>3, <1>4 DEF Outside

\* Who releases owns: what the caller's count and the semaphore's say before
\* the call, and the caller's after it.
LEMMA ReleaseHeld ==
  ASSUME SemInv, Running, NEW x \in Sem, held[Me][x] > 0,
         held' = [held EXCEPT ![Me][x] = @ - 1], NEW n, n = held[Me][x] - 1
  PROVE  /\ sems[x].owner = Me /\ sems[x].nest = n + 1 /\ n \in Nat
         /\ held' \in [Task -> [Sem -> 0..MaxHold]]
         /\ held'[Me][x] = n
         /\ \A t \in Task, y \in Sem : t # Me \/ y # x => held'[t][y] = held[t][y]
         /\ \A t \in Task : t # Me => held[t][x] = 0
<1>1. /\ held \in [Task -> [Sem -> 0..MaxHold]] /\ Me \in Task /\ held[Me][x] \in 0..MaxHold
      /\ MaxHold \in Nat
  BY SemTypes, SemAssumption DEF SemInv, SemTypeOK
<1>2. sems[x].owner = Me /\ sems[x].nest = held[Me][x]
  BY <1>1, OwnerHolds
<1>3. \A t \in Task : t # Me => held[t][x] = 0
  BY <1>2, OwnerHolds, SemTypes
<1>4. PICK f : f = [held[Me] EXCEPT ![x] = n]
  BY Zenon
<1>5. n \in 0..MaxHold /\ held[Me] \in [Sem -> 0..MaxHold]
  BY <1>1
<1>6. /\ f \in [Sem -> 0..MaxHold] /\ f[x] = n
      /\ \A y \in Sem : y # x => f[y] = held[Me][y]
  BY <1>4, <1>5
<1>7. held' = [held EXCEPT ![Me] = f]
  BY <1>1, <1>4
<1>8. /\ held' \in [Task -> [Sem -> 0..MaxHold]] /\ held'[Me][x] = n
      /\ \A t \in Task, y \in Sem : t # Me \/ y # x => held'[t][y] = held[t][y]
  BY <1>1, <1>6, <1>7
<1> QED BY <1>1, <1>2, <1>3, <1>5, <1>8

\* What a release leaves of the semaphore: owner o, nest count n, wait queue q.
Left(x, o, n, q) ==
  /\ sems' \in [Sem -> SemType]
  /\ \A y \in Sem : y # x => sems'[y] = sems[y]
  /\ sems'[x].owner = o /\ sems'[x].nest = n /\ sems'[x].queue = q
  /\ sems'[x].qcount = Len(q) - 1

\* A release ends in one of three ways: the caller still holds the semaphore,
\* its first waiter owns it, or nobody does.
Released(x, n) ==
  \/ n > 0 /\ Left(x, Me, n, sems[x].queue) /\ sched' = sched
  \/ /\ n = 0 /\ sems[x].queue # << >>
     /\ Left(x, Head(sems[x].queue), 1, Tail(sems[x].queue))
     /\ sched' = Signal(sched, Head(sems[x].queue), Single)
  \/ n = 0 /\ sems[x].queue = << >> /\ Left(x, NoTask, 0, sems[x].queue) /\ sched' = sched

\* ReleaseSemaphore does one of them.
LEMMA ReleaseCases ==
  ASSUME SemInv, Running, NEW x \in Sem, ReleaseSemaphore(x), NEW n, n = held[Me][x] - 1
  PROVE  Released(x, n)
<1> USE DEF Released
<1>1. /\ sems[x].owner = Me /\ sems[x].nest = n + 1 /\ n \in Nat
  BY ReleaseHeld, Zenon DEF ReleaseSemaphore
<1>2. /\ sems \in [Sem -> SemType] /\ sems[x] \in SemType /\ Me \in Task
      /\ sems[x].queue \in Seq(Task) /\ Distinct(sems[x].queue)
      /\ sems[x].qcount = Len(sems[x].queue) - 1
  BY SemTypes DEF SemInv, SemTypeOK, RequestsSound
<1>3. PICK q : q = sems[x].queue
  OBVIOUS
<1>4. q \in Seq(Task) /\ Distinct(q) /\ Len(q) \in Nat /\ (q # << >> => Len(q) > 0)
  BY <1>2, <1>3
<1>5. CASE n > 0
  <2>1. sems' = [sems EXCEPT ![x].nest = n] /\ sched' = sched
    BY <1>1, <1>5 DEF ReleaseSemaphore
  <2>2. PICK f : f = [sems[x] EXCEPT !.nest = n]
    BY Zenon
  <2>3. f \in SemType /\ f.owner = Me /\ f.nest = n /\ f.queue = q /\ f.qcount = sems[x].qcount
    BY <1>1, <1>2, <1>3, <2>2, Zenon DEF SemType
  <2>4. sems' = [sems EXCEPT ![x] = f]
    BY <2>1, <2>2
  <2>5. Left(x, Me, n, q)
    BY <1>2, <1>3, <2>3, <2>4 DEF Left
  <2> QED BY <1>3, <1>5, <2>1, <2>5
<1>6. CASE n = 0 /\ q # << >>
  <2>1. sems[x].queue # << >> /\ HandOver(x)
    BY <1>1, <1>3, <1>6 DEF ReleaseSemaphore
  <2>2. Head(q) \in Task /\ Tail(q) \in Seq(Task) /\ Len(Tail(q)) = Len(q) - 1
    BY <1>4, <1>6, FirstProperty, Zenon
  <2>3. sems[x].qcount - 1 \in Nat \cup {-1} /\ sems[x].qcount - 1 = Len(Tail(q)) - 1
    <3>1. PICK l \in Nat : l = Len(q)
      BY <1>4
    <3>2. l > 0 /\ sems[x].qcount = l - 1 /\ Len(Tail(q)) = l - 1
      BY <1>2, <1>3, <1>4, <1>6, <2>2, <3>1
    <3> QED BY <3>2
  <2>4. PICK f : f = [sems[x] EXCEPT !.owner = Head(q), !.nest = 1, !.queue = Tail(q),
                                     !.qcount = sems[x].qcount - 1]
    BY Zenon
  <2>5. /\ f \in SemType /\ f.owner = Head(q) /\ f.nest = 1 /\ f.queue = Tail(q)
        /\ f.qcount = sems[x].qcount - 1
    <3>1. Head(q) \in Task \cup {NoTask} /\ 1 \in Nat
      BY <2>2
    <3> QED BY <1>2, <2>2, <2>3, <2>4, <3>1, Zenon DEF SemType
  <2>6. sems' = [sems EXCEPT ![x] = f]
    BY <1>3, <2>1, <2>4, Zenon DEF HandOver
  <2>7. Left(x, Head(q), 1, Tail(q))
    BY <1>2, <2>3, <2>5, <2>6 DEF Left
  <2>8. sched' = Signal(sched, Head(q), Single)
    BY <1>3, <2>1 DEF HandOver
  <2> QED BY <1>3, <1>6, <2>7, <2>8
<1>7. CASE n = 0 /\ q = << >>
  <2>1. sems' = [sems EXCEPT ![x].nest = 0, ![x].owner = NoTask] /\ sched' = sched
    BY <1>1, <1>3, <1>7 DEF ReleaseSemaphore
  <2>2. PICK f : f = [sems[x] EXCEPT !.nest = 0, !.owner = NoTask]
    BY Zenon
  <2>3. f \in SemType /\ f.owner = NoTask /\ f.nest = 0 /\ f.queue = q /\ f.qcount = sems[x].qcount
    <3>1. 0 \in Nat /\ NoTask \in Task \cup {NoTask}
      OBVIOUS
    <3> QED BY <1>2, <1>3, <2>2, <3>1, Zenon DEF SemType
  <2>4. sems' = [sems EXCEPT ![x] = f]
    BY <2>1, <2>2, Zenon
  <2>5. Left(x, NoTask, 0, q)
    BY <1>2, <1>3, <2>3, <2>4 DEF Left
  <2> QED BY <1>3, <1>7, <2>1, <2>5
<1>8. \A k \in Nat : k > 0 \/ k = 0
  OBVIOUS
<1> QED BY <1>1, <1>3, <1>5, <1>6, <1>7, <1>8, Zenon

\* Releasing a semaphore.
LEMMA ReleaseInv ==
  ASSUME SemInv, NEW x \in Sem, ReleaseSemaphore(x)
  PROVE  SemInv'
<1>0. /\ Running /\ Me \in Task /\ wanted[Me] = NoSem /\ wanted' = wanted
      /\ \A y \in Sem : ~Holds(sems[y].queue, Me)
  BY SemTypes, RunningIsOutside DEF ReleaseSemaphore
<1>1. PICK n : n = held[Me][x] - 1
  OBVIOUS
<1>2. /\ sems[x].owner = Me /\ sems[x].nest = n + 1 /\ n \in Nat
      /\ held' \in [Task -> [Sem -> 0..MaxHold]] /\ held'[Me][x] = n
      /\ \A t \in Task, y \in Sem : t # Me \/ y # x => held'[t][y] = held[t][y]
      /\ \A t \in Task : t # Me => held[t][x] = 0
  BY <1>0, <1>1, ReleaseHeld, Zenon DEF ReleaseSemaphore
<1>3. /\ sems[x].queue \in Seq(Task) /\ Distinct(sems[x].queue)
      /\ wanted \in [Task -> Sem \cup {NoSem}] /\ SchedInv(sched)
      /\ \A t \in Task : Holds(sems[x].queue, t) => wanted[t] = x /\ Asleep(sched, t)
      /\ \A t \in Task : wanted[t] = x => Holds(sems[x].queue, t)
  <2>1. RequestsSound(x) /\ SchedInv(sched) /\ wanted \in [Task -> Sem \cup {NoSem}]
    BY DEF SemInv, SemTypeOK
  <2>2. sems[x].queue \in Seq(Task)
    BY SemTypes
  <2>3. \A t \in Task : wanted[t] = x => Holds(sems[x].queue, t)
    <3>1. \A t \in Task : wanted[t] = x /\ ~Holds(sems[x].queue, t) => sems[x].owner = t
      BY <2>1, Zenon DEF RequestsSound
    <3> QED BY <1>0, <1>2, <3>1, SemAssumption
  <2> QED BY <2>1, <2>2, <2>3, Zenon DEF RequestsSound
<1>4. \A t \in Task, y \in Sem : wanted'[t] = y => held'[t][y] = 0
  BY <1>0, <1>2, SemAssumption DEF SemInv
<1>5. ASSUME SchedInv(sched'), sems' \in [Sem -> SemType],
             \A y \in Sem : y # x => sems'[y] = sems[y],
             \A t \in Task : wanted[t] # x => Steady(sched, sched', t),
             n > 0 => sems'[x].owner = Me /\ sems'[x].nest = n,
             RequestsSound(x)', OwnerSound(x)'
      PROVE  SemInv'
  <2>1. SemTypeOK' /\ SchedInv(sched)'
    BY <1>0, <1>2, <1>3, <1>5, Zenon DEF SemTypeOK, SchedInv
  <2>2. HoldersOwn'
    <3> SUFFICES ASSUME NEW t \in Task, NEW y \in Sem, held'[t][y] > 0
                 PROVE  sems'[y].owner = t /\ sems'[y].nest = held'[t][y]
      BY DEF HoldersOwn
    <3>1. CASE y = x
      BY <1>2, <1>5, <3>1
    <3>2. CASE y # x
      BY <1>2, <1>5, <3>2, OwnerHolds
    <3> QED BY <3>1, <3>2
  <2>3. ASSUME NEW y \in Sem PROVE RequestsSound(y)' /\ OwnerSound(y)'
    <3>1. CASE y # x
      <4>1. \A t \in Task : wanted[t] = y => Steady(sched, sched', t)
        BY <1>5, <3>1
      <4> QED BY <1>0, <1>2, <1>5, <3>1, <4>1, OtherSemKept
    <3>2. CASE y = x
      BY <1>5, <3>2
    <3> QED BY <3>1, <3>2
  <2>4. \A t \in Task : wanted'[t] = NoSem => Outside(sched', t)
    BY <1>0, <1>5, SemAssumption DEF SemInv, Steady
  <2> QED BY <1>4, <2>1, <2>2, <2>3, <2>4, Zenon DEF SemInv
<1>6. CASE n > 0 /\ Left(x, Me, n, sems[x].queue) /\ sched' = sched
  <2>1. /\ sems'[x].owner = Me /\ sems'[x].nest = n /\ sems'[x].queue = sems[x].queue
        /\ sems'[x].qcount = Len(sems[x].queue) - 1
    BY <1>6 DEF Left
  <2>2. RequestsSound(x)'
    BY <1>0, <1>3, <1>6, <2>1 DEF RequestsSound
  <2>3. OwnerSound(x)'
    BY <1>0, <1>2, <1>6, <2>1, SemAssumption DEF OwnerSound
  <2>4. \A t \in Task : Steady(sched, sched', t)
    BY <1>6 DEF Steady
  <2> QED BY <1>3, <1>5, <1>6, <2>1, <2>2, <2>3, <2>4 DEF Left
<1>7. CASE /\ n = 0 /\ sems[x].queue # << >>
           /\ Left(x, Head(sems[x].queue), 1, Tail(sems[x].queue))
           /\ sched' = Signal(sched, Head(sems[x].queue), Single)
  <2>1. PICK u : u = Head(sems[x].queue)
    OBVIOUS
  <2>2. PICK q : q = Tail(sems[x].queue)
    BY Zenon
  <2>3. /\ u \in Task /\ Holds(sems[x].queue, u) /\ q \in Seq(Task) /\ Distinct(q)
        /\ \A t \in Task : Holds(q, t) <=> Holds(sems[x].queue, t) /\ t # u
    BY <1>3, <1>7, <2>1, <2>2, FirstProperty, Zenon
  <2>4. wanted[u] = x /\ Asleep(sched, u) /\ u # Me
    BY <1>0, <1>3, <2>3
  <2>5. /\ SchedInv(sched') /\ Granted(sched', u)
        /\ \A t \in Task : t # u => Steady(sched, sched', t)
    BY <1>0, <1>7, <2>1, <2>3, <2>4, HandOverSignal
  <2>6. /\ sems'[x].owner = u /\ sems'[x].nest = 1 /\ sems'[x].queue = q
        /\ sems'[x].qcount = Len(q) - 1
    BY <1>7, <2>1, <2>2 DEF Left
  <2>7. RequestsSound(x)'
    <3>1. \A t \in Task : Holds(q, t) => wanted'[t] = x /\ u # t /\ Asleep(sched', t)
      BY <1>0, <1>3, <2>3, <2>5 DEF Steady
    <3>2. \A t \in Task : wanted'[t] = x /\ ~Holds(q, t) => u = t /\ Granted(sched', t)
      BY <1>0, <1>3, <2>3, <2>5
    <3> QED BY <2>3, <2>6, <3>1, <3>2 DEF RequestsSound
  <2>8. OwnerSound(x)'
    BY <1>0, <2>3, <2>4, <2>6, SemAssumption DEF OwnerSound
  <2>9. \A t \in Task : wanted[t] # x => Steady(sched, sched', t)
    BY <2>4, <2>5
  <2> QED BY <1>5, <1>7, <2>5, <2>7, <2>8, <2>9 DEF Left
<1>8. CASE n = 0 /\ sems[x].queue = << >> /\ Left(x, NoTask, 0, sems[x].queue) /\ sched' = sched
  <2>1. /\ sems'[x].owner = NoTask /\ sems'[x].queue = sems[x].queue
        /\ sems'[x].qcount = Len(sems[x].queue) - 1
    BY <1>8 DEF Left
  <2>2. \A t \in Task : ~Holds(sems[x].queue, t)
    BY <1>8 DEF Holds
  <2>3. RequestsSound(x)'
    BY <1>0, <1>3, <2>1, <2>2 DEF RequestsSound
  <2>4. OwnerSound(x)'
    BY <1>8, <2>1 DEF OwnerSound
  <2>5. \A t \in Task : Steady(sched, sched', t)
    BY <1>8 DEF Steady
  <2> QED BY <1>3, <1>5, <1>8, <2>3, <2>4, <2>5 DEF Left
<1>9. Released(x, n)
  BY <1>0, <1>1, ReleaseCases
<1> QED BY <1>6, <1>7, <1>8, <1>9, Zenon DEF Released

-----------------------------------------------------------------------------
(* The theorems.                                                           *)

\* Every step of a semaphore call, and every other, keeps the invariant.
LEMMA SemNextInv ==
  ASSUME SIGB_SINGLE \notin SentSigs, SemInv, [SemNext]_semVars
  PROVE  SemInv'
<1>1. ASSUME NEW x \in Sem, ObtainSemaphore(x) PROVE SemInv'
  BY <1>1, TakeInv, BlockInv DEF ObtainSemaphore
<1>2. CASE UNCHANGED semVars
  <2>0. sched' = sched /\ sems' = sems /\ wanted' = wanted /\ held' = held
    BY <1>2 DEF semVars
  <2>1. SemTypeOK'
    BY <2>0 DEF SemInv, SemTypeOK
  <2>2. SchedInv(sched)' /\ HoldersOwn'
    BY <2>0 DEF SemInv, HoldersOwn
  <2>3. ASSUME NEW x \in Sem PROVE RequestsSound(x)' /\ OwnerSound(x)'
    <3>1. RequestsSound(x) /\ OwnerSound(x)
      BY DEF SemInv
    <3>2. RequestsSound(x)'
      BY <2>0, <3>1 DEF RequestsSound
    <3>3. OwnerSound(x)'
      BY <2>0, <3>1 DEF OwnerSound
    <3> QED BY <3>2, <3>3
  <2>4. /\ \A t \in Task : wanted'[t] = NoSem => Outside(sched', t)
        /\ \A t \in Task, x \in Sem : wanted'[t] = x => held'[t][x] = 0
    BY <2>0 DEF SemInv
  <2> QED BY <2>1, <2>2, <2>3, <2>4 DEF SemInv
<1>3. ASSUME NEW x \in Sem, AttemptSemaphore(x) PROVE SemInv'
  BY <1>2, <1>3, TakeInv DEF AttemptSemaphore
<1>4. ASSUME NEW x \in Sem, ReleaseSemaphore(x) PROVE SemInv'
  BY <1>4, ReleaseInv
<1>5. CASE ObtainReturns
  BY <1>5, ObtainReturnsInv
<1>6. CASE ProgramYield \/ OtherCalls
  BY <1>6, OtherCallsInv
<1> QED BY <1>1, <1>2, <1>3, <1>4, <1>5, <1>6 DEF SemNext

\* The invariant holds of every reachable state.
THEOREM SemInvariant ==
  ASSUME SIGB_SINGLE \notin SentSigs
  PROVE  SemSpec => []SemInv
<1>1. SemInv /\ [SemNext]_semVars => SemInv'
  BY SemNextInv
<1> QED BY <1>1, SemInitInv, PTL DEF SemSpec

\* Mutual exclusion: whoever came back from ObtainSemaphore is the owner, with
\* the nest count it counts itself, so no two tasks hold one semaphore.
THEOREM SemHoldersOwn ==
  ASSUME SIGB_SINGLE \notin SentSigs
  PROVE  SemSpec => []HoldersOwn
<1>1. SemInv => HoldersOwn
  BY DEF SemInv
<1> QED BY <1>1, SemInvariant, PTL

\* Every blocked ObtainSemaphore call sleeps with one request on the queue, or
\* owns the semaphore and has the wake-up that tells it so.
THEOREM SemWaitersAccounted ==
  ASSUME SIGB_SINGLE \notin SentSigs
  PROVE  SemSpec => []WaitersAccounted
<1>1. SemInv => WaitersAccounted
  <2> SUFFICES ASSUME SemInv PROVE WaitersAccounted
    OBVIOUS
  <2>1. ASSUME NEW x \in Sem
        PROVE  /\ sems[x].qcount = Len(sems[x].queue) - 1
               /\ Distinct(sems[x].queue)
               /\ sems[x].queue # << >> => sems[x].owner # NoTask
               /\ \A t \in Task :
                    /\ Holds(sems[x].queue, t) =>
                         wanted[t] = x /\ sems[x].owner # t /\ sched.state[t] = "TS_WAIT"
                    /\ wanted[t] = x /\ ~Holds(sems[x].queue, t) =>
                         sems[x].owner = t /\ sems[x].nest = 1 /\ SIGB_SINGLE \in sched.recvd[t]
               /\ sems[x].owner # NoTask => held[sems[x].owner][x] > 0 \/ wanted[sems[x].owner] = x
    <3>1. RequestsSound(x) /\ OwnerSound(x)
      BY DEF SemInv
    <3> QED BY <3>1 DEF RequestsSound, OwnerSound, Asleep, Granted
  <2> QED BY <2>1 DEF WaitersAccounted
<1> QED BY <1>1, SemInvariant, PTL

\* What a step may do to x's wait queue: nothing, unless nobody waits a new
\* owner, a request at the end, or the first waiter leaves it as the owner.
RequestStep(x, q, r) ==
  \/ r = q /\ (q = << >> \/ sems'[x].owner = sems[x].owner)
  \/ /\ \E t \in Task : ~Holds(q, t) /\ r = Append(q, t)
     /\ sems'[x].owner = sems[x].owner
  \/ q # << >> /\ r = Tail(q) /\ sems'[x].owner = Head(q)

\* Every step does one of these.
LEMMA NextRequestStep ==
  ASSUME SemInv, [SemNext]_semVars, NEW x \in Sem
  PROVE  RequestStep(x, sems[x].queue, sems'[x].queue)
<1> USE DEF RequestStep
<1>0. /\ sems \in [Sem -> SemType] /\ Me \in Task /\ sems[x] \in SemType
      /\ sems[x].queue # << >> => sems[x].owner # NoTask
  BY SemTypes DEF SemInv, SemTypeOK, OwnerSound
<1>1. ASSUME NEW y \in Sem, TakeAtOnce(y) PROVE RequestStep(x, sems[x].queue, sems'[x].queue)
  <2>1. CASE y # x
    BY <1>0, <1>1, <2>1 DEF TakeAtOnce, TakeFree, TakeNested
  <2>2. CASE y = x
    <3>1. sems'[x].queue = sems[x].queue
      BY <1>0, <1>1, <2>2 DEF TakeAtOnce, TakeFree, TakeNested, SemType
    <3>2. sems[x].owner = NoTask \/ sems'[x].owner = sems[x].owner
      BY <1>0, <1>1, <2>2 DEF TakeAtOnce, TakeFree, TakeNested, SemType
    <3> QED BY <1>0, <3>1, <3>2
  <2> QED BY <2>1, <2>2
<1>2. ASSUME NEW y \in Sem, ObtainSemaphore(y) PROVE RequestStep(x, sems[x].queue, sems'[x].queue)
  <2>1. CASE sems' = Enqueue(y)
    <3>1. CASE y # x
      BY <1>0, <2>1, <3>1 DEF Enqueue
    <3>2. CASE y = x
      <4>1. sems'[x].queue = Append(sems[x].queue, Me) /\ sems'[x].owner = sems[x].owner
        BY <1>0, <2>1, <3>2 DEF Enqueue, SemType
      <4>2. ~Holds(sems[x].queue, Me)
        BY <1>2, RunningIsOutside DEF ObtainSemaphore
      <4> QED BY <1>0, <4>1, <4>2
    <3> QED BY <3>1, <3>2
  <2> QED BY <1>1, <1>2, <2>1 DEF ObtainSemaphore
<1>3. CASE sems' = sems
  BY <1>3
<1>4. ASSUME NEW y \in Sem, AttemptSemaphore(y) PROVE RequestStep(x, sems[x].queue, sems'[x].queue)
  BY <1>1, <1>3, <1>4, Zenon DEF AttemptSemaphore, semVars
<1>5. ASSUME NEW y \in Sem, ReleaseSemaphore(y) PROVE RequestStep(x, sems[x].queue, sems'[x].queue)
  <2>1. PICK n : n = held[Me][y] - 1
    OBVIOUS
  <2>2. Released(y, n)
    BY <1>5, <2>1, ReleaseCases, Zenon DEF ReleaseSemaphore
  <2>3. CASE y # x
    BY <2>2, <2>3 DEF Released, Left
  <2>4. CASE y = x
    <3>1. sems[x].owner = Me
      BY <1>5, <2>1, <2>4, ReleaseHeld, Zenon DEF ReleaseSemaphore
    <3> QED BY <2>2, <2>4, <3>1 DEF Released, Left
  <2> QED BY <2>3, <2>4
<1> QED BY <1>2, <1>3, <1>4, <1>5, Zenon DEF SemNext, semVars, ObtainReturns, ProgramYield, OtherCalls

\* A request that comes after another stays behind it.
LEMMA NobodyOvertakes ==
  ASSUME NEW q \in Seq(Task), Distinct(q), NEW t \in Task, ~Holds(q, t), NEW r, r = Append(q, t),
         NEW k \in 1..Len(r), NEW l \in 1..Len(r), k <= l
  PROVE  ~Later(q, r[k], r[l])
<1> SUFFICES ASSUME NEW j \in DOMAIN q, q[j] = r[l], \A i \in 1..j : q[i] # r[k] PROVE FALSE
  BY DEF Later
<1>1. PICK n \in Nat : n = Len(q)
  OBVIOUS
<1>2. Len(r) = n + 1 /\ r[n + 1] = t /\ \A i \in 1..n : r[i] = q[i]
  BY <1>1, AppendProperties
<1>3. j \in 1..n /\ q[j] # t
  BY <1>1 DEF Holds
<1>4. l # n + 1
  BY <1>2, <1>3
<1>5. l \in 1..n /\ k \in 1..n /\ k <= l
  BY <1>1, <1>2, <1>4
<1>6. q[j] = q[l] /\ r[k] = q[k]
  BY <1>2, <1>5
<1>7. j = l
  BY <1>1, <1>3, <1>5, <1>6 DEF Distinct
<1>8. k \in 1..j
  BY <1>5, <1>7
<1> QED BY <1>6, <1>8

\* A semaphore is handed over in the order of the requests: nobody who came
\* later, or who never queued, overtakes.
THEOREM SemHandedOverInOrder ==
  ASSUME SIGB_SINGLE \notin SentSigs
  PROVE  SemSpec => HandedOverInOrder
<1>1. SemInv /\ SemInv' /\ [SemNext]_semVars =>
        [\A x \in Sem :
           /\ sems[x].queue # << >> /\ sems'[x].owner # sems[x].owner =>
                sems'[x].owner = Head(sems[x].queue)
           /\ \A k, l \in DOMAIN sems'[x].queue :
                Later(sems[x].queue, sems'[x].queue[k], sems'[x].queue[l]) => l < k]_semVars
  <2> SUFFICES ASSUME SemInv, SemInv', [SemNext]_semVars, NEW x \in Sem
               PROVE  /\ sems[x].queue # << >> /\ sems'[x].owner # sems[x].owner =>
                           sems'[x].owner = Head(sems[x].queue)
                      /\ \A k, l \in DOMAIN sems'[x].queue :
                           Later(sems[x].queue, sems'[x].queue[k], sems'[x].queue[l]) => l < k
    OBVIOUS
  <2>1. PICK q \in Seq(Task), r \in Seq(Task) :
          q = sems[x].queue /\ r = sems'[x].queue
    BY DEF SemInv, SemTypeOK, SemType
  <2>2. RequestStep(x, q, r) /\ Distinct(q)
    BY <2>1, NextRequestStep, Zenon DEF SemInv, RequestsSound
  <2>3. q # << >> /\ sems'[x].owner # sems[x].owner => sems'[x].owner = Head(q)
    BY <2>2 DEF RequestStep
  <2>4. ASSUME NEW k \in DOMAIN r, NEW l \in DOMAIN r, Later(q, r[k], r[l]) PROVE l < k
    <3> SUFFICES ASSUME ~(l < k) PROVE FALSE
      OBVIOUS
    <3>1. k \in 1..Len(r) /\ l \in 1..Len(r) /\ k <= l
      OBVIOUS
    <3>2. k # l
      BY <2>4, <3>1 DEF Later
    <3>3. k < l
      BY <3>1, <3>2
    <3>4. CASE r = q
      <4>1. Dropped(q, q, 0)
        BY DEF Dropped
      <4> QED BY <2>2, <2>4, <3>1, <3>3, <3>4, <4>1, DroppedKept
    <3>5. CASE q # << >> /\ r = Tail(q)
      <4>1. Dropped(q, r, 1)
        BY <3>5, HeadTailProperties DEF Dropped
      <4> QED BY <2>2, <2>4, <3>1, <3>3, <4>1, DroppedKept
    <3>6. ASSUME NEW t \in Task, ~Holds(q, t), r = Append(q, t) PROVE FALSE
      BY <2>2, <2>4, <3>1, <3>6, NobodyOvertakes
    <3> QED BY <2>2, <3>4, <3>5, <3>6 DEF RequestStep
  <2> QED BY <2>1, <2>3, <2>4
<1> QED BY <1>1, SemInvariant, PTL DEF SemSpec, HandedOverInOrder
=============================================================================
