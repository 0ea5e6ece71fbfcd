--------------------------- MODULE CroiSemaphore ---------------------------
(***************************************************************************)
(* Signal semaphores (src/croi/exec_lib/sem.c) over the scheduler.         *)
(*                                                                         *)
(*   sems     per semaphore: ss_Owner, ss_NestCount, ss_WaitQueue (the     *)
(*            ssr_Waiter of each request) and ss_QueueCount                *)
(*   wanted   the semaphore whose ObtainSemaphore call a task is blocked   *)
(*            inside of, or NoSem                                          *)
(*   held     how often each task obtained each semaphore and has not yet  *)
(*            released it, as the task itself counts: the callers' view,   *)
(*            which the properties compare with the semaphore's            *)
(*                                                                         *)
(* Callers keep the contract of the calls: they release only what they     *)
(* hold and exit holding nothing.  Besides, they make the scheduler calls  *)
(* of CroiSched: spawn, yield, exit, change priority, signal and wait.     *)
(***************************************************************************)
EXTENDS CroiSched

CONSTANTS
  Sem,        \* the semaphores
  NoTask,     \* ss_Owner == nullptr
  NoSem,      \* in no ObtainSemaphore call
  SentSigs,   \* the bits that programs pass to Signal
  MaxHold     \* bound on nested obtains of one semaphore by its owner

ASSUME SemAssumption ==
  /\ NoTask \notin Task
  /\ NoSem \notin Sem
  /\ SentSigs \subseteq Sig
  /\ MaxHold \in Nat \ {0}

VARIABLES sems, wanted, held

semVars == <<sched, sems, wanted, held>>

Single == {SIGB_SINGLE}

\* The bits a program waits on are its own.
UserMasks == (SUBSET (FirstUserSig..(NSig - 1))) \ {{}}

InitSemaphore == [owner |-> NoTask, nest |-> 0, queue |-> << >>, qcount |-> -1]

SemInit ==
  /\ sched = InitSched
  /\ sems = [x \in Sem |-> InitSemaphore]
  /\ wanted = [t \in Task |-> NoSem]
  /\ held = [t \in Task |-> [x \in Sem |-> 0]]

-----------------------------------------------------------------------------
(* The first two cases of ObtainSemaphore are all of AttemptSemaphore.     *)

TakeFree(x) ==
  /\ sems[x].owner = NoTask
  /\ sems' = [sems EXCEPT ![x].owner = Me, ![x].nest = 1]

TakeNested(x) ==
  /\ sems[x].owner = Me
  /\ sems' = [sems EXCEPT ![x].nest = @ + 1]

TakeAtOnce(x) ==
  /\ TakeFree(x) \/ TakeNested(x)
  /\ held' = [held EXCEPT ![Me][x] = @ + 1]
  /\ UNCHANGED <<sched, wanted>>

Contended(x) == sems[x].owner \notin {NoTask, Me}

Enqueue(x) == [sems EXCEPT ![x].queue = Append(@, Me), ![x].qcount = @ + 1]

\* Clear any stale single-shot, then sleep until the releaser's.
Block == Wait(SetSignal(sched, {}, Single), Single)

ObtainSemaphore(x) ==
  /\ Running
  /\ held[Me][x] < MaxHold
  /\ \/ TakeAtOnce(x)
     \/ /\ Contended(x)
        /\ sems' = Enqueue(x)
        /\ sched' = Block
        /\ wanted' = [wanted EXCEPT ![Me] = x]
        /\ UNCHANGED held

\* The blocked caller runs again inside Croi_Wait: with its bit set the call
\* returns to the program, which takes itself for the owner.
ObtainReturns ==
  /\ ~sched.halted
  /\ wanted[Me] # NoSem
  /\ sched' = Wait(sched, Single)
  /\ IF SIGB_SINGLE \in sched.recvd[Me]
     THEN /\ held' = [held EXCEPT ![Me][wanted[Me]] = @ + 1]
          /\ wanted' = [wanted EXCEPT ![Me] = NoSem]
     ELSE UNCHANGED <<held, wanted>>
  /\ UNCHANGED sems

AttemptSemaphore(x) ==
  /\ Running
  /\ held[Me][x] < MaxHold
  /\ \/ TakeAtOnce(x)
     \/ Contended(x) /\ UNCHANGED semVars

\* Mutant of HandOver: the semaphore is freed and the first waiter is woken
\* to try again, but its request has left the queue.
HandOverFree(x) ==
  /\ sems' = [sems EXCEPT ![x].owner = NoTask, ![x].nest = 0,
                          ![x].queue = Tail(@), ![x].qcount = @ - 1]
  /\ sched' = Signal(sched, Head(sems[x].queue), Single)

\* Mutant of HandOver: the new owner is never signalled.
HandOverSilent(x) ==
  /\ sems' = [sems EXCEPT ![x].owner = Head(sems[x].queue), ![x].nest = 1,
                          ![x].queue = Tail(@), ![x].qcount = @ - 1]
  /\ UNCHANGED sched

\* The first waiter becomes the owner before it runs again.
HandOver(x) ==
  /\ sems' = [sems EXCEPT ![x].owner = Head(sems[x].queue), ![x].nest = 1,
                          ![x].queue = Tail(@), ![x].qcount = @ - 1]
  /\ sched' = Signal(sched, Head(sems[x].queue), Single)

ReleaseSemaphore(x) ==
  /\ Running
  /\ held[Me][x] > 0
  /\ LET nest == IF sems[x].nest > 0 THEN sems[x].nest - 1 ELSE 0
     IN  \/ /\ nest # 0
            /\ sems' = [sems EXCEPT ![x].nest = nest]
            /\ UNCHANGED sched
         \/ /\ nest = 0
            /\ sems[x].queue # << >>
            /\ HandOver(x)
         \/ /\ nest = 0
            /\ sems[x].queue = << >>
            /\ sems' = [sems EXCEPT ![x].nest = 0, ![x].owner = NoTask]
            /\ UNCHANGED sched
  /\ held' = [held EXCEPT ![Me][x] = @ - 1]
  /\ UNCHANGED wanted

-----------------------------------------------------------------------------
(* What the programs do besides.                                           *)

NothingHeld == \A x \in Sem : held[Me][x] = 0

ProgramYield == DoYield /\ UNCHANGED <<sems, wanted, held>>

OtherCalls ==
  /\ \/ DoSpawn \/ DoReapDead \/ DoSetSelfPriority
     \/ NothingHeld /\ DoTaskExit
     \/ /\ Running
        /\ \E t \in Allocated, b \in SentSigs : sched' = Signal(sched, t, {b})
     \/ /\ Running
        /\ \E m \in UserMasks : sched' = Wait(sched, m)
     \/ wanted[Me] = NoSem /\ ResumeWait
  /\ UNCHANGED <<sems, wanted, held>>

SemNext ==
  \/ \E x \in Sem : ObtainSemaphore(x) \/ AttemptSemaphore(x) \/ ReleaseSemaphore(x)
  \/ ObtainReturns
  \/ ProgramYield
  \/ OtherCalls

SemSpec == SemInit /\ [][SemNext]_semVars

-----------------------------------------------------------------------------
(* Properties.                                                             *)

SemType == [owner : Task \cup {NoTask}, nest : Nat, queue : Seq(Task),
            qcount : Nat \cup {-1}]

\* The semaphores, the callers and the scheduler have their types.
SemTypeOK ==
  /\ sched \in SchedState
  /\ sems \in [Sem -> SemType]
  /\ wanted \in [Task -> Sem \cup {NoSem}]
  /\ held \in [Task -> [Sem -> 0..MaxHold]]

\* Mutual exclusion, as the callers see it: a task that came back from
\* ObtainSemaphore (or a successful AttemptSemaphore) is the owner, its nest
\* count is the number of releases it still owes, and so nobody else holds it.
HoldersOwn ==
  \A t \in Task, x \in Sem :
    held[t][x] > 0 => sems[x].owner = t /\ sems[x].nest = held[t][x]

\* Every blocked ObtainSemaphore call is accounted for: its task either has one
\* request on the wait queue and sleeps (so that an owner of lower priority
\* can run), or was given the semaphore and has the wake-up that tells it so;
\* the queue holds nothing else, and ss_QueueCount is its length less one.
WaitersAccounted ==
  \A x \in Sem :
    LET s == sems[x] IN
    /\ s.qcount = Len(s.queue) - 1
    /\ Distinct(s.queue)
    /\ s.queue # << >> => s.owner # NoTask
    /\ \A t \in Task :
         /\ Holds(s.queue, t) =>
              wanted[t] = x /\ s.owner # t /\ sched.state[t] = "TS_WAIT"
         /\ wanted[t] = x /\ ~Holds(s.queue, t) =>
              s.owner = t /\ s.nest = 1 /\ SIGB_SINGLE \in sched.recvd[t]
    /\ s.owner # NoTask => held[s.owner][x] > 0 \/ wanted[s.owner] = x

\* A semaphore is handed over in the order of the requests: whoever gets it
\* while others wait was the first of them, and nobody who came later, or who
\* never queued, overtakes.
HandedOverInOrder ==
  [][\A x \in Sem :
       /\ sems[x].queue # << >> /\ sems'[x].owner # sems[x].owner =>
            sems'[x].owner = Head(sems[x].queue)
       /\ \A k, l \in DOMAIN sems'[x].queue :
            Later(sems[x].queue, sems'[x].queue[k], sems'[x].queue[l]) => l < k]_semVars
=============================================================================
