---------------------------- MODULE CroiProcess ----------------------------
(***************************************************************************)
(* User processes: Croi_SpawnUserTask and Croi_SpawnUserProc with their    *)
(* failure paths (src/croi/sched/sched.c), sys_exit (src/croi/syscall/     *)
(* syscall.c), the join of RunCommand (src/logaic/dos/loadseg.c) and the   *)
(* reaping of dead tasks, over the scheduler.                              *)
(*                                                                         *)
(*   join     exit_waiter and exit_waiter_sig of each process (waiter      *)
(*            NoWaiter when it has none)                                     *)
(*   call     per task, the RunCommand call it is inside of: the child and *)
(*            `code`, the variable of the caller's that the child's status *)
(*            is written to; NoCall outside                                *)
(*   said     per task inside RunCommand, what its child passed to         *)
(*            sys_exit                                                     *)
(*   flag     g_user_exited and g_user_exit_status                         *)
(*   struck   the processes whose exit signal somebody else has sent to    *)
(*            their waiter                                                 *)
(*   wild     whether a status was written into a stack frame that is gone *)
(*            (what happens after that is anybody's guess: the model stops)*)
(***************************************************************************)
EXTENDS CroiSched

CONSTANTS
  Status,   \* the exit statuses of programs
  NoWaiter,   \* exit_waiter == nullptr
  NoStatus  \* not yet exited; -1, the initial value of `code`

ASSUME ProcessAssumption == NoWaiter \notin Task /\ NoStatus \notin Status

VARIABLES join, call, said, flag, struck, wild

processVars == <<sched, join, call, said, flag, struck, wild>>

NoCall == [child |-> NoWaiter, sig |-> 0, code |-> NoStatus]
NoJoin == [waiter |-> NoWaiter, sig |-> 0]

ProcessInit ==
  /\ sched = InitSched
  /\ join = [t \in Task |-> NoJoin]
  /\ call = [t \in Task |-> NoCall]
  /\ said = [t \in Task |-> NoStatus]
  /\ flag = [exited |-> FALSE, status |-> NoStatus]
  /\ struck = {} /\ wild = FALSE

InProgram == Running /\ ~wild /\ call[Me] = NoCall

-----------------------------------------------------------------------------
(* Spawning.  What a task is made of (control block, stack, handle table,   *)
(* page table) is abstracted; a spawn that cannot get it changes nothing   *)
(* that is modelled here.                                                  *)

Fresh == Task \ Allocated

Spawned(s, t, waiter, sig) ==
  /\ sched' = s
  /\ join' = [join EXCEPT ![t] = [waiter |-> waiter, sig |-> sig]]
  /\ struck' = struck \ {t}

\* A launch from the kernel, with nobody joining.
SpawnUserTask ==
  /\ InProgram /\ Me = Boot
  /\ \E t \in Fresh, p \in PriArg :
       Spawned(Spawn(sched, t, p), t, NoWaiter, 0)
  /\ UNCHANGED <<call, said, flag, wild>>

-----------------------------------------------------------------------------
(* RunCommand: allocate a signal, spawn the child at priority 0, wait for  *)
(* the signal.                                                             *)

\* Mutant of JoinMask: the caller also lets the single-shot signal wake it.
JoinMaskAndSingle(sig) == {sig, SIGB_SINGLE}

JoinMask(sig) == {sig}

RunCommand ==
  /\ InProgram
  /\ LET sig == AllocatedSig(sched, Me) IN
     /\ sig >= 0
     /\ \E t \in Fresh :
          /\ Spawned(Wait(Spawn(AllocSignal(sched), t, 0), JoinMask(sig)), t, Me, sig)
          /\ call' = [call EXCEPT ![Me] = [child |-> t, sig |-> sig, code |-> NoStatus]]
  /\ said' = [said EXCEPT ![Me] = NoStatus]
  /\ UNCHANGED <<flag, wild>>

\* The child cannot be started: the signal is given back.
RunCommandFails ==
  /\ InProgram
  /\ LET sig == AllocatedSig(sched, Me)
     IN  sig >= 0 /\ sched' = FreeSignal(AllocSignal(sched), sig)
  /\ UNCHANGED <<join, call, said, flag, struck, wild>>

\* The signal is there, whoever sent it: free it, and return `code`.
RunCommandReturns ==
  /\ ~sched.halted /\ ~wild /\ call[Me] # NoCall
  /\ LET c == call[Me]
         w == Wait(sched, JoinMask(c.sig))
     IN  IF sched.recvd[Me] \cap JoinMask(c.sig) = {}
         THEN sched' = w /\ UNCHANGED call
         ELSE /\ sched' = FreeSignal(w, c.sig)
              /\ call' = [call EXCEPT ![Me] = NoCall]
  /\ UNCHANGED <<join, said, flag, struck, wild>>

-----------------------------------------------------------------------------
(* Exit and reaping.                                                       *)

\* The status goes to the waiter's variable, or else to the global flag.
Report(e) ==
  IF join[Me].waiter = NoWaiter
  THEN flag' = [exited |-> TRUE, status |-> e] /\ UNCHANGED call
  ELSE call' = [call EXCEPT ![join[Me].waiter].code = e] /\ UNCHANGED flag

\* Mutant of ExitSignal: the waiter is not woken.
NoExitSignal(j) == sched

\* The waiter, if there is one, is signalled before the task is gone.
ExitSignal(j) == IF j.waiter = NoWaiter THEN sched ELSE Signal(sched, j.waiter, {j.sig})

\* The variable that the status goes to is on the stack of a waiter that has
\* returned from RunCommand.
FrameGone == join[Me].waiter # NoWaiter /\ call[join[Me].waiter].child # Me

sys_exit ==
  /\ InProgram /\ Me # Boot /\ ~FrameGone
  /\ \E e \in Status :
       /\ Report(e)
       /\ said' = IF join[Me].waiter = NoWaiter THEN said
                  ELSE [said EXCEPT ![join[Me].waiter] = e]
  /\ sched' = TaskExit(ExitSignal(join[Me]))
  /\ UNCHANGED <<join, struck, wild>>

\* The same, and the status overwrites part of a stack that is in use.
ExitIntoDeadFrame ==
  /\ InProgram /\ Me # Boot /\ FrameGone
  /\ wild' = TRUE
  /\ UNCHANGED <<sched, join, call, said, flag, struck>>

\* Sched_ReapDead takes the dead tasks off their list and frees them.
ReapDeadTasks ==
  /\ InProgram /\ Me = Boot
  /\ sched.dead # {}
  /\ sched' = ReapDead(sched)
  /\ UNCHANGED <<join, call, said, flag, struck, wild>>

\* Croi_Syscall_ResetUserExit, before a launch.
ResetUserExit ==
  /\ InProgram /\ Me = Boot
  /\ flag' = [exited |-> FALSE, status |-> NoStatus]
  /\ UNCHANGED <<sched, join, call, said, struck, wild>>

\* The processes whose exit t waits for with one of the signals m.
Awaited(t, m) ==
  {c \in Task : join[c].waiter = t /\ join[c].sig \in m /\ sched.state[c] \in {"TS_RUN", "TS_READY", "TS_WAIT"}}

\* Programs yield, and send each other any signals they like.

ProcessCalls ==
  /\ InProgram
  /\ \/ sched' = Yield(sched) /\ UNCHANGED struck
     \/ \E t \in Allocated, m \in SUBSET Sig :
          sched' = Signal(sched, t, m) /\ struck' = struck \cup Awaited(t, m)
  /\ UNCHANGED <<join, call, said, flag, wild>>

ProcessNext ==
  \/ SpawnUserTask \/ RunCommand \/ RunCommandFails \/ RunCommandReturns
  \/ sys_exit \/ ExitIntoDeadFrame \/ ReapDeadTasks \/ ResetUserExit \/ ProcessCalls

ProcessSpec == ProcessInit /\ [][ProcessNext]_processVars

-----------------------------------------------------------------------------
(* Properties.                                                             *)

\* As long as a process with a waiter runs, its waiter is inside the
\* RunCommand call that started it, so that the variable it will write its
\* status to is still on the waiter's stack, and neither that call nor a later
\* one can end before the process does: its signal is allocated and clear.
\* What is in the variable is what the child passed to exit.  Signals of every
\* kind fly about meanwhile; the one thing excepted is that somebody sends the
\* waiter the very bit the child was given (struck).  Without that no status
\* is ever written into a frame that is gone.
WaiterIsWaiting ==
  /\ \A t \in Task :
       /\ call[t] # NoCall => call[t].code = said[t]
       /\ join[t].waiter # NoWaiter /\ t \notin struck
          /\ sched.state[t] \in {"TS_RUN", "TS_READY", "TS_WAIT"} =>
            LET w == join[t].waiter IN
            /\ call[w].child = t
            /\ call[w].sig = join[t].sig
            /\ join[t].sig \in sched.alloc[w] \ sched.recvd[w]
            /\ sched.state[w] \notin {"TS_REMOVED", "TS_INVALID"}
  /\ wild => Me \in struck

\* Every RunCommand returns, when the processes it waits for exit; except that
\* a boot task which was woken before its child ended (struck) outranks the
\* processes and need never sleep again.
RunCommandEnds ==
  \A t \in Task :
    call[t] # NoCall ~> \/ call[t] = NoCall
                        \/ wild
                        \/ \E c \in struck : join[c].waiter = Boot

\* RunCommand "blocks on the child's exit ... and returns its exit status"
\* (the comment above Croi_Dos_RunCommand_Impl): when it returns, the child has
\* passed a status to exit.
BlocksOnExit ==
  [][\A t \in Task : call[t] # NoCall /\ call'[t] = NoCall => said[t] # NoStatus]_processVars
=============================================================================
