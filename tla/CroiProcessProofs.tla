------------------------- MODULE CroiProcessProofs -------------------------
(***************************************************************************)
(* Proofs about RunCommand and exit of module CroiProcess, for every       *)
(* number of tasks and every set of exit statuses.                         *)
(***************************************************************************)
EXTENDS CroiProcess, CroiSchedProofs

-----------------------------------------------------------------------------
(* The inductive invariant.                                                *)

JoinType == [waiter : Task \cup {NoWaiter}, sig : Sig]
CallType == [child : Task \cup {NoWaiter}, sig : Sig, code : Status \cup {NoStatus}]

\* In scheduler state s, with joins j and calls c, t has no waiter, or it is
\* gone, or somebody struck its signal (k), or its waiter is inside the
\* RunCommand that started t and has not got the signal that will end it.
Joined(s, j, c, k, t) ==
  j[t].waiter # NoWaiter /\ Alive(s, t) /\ t \notin k =>
    LET w == j[t].waiter IN
    /\ c[w].child = t /\ c[w].sig = j[t].sig
    /\ j[t].sig \in s.alloc[w] /\ j[t].sig \notin s.recvd[w]
    /\ j[t].sig \in FirstUserSig..(NSig - 1)
    /\ Alive(s, w)

\* The status variable of a RunCommand holds what the child said.
Accurate(c, d) == \A t \in Task : c[t] # NoCall => c[t].code = d[t]

\* A task inside RunCommand has not ended.
Engaged(s, c) == \A t \in Task : c[t] # NoCall => Alive(s, t)

JoinInv ==
  /\ SchedInv(sched)
  /\ join \in [Task -> JoinType]
  /\ call \in [Task -> CallType]
  /\ said \in [Task -> Status \cup {NoStatus}]
  /\ Accurate(call, said)
  /\ Engaged(sched, call)
  /\ \A t \in Task : Joined(sched, join, call, struck, t)

\* And a status that went astray was the running process's, struck before.
ProcessInv ==
  /\ JoinInv
  /\ wild => Me \in struck

\* Initially nobody is waited for.
LEMMA JoinInitInv == ProcessInit => JoinInv
<1> SUFFICES ASSUME ProcessInit PROVE JoinInv
  OBVIOUS
<1>1. SchedInv(sched)
  BY InitInv DEF ProcessInit, Init
<1>2. 0 \in Sig
  BY SigAssumption DEF Sig
<1>3. NoJoin \in JoinType /\ NoCall \in CallType
  BY <1>2 DEF NoJoin, NoCall, JoinType, CallType
<1>4. /\ join \in [Task -> JoinType] /\ call \in [Task -> CallType]
      /\ said \in [Task -> Status \cup {NoStatus}]
  BY <1>3 DEF ProcessInit
<1>5. \A t \in Task : join[t].waiter = NoWaiter /\ call[t] = NoCall
  BY DEF ProcessInit, NoJoin
<1> QED BY <1>1, <1>4, <1>5 DEF JoinInv, Accurate, Engaged, Joined

-----------------------------------------------------------------------------
(* What the invariant says of the task that runs.                          *)

\* The types at hand in every step.
LEMMA ProcessTypes ==
  ASSUME JoinInv
  PROVE  /\ SchedInv(sched) /\ sched \in SchedState /\ Me \in Task
         /\ \A t \in Task : join[t].waiter \in Task \cup {NoWaiter} /\ join[t].sig \in Sig
         /\ \A t \in Task : call[t].child \in Task \cup {NoWaiter} /\ call[t].sig \in Sig
<1>1. SchedInv(sched) /\ sched \in SchedState /\ Me \in Task
  BY FieldTypes DEF JoinInv, SchedInv, Me
<1>2. \A t \in Task : join[t].waiter \in Task \cup {NoWaiter} /\ join[t].sig \in Sig
  BY DEF JoinInv, JoinType
<1>3. \A t \in Task : call[t].child \in Task \cup {NoWaiter} /\ call[t].sig \in Sig
  BY DEF JoinInv, CallType
<1> QED BY <1>1, <1>2, <1>3

\* A task that runs its program is nobody's waiter, and no two processes have
\* the same one, as long as nobody strikes their signals.
LEMMA WaitersBusy ==
  ASSUME JoinInv, NEW t \in Task, join[t].waiter # NoWaiter, Alive(sched, t), t \notin struck
  PROVE  /\ join[t].waiter \in Task
         /\ call[join[t].waiter] # NoCall
         /\ \A u \in Task : Alive(sched, u) /\ u \notin struck /\ join[u].waiter = join[t].waiter => u = t
<1>1. join[t].waiter \in Task /\ join[t].waiter # NoWaiter
  BY ProcessTypes, ProcessAssumption
<1>2. call[join[t].waiter].child = t
  BY DEF JoinInv, Joined
<1>3. NoCall.child = NoWaiter /\ t # NoWaiter
  BY ProcessAssumption DEF NoCall
<1>4. ASSUME NEW u \in Task, Alive(sched, u), u \notin struck, join[u].waiter = join[t].waiter PROVE u = t
  BY <1>1, <1>2, <1>4 DEF JoinInv, Joined
<1> QED BY <1>1, <1>2, <1>3, <1>4

\* A step that leaves a waiter, its call and its child's join alone.
LEMMA JoinedKept ==
  ASSUME JoinInv, NEW t \in Task, join'[t] = join[t], Alive(sched', t) => Alive(sched, t),
         t \in struck => t \in struck',
         join[t].waiter # NoWaiter /\ Alive(sched, t) /\ t \notin struck =>
           /\ call'[join[t].waiter] = call[join[t].waiter]
           /\ Untouched(sched, sched', join[t].waiter)
  PROVE  Joined(sched', join', call', struck', t)
<1>1. Joined(sched, join, call, struck, t)
  BY DEF JoinInv
<1> QED BY <1>1 DEF Joined, Untouched

\* A step that touches nobody and changes neither joins nor calls.
LEMMA NobodyTouched ==
  ASSUME JoinInv, SchedInv(sched'), UNCHANGED <<join, call, said, struck>>,
         \A u \in Task : Untouched(sched, sched', u)
  PROVE  JoinInv'
<1>1. ASSUME NEW t \in Task PROVE Joined(sched', join', call', struck', t)
  <2>1. join[t].waiter # NoWaiter => join[t].waiter \in Task
    BY ProcessTypes
  <2> QED BY <2>1, JoinedKept DEF Untouched
<1>2. Engaged(sched', call')
  BY DEF JoinInv, Engaged, Untouched
<1> QED BY <1>1, <1>2 DEF JoinInv

-----------------------------------------------------------------------------
(* The steps.                                                              *)

\* A launch with nobody joining.
LEMMA SpawnUserTaskInv ==
  ASSUME JoinInv, SpawnUserTask
  PROVE  JoinInv'
<1>1. PICK t \in Task, p \in Int :
        /\ sched.state[t] = "TS_INVALID"
        /\ sched' = Spawn(sched, t, p)
        /\ join' = [join EXCEPT ![t] = [waiter |-> NoWaiter, sig |-> 0]]
        /\ struck' = struck \ {t}
  BY PriAssumption, Zenon DEF SpawnUserTask, Spawned, Fresh, Allocated
<1>2. SchedInv(sched')
  BY <1>1, ProcessTypes, SpawnInv DEF SpawnUserTask, InProgram, Running
<1>3. \A u \in Task : u # t => Untouched(sched, sched', u)
  BY <1>1, ProcessTypes, SpawnEffect
<1>4. [waiter |-> NoWaiter, sig |-> 0] \in JoinType
  BY SigAssumption DEF JoinType, Sig
<1>5. UNCHANGED <<call, said>>
  BY DEF SpawnUserTask
<1>6. ASSUME NEW u \in Task PROVE Joined(sched', join', call', struck', u)
  <2>1. CASE u = t
    BY <1>1, <2>1 DEF JoinInv, Joined
  <2>2. CASE u # t
    <3>1. join'[u] = join[u]
      BY <1>1, <2>2 DEF JoinInv
    <3>2. join[u].waiter # NoWaiter /\ Alive(sched, u) /\ u \notin struck => join[u].waiter \in Task /\ join[u].waiter # t
      BY <1>1, ProcessTypes DEF JoinInv, Joined, Alive
    <3> QED BY <1>1, <1>3, <1>5, <2>2, <3>1, <3>2, JoinedKept DEF Untouched
  <2> QED BY <2>1, <2>2
<1>7. join' \in [Task -> JoinType]
  BY <1>1, <1>4 DEF JoinInv
<1>8. Engaged(sched', call')
  BY <1>1, <1>3, <1>5 DEF JoinInv, Engaged, Untouched, Alive
<1> QED BY <1>2, <1>5, <1>6, <1>7, <1>8 DEF JoinInv

\* RunCommand: the caller sleeps with a signal that is allocated and clear,
\* and the child that will send it is ready.
LEMMA RunCommandInv ==
  ASSUME JoinInv, RunCommand
  PROVE  JoinInv'
<1>0. /\ SchedInv(sched) /\ sched \in SchedState /\ Me \in Task
      /\ ~sched.halted /\ sched.mask[Me] = {} /\ call[Me] = NoCall
  BY ProcessTypes DEF RunCommand, InProgram, Running
<1>a. PICK b : b = AllocatedSig(sched, Me)
  OBVIOUS
<1>1. PICK t \in Task :
        /\ b = AllocatedSig(sched, Me) /\ b >= 0
        /\ sched.state[t] = "TS_INVALID"
        /\ sched' = Wait(Spawn(AllocSignal(sched), t, 0), {b})
        /\ join' = [join EXCEPT ![t] = [waiter |-> Me, sig |-> b]]
        /\ struck' = struck \ {t}
        /\ call' = [call EXCEPT ![Me] = [child |-> t, sig |-> b, code |-> NoStatus]]
  BY <1>a, Zenon DEF RunCommand, Spawned, Fresh, Allocated, JoinMask
<1>2. b \in FirstUserSig..(NSig - 1) /\ b \in Sig /\ {b} \in SUBSET Sig
  BY <1>0, <1>1, AllocatedSigProperty
<1>3. PICK s1 : s1 = AllocSignal(sched)
  OBVIOUS
<1>4. PICK s2 : s2 = Spawn(s1, t, 0)
  OBVIOUS
<1>5. /\ SchedInv(s1) /\ s1 \in SchedState
      /\ s1.current = Me /\ ~s1.halted /\ s1.state = sched.state
      /\ b \in s1.alloc[Me] /\ b \notin s1.recvd[Me]
      /\ \A u \in Task : u # Me => Untouched(sched, s1, u)
  <2>1. SchedInv(s1)
    BY <1>0, <1>3, AllocSignalInv DEF Me
  <2>2. s1 \in SchedState
    BY <2>1 DEF SchedInv
  <2> QED BY <1>0, <1>1, <1>3, <2>1, <2>2, AllocSignalEffect DEF Me
<1>6. /\ SchedInv(s2) /\ s2.current = Me /\ ~s2.halted
      /\ Alive(s2, t)
      /\ \A u \in Task : u # t => Untouched(s1, s2, u)
  <2>1. SchedInv(s2)
    BY <1>1, <1>4, <1>5, SpawnInv
  <2> QED BY <1>1, <1>4, <1>5, <2>1, SpawnEffect
<1>7. t # Me /\ Alive(sched, Me)
  BY <1>0, <1>1 DEF SchedInv, Placed, Me, Alive
<1>8. b \in s2.alloc[Me] /\ b \notin s2.recvd[Me]
  BY <1>0, <1>5, <1>6, <1>7 DEF Untouched
<1>9. /\ SchedInv(sched')
      /\ \A u \in Task : u # Me => Untouched(s2, sched', u)
      /\ Alive(sched', Me) /\ b \in sched'.alloc[Me] /\ b \notin sched'.recvd[Me]
  <2>1. sched' = Wait(s2, {b}) /\ {b} # {}
    BY <1>1, <1>3, <1>4
  <2>2. SchedInv(sched')
    BY <1>2, <1>6, <2>1, WaitInv
  <2>3. s2.recvd[Me] \cap {b} = {}
    BY <1>8
  <2> QED BY <1>2, <1>6, <1>8, <2>1, <2>2, <2>3, WaitEffect
<1>10. \A u \in Task : u # Me /\ u # t => Untouched(sched, sched', u)
  BY <1>5, <1>6, <1>9 DEF Untouched
<1>11. ASSUME NEW u \in Task PROVE Joined(sched', join', call', struck', u)
  <2>1. CASE u = t
    <3>1. join'[t] = [waiter |-> Me, sig |-> b]
      BY <1>1 DEF JoinInv
    <3>2. call'[Me] = [child |-> t, sig |-> b, code |-> NoStatus]
      BY <1>0, <1>1 DEF JoinInv
    <3> QED BY <1>2, <1>9, <2>1, <3>1, <3>2 DEF Joined
  <2>2. CASE u # t
    <3>1. join'[u] = join[u]
      BY <1>1, <2>2 DEF JoinInv
    <3>2. Alive(sched', u) => Alive(sched, u)
      BY <1>7, <1>10, <2>2 DEF Untouched
    <3>3. ASSUME join[u].waiter # NoWaiter, Alive(sched, u), u \notin struck
          PROVE  join[u].waiter \in Task /\ join[u].waiter # Me /\ join[u].waiter # t
      <4>1. join[u].waiter \in Task /\ join[u].waiter # Me
        BY <1>0, <3>3, WaitersBusy
      <4>2. Alive(sched, join[u].waiter)
        BY <3>3 DEF JoinInv, Joined
      <4> QED BY <1>1, <4>1, <4>2 DEF Alive
    <3>4. ASSUME join[u].waiter # NoWaiter, Alive(sched, u), u \notin struck
          PROVE  call'[join[u].waiter] = call[join[u].waiter]
      BY <1>1, <3>3, <3>4 DEF JoinInv
    <3>5. u \in struck => u \in struck'
      BY <1>1, <2>2
    <3> QED BY <1>10, <3>1, <3>2, <3>3, <3>4, <3>5, JoinedKept
  <2> QED BY <2>1, <2>2
<1>12. join' \in [Task -> JoinType] /\ call' \in [Task -> CallType]
  <2>1. [waiter |-> Me, sig |-> b] \in JoinType
    BY <1>0, <1>2 DEF JoinType
  <2>2. [child |-> t, sig |-> b, code |-> NoStatus] \in CallType
    BY <1>2 DEF CallType
  <2> QED BY <1>1, <2>1, <2>2, Zenon DEF JoinInv
<1>13. said' = [said EXCEPT ![Me] = NoStatus]
  BY DEF RunCommand
<1>14. said' \in [Task -> Status \cup {NoStatus}] /\ Accurate(call', said')
  BY <1>0, <1>1, <1>13 DEF JoinInv, Accurate
<1>15. Engaged(sched', call')
  <2>1. \A u \in Task : u # Me => call'[u] = call[u]
    BY <1>1 DEF JoinInv
  <2>2. call[t] = NoCall
    BY <1>1 DEF JoinInv, Engaged, Alive
  <2> QED BY <1>7, <1>9, <1>10, <2>1, <2>2 DEF JoinInv, Engaged, Untouched
<1> QED BY <1>9, <1>11, <1>12, <1>14, <1>15 DEF JoinInv

\* The child could not be started: the signal is free again.
LEMMA RunCommandFailsInv ==
  ASSUME JoinInv, RunCommandFails
  PROVE  JoinInv'
<1>0. /\ SchedInv(sched) /\ sched \in SchedState /\ Me \in Task
      /\ ~sched.halted /\ sched.mask[Me] = {} /\ call[Me] = NoCall
  BY ProcessTypes DEF RunCommandFails, InProgram, Running
<1>1. PICK b : b = AllocatedSig(sched, Me)
  OBVIOUS
<1>2. b >= 0 /\ sched' = FreeSignal(AllocSignal(sched), b)
  BY <1>1 DEF RunCommandFails
<1>3. b \in Sig
  BY <1>0, <1>1, <1>2, AllocatedSigProperty
<1>4. PICK s : s = AllocSignal(sched)
  OBVIOUS
<1>5. /\ SchedInv(s) /\ s \in SchedState
      /\ s.current = Me /\ ~s.halted /\ s.mask[Me] = {}
      /\ \A u \in Task : u # Me => Untouched(sched, s, u)
      /\ Alive(s, Me) <=> Alive(sched, Me)
  <2>1. SchedInv(s)
    BY <1>0, <1>4, AllocSignalInv DEF Me
  <2>2. s \in SchedState
    BY <2>1 DEF SchedInv
  <2> QED BY <1>0, <1>1, <1>2, <1>4, <2>1, <2>2, AllocSignalEffect DEF Me
<1>6. SchedInv(sched')
  BY <1>2, <1>3, <1>4, <1>5, FreeSignalInv
<1>7. /\ \A u \in Task : u # Me => Untouched(s, sched', u)
      /\ Alive(sched', Me) <=> Alive(s, Me)
  BY <1>2, <1>3, <1>4, <1>5, FreeSignalEffect
<1>8. UNCHANGED <<join, call, said, struck>>
  BY DEF RunCommandFails
<1>9. ASSUME NEW u \in Task PROVE Joined(sched', join', call', struck', u)
  <2>1. Alive(sched', u) => Alive(sched, u)
    BY <1>5, <1>7 DEF Untouched
  <2>2. ASSUME join[u].waiter # NoWaiter, Alive(sched, u), u \notin struck
        PROVE  Untouched(sched, sched', join[u].waiter)
    <3>1. join[u].waiter \in Task /\ join[u].waiter # Me
      BY <1>0, <2>2, WaitersBusy
    <3> QED BY <1>5, <1>7, <3>1 DEF Untouched
  <2> QED BY <1>8, <2>1, <2>2, JoinedKept
<1>10. Engaged(sched', call')
  BY <1>5, <1>7, <1>8 DEF JoinInv, Engaged, Untouched
<1> QED BY <1>6, <1>8, <1>9, <1>10 DEF JoinInv

\* A turn of RunCommand's wait: it returns only when its child is gone.
LEMMA RunCommandReturnsInv ==
  ASSUME JoinInv, RunCommandReturns
  PROVE  JoinInv'
<1>0. /\ SchedInv(sched) /\ sched \in SchedState /\ Me \in Task /\ ~sched.halted
      /\ call[Me].sig \in Sig /\ UNCHANGED <<join, said, struck>>
  BY ProcessTypes DEF RunCommandReturns
<1>1. PICK b \in Sig : b = call[Me].sig
  BY <1>0
<1>2. PICK s : s = Wait(sched, {b})
  OBVIOUS
<1>3. {b} \in SUBSET Sig /\ {b} # {}
  OBVIOUS
<1>4. SchedInv(s) /\ s \in SchedState
  <2>1. SchedInv(s)
    BY <1>0, <1>2, <1>3, WaitInv
  <2> QED BY <2>1 DEF SchedInv
<1>5. /\ \A u \in Task : u # Me => Untouched(sched, s, u)
      /\ Alive(s, Me) /\ s.alloc[Me] = sched.alloc[Me]
  BY <1>0, <1>2, <1>3, WaitEffect DEF Me
<1>6. Alive(sched, Me)
  BY <1>0 DEF SchedInv, Placed, Me, Alive
<1>7. CASE sched.recvd[Me] \cap {b} = {}
  <2>1. sched' = s /\ UNCHANGED call
    BY <1>1, <1>2, <1>7 DEF RunCommandReturns, JoinMask
  <2>2. s.recvd[Me] = sched.recvd[Me]
    BY <1>0, <1>2, <1>3, <1>7, WaitEffect DEF Me
  <2>3. ASSUME NEW u \in Task PROVE Joined(sched', join', call', struck', u)
    <3>1. Joined(sched, join, call, struck, u)
      BY DEF JoinInv
    <3>2. join[u].waiter # NoWaiter => join[u].waiter \in Task
      BY ProcessTypes
    <3>3. \A v \in Task : /\ Alive(s, v) <=> Alive(sched, v)
                          /\ s.alloc[v] = sched.alloc[v] /\ s.recvd[v] = sched.recvd[v]
      BY <1>5, <1>6, <2>2 DEF Untouched
    <3> QED BY <1>0, <2>1, <3>1, <3>2, <3>3 DEF Joined
  <2>4. Engaged(sched', call')
    BY <1>5, <2>1 DEF JoinInv, Engaged, Untouched
  <2> QED BY <1>0, <1>4, <2>1, <2>3, <2>4 DEF JoinInv
<1>8. CASE sched.recvd[Me] \cap {b} # {}
  <2>1. sched' = FreeSignal(s, b) /\ call' = [call EXCEPT ![Me] = NoCall]
    BY <1>1, <1>2, <1>8 DEF RunCommandReturns, JoinMask
  <2>2. s.mask[Me] = {} /\ s.current = Me /\ ~s.halted
    BY <1>0, <1>2, <1>3, <1>8, WaitEffect DEF Me
  <2>3. SchedInv(sched')
    BY <1>4, <2>1, <2>2, FreeSignalInv
  <2>4. /\ \A u \in Task : u # Me => Untouched(s, sched', u)
        /\ Alive(sched', Me) <=> Alive(s, Me)
    BY <1>4, <2>1, <2>2, FreeSignalEffect
  <2>5. ASSUME NEW u \in Task PROVE Joined(sched', join', call', struck', u)
    <3>1. Alive(sched', u) => Alive(sched, u)
      BY <1>5, <1>6, <2>4 DEF Untouched
    <3>2. ASSUME join[u].waiter # NoWaiter, Alive(sched, u), u \notin struck
          PROVE  join[u].waiter \in Task /\ join[u].waiter # Me
      <4>1. join[u].waiter \in Task
        BY <3>2, WaitersBusy
      <4>2. join[u].waiter = Me => b \notin sched.recvd[Me]
        BY <1>1, <3>2 DEF JoinInv, Joined
      <4> QED BY <1>8, <4>1, <4>2
    <3>3. ASSUME join[u].waiter # NoWaiter, Alive(sched, u), u \notin struck
          PROVE  /\ call'[join[u].waiter] = call[join[u].waiter]
                 /\ Untouched(sched, sched', join[u].waiter)
      <4>1. call'[join[u].waiter] = call[join[u].waiter]
        BY <2>1, <3>2, <3>3 DEF JoinInv
      <4> QED BY <1>5, <2>4, <3>2, <3>3, <4>1 DEF Untouched
    <3> QED BY <1>0, <3>1, <3>3, JoinedKept
  <2>6. call' \in [Task -> CallType] /\ Accurate(call', said')
    <3>1. NoCall \in CallType
      BY SigAssumption DEF NoCall, CallType, Sig
    <3> QED BY <1>0, <2>1, <3>1 DEF JoinInv, Accurate
  <2>7. Engaged(sched', call')
    <3>1. \A u \in Task : u # Me => call'[u] = call[u]
      BY <2>1 DEF JoinInv
    <3> QED BY <1>5, <2>4, <3>1 DEF JoinInv, Engaged, Untouched
  <2> QED BY <1>0, <2>3, <2>5, <2>6, <2>7 DEF JoinInv
<1> QED BY <1>7, <1>8

\* Exit with nobody waiting.
LEMMA ExitUnwaitedInv ==
  ASSUME JoinInv, sys_exit, join[Me].waiter = NoWaiter
  PROVE  JoinInv'
<1>0. /\ SchedInv(sched) /\ Me \in Task /\ ~sched.halted /\ call[Me] = NoCall
  BY ProcessTypes DEF sys_exit, InProgram, Running
<1>1. sched' = TaskExit(sched) /\ UNCHANGED <<join, call, said, struck>>
  BY DEF sys_exit, ExitSignal, Report
<1>2. SchedInv(sched')
  BY <1>0, <1>1, TaskExitInv
<1>3. ~Alive(sched', Me) /\ \A u \in Task : u # Me => Untouched(sched, sched', u)
  BY <1>0, <1>1, TaskExitEffect DEF Me
<1>4. ASSUME NEW u \in Task PROVE Joined(sched', join', call', struck', u)
  <2>1. Alive(sched', u) => Alive(sched, u)
    BY <1>3 DEF Untouched
  <2>2. ASSUME join[u].waiter # NoWaiter, Alive(sched, u), u \notin struck
        PROVE  Untouched(sched, sched', join[u].waiter)
    <3>1. join[u].waiter \in Task /\ join[u].waiter # Me
      BY <1>0, <2>2, WaitersBusy
    <3> QED BY <1>3, <3>1
  <2> QED BY <1>1, <2>1, <2>2, JoinedKept
<1>5. Engaged(sched', call')
  BY <1>0, <1>1, <1>3 DEF JoinInv, Engaged, Untouched
<1> QED BY <1>1, <1>2, <1>4, <1>5 DEF JoinInv

\* Exit with a waiter that is still inside its call.
LEMMA ExitWaitedInv ==
  ASSUME JoinInv, sys_exit, join[Me].waiter # NoWaiter
  PROVE  JoinInv'
<1>0. /\ SchedInv(sched) /\ Me \in Task /\ ~sched.halted /\ call[Me] = NoCall
      /\ sched.mask[Me] = {}
  BY ProcessTypes DEF sys_exit, InProgram, Running
<1>1. Alive(sched, Me)
  BY <1>0 DEF SchedInv, Placed, Me, Alive
<1>2. PICK w \in Task : w = join[Me].waiter
  BY <1>0, ProcessTypes
<1>3. /\ call[w].child = Me /\ join[Me].sig \in Sig
      /\ w # Me /\ call[w] # NoCall /\ Alive(sched, w)
  <2>1. call[w].child = Me /\ join[Me].sig \in Sig
    BY <1>0, <1>2, ProcessTypes DEF sys_exit, FrameGone
  <2>2. w # Me /\ call[w] # NoCall
    BY <1>0, <2>1, ProcessAssumption DEF NoCall
  <2> QED BY <2>1, <2>2 DEF JoinInv, Engaged
<1>4. PICK b \in Sig : b = join[Me].sig
  BY <1>3
<1>5. PICK e \in Status :
        /\ call' = [call EXCEPT ![w].code = e]
        /\ said' = [said EXCEPT ![w] = e]
  BY <1>2, Zenon DEF sys_exit, Report
<1>6. PICK s : s = Signal(sched, w, {b})
  OBVIOUS
<1>7. sched' = TaskExit(s) /\ UNCHANGED <<join, struck>>
  BY <1>2, <1>4, <1>6 DEF sys_exit, ExitSignal
<1>8. {b} \in SUBSET Sig /\ sched.state[w] # "TS_INVALID"
  BY <1>3 DEF Alive
<1>9. /\ SchedInv(s) /\ s.current = Me /\ ~s.halted
      /\ \A u \in Task : u # w => Untouched(sched, s, u)
      /\ Alive(s, w) <=> Alive(sched, w)
  <2>1. SchedInv(s)
    BY <1>0, <1>6, <1>8, SignalInv DEF Me
  <2> QED BY <1>0, <1>6, <1>8, <2>1, SignalEffect DEF Me
<1>10. SchedInv(sched')
  BY <1>7, <1>9, TaskExitInv
<1>11. ~Alive(sched', Me) /\ \A u \in Task : u # Me => Untouched(s, sched', u)
  BY <1>7, <1>9, TaskExitEffect
<1>12. ASSUME NEW u \in Task PROVE Joined(sched', join', call', struck', u)
  <2>1. CASE u = Me
    BY <1>11, <2>1 DEF Joined
  <2>2. CASE u # Me
    <3>1. Alive(sched', u) => Alive(sched, u)
      BY <1>9, <1>11, <2>2 DEF Untouched
    <3>2. ASSUME join[u].waiter # NoWaiter, Alive(sched, u), u \notin struck
          PROVE  join[u].waiter \in Task /\ join[u].waiter # Me /\ join[u].waiter # w
      <4>1. join[u].waiter \in Task /\ join[u].waiter # Me
        BY <1>0, <3>2, WaitersBusy
      <4>2. call[join[u].waiter].child = u
        BY <3>2 DEF JoinInv, Joined
      <4> QED BY <1>3, <2>2, <4>1, <4>2
    <3>3. ASSUME join[u].waiter # NoWaiter, Alive(sched, u), u \notin struck
          PROVE  /\ call'[join[u].waiter] = call[join[u].waiter]
                 /\ Untouched(sched, sched', join[u].waiter)
      <4>1. call'[join[u].waiter] = call[join[u].waiter]
        BY <1>5, <3>2, <3>3 DEF JoinInv
      <4> QED BY <1>9, <1>11, <3>2, <3>3, <4>1 DEF Untouched
    <3> QED BY <1>7, <3>1, <3>3, JoinedKept
  <2> QED BY <2>1, <2>2
<1>13. call' \in [Task -> CallType] /\ said' \in [Task -> Status \cup {NoStatus}]
  <2>1. [call[w] EXCEPT !.code = e] \in CallType
    BY DEF JoinInv, CallType
  <2> QED BY <1>5, <2>1 DEF JoinInv
<1>14. Accurate(call', said')
  <2>1. \A t \in Task : t # w => call'[t] = call[t] /\ said'[t] = said[t]
    BY <1>5 DEF JoinInv
  <2>2. call'[w].code = e /\ said'[w] = e
    BY <1>5 DEF JoinInv, CallType
  <2> QED BY <2>1, <2>2 DEF JoinInv, Accurate
<1>15. Engaged(sched', call')
  <2>1. \A u \in Task : u # w => call'[u] = call[u]
    BY <1>5 DEF JoinInv
  <2>2. \A u \in Task : call'[u] # NoCall => u # Me /\ Alive(sched, u)
    BY <1>0, <1>3, <2>1 DEF JoinInv, Engaged
  <2> QED BY <1>9, <1>11, <2>2 DEF Engaged, Untouched
<1> QED BY <1>7, <1>10, <1>12, <1>13, <1>14, <1>15 DEF JoinInv

\* The steps that concern no call.
LEMMA OtherStepsInv ==
  ASSUME JoinInv, ReapDeadTasks \/ ResetUserExit \/ ProcessCalls \/ ExitIntoDeadFrame
  PROVE  JoinInv'
<1>0. /\ SchedInv(sched) /\ Me \in Task /\ ~sched.halted /\ sched.mask[Me] = {}
      /\ UNCHANGED <<join, call, said>>
  BY ProcessTypes DEF ReapDeadTasks, ResetUserExit, ProcessCalls, ExitIntoDeadFrame, InProgram, Running
<1>1. CASE sched' = ReapDead(sched) /\ UNCHANGED struck
  BY <1>0, <1>1, ReapDeadInv, ReapDeadEffect, NobodyTouched
<1>2. CASE sched' = Yield(sched) /\ UNCHANGED struck
  BY <1>0, <1>2, YieldInv, YieldEffect, NobodyTouched DEF Me
<1>3. CASE sched' = sched /\ UNCHANGED struck
  BY <1>0, <1>3, NobodyTouched DEF Untouched
<1>4. ASSUME NEW t \in Task, NEW m \in SUBSET Sig, sched.state[t] # "TS_INVALID",
             sched' = Signal(sched, t, m), struck' = struck \cup Awaited(t, m)
      PROVE  JoinInv'
  <2>1. SchedInv(sched')
    BY <1>0, <1>4, SignalInv DEF Me
  <2>2. /\ \A u \in Task : u # t => Untouched(sched, sched', u)
        /\ Alive(sched', t) <=> Alive(sched, t)
        /\ sched'.alloc[t] = sched.alloc[t] /\ sched'.recvd[t] = sched.recvd[t] \cup m
    BY <1>0, <1>4, SignalEffect
  <2>3. \A v \in Task :
          /\ Alive(sched', v) <=> Alive(sched, v)
          /\ sched'.alloc[v] = sched.alloc[v]
          /\ sched'.recvd[v] = IF v = t THEN sched.recvd[v] \cup m ELSE sched.recvd[v]
    BY <2>2 DEF Untouched
  <2>4. ASSUME NEW u \in Task PROVE Joined(sched', join', call', struck', u)
    <3>1. Joined(sched, join, call, struck, u)
      BY DEF JoinInv
    <3>2. join[u].waiter # NoWaiter => join[u].waiter \in Task
      BY ProcessTypes
    <3>3. u \notin struck' /\ Alive(sched, u) =>
            u \notin struck /\ (join[u].waiter = t => join[u].sig \notin m)
      BY <1>4 DEF Awaited, Alive
    <3> QED BY <1>0, <2>3, <3>1, <3>2, <3>3 DEF Joined
  <2>5. Engaged(sched', call')
    BY <1>0, <2>3 DEF JoinInv, Engaged
  <2> QED BY <1>0, <2>1, <2>4, <2>5 DEF JoinInv
<1>5. CASE ProcessCalls
  BY <1>2, <1>4, <1>5 DEF ProcessCalls, Allocated
<1> QED BY <1>1, <1>3, <1>5 DEF ReapDeadTasks, ResetUserExit, ExitIntoDeadFrame

\* A status goes astray only when its writer's signal was struck; and that is
\* the last thing that happens.
LEMMA WildInv ==
  ASSUME ProcessInv, ProcessNext
  PROVE  wild' => Me' \in struck'
<1>1. CASE ExitIntoDeadFrame
  <2>1. JoinInv /\ Me \in Task /\ Alive(sched, Me) /\ ~sched.halted
    BY <1>1, ProcessTypes DEF ProcessInv, ExitIntoDeadFrame, InProgram, Running, SchedInv, Placed, Me, Alive
  <2>2. Me \in struck
    BY <1>1, <2>1 DEF JoinInv, Joined, ExitIntoDeadFrame, FrameGone
  <2> QED BY <1>1, <2>2 DEF ExitIntoDeadFrame, Me
<1>2. CASE ~ExitIntoDeadFrame
  BY <1>2 DEF ProcessNext, SpawnUserTask, RunCommand, RunCommandFails, RunCommandReturns, sys_exit,
              ReapDeadTasks, ResetUserExit, ProcessCalls, InProgram
<1> QED BY <1>1, <1>2

\* Every step preserves the invariant.
LEMMA ProcessNextInv == ProcessInv /\ [ProcessNext]_processVars => ProcessInv'
<1> SUFFICES ASSUME ProcessInv, [ProcessNext]_processVars PROVE ProcessInv'
  OBVIOUS
<1>0. JoinInv
  BY DEF ProcessInv
<1>1. CASE UNCHANGED processVars
  <2>1. JoinInv'
    BY <1>0, <1>1, NobodyTouched DEF processVars, JoinInv, Untouched
  <2> QED BY <1>1, <2>1 DEF processVars, ProcessInv, Me
<1>2. CASE ProcessNext
  <2>1. sys_exit => JoinInv'
    BY <1>0, ExitWaitedInv, ExitUnwaitedInv
  <2>2. JoinInv'
    BY <1>0, <1>2, <2>1, SpawnUserTaskInv, RunCommandInv, RunCommandFailsInv, RunCommandReturnsInv,
       OtherStepsInv DEF ProcessNext
  <2> QED BY <1>2, <2>2, WildInv DEF ProcessInv
<1> QED BY <1>1, <1>2

\* The invariant holds in every state, whatever signals programs send.
THEOREM ProcessInvariant == ProcessSpec => []ProcessInv
<1>1. ProcessInit => ProcessInv
  BY JoinInitInv DEF ProcessInit, ProcessInv
<1> QED BY <1>1, ProcessNextInv, PTL DEF ProcessSpec

\* While a process with a waiter runs, and nobody else has sent the waiter the
\* bit the process was given, the waiter is inside the RunCommand that started
\* it: the status that sys_exit writes lands in a variable that is still there,
\* and what RunCommand finds there is what its child passed.  Programs may send
\* each other any signals; a status is written into a frame that is gone only
\* by a process whose bit somebody else sent.
THEOREM WaitersWait == ProcessSpec => []WaiterIsWaiting
<1>1. ProcessInv => WaiterIsWaiting
  BY DEF ProcessInv, JoinInv, Accurate, Joined, Alive, WaiterIsWaiting
<1> QED BY <1>1, ProcessInvariant, PTL
=============================================================================
