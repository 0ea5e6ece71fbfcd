----------------------------- MODULE CroiDevice -----------------------------
(***************************************************************************)
(* Device I/O (src/croi/exec_lib/device.c and src/croi/device/) over the   *)
(* message ports.  Requests run synchronously inside DoIO and SendIO; the  *)
(* one command that takes time, TR_ADDREQUEST, polls the clock and yields. *)
(*                                                                         *)
(*   io     per request: bound (io_Device is set), error, quick            *)
(*   doing  where each program is: "idle", inside the poll of a request    *)
(*          or inside a WaitPort on its reply port                         *)
(*   owed   the requests a program passed to SendIO and did not yet take   *)
(*          back with GetMsg                                               *)
(*   clock  Croi_Time_Now                                                  *)
(*                                                                         *)
(* A request is its message; ReplyPort[io] names its task.                 *)
(***************************************************************************)
EXTENDS CroiMsgPort, FiniteSets

CONSTANTS
  MaxOwed,   \* how many requests a program keeps outstanding
  MaxClock,  \* bound on the clock
  Delay      \* the duration of a timer request

ASSUME DeviceAssumption ==
  /\ MaxOwed \in Nat
  /\ MaxClock \in Nat
  /\ Delay \in Nat

VARIABLES replyPorts, io, doing, owed, clock

deviceVars == <<sched, replyPorts, io, doing, owed, clock>>

Machine == [s |-> sched, p |-> replyPorts]
Enter(w) == sched' = w.s /\ replyPorts' = w.p

User == {ReplyPort[r] : r \in Message}
Mine == {r \in Message : ReplyPort[r] = Me}

Idle == [where |-> "idle"]
AtRest == Running /\ Me \in User /\ doing[Me] = Idle

DeviceInit ==
  /\ sched = InitSched
  /\ replyPorts = [t \in Task |-> NoPort]
  /\ io = [r \in Message |-> [bound |-> FALSE, error |-> 0, quick |-> FALSE]]
  /\ doing = [t \in Task |-> Idle]
  /\ owed = [t \in Task |-> {}]
  /\ clock = 0

-----------------------------------------------------------------------------
(* Opening and closing.  A request for a device that is not in the         *)
(* registry stays as it was; one whose device's open function fails is     *)
(* left unbound.                                                           *)

OpenDevice ==
  /\ AtRest
  /\ \E r \in Mine \ owed[Me], outcome \in {"opens", "fails", "not found"} :
       io' = [io EXCEPT ![r].bound = IF outcome = "not found" THEN @ ELSE outcome = "opens",
                        ![r].error = IF outcome = "opens" THEN 0 ELSE -1]
  /\ UNCHANGED <<sched, replyPorts, doing, owed, clock>>

CloseDevice ==
  /\ AtRest
  /\ \E r \in Mine \ owed[Me] : io' = [io EXCEPT ![r].bound = FALSE]
  /\ UNCHANGED <<sched, replyPorts, doing, owed, clock>>

CreatesPort ==
  /\ AtRest /\ ~replyPorts[Me].open
  /\ Enter(CreateMsgPort(Machine))
  /\ UNCHANGED <<io, doing, owed, clock>>

-----------------------------------------------------------------------------
(* BeginIO: a command either runs at once (with or without an error) or is *)
(* a timer request, which polls.                                           *)

\* Mutant of AfterSend: only a request that failed is replied.
AfterSendOnError(w, r) ==
  IF w.p[ReplyPort[r]].open /\ io[r].error # 0 THEN ReplyMsg(w, r) ELSE w

\* SendIO replies when BeginIO is done, if there is a reply port.
AfterSend(w, r) == IF w.p[ReplyPort[r]].open THEN ReplyMsg(w, r) ELSE w

\* A timer request, within the bound on the clock.
Polls(r) ==
  /\ clock + Delay <= MaxClock
  /\ doing' = [doing EXCEPT ![Me] = [where |-> "poll", request |-> r, till |-> clock + Delay]]

Started(r, quick, error) ==
  io' = [io EXCEPT ![r].error = error, ![r].quick = quick]

DoIO ==
  /\ AtRest
  /\ \E r \in Mine \ owed[Me] :
       /\ io[r].bound
       /\ \/ /\ \E e \in {0, -3} : Started(r, TRUE, e)
             /\ UNCHANGED doing
          \/ /\ Started(r, TRUE, 0)
             /\ Polls(r)
  /\ UNCHANGED <<sched, replyPorts, owed, clock>>

\* A program sends a request that it has back, and only with a port to get
\* it back through.
SendIO ==
  /\ AtRest /\ replyPorts[Me].open
  /\ \E r \in Mine \ owed[Me] :
       /\ Cardinality(owed[Me]) < MaxOwed
       /\ io[r].bound
       /\ owed' = [owed EXCEPT ![Me] = @ \cup {r}]
       /\ \/ /\ \E e \in {0, -3} : Started(r, FALSE, e)
             /\ Enter(AfterSend(Machine, r))
             /\ UNCHANGED doing
          \/ /\ Started(r, FALSE, 0)
             /\ Polls(r)
             /\ UNCHANGED <<sched, replyPorts>>
  /\ UNCHANGED clock

\* while (Croi_Time_Now() < deadline) Croi_Yield();
Poll ==
  /\ Running /\ doing[Me].where = "poll"
  /\ IF clock < doing[Me].till
     THEN sched' = Yield(sched) /\ UNCHANGED <<replyPorts, doing>>
     ELSE /\ doing' = [doing EXCEPT ![Me] = Idle]
          /\ IF io[doing[Me].request].quick THEN UNCHANGED <<sched, replyPorts>>
             ELSE Enter(AfterSend(Machine, doing[Me].request))
  /\ UNCHANGED <<io, owed, clock>>

-----------------------------------------------------------------------------
(* Taking a request back: WaitPort, then GetMsg.                           *)

StartsWaitPort ==
  /\ AtRest
  /\ owed[Me] # {}
  /\ doing' = [doing EXCEPT ![Me] = [where |-> "waitport"]]
  /\ UNCHANGED <<sched, replyPorts, io, owed, clock>>

GetsMsg ==
  /\ ~sched.halted
  /\ doing[Me].where = "waitport"
  /\ LET w == WaitPort(Machine, Me) IN
     IF replyPorts[Me].sig \notin sched.recvd[Me]
     THEN Enter(w) /\ UNCHANGED <<owed, doing>>
     ELSE /\ doing' = [doing EXCEPT ![Me] = Idle]
          /\ IF replyPorts[Me].ring = << >> THEN Enter(w) /\ UNCHANGED owed
             ELSE /\ Enter(GetMsg(w, Me))
                  /\ owed' = [owed EXCEPT ![Me] = @ \ {Head(replyPorts[Me].ring)}]
  /\ UNCHANGED <<io, clock>>

-----------------------------------------------------------------------------
(* The rest of the machine.                                                *)

StartUser ==
  /\ Running /\ Me = Boot
  /\ \E t \in User \ Allocated, p \in PriArg : sched' = Spawn(sched, t, p)
  /\ UNCHANGED <<replyPorts, io, doing, owed, clock>>

UserYields ==
  /\ doing[Me] = Idle
  /\ DoYield
  /\ UNCHANGED <<replyPorts, io, doing, owed, clock>>

Tick ==
  /\ clock < MaxClock
  /\ clock' = clock + 1
  /\ UNCHANGED <<sched, replyPorts, io, doing, owed>>

DeviceNext ==
  \/ OpenDevice \/ CloseDevice \/ CreatesPort \/ DoIO \/ SendIO \/ Poll
  \/ StartsWaitPort \/ GetsMsg \/ StartUser \/ UserYields \/ Tick

DeviceSpec == DeviceInit /\ [][DeviceNext]_deviceVars

-----------------------------------------------------------------------------
(* Properties.                                                             *)

\* Every call a program is inside of ends.  A WaitPort for a request it sent
\* returns (device.c says of SendIO that it replies "so a WaitPort+GetMsg on it
\* still completes"), and a timer request ends while other programs of the same
\* priority run.
CallsComplete ==
  \A t \in User : doing[t].where \in {"waitport", "poll"} ~> doing[t] = Idle
=============================================================================
