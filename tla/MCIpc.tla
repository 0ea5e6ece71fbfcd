------------------------------- MODULE MCIpc -------------------------------
(***************************************************************************)
(* What waits for an answer, one scene per behaviour: the packet server    *)
(* with two clients below, at and above its priority; two programs with a  *)
(* device request each; nested RunCommand calls of two processes.          *)
(***************************************************************************)
EXTENDS DosPackets, CroiDevice, CroiProcess

CONSTANTS boot, server, c1, c2, m1, m2

MCTask      == {boot, server, c1, c2}
MCMessage   == {m1, m2}
MCReplyPort == m1 :> c1 @@ m2 :> c2
MCPris      == {0, 100, 120, 127}

VARIABLE scene

ipcVars == <<scene, packetVars, deviceVars, processVars>>

\* The priorities of a scene's programs, and the tasks that take part in it.
PrisOf == [packets |-> {100, 120, 127}, devices |-> {100}, processes |-> {0}]
InScene ==
  \A t \in Task \ {Boot} : sched'.state[t] # "TS_INVALID" =>
    sched'.pri[t] \in PrisOf[scene] /\ (t = Server => scene = "packets")

\* Processes signal those that are inside RunCommand: nobody else looks at a
\* signal, and AllocSignal clears it.
ToCallers ==
  scene = "processes" => \A t \in Task : sched'.recvd[t] \subseteq sched.recvd[t] \/ call[t] # NoCall

IpcInit == scene \in DOMAIN PrisOf /\ PacketInit /\ DeviceInit /\ ProcessInit

\* In each scene the variables of the others stay as they are.
Packets ==
  /\ scene = "packets"
  /\ UNCHANGED <<scene, replyPorts, io, doing, owed, clock, join, call, said, flag, struck, wild>>
Devices ==
  /\ scene = "devices"
  /\ UNCHANGED <<scene, ports, at, packet, result, rounds, join, call, said, flag, struck, wild>>
Processes ==
  /\ scene = "processes"
  /\ UNCHANGED <<scene, ports, at, packet, result, rounds, replyPorts, io, doing, owed, clock>>

IpcNext ==
  /\ \/ Packets /\ PacketNext
     \/ Devices /\ DeviceNext
     \/ Processes /\ ProcessNext
  /\ InScene /\ ToCallers

\* A program that gets the CPU again and again goes on inside the call, or the
\* loop, that it is in.
GoesOn(t) ==
  /\ Me = t
  /\ \/ Packets /\ (ServerStep \/ ClientStep)
     \/ Devices /\ (Poll \/ GetsMsg)

\* Between calls it yields some time; a process exits some time.
GivesWay(t) ==
  /\ Me = t
  /\ \/ t = Boot /\ Packets /\ YieldCpu
     \/ Devices /\ UserYields
     \/ Processes /\ (sys_exit \/ ExitIntoDeadFrame)
     \/ t = Boot /\ Processes /\ ProcessCalls /\ sched' = Yield(sched)

\* A turn of RunCommand's wait is the only thing its task can do; time passes.
IpcSpec ==
  /\ IpcInit /\ [][IpcNext]_ipcVars
  /\ WF_ipcVars(Processes /\ RunCommandReturns)
  /\ WF_ipcVars(Devices /\ Tick)
  /\ \A t \in Task \ {Boot} : SF_ipcVars(GoesOn(t))
  /\ \A t \in Task \ {Server} : SF_ipcVars(GivesWay(t))
=============================================================================
