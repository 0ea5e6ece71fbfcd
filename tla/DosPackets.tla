----------------------------- MODULE DosPackets -----------------------------
(***************************************************************************)
(* The packet server of dos.library and its clients: dos_handler_task and  *)
(* Croi_Dos_StartHandler (src/logaic/dos/handler.c) and the round trip of  *)
(* src/userland/userexec.c, step 4j, over the message ports.               *)
(*                                                                         *)
(* The server creates its port, then for ever waits on it and drains it:   *)
(* each packet is dispatched and replied.  A client creates a reply port,  *)
(* and if the server's port is there sends its packet, waits on the reply  *)
(* port, takes the reply and deletes the port.  Each task owns one packet, *)
(* a StandardPacket on its own stack.                                      *)
(*                                                                         *)
(*   at      where each program is between two calls                       *)
(*   packet  the message the server has taken and not yet replied          *)
(*   result  dp_Res1 of each packet: the reply it carries, as the number   *)
(*           of its round; rounds counts the packets a client has sent     *)
(***************************************************************************)
EXTENDS CroiMsgPort, FiniteSets

CONSTANTS
  Server,     \* the task of dos.handler
  ServerPri,  \* its priority (120)
  NoMessage,
  MaxRounds   \* bound on the packets of one client

ASSUME ServerAssumption ==
  /\ Server \in Task \ {Boot}
  /\ ServerPri \in Int
  /\ NoMessage \notin Message
  /\ MaxRounds \in Nat
  /\ \A m, n \in Message : ReplyPort[m] = ReplyPort[n] => m = n
  /\ \A m \in Message : ReplyPort[m] \notin {Server, Boot}

Client == {ReplyPort[m] : m \in Message}
PacketOf(t) == CHOOSE m \in Message : ReplyPort[m] = t

VARIABLES ports, at, packet, result, rounds

packetVars == <<sched, ports, at, packet, result, rounds>>

World == [s |-> sched, p |-> ports]
Become(w) == sched' = w.s /\ ports' = w.p

PacketInit ==
  /\ sched = InitSched
  /\ ports = [t \in Task |-> NoPort]
  /\ at = [t \in Task |-> "start"]
  /\ packet = NoMessage
  /\ result = [m \in Message |-> 0]
  /\ rounds = [m \in Message |-> 0]

Goes(here, there) == at[Me] = here /\ at' = [at EXCEPT ![Me] = there]

-----------------------------------------------------------------------------
(* The boot task starts the handler and yields, then runs the clients.     *)

StartHandler ==
  /\ Running /\ Me = Boot
  /\ Server \notin Allocated
  /\ sched' = Yield(Spawn(sched, Server, ServerPri))
  /\ UNCHANGED <<ports, at, packet, result, rounds>>

StartClient ==
  /\ Running /\ Me = Boot
  /\ Server \in Allocated
  /\ \E t \in Client \ Allocated, p \in PriArg : sched' = Spawn(sched, t, p)
  /\ UNCHANGED <<ports, at, packet, result, rounds>>

YieldCpu == DoYield /\ UNCHANGED <<ports, at, packet, result, rounds>>

-----------------------------------------------------------------------------
(* The server.                                                             *)

ServerCreatesPort ==
  /\ Running /\ Me = Server
  /\ Goes("start", "wait")
  /\ Become(CreateMsgPort(World))
  /\ UNCHANGED <<packet, result, rounds>>

ServerWaits ==
  /\ ~sched.halted /\ Me = Server
  /\ at[Server] = "wait"
  /\ Become(WaitPort(World, Server))
  /\ at' = [at EXCEPT ![Server] =
              IF ports[Server].sig \in sched.recvd[Server] THEN "drain" ELSE "wait"]
  /\ UNCHANGED <<packet, result, rounds>>

ServerGets ==
  /\ Running /\ Me = Server
  /\ IF ports[Server].ring = << >>
     THEN Goes("drain", "wait") /\ UNCHANGED <<sched, ports, packet>>
     ELSE /\ packet' = Head(ports[Server].ring)
          /\ Goes("drain", "dispatch")
          /\ Become(GetMsg(World, Server))
  /\ UNCHANGED <<result, rounds>>

\* Croi_Dos_Dispatch fills in the packet's result.
ServerDispatches ==
  /\ Running /\ Me = Server
  /\ Goes("dispatch", "reply")
  /\ result' = [result EXCEPT ![packet] = rounds[packet]]
  /\ UNCHANGED <<sched, ports, packet, rounds>>

ServerReplies ==
  /\ Running /\ Me = Server
  /\ Goes("reply", "drain")
  /\ Become(ReplyMsg(World, packet))
  /\ packet' = NoMessage
  /\ UNCHANGED <<result, rounds>>

-----------------------------------------------------------------------------
(* A client.                                                               *)

ClientCreatesPort ==
  /\ Running /\ Me \in Client
  /\ rounds[PacketOf(Me)] < MaxRounds
  /\ Goes("start", "send")
  /\ Become(CreateMsgPort(World))
  /\ UNCHANGED <<packet, result, rounds>>

\* rp != nullptr and hp != nullptr, or nothing is sent.
ClientSends ==
  LET m == PacketOf(Me) IN
  /\ Running /\ Me \in Client
  /\ IF ports[Me].open /\ ports[Server].open
     THEN /\ Goes("send", "wait")
          /\ Become(PutMsg(World, Server, m))
          /\ rounds' = [rounds EXCEPT ![m] = @ + 1]
     ELSE /\ Goes("send", "delete")
          /\ UNCHANGED <<sched, ports, rounds>>
  /\ UNCHANGED <<packet, result>>

ClientWaits ==
  /\ ~sched.halted /\ Me \in Client
  /\ at[Me] = "wait"
  /\ Become(WaitPort(World, Me))
  /\ at' = [at EXCEPT ![Me] =
              IF ports[Me].sig \in sched.recvd[Me] THEN "get" ELSE "wait"]
  /\ UNCHANGED <<packet, result, rounds>>

\* GetMsg's answer is not looked at: the client goes on to its packet.
ClientGets ==
  /\ Running /\ Me \in Client
  /\ Goes("get", "delete")
  /\ IF ports[Me].ring = << >> THEN UNCHANGED <<sched, ports>>
     ELSE Become(GetMsg(World, Me))
  /\ UNCHANGED <<packet, result, rounds>>

ClientDeletesPort ==
  /\ Running /\ Me \in Client
  /\ Goes("delete", "start")
  /\ IF ports[Me].open THEN Become(DeleteMsgPort(World)) ELSE UNCHANGED <<sched, ports>>
  /\ UNCHANGED <<packet, result, rounds>>

ClientExits ==
  /\ Running /\ Me \in Client
  /\ at[Me] = "start"
  /\ sched' = TaskExit(sched)
  /\ UNCHANGED <<ports, at, packet, result, rounds>>

-----------------------------------------------------------------------------
ServerStep == ServerCreatesPort \/ ServerWaits \/ ServerGets \/ ServerDispatches \/ ServerReplies

ClientStep ==
  \/ ClientCreatesPort \/ ClientSends \/ ClientWaits \/ ClientGets
  \/ ClientDeletesPort \/ ClientExits

PacketNext == StartHandler \/ StartClient \/ YieldCpu \/ ServerStep \/ ClientStep

PacketSpec == PacketInit /\ [][PacketNext]_packetVars

-----------------------------------------------------------------------------
(* Properties.                                                             *)

Times(m, q) == Cardinality({i \in 1..Len(q) : q[i] = m})

\* A packet that was sent and whose reply was not yet taken is in one place,
\* once: the server's ring, the server's hands or its reply port's ring; in
\* the last case its client is not asleep, or could not be woken any more.
\* Nothing is lost or doubled, as long as the ring is as large as the traffic.
\* A client whose WaitPort has returned finds the reply in its ring and the
\* server's result in its packet: the wake-up was never a stale one.
PacketInOnePlace ==
  \A m \in Message :
    LET c == ReplyPort[m]
        places == Times(m, ports[Server].ring)
                    + (IF packet = m THEN 1 ELSE 0) + Times(m, ports[c].ring)
    IN  /\ places = (IF at[c] \in {"wait", "get"} THEN 1 ELSE 0)
        /\ Times(m, ports[c].ring) > 0 => sched.state[c] # "TS_WAIT"
        /\ at[c] = "get" => ports[c].ring = <<m>> /\ result[m] = rounds[m]

\* Every packet that is sent comes back.
PacketEventuallyReplied ==
  \A m \in Message : at[ReplyPort[m]] = "wait" ~> at[ReplyPort[m]] = "get"
=============================================================================
