------------------------- MODULE DosPacketsProofs --------------------------
(***************************************************************************)
(* Proofs about the packets of module DosPackets, for every number of      *)
(* clients and every set of priorities.  They need one thing of the sizes: *)
(* a port's ring has a slot for every packet there is, or PutMsg drops one.*)
(***************************************************************************)
EXTENDS DosPackets, CroiSchedProofs, FiniteSetTheorems

-----------------------------------------------------------------------------
(* The inductive invariant.                                                *)

PortType == [open : BOOLEAN, sig : Sig, ring : Seq(Message)]
Places == {"start", "send", "wait", "get", "delete", "drain", "dispatch", "reply"}

PacketTypeOK ==
  /\ ports \in [Task -> PortType]
  /\ at \in [Task -> Places]
  /\ packet \in Message \cup {NoMessage}
  /\ result \in [Message -> Nat]
  /\ rounds \in [Message -> Nat]

\* The server has a port only after its start, and a packet in its hands only
\* between GetMsg and ReplyMsg; no packet is in its ring twice.
ServerSound ==
  /\ at[Server] # "start" => Alive(sched, Server)
  /\ at[Server] = "start" => ~ports[Server].open /\ ports[Server].ring = << >>
  /\ packet # NoMessage <=> at[Server] \in {"dispatch", "reply"}
  /\ Distinct(ports[Server].ring)

\* Where m is: in its client's ring, in the server's ring, in the server's
\* hands, or nowhere.
Replied(m) == /\ ports[ReplyPort[m]].ring = <<m>>
              /\ ~Holds(ports[Server].ring, m) /\ packet # m
Queued(m)  == /\ ports[ReplyPort[m]].ring = << >>
              /\ Holds(ports[Server].ring, m) /\ packet # m
InHand(m)  == /\ ports[ReplyPort[m]].ring = << >>
              /\ ~Holds(ports[Server].ring, m) /\ packet = m
Idle(m)    == /\ ports[ReplyPort[m]].ring = << >>
              /\ ~Holds(ports[Server].ring, m) /\ packet # m

\* The client of m sleeps on its port's signal and nowhere else.
MaskSound(m) ==
  LET c == ReplyPort[m] IN
  sched.mask[c] # {} => at[c] = "wait" /\ sched.mask[c] = {ports[c].sig}

\* While m's client waits, its signal is set exactly when the reply is there.
SignalSound(m) ==
  LET c == ReplyPort[m] IN
  /\ ports[c].open /\ at[c] = "send" => ports[c].sig \notin sched.recvd[c]
  /\ at[c] = "wait" => ports[c].open /\ (ports[c].sig \in sched.recvd[c] <=> Replied(m))

PlaceSound(m) ==
  LET c == ReplyPort[m] IN
  /\ at[c] \notin {"wait", "get"} => Idle(m)
  /\ at[c] = "wait" => Replied(m) \/ Queued(m) \/ InHand(m)
  /\ at[c] = "get" => Replied(m)

ClientSound(m) ==
  LET c == ReplyPort[m] IN
  /\ at[c] # "start" => Alive(sched, c)
  /\ at[c] = "start" => ~ports[c].open
  /\ MaskSound(m)
  /\ SignalSound(m)
  /\ PlaceSound(m)
  /\ Replied(m) => result[m] = rounds[m]
  /\ packet = m /\ at[Server] = "reply" => result[m] = rounds[m]

PacketInv ==
  /\ SchedInv(sched)
  /\ PacketTypeOK
  /\ ServerSound
  /\ \A m \in Message : ClientSound(m)

\* Initially there is no port, and no packet anywhere.
LEMMA PacketInitInv == PacketInit => PacketInv
<1> SUFFICES ASSUME PacketInit PROVE PacketInv
  OBVIOUS
<1>1. SchedInv(sched)
  BY InitInv DEF PacketInit, Init
<1>2. NoPort \in PortType
  BY SigAssumption DEF NoPort, PortType, Sig
<1>3. PacketTypeOK
  BY <1>2 DEF PacketInit, PacketTypeOK, Places
<1>4. /\ \A t \in Task : ~ports[t].open /\ ports[t].ring = << >> /\ at[t] = "start"
      /\ packet = NoMessage
  BY DEF PacketInit, NoPort
<1>5. \A m : ~Holds(<< >>, m)
  BY DEF Holds
<1>6. ServerSound
  BY <1>4, ServerAssumption DEF ServerSound, Distinct
<1>7. \A t \in Task : sched.mask[t] = {}
  BY DEF PacketInit, InitSched
<1>8. ASSUME NEW m \in Message PROVE ClientSound(m)
  <2>1. ReplyPort[m] \in Task /\ Server \in Task /\ m # NoMessage
    BY PortAssumption, ServerAssumption
  <2>2. Idle(m) /\ ~Replied(m)
    BY SMTT(20), <1>4, <1>5, <2>1 DEF Idle, Replied
  <2> QED BY <1>4, <1>7, <2>1, <2>2 DEF ClientSound, MaskSound, SignalSound, PlaceSound
<1> QED BY <1>1, <1>3, <1>6, <1>8 DEF PacketInv

-----------------------------------------------------------------------------
(* The operations on ports.                                                *)

\* The types at hand in every step.
LEMMA PacketTypes ==
  ASSUME PacketInv
  PROVE  /\ SchedInv(sched) /\ sched \in SchedState /\ Me \in Task /\ Server \in Task
         /\ \A t \in Task : ports[t].sig \in Sig /\ ports[t].ring \in Seq(Message)
         /\ \A m \in Message : ReplyPort[m] \in Task /\ ReplyPort[m] # Server
         /\ \A m, n \in Message : ReplyPort[m] = ReplyPort[n] => m = n
<1>1. SchedInv(sched) /\ sched \in SchedState /\ Me \in Task
  BY FieldTypes DEF PacketInv, SchedInv, Me
<1>2. \A t \in Task : ports[t].sig \in Sig /\ ports[t].ring \in Seq(Message)
  BY DEF PacketInv, PacketTypeOK, PortType
<1> QED BY <1>1, <1>2, ServerAssumption, PortAssumption

\* The packet of a client is the one whose reply goes to it.
LEMMA PacketOfProperty ==
  ASSUME NEW t \in Client
  PROVE  PacketOf(t) \in Message /\ ReplyPort[PacketOf(t)] = t
  BY DEF Client, PacketOf

\* A port with room gets the message, and its owner the signal if it was empty.
LEMMA PutMsgFields ==
  ASSUME PacketTypeOK, NEW o \in Task, NEW m \in Message, Len(ports[o].ring) < RingCap,
         Become(PutMsg(World, o, m))
  PROVE  /\ sched' = IF ports[o].ring = << >> THEN Signal(sched, o, {ports[o].sig}) ELSE sched
         /\ ports' = [ports EXCEPT ![o].ring = Append(@, m)]
<1>1. PICK w : w = World
  BY Zenon
<1>2. w = [s |-> sched, p |-> ports]
  BY <1>1 DEF World
<1>3. PICK x : x = [w EXCEPT !.p[o].ring = Append(@, m)]
  BY Zenon
<1>4. x.s = sched /\ x.p = [ports EXCEPT ![o].ring = Append(@, m)] /\ w.p = ports /\ w.s = sched
  BY <1>2, <1>3, Zenon
<1>5. ~(Len(w.p[o].ring) >= RingCap)
  <2>1. Len(ports[o].ring) \in Nat /\ RingCap \in Nat
    BY PortAssumption DEF PacketTypeOK, PortType
  <2> QED BY <1>4, <2>1
<1>6. PutMsg(w, o, m) = IF ports[o].ring = << >> THEN [x EXCEPT !.s = Signal(@, o, {ports[o].sig})]
                        ELSE x
  BY <1>3, <1>4, <1>5 DEF PutMsg
<1>7. PICK y : y = [x EXCEPT !.s = Signal(@, o, {ports[o].sig})]
  BY Zenon
<1>8. x = [s |-> sched, p |-> [ports EXCEPT ![o].ring = Append(@, m)]]
  BY <1>2, <1>3, Zenon
<1>9. y.s = Signal(sched, o, {ports[o].sig}) /\ y.p = x.p
  BY <1>7, <1>8, Zenon
<1>10. sched' = PutMsg(w, o, m).s /\ ports' = PutMsg(w, o, m).p
  BY <1>1 DEF Become
<1> QED BY <1>4, <1>6, <1>7, <1>9, <1>10

\* GetMsg takes the head of the ring.
LEMMA GetMsgFields ==
  ASSUME NEW o \in Task, Become(GetMsg(World, o))
  PROVE  sched' = sched /\ ports' = [ports EXCEPT ![o].ring = Tail(@)]
  BY Zenon DEF Become, GetMsg, World

\* WaitPort is a Croi_Wait.
LEMMA WaitPortFields ==
  ASSUME NEW o \in Task, Become(WaitPort(World, o))
  PROVE  sched' = Wait(sched, {ports[o].sig}) /\ ports' = ports
  BY Zenon DEF Become, WaitPort, World

\* CreateMsgPort fails, or opens an empty port with a fresh signal.
LEMMA CreateMsgPortFields ==
  ASSUME NEW b, b = AllocatedSig(sched, Me), Become(CreateMsgPort(World))
  PROVE  /\ b < 0 => sched' = sched /\ ports' = ports
         /\ ~(b < 0) => /\ sched' = AllocSignal(sched)
                        /\ ports' = [ports EXCEPT ![Me] = [open |-> TRUE, sig |-> b, ring |-> << >>]]
<1>1. PICK w : w = World
  BY Zenon
<1>2. w.s = sched /\ w.p = ports
  BY <1>1 DEF World
<1>3. b = AllocatedSig(w.s, w.s.current) /\ w.s.current = Me
  BY <1>2 DEF Me
<1>4. CreateMsgPort(w) =
        IF b < 0 THEN w
        ELSE [s |-> AllocSignal(sched),
              p |-> [ports EXCEPT ![Me] = [open |-> TRUE, sig |-> b, ring |-> << >>]]]
  BY <1>2, <1>3 DEF CreateMsgPort
<1>5. sched' = CreateMsgPort(w).s /\ ports' = CreateMsgPort(w).p
  BY <1>1 DEF Become
<1> QED BY <1>2, <1>4, <1>5

\* DeleteMsgPort frees the signal.
LEMMA DeleteMsgPortFields ==
  ASSUME Become(DeleteMsgPort(World))
  PROVE  sched' = FreeSignal(sched, ports[Me].sig) /\ ports' = [ports EXCEPT ![Me] = NoPort]
  BY DEF Become, DeleteMsgPort, World, Me

-----------------------------------------------------------------------------
(* The rings.                                                              *)

\* A packet that is put in a ring is the only thing new in it.
LEMMA AppendProperty ==
  ASSUME NEW q \in Seq(Message), NEW m \in Message, ~Holds(q, m), Distinct(q)
  PROVE  /\ Append(q, m) \in Seq(Message)
         /\ Distinct(Append(q, m))
         /\ \A x \in Message : Holds(Append(q, m), x) <=> x = m \/ Holds(q, x)
<1>1. PICK k \in Nat : k = Len(q)
  OBVIOUS
<1>2. PICK r \in Seq(Message) :
        /\ r = Append(q, m) /\ Len(r) = k + 1 /\ r[k + 1] = m
        /\ \A i \in 1..k : r[i] = q[i]
  <2>1. /\ Append(q, m) \in Seq(Message) /\ Len(Append(q, m)) = Len(q) + 1
        /\ Append(q, m)[Len(q) + 1] = m
        /\ \A i \in 1..Len(q) : Append(q, m)[i] = q[i]
    OBVIOUS
  <2> QED BY <1>1, <2>1, Zenon
<1>3. \A i \in 1..k : q[i] # m
  BY <1>1 DEF Holds
<1>4. Distinct(r)
  <2> SUFFICES ASSUME NEW i \in 1..(k + 1), NEW j \in 1..(k + 1), r[i] = r[j] PROVE i = j
    BY <1>2 DEF Distinct
  <2>1. \A l \in 1..(k + 1) : l = k + 1 \/ l \in 1..k
    BY <1>1
  <2> QED BY <1>1, <1>2, <1>3, <2>1 DEF Distinct
<1>5. ASSUME NEW x \in Message, Holds(r, x) PROVE x = m \/ Holds(q, x)
  <2>1. PICK i \in 1..(k + 1) : r[i] = x
    BY <1>2, <1>5 DEF Holds
  <2>2. i = k + 1 \/ i \in 1..k
    OBVIOUS
  <2> QED BY <1>1, <1>2, <2>1, <2>2 DEF Holds
<1>6. ASSUME NEW x \in Message, Holds(q, x) PROVE Holds(r, x)
  <2>1. PICK i \in 1..k : q[i] = x
    BY <1>1, <1>6 DEF Holds
  <2>2. i \in 1..(k + 1) /\ r[i] = x
    BY <1>2, <2>1
  <2> QED BY <1>2, <2>2 DEF Holds
<1>7. Holds(r, m)
  <2>1. k + 1 \in 1..(k + 1)
    OBVIOUS
  <2> QED BY <1>2, <2>1 DEF Holds
<1> QED BY <1>2, <1>4, <1>5, <1>6, <1>7

\* What GetMsg takes out of a ring is no longer in it, and nothing else goes.
LEMMA RingTailProperty ==
  ASSUME NEW q \in Seq(Message), q # << >>, Distinct(q)
  PROVE  /\ Head(q) \in Message /\ Holds(q, Head(q))
         /\ Tail(q) \in Seq(Message) /\ Distinct(Tail(q))
         /\ \A x \in Message : Holds(Tail(q), x) <=> Holds(q, x) /\ x # Head(q)
<1>1. PICK k \in Nat : k = Len(q) /\ k >= 1
  BY EmptySeq
<1>2. PICK r \in Seq(Message) :
        r = Tail(q) /\ Len(r) = k - 1 /\ \A i \in 1..(k - 1) : r[i] = q[i + 1]
  <2>1. /\ Tail(q) \in Seq(Message)
        /\ Len(Tail(q)) = Len(q) - 1
        /\ \A i \in 1..Len(Tail(q)) : Tail(q)[i] = q[i + 1]
    BY HeadTailProperties
  <2> QED BY <1>1, <2>1, Zenon
<1>3. Head(q) = q[1] /\ q[1] \in Message /\ 1 \in 1..k
  BY <1>1
<1>4. \A i, j \in 1..k : q[i] = q[j] => i = j
  BY <1>1 DEF Distinct
<1>5. \A i \in 1..(k - 1) : i + 1 \in 1..k
  BY <1>1
<1>6. Distinct(r)
  <2> SUFFICES ASSUME NEW i \in 1..(k - 1), NEW j \in 1..(k - 1), r[i] = r[j] PROVE i = j
    BY <1>2 DEF Distinct
  <2>1. i + 1 = j + 1
    BY <1>2, <1>4, <1>5
  <2> QED BY <2>1
<1>7. ASSUME NEW x \in Message, Holds(r, x) PROVE Holds(q, x) /\ x # q[1]
  <2>1. PICK i \in 1..(k - 1) : r[i] = x
    BY <1>2, <1>7 DEF Holds
  <2>2. i + 1 \in 1..k /\ q[i + 1] = x /\ i + 1 # 1
    BY <1>2, <1>5, <2>1
  <2>3. x # q[1]
    BY <1>3, <1>4, <2>2
  <2> QED BY <1>1, <2>2, <2>3 DEF Holds
<1>8. ASSUME NEW x \in Message, Holds(q, x), x # q[1] PROVE Holds(r, x)
  <2>1. PICK i \in 1..k : q[i] = x
    BY <1>1, <1>8 DEF Holds
  <2>2. i - 1 \in 1..(k - 1) /\ (i - 1) + 1 = i
    BY <1>8, <2>1
  <2>3. r[i - 1] = x
    BY <1>2, <2>1, <2>2
  <2> QED BY <1>2, <2>2, <2>3, Zenon DEF Holds
<1>9. Holds(q, q[1])
  BY <1>1, <1>3 DEF Holds
<1> QED BY <1>2, <1>3, <1>6, <1>7, <1>8, <1>9

\* A ring with a slot for every packet has room for one that is not in it.
LEMMA RoomForOne ==
  ASSUME IsFiniteSet(Message), Cardinality(Message) <= RingCap,
         NEW q \in Seq(Message), Distinct(q), NEW m \in Message, ~Holds(q, m)
  PROVE  Len(q) < RingCap
<1>1. PICK r \in Seq(Message) : r = Append(q, m) /\ Distinct(r) /\ Len(r) = Len(q) + 1
  <2>1. Append(q, m) \in Seq(Message) /\ Distinct(Append(q, m))
    BY AppendProperty
  <2>2. Len(Append(q, m)) = Len(q) + 1
    BY AppendProperties, Zenon
  <2> QED BY <2>1, <2>2, Zenon
<1>2. PICK k \in Nat : k = Len(r)
  OBVIOUS
<1>3. PICK c \in Nat : c = Cardinality(Message)
  BY FS_CardinalityType
<1> SUFFICES ASSUME ~(Len(q) < RingCap) PROVE FALSE
  OBVIOUS
<1>4. c < k
  <2>1. RingCap \in Nat /\ Len(q) \in Nat
    BY PortAssumption
  <2> QED BY <1>1, <1>2, <1>3, <2>1
<1>5. IsFiniteSet(1..k) /\ Cardinality(1..k) = k
  <2>1. IsFiniteSet(1..k) /\ Cardinality(1..k) = IF 1 > k THEN 0 ELSE k - 1 + 1
    BY FS_Interval
  <2> QED BY <2>1
<1>6. r \in [1..k -> Message]
  BY <1>2
<1>7. \E x, y \in 1..k : x # y /\ r[x] = r[y]
  <2>1. Cardinality(Message) < Cardinality(1..k)
    BY <1>3, <1>4, <1>5
  <2> QED BY <1>5, <1>6, <2>1, FS_PigeonHole, Zenon
<1> QED BY <1>1, <1>2, <1>7 DEF Distinct

-----------------------------------------------------------------------------
(* A step that is not m's.                                                 *)

\* Nothing that m's client or its packet depends on changes.
LEMMA ClientKept ==
  ASSUME PacketInv, NEW m \in Message,
         Untouched(sched, sched', ReplyPort[m]),
         ports'[ReplyPort[m]] = ports[ReplyPort[m]], at'[ReplyPort[m]] = at[ReplyPort[m]],
         packet' = m <=> packet = m,
         Holds(ports'[Server].ring, m) <=> Holds(ports[Server].ring, m),
         result'[m] = result[m], rounds'[m] = rounds[m],
         packet = m /\ at'[Server] = "reply" => at[Server] = "reply"
  PROVE  ClientSound(m)'
<1>0. ClientSound(m)
  BY DEF PacketInv
<1>1. /\ Replied(m)' <=> Replied(m)
      /\ Queued(m)' <=> Queued(m)
      /\ InHand(m)' <=> InHand(m)
      /\ Idle(m)' <=> Idle(m)
  BY DEF Replied, Queued, InHand, Idle
<1>2. MaskSound(m)' /\ SignalSound(m)' /\ PlaceSound(m)'
  BY <1>0, <1>1 DEF ClientSound, MaskSound, SignalSound, PlaceSound, Untouched
<1> QED BY <1>0, <1>1, <1>2 DEF ClientSound, Untouched

\* No client and no packet is concerned.
LEMMA NoClientTouched ==
  ASSUME PacketInv, SchedInv(sched'), UNCHANGED <<ports, at, packet, result, rounds>>,
         \A u \in Task : u # Server => Untouched(sched, sched', u),
         Alive(sched, Server) => Alive(sched', Server)
  PROVE  PacketInv'
<1>1. ASSUME NEW m \in Message PROVE ClientSound(m)'
  <2>1. ReplyPort[m] \in Task /\ ReplyPort[m] # Server
    BY PacketTypes
  <2> QED BY <2>1, ClientKept
<1>2. ServerSound'
  BY DEF PacketInv, ServerSound
<1>3. PacketTypeOK'
  BY DEF PacketInv, PacketTypeOK
<1> QED BY <1>1, <1>2, <1>3 DEF PacketInv

-----------------------------------------------------------------------------
(* The boot task's steps.                                                  *)

\* Starting the handler, and the yield after it.
LEMMA StartHandlerInv ==
  ASSUME PacketInv, StartHandler
  PROVE  PacketInv'
<1>0. /\ SchedInv(sched) /\ sched \in SchedState /\ Me \in Task /\ Server \in Task
      /\ ~sched.halted /\ sched.mask[Me] = {} /\ sched.state[Server] = "TS_INVALID"
      /\ ServerPri \in Int
  BY PacketTypes, ServerAssumption DEF StartHandler, Running, Allocated
<1>1. PICK s : s = Spawn(sched, Server, ServerPri)
  OBVIOUS
<1>2. /\ SchedInv(s) /\ s.current = Me /\ ~s.halted
      /\ \A u \in Task : u # Server => Untouched(sched, s, u)
      /\ Alive(s, Server)
  <2>1. SchedInv(s)
    BY <1>0, <1>1, SpawnInv
  <2> QED BY <1>0, <1>1, <2>1, SpawnEffect DEF Me
<1>3. Me # Server
  BY <1>0 DEF SchedInv, Placed, Me
<1>4. s.mask[Me] = {}
  BY <1>0, <1>2, <1>3 DEF Untouched
<1>5. sched' = Yield(s)
  BY <1>1 DEF StartHandler
<1>6. SchedInv(sched') /\ \A u \in Task : Untouched(s, sched', u)
  BY <1>2, <1>4, <1>5, YieldInv, YieldEffect
<1>7. \A u \in Task : u # Server => Untouched(sched, sched', u)
  BY <1>2, <1>6 DEF Untouched
<1>8. Alive(sched', Server)
  BY <1>0, <1>2, <1>6 DEF Untouched
<1> QED BY <1>6, <1>7, <1>8, NoClientTouched DEF StartHandler

\* Starting a client.
LEMMA StartClientInv ==
  ASSUME PacketInv, StartClient
  PROVE  PacketInv'
<1>0. /\ SchedInv(sched) /\ sched \in SchedState /\ ~sched.halted
      /\ UNCHANGED <<ports, at, packet, result, rounds>>
  BY PacketTypes DEF StartClient, Running
<1>1. PICK t \in Client, p \in Int : sched.state[t] = "TS_INVALID" /\ sched' = Spawn(sched, t, p)
  <2>1. \A t \in Client : t \in Task
    BY PortAssumption DEF Client
  <2> QED BY <2>1, PriAssumption DEF StartClient, Allocated
<1>2. PICK m \in Message : ReplyPort[m] = t
  BY DEF Client
<1>3. t \in Task /\ t # Server
  BY <1>2, PacketTypes
<1>4. SchedInv(sched')
  BY <1>0, <1>1, <1>3, SpawnInv
<1>5. /\ \A u \in Task : u # t => Untouched(sched, sched', u)
      /\ Alive(sched', t) /\ sched'.mask[t] = {}
  BY <1>0, <1>1, <1>3, SpawnEffect
<1>6. at[t] = "start"
  BY <1>1, <1>2 DEF PacketInv, ClientSound, Alive
<1>7. ClientSound(m)'
  <2>1. Idle(m) /\ ~ports[t].open
    BY <1>2, <1>6 DEF PacketInv, ClientSound, PlaceSound
  <2>2. Idle(m)' /\ ~Replied(m)' /\ packet' # m
    BY <1>0, <2>1 DEF Idle, Replied
  <2>3. MaskSound(m)' /\ SignalSound(m)' /\ PlaceSound(m)'
    BY <1>0, <1>2, <1>5, <1>6, <2>2 DEF MaskSound, SignalSound, PlaceSound
  <2> QED BY <1>0, <1>2, <1>5, <2>1, <2>2, <2>3 DEF ClientSound
<1>8. ASSUME NEW n \in Message PROVE ClientSound(n)'
  <2>1. CASE n = m
    BY <1>7, <2>1
  <2>2. CASE n # m
    <3>1. ReplyPort[n] \in Task /\ ReplyPort[n] # t
      BY <1>2, <2>2, PacketTypes
    <3> QED BY <1>0, <1>5, <3>1, ClientKept
  <2> QED BY <2>1, <2>2
<1>9. ServerSound'
  BY <1>0, <1>3, <1>5, PacketTypes DEF PacketInv, ServerSound, Untouched
<1>10. PacketTypeOK'
  BY <1>0 DEF PacketInv, PacketTypeOK
<1> QED BY <1>4, <1>8, <1>9, <1>10 DEF PacketInv

\* A yield.
LEMMA YieldCpuInv ==
  ASSUME PacketInv, YieldCpu
  PROVE  PacketInv'
<1>0. SchedInv(sched) /\ ~sched.halted /\ sched.mask[Me] = {} /\ sched' = Yield(sched)
  BY PacketTypes DEF YieldCpu, DoYield, Running
<1>1. SchedInv(sched') /\ \A u \in Task : Untouched(sched, sched', u)
  BY <1>0, YieldInv, YieldEffect DEF Me
<1>2. Alive(sched, Server) => Alive(sched', Server)
  BY <1>1, ServerAssumption DEF Untouched
<1> QED BY <1>1, <1>2, NoClientTouched DEF YieldCpu

-----------------------------------------------------------------------------
(* The server's steps.                                                     *)

\* The task that runs is alive.
LEMMA MeAlive ==
  ASSUME PacketInv, ~sched.halted
  PROVE  Alive(sched, Me)
  BY PacketTypes DEF SchedInv, Placed, Me, Alive

\* A step of the server that moves no packet: of the clients, nothing changes.
LEMMA ServerMoves ==
  ASSUME PacketInv, SchedInv(sched'), Alive(sched', Server),
         \A u \in Task : u # Server => Untouched(sched, sched', u),
         ports' \in [Task -> PortType], \A u \in Task : u # Server => ports'[u] = ports[u],
         ports'[Server].ring = ports[Server].ring,
         NEW there \in {"wait", "drain"}, at' = [at EXCEPT ![Server] = there],
         packet = NoMessage, UNCHANGED <<packet, result, rounds>>
  PROVE  PacketInv'
<1>1. \A u \in Task : u # Server => at'[u] = at[u]
  BY DEF PacketInv, PacketTypeOK
<1>2. at'[Server] = there /\ at' \in [Task -> Places]
  BY PacketTypes DEF PacketInv, PacketTypeOK, Places
<1>3. ASSUME NEW m \in Message PROVE ClientSound(m)'
  <2>1. ReplyPort[m] \in Task /\ ReplyPort[m] # Server /\ packet # m
    BY PacketTypes, ServerAssumption
  <2> QED BY <1>1, <2>1, ClientKept
<1>4. ServerSound'
  BY <1>2 DEF PacketInv, ServerSound
<1>5. PacketTypeOK'
  BY <1>2 DEF PacketInv, PacketTypeOK
<1> QED BY <1>3, <1>4, <1>5 DEF PacketInv

\* The server creates its port, or goes on without.
LEMMA ServerCreatesPortInv ==
  ASSUME PacketInv, ServerCreatesPort
  PROVE  PacketInv'
<1>0. /\ SchedInv(sched) /\ sched \in SchedState /\ Me \in Task /\ Me = Server
      /\ ~sched.halted /\ sched.mask[Me] = {} /\ at[Server] = "start"
      /\ at' = [at EXCEPT ![Server] = "wait"] /\ UNCHANGED <<packet, result, rounds>>
  BY PacketTypes DEF ServerCreatesPort, Running, Goes
<1>1. ports[Server].ring = << >> /\ packet = NoMessage
  BY <1>0 DEF PacketInv, ServerSound
<1>2. Alive(sched, Server)
  BY <1>0, MeAlive
<1>3. PICK b : b = AllocatedSig(sched, Me)
  OBVIOUS
<1>4. CASE b < 0
  <2>1. sched' = sched /\ ports' = ports
    BY <1>3, <1>4, CreateMsgPortFields DEF ServerCreatesPort
  <2>2. \A u \in Task : Untouched(sched, sched', u)
    BY <2>1 DEF Untouched
  <2>3. SchedInv(sched') /\ Alive(sched', Server) /\ ports' \in [Task -> PortType]
    BY <1>0, <1>2, <2>1 DEF PacketInv, PacketTypeOK
  <2> QED BY <1>0, <1>1, <2>1, <2>2, <2>3, ServerMoves
<1>5. CASE ~(b < 0)
  <2>1. /\ sched' = AllocSignal(sched)
        /\ ports' = [ports EXCEPT ![Server] = [open |-> TRUE, sig |-> b, ring |-> << >>]]
    BY <1>0, <1>3, <1>5, CreateMsgPortFields DEF ServerCreatesPort
  <2>2. b \in Int
    <3>1. FreeSigs(sched, Me) # {} => FreeSigs(sched, Me) \in SUBSET Nat
      BY SigAssumption DEF FreeSigs
    <3> QED BY <1>3, <3>1, MinProperty DEF AllocatedSig
  <2>3. b >= 0
    BY <1>5, <2>2
  <2>4. b \in Sig
    BY <1>0, <1>3, <2>3, AllocatedSigProperty
  <2>5. SchedInv(sched')
    BY <1>0, <2>1, AllocSignalInv DEF Me
  <2>6. /\ \A u \in Task : u # Server => Untouched(sched, sched', u)
        /\ Alive(sched', Server) <=> Alive(sched, Server)
    BY <1>0, <1>3, <2>1, <2>3, AllocSignalEffect DEF Me
  <2>7. [open |-> TRUE, sig |-> b, ring |-> << >>] \in PortType
    BY <2>4 DEF PortType
  <2>8. /\ ports' \in [Task -> PortType]
        /\ \A u \in Task : u # Server => ports'[u] = ports[u]
        /\ ports'[Server].ring = << >>
    BY <1>0, <2>1, <2>7 DEF PacketInv, PacketTypeOK
  <2> QED BY <1>0, <1>1, <1>2, <2>5, <2>6, <2>8, ServerMoves
<1> QED BY <1>4, <1>5

\* A turn of the server's WaitPort.
LEMMA ServerWaitsInv ==
  ASSUME PacketInv, ServerWaits
  PROVE  PacketInv'
<1>0. /\ SchedInv(sched) /\ Me = Server /\ ~sched.halted /\ at[Server] = "wait"
      /\ UNCHANGED <<packet, result, rounds>> /\ ports[Server].sig \in Sig
  BY PacketTypes DEF ServerWaits
<1>1. PICK b \in Sig : b = ports[Server].sig
  BY <1>0
<1>2. sched' = Wait(sched, {b}) /\ ports' = ports
  BY <1>1, ServerAssumption, WaitPortFields DEF ServerWaits
<1>3. {b} \in SUBSET Sig /\ {b} # {}
  OBVIOUS
<1>4. SchedInv(sched')
  BY <1>0, <1>2, <1>3, WaitInv
<1>5. Alive(sched', Server) /\ \A u \in Task : u # Server => Untouched(sched, sched', u)
  BY <1>0, <1>2, <1>3, WaitEffect DEF Me
<1>6. packet = NoMessage
  BY <1>0 DEF PacketInv, ServerSound
<1>7. PICK there \in {"wait", "drain"} : at' = [at EXCEPT ![Server] = there]
  BY Zenon DEF ServerWaits
<1>8. ports' \in [Task -> PortType]
  BY <1>2 DEF PacketInv, PacketTypeOK
<1> QED BY <1>0, <1>2, <1>4, <1>5, <1>6, <1>7, <1>8, ServerMoves, Zenon

\* The server finds its ring empty, or takes its head.
LEMMA ServerGetsInv ==
  ASSUME PacketInv, ServerGets
  PROVE  PacketInv'
<1>0. /\ SchedInv(sched) /\ Server \in Task /\ Me = Server /\ ~sched.halted /\ at[Server] = "drain"
      /\ UNCHANGED <<result, rounds>>
  BY PacketTypes DEF ServerGets, Running, Goes
<1>1. packet = NoMessage /\ Alive(sched, Server)
  BY <1>0, MeAlive DEF PacketInv, ServerSound
<1>2. CASE ports[Server].ring = << >>
  <2>1. UNCHANGED <<sched, ports, packet>> /\ at' = [at EXCEPT ![Server] = "wait"]
    BY <1>0, <1>2 DEF ServerGets, Goes
  <2>2. \A u \in Task : Untouched(sched, sched', u)
    BY <2>1 DEF Untouched
  <2>3. SchedInv(sched') /\ Alive(sched', Server) /\ ports' \in [Task -> PortType]
    BY <1>0, <1>1, <2>1 DEF PacketInv, PacketTypeOK
  <2> QED BY <1>0, <1>1, <2>1, <2>2, <2>3, ServerMoves
<1>3. CASE ports[Server].ring # << >>
  <2>1. PICK q \in Seq(Message) : q = ports[Server].ring /\ q # << >> /\ Distinct(q)
    BY <1>0, <1>3, PacketTypes DEF PacketInv, ServerSound
  <2>2. PICK h \in Message : h = Head(q) /\ Holds(q, h)
    BY <2>1, RingTailProperty
  <2>3. PICK r \in Seq(Message) :
          /\ r = Tail(q) /\ Distinct(r)
          /\ \A x \in Message : Holds(r, x) <=> Holds(q, x) /\ x # h
    BY <2>1, <2>2, RingTailProperty, Zenon
  <2>4. packet' = h /\ at' = [at EXCEPT ![Server] = "dispatch"]
    BY <1>0, <1>3, <2>1, <2>2 DEF ServerGets, Goes
  <2>5. sched' = sched /\ ports' = [ports EXCEPT ![Server].ring = r]
    BY <1>0, <1>3, <2>1, <2>3, GetMsgFields DEF ServerGets
  <2>6. /\ ports' \in [Task -> PortType] /\ ports'[Server].ring = r
        /\ \A u \in Task : u # Server => ports'[u] = ports[u]
    <3>1. [ports[Server] EXCEPT !.ring = r] \in PortType
      BY <1>0, Zenon DEF PacketInv, PacketTypeOK, PortType
    <3> QED BY <1>0, <2>5, <3>1 DEF PacketInv, PacketTypeOK, PortType
  <2>7. /\ at' \in [Task -> Places] /\ at'[Server] = "dispatch"
        /\ \A u \in Task : u # Server => at'[u] = at[u]
    BY <1>0, <2>4 DEF PacketInv, PacketTypeOK, Places
  <2>8. ASSUME NEW m \in Message PROVE ClientSound(m)'
    <3>1. ReplyPort[m] \in Task /\ ReplyPort[m] # Server /\ packet # m
      BY <1>1, PacketTypes, ServerAssumption
    <3>2. CASE m = h
      <4>1. ClientSound(m) /\ Holds(ports[Server].ring, m)
        BY <2>1, <2>2, <3>2 DEF PacketInv
      <4>2. at[ReplyPort[m]] = "wait" /\ Queued(m) /\ ~Replied(m)
        BY <4>1 DEF ClientSound, PlaceSound, Idle, Replied, Queued, InHand
      <4>3. InHand(m)' /\ ~Replied(m)'
        BY <2>3, <2>4, <2>6, <3>1, <3>2, <4>2 DEF Queued, InHand, Replied
      <4>4. MaskSound(m)' /\ SignalSound(m)' /\ PlaceSound(m)'
        BY <2>5, <2>6, <2>7, <3>1, <4>1, <4>2, <4>3 DEF ClientSound, MaskSound, SignalSound, PlaceSound
      <4> QED BY <2>5, <2>6, <2>7, <3>1, <4>1, <4>2, <4>3, <4>4 DEF ClientSound
    <3>3. CASE m # h
      <4>1. Holds(ports'[Server].ring, m) <=> Holds(ports[Server].ring, m)
        BY <2>1, <2>3, <2>6, <3>3
      <4>2. packet' # m /\ Untouched(sched, sched', ReplyPort[m])
        BY <2>4, <2>5, <3>3 DEF Untouched
      <4> QED BY <1>0, <2>6, <2>7, <3>1, <4>1, <4>2, ClientKept
    <3> QED BY <3>2, <3>3
  <2>9. ServerSound'
    BY <1>1, <2>3, <2>4, <2>5, <2>6, <2>7, ServerAssumption DEF ServerSound
  <2>10. PacketTypeOK'
    BY <1>0, <2>4, <2>6, <2>7 DEF PacketInv, PacketTypeOK
  <2> QED BY <1>0, <2>5, <2>8, <2>9, <2>10 DEF PacketInv
<1> QED BY <1>2, <1>3

\* The packet in the server's hands is one that its client waits for.
LEMMA PacketInHand ==
  ASSUME PacketInv, at[Server] \in {"dispatch", "reply"}
  PROVE  packet \in Message /\ at[ReplyPort[packet]] = "wait" /\ InHand(packet)
<1>1. packet \in Message
  BY DEF PacketInv, PacketTypeOK, ServerSound
<1> QED BY <1>1 DEF PacketInv, ClientSound, PlaceSound, Idle, InHand, Replied, Queued

\* The dispatcher fills in the result.
LEMMA ServerDispatchesInv ==
  ASSUME PacketInv, ServerDispatches
  PROVE  PacketInv'
<1>0. /\ SchedInv(sched) /\ Server \in Task /\ Me = Server /\ at[Server] = "dispatch"
      /\ UNCHANGED <<sched, ports, packet, rounds>>
  BY PacketTypes DEF ServerDispatches, Goes
<1>1. PICK h \in Message : h = packet /\ at[ReplyPort[h]] = "wait" /\ InHand(h)
  BY <1>0, PacketInHand
<1>2. result' = [result EXCEPT ![h] = rounds[h]] /\ at' = [at EXCEPT ![Server] = "reply"]
  BY <1>0, <1>1 DEF ServerDispatches, Goes
<1>3. /\ at' \in [Task -> Places] /\ at'[Server] = "reply"
      /\ \A u \in Task : u # Server => at'[u] = at[u]
  BY <1>0, <1>2 DEF PacketInv, PacketTypeOK, Places
<1>4. /\ result' \in [Message -> Nat] /\ result'[h] = rounds[h]
      /\ \A m \in Message : m # h => result'[m] = result[m]
  BY <1>2 DEF PacketInv, PacketTypeOK
<1>5. ASSUME NEW m \in Message PROVE ClientSound(m)'
  <2>1. ReplyPort[m] \in Task /\ ReplyPort[m] # Server
    BY PacketTypes
  <2>2. CASE m = h
    <3>1. ClientSound(m)
      BY DEF PacketInv
    <3>2. InHand(m)' /\ ~Replied(m)' /\ ~Replied(m)
      BY <1>0, <1>1, <2>2 DEF InHand, Replied
    <3>3. MaskSound(m)' /\ SignalSound(m)' /\ PlaceSound(m)'
      BY <1>0, <1>1, <1>3, <2>1, <2>2, <3>1, <3>2 DEF ClientSound, MaskSound, SignalSound, PlaceSound
    <3> QED BY <1>0, <1>3, <1>4, <2>1, <2>2, <3>1, <3>2, <3>3 DEF ClientSound
  <2>3. CASE m # h
    BY <1>0, <1>1, <1>3, <1>4, <2>1, <2>3, ClientKept DEF Untouched
  <2> QED BY <2>2, <2>3
<1>6. ServerSound'
  BY <1>0, <1>1, <1>3, ServerAssumption DEF PacketInv, ServerSound
<1>7. PacketTypeOK'
  BY <1>0, <1>3, <1>4 DEF PacketInv, PacketTypeOK
<1> QED BY <1>0, <1>5, <1>6, <1>7 DEF PacketInv

\* ReplyMsg: the reply port is empty, so its owner is signalled.
LEMMA ServerRepliesInv ==
  ASSUME PacketInv, ServerReplies
  PROVE  PacketInv'
<1>0. /\ SchedInv(sched) /\ Server \in Task /\ Me = Server /\ at[Server] = "reply"
      /\ ~sched.halted /\ sched.mask[Me] = {}
      /\ UNCHANGED <<result, rounds>> /\ packet' = NoMessage
      /\ at' = [at EXCEPT ![Server] = "drain"]
  BY PacketTypes DEF ServerReplies, Goes, Running
<1>1. PICK h \in Message : h = packet /\ at[ReplyPort[h]] = "wait" /\ InHand(h)
  BY <1>0, PacketInHand
<1>2. PICK c \in Task : c = ReplyPort[h] /\ c # Server
  BY <1>1, PacketTypes
<1>3. PICK b \in Sig : b = ports[c].sig
  BY PacketTypes
<1>4. ports[c].ring = << >>
  BY <1>1, <1>2 DEF InHand
<1>5. sched' = Signal(sched, c, {b}) /\ ports' = [ports EXCEPT ![c].ring = Append(@, h)]
  <2>1. Len(ports[c].ring) < RingCap
    BY <1>4, PortAssumption
  <2>2. Become(PutMsg(World, c, h))
    BY <1>1, <1>2 DEF ServerReplies, ReplyMsg
  <2>3. PacketTypeOK
    BY DEF PacketInv
  <2> QED BY <1>3, <1>4, <2>1, <2>2, <2>3, PutMsgFields, Zenon
<1>6. /\ ports' \in [Task -> PortType]
      /\ \A u \in Task : u # c => ports'[u] = ports[u]
      /\ ports'[c].open = ports[c].open /\ ports'[c].sig = b /\ ports'[c].ring = <<h>>
  <2>1. Append(<< >>, h) = <<h>>
    OBVIOUS
  <2>2. ports' = [ports EXCEPT ![c].ring = <<h>>]
    BY <1>4, <1>5, <2>1
  <2>3. ports[c] \in PortType /\ <<h>> \in Seq(Message)
    BY DEF PacketInv, PacketTypeOK
  <2>4. [ports[c] EXCEPT !.ring = <<h>>] \in PortType
    BY <2>3, Zenon DEF PortType
  <2> QED BY <1>3, <2>2, <2>3, <2>4 DEF PacketInv, PacketTypeOK, PortType
<1>7. ClientSound(h)
  BY DEF PacketInv
<1>8. Alive(sched, c) /\ result[h] = rounds[h]
  BY <1>0, <1>1, <1>2, <1>7 DEF ClientSound
<1>9. {b} \in SUBSET Sig /\ sched.state[c] # "TS_INVALID"
  BY <1>8 DEF Alive
<1>10. SchedInv(sched')
  BY <1>0, <1>5, <1>9, SignalInv DEF Me
<1>11. /\ \A u \in Task : u # c => Untouched(sched, sched', u)
       /\ Alive(sched', c) <=> Alive(sched, c)
       /\ sched'.recvd[c] = sched.recvd[c] \cup {b} /\ sched'.mask[c] = sched.mask[c]
  BY <1>0, <1>5, <1>9, SignalEffect
<1>12. /\ at' \in [Task -> Places] /\ at'[Server] = "drain"
       /\ \A u \in Task : u # Server => at'[u] = at[u]
  BY <1>0 DEF PacketInv, PacketTypeOK, Places
<1>13. ClientSound(h)'
  <2>1. Replied(h)'
    BY <1>0, <1>1, <1>2, <1>6, ServerAssumption DEF Replied, InHand
  <2>2. at'[c] = "wait" /\ ports[c].open /\ MaskSound(h)
    BY <1>1, <1>2, <1>7, <1>12 DEF ClientSound, SignalSound
  <2>3. MaskSound(h)'
    BY <1>1, <1>2, <1>3, <1>6, <1>11, <2>2 DEF MaskSound
  <2>4. SignalSound(h)'
    BY <1>2, <1>6, <1>11, <2>1, <2>2 DEF SignalSound
  <2>5. PlaceSound(h)'
    BY <1>2, <2>1, <2>2 DEF PlaceSound
  <2> QED BY <1>0, <1>2, <1>8, <1>11, <2>2, <2>3, <2>4, <2>5 DEF ClientSound
<1>14. ASSUME NEW m \in Message PROVE ClientSound(m)'
  <2>1. CASE m = h
    BY <1>13, <2>1
  <2>2. CASE m # h
    <3>1. ReplyPort[m] \in Task /\ ReplyPort[m] # Server /\ ReplyPort[m] # c
      BY <1>2, <2>2, PacketTypes
    <3>2. packet' # m /\ packet # m
      BY <1>0, <1>1, <2>2, ServerAssumption
    <3> QED BY <1>0, <1>2, <1>6, <1>11, <1>12, <3>1, <3>2, ClientKept
  <2> QED BY <2>1, <2>2
<1>15. ServerSound'
  <2>1. Untouched(sched, sched', Server) /\ ports'[Server] = ports[Server]
    BY <1>0, <1>2, <1>6, <1>11
  <2> QED BY <1>0, <1>12, <2>1 DEF PacketInv, ServerSound, Untouched
<1>16. PacketTypeOK'
  BY <1>0, <1>6, <1>12 DEF PacketInv, PacketTypeOK
<1> QED BY <1>10, <1>14, <1>15, <1>16 DEF PacketInv

-----------------------------------------------------------------------------
(* A client's steps.                                                       *)

\* A step of m's client that leaves the server alone and m's place to the
\* client: of the other clients, nothing changes.
LEMMA ClientMoves ==
  ASSUME PacketInv, NEW m \in Message, ReplyPort[m] = Me, SchedInv(sched'),
         \A u \in Task : u # Me => Untouched(sched, sched', u),
         ports' \in [Task -> PortType], \A u \in Task : u # Me => ports'[u] = ports[u],
         NEW there \in Places, at' = [at EXCEPT ![Me] = there],
         UNCHANGED <<packet, result, rounds>>,
         ClientSound(m)'
  PROVE  PacketInv'
<1>0. Me \in Task /\ Me # Server /\ Server \in Task
  BY PacketTypes
<1>1. at' \in [Task -> Places] /\ \A u \in Task : u # Me => at'[u] = at[u]
  BY Zenon DEF PacketInv, PacketTypeOK
<1>2. ASSUME NEW n \in Message PROVE ClientSound(n)'
  <2>1. CASE n = m
    BY <2>1
  <2>2. CASE n # m
    <3>1. ReplyPort[n] \in Task /\ ReplyPort[n] # Me
      BY <2>2, PacketTypes
    <3> QED BY <1>0, <1>1, <3>1, ClientKept
  <2> QED BY <2>1, <2>2
<1>3. ServerSound'
  BY <1>0, <1>1 DEF PacketInv, ServerSound, Untouched
<1>4. PacketTypeOK'
  BY <1>1 DEF PacketInv, PacketTypeOK
<1> QED BY <1>2, <1>3, <1>4 DEF PacketInv

\* What a client's step starts from.
LEMMA ClientTypes ==
  ASSUME PacketInv, Me \in Client
  PROVE  \E m \in Message :
           /\ m = PacketOf(Me) /\ ReplyPort[m] = Me /\ ClientSound(m)
           /\ Me \in Task /\ Me # Server /\ ports[Me] \in PortType /\ at[Me] \in Places
           /\ SchedInv(sched) /\ sched \in SchedState /\ ports[Me].sig \in Sig
           /\ ports \in [Task -> PortType] /\ at \in [Task -> Places]
<1>1. PICK m \in Message : m = PacketOf(Me) /\ ReplyPort[m] = Me
  BY PacketOfProperty
<1>2. ports \in [Task -> PortType] /\ at \in [Task -> Places] /\ ClientSound(m)
  BY DEF PacketInv, PacketTypeOK
<1> QED BY <1>1, <1>2, PacketTypes

\* A client creates its reply port, or goes on without.
LEMMA ClientCreatesPortInv ==
  ASSUME PacketInv, ClientCreatesPort
  PROVE  PacketInv'
<1>0. PICK m \in Message :
        /\ m = PacketOf(Me) /\ ReplyPort[m] = Me /\ ClientSound(m)
        /\ Me \in Task /\ Me # Server /\ at[Me] \in Places
        /\ SchedInv(sched) /\ sched \in SchedState
        /\ ports \in [Task -> PortType] /\ at \in [Task -> Places]
  BY ClientTypes DEF ClientCreatesPort
<1>1. /\ ~sched.halted /\ sched.mask[Me] = {} /\ at[Me] = "start"
      /\ at' = [at EXCEPT ![Me] = "send"] /\ UNCHANGED <<packet, result, rounds>>
      /\ "send" \in Places
  BY DEF ClientCreatesPort, Running, Goes, Places
<1>2. at'[Me] = "send" /\ Alive(sched, Me) /\ Idle(m) /\ ~ports[Me].open
  BY <1>0, <1>1, MeAlive, Zenon DEF ClientSound, PlaceSound
<1>3. PICK b : b = AllocatedSig(sched, Me)
  OBVIOUS
<1>4. CASE b < 0
  <2>1. sched' = sched /\ ports' = ports
    BY <1>3, <1>4, CreateMsgPortFields DEF ClientCreatesPort
  <2>2. \A u \in Task : Untouched(sched, sched', u)
    BY <2>1 DEF Untouched
  <2>3. Idle(m)' /\ ~Replied(m)' /\ packet' # m
    BY SMTT(20), <1>1, <1>2, <2>1 DEF Idle, Replied
  <2>4. MaskSound(m)' /\ SignalSound(m)' /\ PlaceSound(m)'
    BY <1>0, <1>1, <1>2, <2>1, <2>3, Zenon DEF MaskSound, SignalSound, PlaceSound
  <2>5. ClientSound(m)'
    BY <1>0, <1>2, <2>1, <2>3, <2>4, Zenon DEF ClientSound
  <2>6. SchedInv(sched') /\ ports' \in [Task -> PortType]
    BY <1>0, <2>1
  <2> QED BY <1>0, <1>1, <2>1, <2>2, <2>5, <2>6, ClientMoves, Zenon
<1>5. CASE ~(b < 0)
  <2>1. /\ sched' = AllocSignal(sched)
        /\ ports' = [ports EXCEPT ![Me] = [open |-> TRUE, sig |-> b, ring |-> << >>]]
    BY <1>3, <1>5, CreateMsgPortFields DEF ClientCreatesPort
  <2>2. b \in Int
    <3>1. FreeSigs(sched, Me) # {} => FreeSigs(sched, Me) \in SUBSET Nat
      BY SigAssumption DEF FreeSigs
    <3> QED BY <1>3, <3>1, MinProperty DEF AllocatedSig
  <2>3. b >= 0
    BY <1>5, <2>2
  <2>4. b \in Sig
    BY <1>0, <1>3, <2>3, AllocatedSigProperty
  <2>5. SchedInv(sched')
    BY <1>0, <1>1, <2>1, AllocSignalInv DEF Me
  <2>6. /\ \A u \in Task : u # Me => Untouched(sched, sched', u)
        /\ Alive(sched', Me) <=> Alive(sched, Me)
        /\ b \notin sched'.recvd[Me] /\ sched'.mask[Me] = {}
    BY <1>0, <1>1, <1>3, <2>1, <2>3, AllocSignalEffect, Zenon DEF Me
  <2>7. [open |-> TRUE, sig |-> b, ring |-> << >>] \in PortType
    BY <2>4 DEF PortType
  <2>8. /\ ports' \in [Task -> PortType]
        /\ \A u \in Task : u # Me => ports'[u] = ports[u]
        /\ ports'[Me].ring = << >> /\ ports'[Me].sig = b
    BY <1>0, <2>1, <2>7
  <2>9. Idle(m)' /\ ~Replied(m)' /\ packet' # m
    BY <1>0, <1>1, <1>2, <2>8, PacketTypes DEF Idle, Replied
  <2>10. MaskSound(m)' /\ SignalSound(m)' /\ PlaceSound(m)'
    BY <1>0, <1>2, <2>6, <2>8, <2>9, Zenon DEF MaskSound, SignalSound, PlaceSound
  <2>11. ClientSound(m)'
    BY <1>0, <1>2, <2>6, <2>9, <2>10, Zenon DEF ClientSound
  <2> QED BY <1>0, <1>1, <2>5, <2>6, <2>8, <2>11, ClientMoves, Zenon
<1> QED BY <1>4, <1>5

\* A client sends its packet, which has room in the server's ring; the server
\* is there to be signalled.
LEMMA ClientSendsInv ==
  ASSUME IsFiniteSet(Message), Cardinality(Message) <= RingCap, PacketInv, ClientSends
  PROVE  PacketInv'
<1>0. PICK m \in Message :
        /\ m = PacketOf(Me) /\ ReplyPort[m] = Me /\ ClientSound(m)
        /\ Me \in Task /\ Me # Server /\ at[Me] \in Places
        /\ SchedInv(sched) /\ sched \in SchedState
        /\ ports \in [Task -> PortType] /\ at \in [Task -> Places]
  BY ClientTypes DEF ClientSends
<1>1. /\ ~sched.halted /\ sched.mask[Me] = {} /\ at[Me] = "send" /\ Server \in Task
      /\ UNCHANGED <<packet, result>>
  BY PacketTypes DEF ClientSends, Running, Goes
<1>2. Idle(m) /\ Alive(sched, Me)
  BY <1>0, <1>1 DEF ClientSound, PlaceSound
<1>3. CASE ~(ports[Me].open /\ ports[Server].open)
  <2>1. /\ at' = [at EXCEPT ![Me] = "delete"] /\ UNCHANGED <<sched, ports, rounds>>
        /\ "delete" \in Places
    BY <1>3 DEF ClientSends, Goes, Places
  <2>2. \A u \in Task : Untouched(sched, sched', u)
    BY <2>1 DEF Untouched
  <2>a. at'[Me] = "delete"
    BY <1>0, <2>1
  <2>3. Idle(m)' /\ ~Replied(m)' /\ packet' # m /\ at'[Me] = "delete"
    BY <1>1, <1>2, <2>1, <2>a DEF Idle, Replied
  <2>4. MaskSound(m)' /\ SignalSound(m)' /\ PlaceSound(m)'
    BY <1>0, <1>1, <2>1, <2>3, Zenon DEF MaskSound, SignalSound, PlaceSound
  <2>5. ClientSound(m)'
    BY <1>0, <1>2, <2>1, <2>3, <2>4, Zenon DEF ClientSound
  <2>6. SchedInv(sched') /\ ports' \in [Task -> PortType]
    BY <1>0, <2>1
  <2> QED BY <1>0, <1>1, <2>1, <2>2, <2>5, <2>6, ClientMoves, Zenon
<1>4. CASE ports[Me].open /\ ports[Server].open
  <2>1. /\ at' = [at EXCEPT ![Me] = "wait"]
        /\ Become(PutMsg(World, Server, m))
        /\ rounds' = [rounds EXCEPT ![m] = @ + 1]
    BY <1>0, <1>4 DEF ClientSends, Goes
  <2>2. PICK q \in Seq(Message) : q = ports[Server].ring /\ Distinct(q) /\ ~Holds(q, m)
    BY <1>2, PacketTypes, Zenon DEF Idle, PacketInv, ServerSound
  <2>3. Len(q) < RingCap
    BY <2>2, RoomForOne
  <2>4. PICK r \in Seq(Message) :
          /\ r = Append(q, m) /\ Distinct(r)
          /\ \A x \in Message : Holds(r, x) <=> x = m \/ Holds(q, x)
    BY <2>2, AppendProperty, Zenon
  <2>5. PICK b \in Sig : b = ports[Server].sig
    BY <1>1, PacketTypes
  <2>6. /\ sched' = IF q = << >> THEN Signal(sched, Server, {b}) ELSE sched
        /\ ports' = [ports EXCEPT ![Server].ring = r]
    <3>1. PacketTypeOK
      BY DEF PacketInv
    <3> QED BY <1>1, <2>1, <2>2, <2>3, <2>4, <2>5, <3>1, PutMsgFields, Zenon
  <2>7. Alive(sched, Server) /\ at[Server] # "start"
    BY <1>4 DEF PacketInv, ServerSound
  <2>8. /\ SchedInv(sched') /\ Alive(sched', Server)
        /\ \A u \in Task : u # Server => Untouched(sched, sched', u)
    <3>1. CASE q = << >>
      <4>1. {b} \in SUBSET Sig /\ sched.state[Server] # "TS_INVALID"
        BY <2>7 DEF Alive
      <4>2. sched' = Signal(sched, Server, {b})
        BY <2>6, <3>1
      <4>3. SchedInv(sched')
        BY <1>0, <1>1, <4>1, <4>2, SignalInv DEF Me
      <4> QED BY <1>0, <1>1, <2>7, <4>1, <4>2, <4>3, SignalEffect, Zenon
    <3>2. CASE q # << >>
      BY <1>0, <2>6, <2>7, <3>2 DEF Untouched
    <3> QED BY <3>1, <3>2
  <2>9. /\ ports' \in [Task -> PortType] /\ ports'[Server].ring = r
        /\ \A u \in Task : u # Server => ports'[u] = ports[u]
    <3>1. [ports[Server] EXCEPT !.ring = r] \in PortType
      BY <1>0, <1>1, Zenon DEF PortType
    <3> QED BY <1>0, <1>1, <2>6, <3>1 DEF PortType
  <2>10. /\ at' \in [Task -> Places] /\ at'[Me] = "wait"
         /\ \A u \in Task : u # Me => at'[u] = at[u]
    BY <1>0, <2>1 DEF Places
  <2>11. /\ rounds' \in [Message -> Nat]
         /\ \A n \in Message : n # m => rounds'[n] = rounds[n]
    BY <2>1 DEF PacketInv, PacketTypeOK
  <2>12. ClientSound(m)'
    <3>1. Queued(m)' /\ ~Replied(m)' /\ packet' # m
      BY <1>0, <1>1, <1>2, <2>4, <2>9, Zenon DEF Idle, Queued, Replied
    <3>2. ports'[Me] = ports[Me] /\ Untouched(sched, sched', Me) /\ ports[Me].sig \notin sched.recvd[Me]
      BY <1>0, <1>1, <1>4, <2>8, <2>9, Zenon DEF ClientSound, SignalSound
    <3>3. MaskSound(m)' /\ SignalSound(m)' /\ PlaceSound(m)'
      BY <1>0, <1>1, <1>4, <2>10, <3>1, <3>2, Zenon DEF MaskSound, SignalSound, PlaceSound, Untouched
    <3> QED BY <1>0, <1>2, <2>10, <3>1, <3>2, <3>3, Zenon DEF ClientSound, Untouched
  <2>13. ASSUME NEW n \in Message PROVE ClientSound(n)'
    <3>1. CASE n = m
      BY <2>12, <3>1
    <3>2. CASE n # m
      <4>1. ReplyPort[n] \in Task /\ ReplyPort[n] # Me /\ ReplyPort[n] # Server
        BY <1>0, <3>2, PacketTypes
      <4>2. Holds(ports'[Server].ring, n) <=> Holds(ports[Server].ring, n)
        BY <2>2, <2>4, <2>9, <3>2
      <4>3. at'[Server] = at[Server]
        BY <1>0, <1>1, <2>10
      <4>4. result'[n] = result[n] /\ packet' = packet
        BY <1>1
      <4> QED BY <2>8, <2>9, <2>10, <2>11, <3>2, <4>1, <4>2, <4>3, <4>4, ClientKept
    <3> QED BY <3>1, <3>2
  <2>14. ServerSound'
    BY <1>0, <1>1, <2>4, <2>7, <2>8, <2>9, <2>10, Zenon DEF PacketInv, ServerSound
  <2>15. PacketTypeOK'
    BY <1>1, <2>9, <2>10, <2>11 DEF PacketInv, PacketTypeOK
  <2> QED BY <2>8, <2>13, <2>14, <2>15 DEF PacketInv
<1> QED BY <1>3, <1>4

\* A turn of a client's WaitPort: it returns when the reply is there.
LEMMA ClientWaitsInv ==
  ASSUME PacketInv, ClientWaits
  PROVE  PacketInv'
<1>0. PICK m \in Message :
        /\ m = PacketOf(Me) /\ ReplyPort[m] = Me /\ ClientSound(m)
        /\ Me \in Task /\ Me # Server /\ ports[Me].sig \in Sig
        /\ SchedInv(sched) /\ sched \in SchedState
        /\ ports \in [Task -> PortType] /\ at \in [Task -> Places]
  BY ClientTypes DEF ClientWaits
<1>1. ~sched.halted /\ at[Me] = "wait" /\ UNCHANGED <<packet, result, rounds>>
  BY DEF ClientWaits
<1>2. PICK b \in Sig : b = ports[Me].sig
  BY <1>0
<1>3. sched' = Wait(sched, {b}) /\ ports' = ports
  BY <1>0, <1>2, WaitPortFields DEF ClientWaits
<1>4. {b} \in SUBSET Sig /\ {b} # {}
  OBVIOUS
<1>5. SchedInv(sched')
  BY <1>0, <1>1, <1>3, <1>4, WaitInv
<1>6. Alive(sched', Me) /\ \A u \in Task : u # Me => Untouched(sched, sched', u)
  BY <1>0, <1>1, <1>3, <1>4, WaitEffect DEF Me
<1>7. /\ Replied(m)' <=> Replied(m)
      /\ Queued(m)' <=> Queued(m)
      /\ InHand(m)' <=> InHand(m)
      /\ Idle(m)' <=> Idle(m)
  BY <1>1, <1>3 DEF Replied, Queued, InHand, Idle
<1>8. ports' \in [Task -> PortType]
  BY <1>0, <1>3
<1>a. PlaceSound(m) /\ ports[Me].open /\ (b \in sched.recvd[Me] <=> Replied(m))
  BY <1>0, <1>1, <1>2 DEF ClientSound, SignalSound
<1>9. CASE b \in sched.recvd[Me]
  <2>1. at' = [at EXCEPT ![Me] = "get"] /\ at'[Me] = "get" /\ "get" \in Places
    BY <1>0, <1>2, <1>9 DEF ClientWaits, Places
  <2>2. sched'.mask[Me] = {}
    <3>1. sched.recvd[Me] \cap {b} # {}
      BY <1>9
    <3> QED BY <1>0, <1>1, <1>3, <1>4, <3>1, WaitEffect DEF Me
  <2>3. Replied(m)' /\ result[m] = rounds[m]
    BY <1>0, <1>7, <1>9, <1>a, Zenon DEF ClientSound
  <2>4. packet # m
    BY <1>7, <2>3, Zenon DEF Replied
  <2>5. MaskSound(m)' /\ SignalSound(m)' /\ PlaceSound(m)'
    BY <1>0, <2>1, <2>2, <2>3 DEF MaskSound, SignalSound, PlaceSound
  <2>6. ClientSound(m)'
    BY <1>0, <1>1, <1>6, <2>1, <2>3, <2>4, <2>5, Zenon DEF ClientSound
  <2> QED BY <1>0, <1>1, <1>3, <1>5, <1>6, <1>8, <2>1, <2>6, ClientMoves, Zenon
<1>10. CASE b \notin sched.recvd[Me]
  <2>1. at' = [at EXCEPT ![Me] = "wait"] /\ at' = at /\ "wait" \in Places
    BY <1>0, <1>1, <1>2, <1>10, Zenon DEF ClientWaits, Places
  <2>2. sched'.recvd[Me] = sched.recvd[Me] /\ sched'.mask[Me] = {b}
    <3>1. sched.recvd[Me] \cap {b} = {}
      BY <1>10
    <3> QED BY <1>0, <1>1, <1>3, <1>4, <3>1, WaitEffect DEF Me
  <2>3. MaskSound(m)' /\ SignalSound(m)' /\ PlaceSound(m)'
    BY <1>0, <1>1, <1>2, <1>3, <1>7, <1>a, <2>1, <2>2, Zenon DEF MaskSound, SignalSound, PlaceSound
  <2>4. ClientSound(m)'
    BY <1>0, <1>1, <1>3, <1>6, <1>7, <2>1, <2>3, Zenon DEF ClientSound
  <2> QED BY <1>0, <1>1, <1>3, <1>5, <1>6, <1>8, <2>1, <2>4, ClientMoves
<1> QED BY <1>9, <1>10

\* A client takes its reply.
LEMMA ClientGetsInv ==
  ASSUME PacketInv, ClientGets
  PROVE  PacketInv'
<1>0. PICK m \in Message :
        /\ m = PacketOf(Me) /\ ReplyPort[m] = Me /\ ClientSound(m)
        /\ Me \in Task /\ Me # Server
        /\ SchedInv(sched) /\ sched \in SchedState
        /\ ports \in [Task -> PortType] /\ at \in [Task -> Places]
  BY ClientTypes DEF ClientGets
<1>1. /\ ~sched.halted /\ sched.mask[Me] = {} /\ at[Me] = "get"
      /\ at' = [at EXCEPT ![Me] = "delete"] /\ UNCHANGED <<packet, result, rounds>>
      /\ "delete" \in Places
  BY DEF ClientGets, Running, Goes, Places
<1>2. Replied(m) /\ Alive(sched, Me)
  BY <1>0, <1>1 DEF ClientSound, PlaceSound
<1>3. ports[Me].ring = <<m>> /\ <<m>> # << >> /\ Tail(<<m>>) = << >>
  BY <1>0, <1>2 DEF Replied
<1>4. sched' = sched /\ ports' = [ports EXCEPT ![Me].ring = << >>]
  <2>1. Become(GetMsg(World, Me))
    BY <1>3 DEF ClientGets
  <2> QED BY <1>0, <1>3, <2>1, GetMsgFields, Zenon
<1>5. /\ ports' \in [Task -> PortType] /\ ports'[Me].ring = << >>
      /\ \A u \in Task : u # Me => ports'[u] = ports[u]
  <2>a. ports[Me] \in PortType /\ << >> \in Seq(Message)
    BY <1>0
  <2>1. [ports[Me] EXCEPT !.ring = << >>] \in PortType
    BY <2>a, Zenon DEF PortType
  <2> QED BY <1>0, <1>4, <2>1 DEF PortType
<1>6. SchedInv(sched') /\ \A u \in Task : Untouched(sched, sched', u)
  BY <1>0, <1>4 DEF Untouched
<1>7. Idle(m)' /\ ~Replied(m)' /\ packet' # m /\ at'[Me] = "delete"
  BY <1>0, <1>1, <1>2, <1>5, PacketTypes DEF Idle, Replied
<1>8. MaskSound(m)' /\ SignalSound(m)' /\ PlaceSound(m)'
  BY <1>0, <1>1, <1>4, <1>7 DEF MaskSound, SignalSound, PlaceSound
<1>9. ClientSound(m)'
  BY <1>0, <1>2, <1>4, <1>7, <1>8 DEF ClientSound
<1> QED BY <1>0, <1>1, <1>5, <1>6, <1>9, ClientMoves, Zenon

\* A client deletes its reply port, if it has one.
LEMMA ClientDeletesPortInv ==
  ASSUME PacketInv, ClientDeletesPort
  PROVE  PacketInv'
<1>0. PICK m \in Message :
        /\ m = PacketOf(Me) /\ ReplyPort[m] = Me /\ ClientSound(m)
        /\ Me \in Task /\ Me # Server /\ ports[Me].sig \in Sig
        /\ SchedInv(sched) /\ sched \in SchedState
        /\ ports \in [Task -> PortType] /\ at \in [Task -> Places]
  BY ClientTypes DEF ClientDeletesPort
<1>1. /\ ~sched.halted /\ sched.mask[Me] = {} /\ at[Me] = "delete"
      /\ at' = [at EXCEPT ![Me] = "start"] /\ UNCHANGED <<packet, result, rounds>>
      /\ "start" \in Places
  BY DEF ClientDeletesPort, Running, Goes, Places
<1>2. Idle(m) /\ at'[Me] = "start"
  BY <1>0, <1>1 DEF ClientSound, PlaceSound
<1>3. /\ SchedInv(sched') /\ sched'.mask[Me] = {}
      /\ \A u \in Task : u # Me => Untouched(sched, sched', u)
      /\ ports' \in [Task -> PortType] /\ ports'[Me].ring = << >> /\ ~ports'[Me].open
      /\ \A u \in Task : u # Me => ports'[u] = ports[u]
  <2>1. CASE ports[Me].open
    <3>1. sched' = FreeSignal(sched, ports[Me].sig) /\ ports' = [ports EXCEPT ![Me] = NoPort]
      BY <2>1, DeleteMsgPortFields DEF ClientDeletesPort
    <3>2. SchedInv(sched')
      BY <1>0, <1>1, <3>1, FreeSignalInv DEF Me
    <3>3. sched'.mask[Me] = {} /\ \A u \in Task : u # Me => Untouched(sched, sched', u)
      BY <1>0, <1>1, <3>1, FreeSignalEffect DEF Me
    <3>4. NoPort \in PortType /\ NoPort.ring = << >> /\ ~NoPort.open
      BY SigAssumption DEF NoPort, PortType, Sig
    <3> QED BY <1>0, <3>1, <3>2, <3>3, <3>4
  <2>2. CASE ~ports[Me].open
    <3>1. UNCHANGED <<sched, ports>>
      BY <2>2 DEF ClientDeletesPort
    <3>2. ports[Me].ring = << >>
      BY <1>0, <1>2 DEF Idle
    <3> QED BY <1>0, <1>1, <2>2, <3>1, <3>2 DEF Untouched
  <2> QED BY <2>1, <2>2
<1>4. Idle(m)' /\ ~Replied(m)' /\ packet' # m
  BY <1>0, <1>1, <1>2, <1>3, PacketTypes DEF Idle, Replied
<1>5. MaskSound(m)' /\ SignalSound(m)' /\ PlaceSound(m)'
  BY <1>0, <1>2, <1>3, <1>4, Zenon DEF MaskSound, SignalSound, PlaceSound
<1>6. ClientSound(m)'
  BY <1>0, <1>2, <1>3, <1>4, <1>5, Zenon DEF ClientSound
<1> QED BY <1>0, <1>1, <1>3, <1>6, ClientMoves, Zenon

\* A client exits between two rounds.
LEMMA ClientExitsInv ==
  ASSUME PacketInv, ClientExits
  PROVE  PacketInv'
<1>0. PICK m \in Message :
        /\ m = PacketOf(Me) /\ ReplyPort[m] = Me /\ ClientSound(m)
        /\ Me \in Task /\ Me # Server
        /\ SchedInv(sched) /\ sched \in SchedState
        /\ ports \in [Task -> PortType] /\ at \in [Task -> Places]
  BY ClientTypes DEF ClientExits
<1>1. /\ ~sched.halted /\ sched.mask[Me] = {} /\ at[Me] = "start" /\ sched' = TaskExit(sched)
      /\ UNCHANGED <<ports, at, packet, result, rounds>>
  BY DEF ClientExits, Running
<1>2. SchedInv(sched')
  BY <1>0, <1>1, TaskExitInv
<1>3. \A u \in Task : u # Me => Untouched(sched, sched', u)
  BY <1>0, <1>1, TaskExitEffect DEF Me
<1>4. sched'.mask[Me] = {}
  <2>1. Exited(sched, sched')
    BY <1>0, <1>1, TaskExitFields
  <2> QED BY <1>1, <2>1 DEF Exited
<1>5. Idle(m) /\ ~ports[Me].open
  BY <1>0, <1>1 DEF ClientSound, PlaceSound
<1>6. Idle(m)' /\ ~Replied(m)' /\ packet' # m
  BY <1>1, <1>5 DEF Idle, Replied
<1>7. MaskSound(m)' /\ SignalSound(m)' /\ PlaceSound(m)'
  BY <1>0, <1>1, <1>4, <1>6, Zenon DEF MaskSound, SignalSound, PlaceSound
<1>8. ClientSound(m)'
  BY <1>0, <1>1, <1>5, <1>6, <1>7, Zenon DEF ClientSound
<1>9. at' = [at EXCEPT ![Me] = "start"] /\ "start" \in Places
  BY <1>0, <1>1 DEF Places
<1>10. ports' \in [Task -> PortType] /\ ports' = ports
  BY <1>0, <1>1
<1> QED BY <1>0, <1>1, <1>2, <1>3, <1>8, <1>9, <1>10, ClientMoves, Zenon

-----------------------------------------------------------------------------
(* The theorems.                                                           *)

\* Every step preserves the invariant.
LEMMA PacketNextInv ==
  ASSUME IsFiniteSet(Message), Cardinality(Message) <= RingCap
  PROVE  PacketInv /\ [PacketNext]_packetVars => PacketInv'
<1> SUFFICES ASSUME PacketInv, [PacketNext]_packetVars PROVE PacketInv'
  OBVIOUS
<1>1. CASE UNCHANGED packetVars
  <2>1. SchedInv(sched') /\ \A u \in Task : Untouched(sched, sched', u)
    BY <1>1 DEF packetVars, PacketInv, Untouched
  <2> QED BY <1>1, <2>1, NoClientTouched DEF packetVars
<1>2. CASE ServerStep
  BY <1>2, ServerCreatesPortInv, ServerWaitsInv, ServerGetsInv, ServerDispatchesInv,
     ServerRepliesInv DEF ServerStep
<1>3. CASE ClientStep
  BY <1>3, ClientCreatesPortInv, ClientSendsInv, ClientWaitsInv, ClientGetsInv,
     ClientDeletesPortInv, ClientExitsInv DEF ClientStep
<1> QED BY <1>1, <1>2, <1>3, StartHandlerInv, StartClientInv, YieldCpuInv DEF PacketNext

\* The invariant holds in every state.
THEOREM PacketInvariant ==
  ASSUME IsFiniteSet(Message), Cardinality(Message) <= RingCap
  PROVE  PacketSpec => []PacketInv
  BY PacketInitInv, PacketNextInv, PTL DEF PacketSpec

\* How often a packet is in a ring without duplicates.
LEMMA TimesProperty ==
  ASSUME NEW q \in Seq(Message), NEW m \in Message, Distinct(q)
  PROVE  Times(m, q) = IF Holds(q, m) THEN 1 ELSE 0
<1>1. CASE Holds(q, m)
  <2>1. PICK k \in 1..Len(q) : q[k] = m
    BY <1>1 DEF Holds
  <2>2. {i \in 1..Len(q) : q[i] = m} = {k}
    BY <2>1 DEF Distinct
  <2>3. Cardinality({k}) = 1
    BY FS_Singleton, Zenon
  <2> QED BY <1>1, <2>2, <2>3, Zenon DEF Times
<1>2. CASE ~Holds(q, m)
  <2>1. {i \in 1..Len(q) : q[i] = m} = {}
    BY <1>2 DEF Holds
  <2> QED BY <1>2, <2>1, FS_EmptySet, Zenon DEF Times
<1> QED BY <1>1, <1>2

\* A packet that was sent and whose reply was not taken is in exactly one
\* place; its client never sleeps on a reply that is there, and finds its own
\* result when it comes back from WaitPort: nothing is lost, doubled or stale,
\* whatever the priorities of server and clients are.
THEOREM PacketsInOnePlace ==
  ASSUME IsFiniteSet(Message), Cardinality(Message) <= RingCap
  PROVE  PacketSpec => []PacketInOnePlace
<1>1. PacketInv => PacketInOnePlace
  <2> SUFFICES ASSUME PacketInv, NEW m \in Message, NEW c \in Task, c = ReplyPort[m]
               PROVE  /\ Times(m, ports[Server].ring) + (IF packet = m THEN 1 ELSE 0)
                           + Times(m, ports[c].ring) = (IF at[c] \in {"wait", "get"} THEN 1 ELSE 0)
                      /\ Times(m, ports[c].ring) > 0 => sched.state[c] # "TS_WAIT"
                      /\ at[c] = "get" => ports[c].ring = <<m>> /\ result[m] = rounds[m]
    BY PortAssumption, Zenon DEF PacketInOnePlace
  <2>1. ClientSound(m) /\ SchedInv(sched)
    BY DEF PacketInv
  <2>2. Times(m, ports[Server].ring) = IF Holds(ports[Server].ring, m) THEN 1 ELSE 0
    BY PacketTypes, TimesProperty DEF PacketInv, ServerSound
  <2>3. Times(m, ports[c].ring) = IF ports[c].ring = <<m>> THEN 1 ELSE 0
    <3>1. ports[c].ring = <<m>> \/ ports[c].ring = << >>
      BY <2>1, Zenon DEF ClientSound, PlaceSound, Idle, Replied, Queued, InHand, PacketInv, PacketTypeOK, Places
    <3>2. <<m>> \in Seq(Message) /\ Distinct(<<m>>) /\ Holds(<<m>>, m)
      BY DEF Distinct, Holds
    <3>3. << >> \in Seq(Message) /\ Distinct(<< >>) /\ ~Holds(<< >>, m) /\ << >> # <<m>>
      BY DEF Distinct, Holds
    <3>4. Times(m, <<m>>) = 1 /\ Times(m, << >>) = 0
      BY <3>2, <3>3, TimesProperty, Zenon
    <3> QED BY <3>1, <3>3, <3>4
  <2>4. << >> # <<m>>
    OBVIOUS
  <2>5. CASE Replied(m)
    <3>1. at[c] \in {"wait", "get"} /\ packet # m /\ ~Holds(ports[Server].ring, m)
          /\ ports[c].ring = <<m>> /\ result[m] = rounds[m]
      BY <2>1, <2>4, <2>5, Zenon DEF ClientSound, PlaceSound, Idle, Replied
    <3>2. sched.state[c] # "TS_WAIT"
      <4> SUFFICES ASSUME sched.state[c] = "TS_WAIT" PROVE FALSE
        OBVIOUS
      <4>1. sched.mask[c] # {} /\ sched.recvd[c] \cap sched.mask[c] = {}
        BY <2>1 DEF SchedInv, Wakeful
      <4>2. at[c] = "wait" /\ sched.mask[c] = {ports[c].sig}
        BY <2>1, <4>1 DEF ClientSound, MaskSound
      <4>3. ports[c].sig \in sched.recvd[c]
        BY <2>1, <2>5, <4>2 DEF ClientSound, SignalSound
      <4> QED BY <4>1, <4>2, <4>3, Zenon
    <3> QED BY <2>2, <2>3, <3>1, <3>2
  <2>6. CASE Queued(m) \/ InHand(m)
    <3>1. at[c] = "wait" /\ ports[c].ring = << >>
      BY <2>1, <2>4, <2>6, Zenon DEF ClientSound, PlaceSound, Idle, Replied, Queued, InHand
    <3> QED BY <2>2, <2>3, <2>4, <2>6, <3>1 DEF Queued, InHand
  <2>7. CASE at[c] \notin {"wait", "get"}
    <3>1. Idle(m) /\ ports[c].ring = << >>
      BY <2>1, <2>7 DEF ClientSound, PlaceSound, Idle
    <3> QED BY SMTT(20), <2>2, <2>3, <2>4, <2>7, <3>1 DEF Idle
  <2> QED BY <2>1, <2>5, <2>6, <2>7, Zenon DEF ClientSound, PlaceSound
<1> QED BY <1>1, PacketInvariant, PTL
=============================================================================
