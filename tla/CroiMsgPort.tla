---------------------------- MODULE CroiMsgPort ----------------------------
(***************************************************************************)
(* Message ports (src/croi/ipc/msgport.c and src/croi/exec_lib/ipc.c) over *)
(* the scheduler.  The calls are functions of the state they change:       *)
(*                                                                         *)
(*   w.s   the scheduler state of CroiSched                                *)
(*   w.p   per task, the port it owns: open, signal_bit and the ring, as   *)
(*         the bounded queue that CaraRing shows it to be                  *)
(*                                                                         *)
(* A port belongs to the task that created it, and a task has at most one  *)
(* here, so a port is named by its owner.  A message carries its reply     *)
(* port: ReplyPort[m].                                                     *)
(***************************************************************************)
EXTENDS CroiSched

CONSTANTS
  Message,    \* the messages
  ReplyPort,  \* mn_ReplyPort of each
  RingCap     \* CARA_PORT_RING_CAP

ASSUME PortAssumption ==
  /\ ReplyPort \in [Message -> Task]
  /\ RingCap \in Nat \ {0}

NoPort == [open |-> FALSE, sig |-> 0, ring |-> << >>]

\* Mutant of PutMsg: signals every message but the one that ends an idle spell.
PutMsgSignalsLater(w, o, m) ==
  LET port == w.p[o]
      into == [w EXCEPT !.p[o].ring = Append(@, m)]
  IN  IF Len(port.ring) >= RingCap THEN w
      ELSE IF port.ring # << >> THEN [into EXCEPT !.s = Signal(@, o, {port.sig})]
      ELSE into

\* Mutant of PutMsg: the ring counts as full one slot early.
PutMsgFullEarly(w, o, m) ==
  LET port == w.p[o]
      into == [w EXCEPT !.p[o].ring = Append(@, m)]
  IN  IF Len(port.ring) + 1 >= RingCap THEN w
      ELSE IF port.ring = << >> THEN [into EXCEPT !.s = Signal(@, o, {port.sig})]
      ELSE into

\* A full ring drops the message; the owner is signalled when the ring was
\* empty, and only then.
PutMsg(w, o, m) ==
  LET port == w.p[o]
      into == [w EXCEPT !.p[o].ring = Append(@, m)]
  IN  IF Len(port.ring) >= RingCap THEN w
      ELSE IF port.ring = << >> THEN [into EXCEPT !.s = Signal(@, o, {port.sig})]
      ELSE into

\* The dequeue of a successful GetMsg; the message is the ring's head.
GetMsg(w, o) == [w EXCEPT !.p[o].ring = Tail(@)]

ReplyMsg(w, m) == PutMsg(w, ReplyPort[m], m)

\* One turn of the Croi_Wait that WaitPort is.  The ring is not looked at.
WaitPort(w, o) == [w EXCEPT !.s = Wait(@, {w.p[o].sig})]

\* A fresh signal of the caller's, and an empty ring.
CreateMsgPort(w) ==
  LET me  == w.s.current
      sig == AllocatedSig(w.s, me)
  IN  IF sig < 0 THEN w
      ELSE [s |-> AllocSignal(w.s),
            p |-> [w.p EXCEPT ![me] = [open |-> TRUE, sig |-> sig, ring |-> << >>]]]

DeleteMsgPort(w) ==
  LET me == w.s.current
  IN  [s |-> FreeSignal(w.s, w.p[me].sig), p |-> [w.p EXCEPT ![me] = NoPort]]
=============================================================================
