----------------------------- MODULE XhciDriver -----------------------------
(***************************************************************************)
(* The xHCI host controller driver (src/croi/xhci): reset and set-up, the     *)
(* ports, a slot and an address for every device, its descriptors, its         *)
(* configuration, an interrupt endpoint per boot keyboard or mouse, and the     *)
(* input pump that keeps one transfer per endpoint under way.  One driver      *)
(* thread; the controller runs beside it.  They share rings whose entries      *)
(* carry a cycle bit: Enqueue is the producer's side of the command and the     *)
(* transfer rings, TakeEvent the consumer's side of the one event ring.        *)
(* A control transfer, two or three TRBs in the code, is one TRB here.         *)
(***************************************************************************)
EXTENDS Integers, Sequences, FiniteSets, SequencesExt, TLC

CONSTANTS
  NPorts, MaxSlots, MaxIfs,
  RingSize,      \* TRBs of a command or transfer ring, the Link TRB included
  EvSize,        \* TRBs of the event ring
  Plugs,         \* what may be plugged in: port -> device
  MaxFaults,     \* errors, late answers and port events between them
  MaxReports

ASSUME XhciAssumption == RingSize \in Nat \ {0, 1} /\ EvSize \in Nat \ {0, 1} /\ MaxIfs \in Nat \ {0}

VARIABLES xh, hw

xhciVars == <<xh, hw>>

SlotIds == 1..MaxSlots
Cmd == <<0, 0>>              \* a ring is named by slot and endpoint (DCI)
Ep0(s) == <<s, 1>>
NoPtr == <<<<0, 0>>, -1>>    \* a TRB's address is its ring and its index
NoTrb == [t |-> "none", s |-> 0, n |-> 0]
Link == [t |-> "link", s |-> 0, n |-> 0]

(* A ring as Setup leaves it: zeroed, the Link TRB last, its cycle bit clear. *)
FreshRing == [cell |-> [i \in 0..RingSize-1 |-> [trb |-> IF i = RingSize-1 THEN Link ELSE NoTrb, cyc |-> FALSE]],
              enq |-> 0, cyc |-> TRUE]
FreshReader == [deq |-> 0, ccs |-> TRUE]
NoEvent == [t |-> "none", ptr |-> NoPtr, ok |-> FALSE, s |-> 0, cyc |-> FALSE]
FreshSlot == [in_use |-> FALSE, port |-> 0, dd |-> FALSE, cfg |-> FALSE, val |-> 0, usb |-> FALSE, ifs |-> << >>]
NoBuf == [t |-> "none", port |-> 0, n |-> 0]

XhciInit ==
  /\ \E plug \in Plugs :
       hw = [plug |-> plug, run |-> FALSE, rd |-> << >>, ev |-> [i \in 0..EvSize-1 |-> NoEvent],
             enq |-> 0, pcs |-> TRUE, slot |-> [s \in SlotIds |-> 0], entries |-> [s \in SlotIds |-> 0],
             eps |-> [s \in SlotIds |-> {}], halted |-> {}, buf |-> << >>, sent |-> << >>, errors |-> 0, portev |-> 0]
  /\ xh = [pc |-> "probe", i |-> 1, s |-> 1, j |-> 1, wait |-> NoPtr, conn |-> {}, ring |-> << >>, deq |-> 0,
           evc |-> TRUE, slots |-> [s \in SlotIds |-> FreshSlot], got |-> << >>, timeouts |-> 0]

MoreFaults == hw.errors + hw.portev + xh.timeouts < MaxFaults

(***************************************************************************)
(* Rings                                                                    *)
(***************************************************************************)

(* A TRB goes to the enqueue index with the producer's cycle; before the     *)
(* Link TRB the ring wraps: the Link is handed over too and the cycle turns. *)
EnqueueStaleLink(r, trb) ==
  LET wraps == r.enq + 1 = RingSize - 1 IN
  [r EXCEPT !.cell[r.enq] = [trb |-> trb, cyc |-> r.cyc],
            !.enq = IF wraps THEN 0 ELSE @ + 1,
            !.cyc = IF wraps THEN ~@ ELSE @]
Enqueue(r, trb) ==
  LET wraps == r.enq + 1 = RingSize - 1
      put == [r.cell EXCEPT ![r.enq] = [trb |-> trb, cyc |-> r.cyc]]
  IN [cell |-> IF wraps THEN [put EXCEPT ![RingSize-1].cyc = r.cyc] ELSE put,
      enq |-> IF wraps THEN 0 ELSE r.enq + 1,
      cyc |-> IF wraps THEN ~r.cyc ELSE r.cyc]

(* The event ring has no Link TRB: the reader's cycle turns at the end. *)
Valid == hw.ev[xh.deq].cyc = xh.evc
Event == hw.ev[xh.deq]
TakeEvent(x) == [x EXCEPT !.deq = (@ + 1) % EvSize, !.evc = IF x.deq + 1 = EvSize THEN ~@ ELSE @]

(* Queue a TRB, ring the doorbell, wait at pc. *)
Send(x, key, trb, pc) ==
  [x EXCEPT !.ring[key] = Enqueue(@, trb), !.wait = <<key, x.ring[key].enq>>, !.pc = pc]

(***************************************************************************)
(* The controller and the devices (hardware)                                *)
(***************************************************************************)

(* Where the controller reads a ring: past the Link TRB once it is handed     *)
(* over, and no further than the driver's cycle bits say.                     *)
Reader(key) ==
  LET r == hw.rd[key]  c == xh.ring[key].cell[r.deq] IN
  IF c.trb = Link /\ c.cyc = r.ccs THEN [deq |-> 0, ccs |-> ~r.ccs] ELSE r
Cell(key) == xh.ring[key].cell[Reader(key).deq]
Fetchable(key) == Cell(key).trb # Link /\ Cell(key).cyc = Reader(key).ccs /\ key \notin hw.halted
Fetched(key) == Cell(key).trb
Ptr(key) == <<key, Reader(key).deq>>

Room == (hw.enq + 1) % EvSize # xh.deq
Posted(h, e) ==
  [h EXCEPT !.ev[h.enq] = [e EXCEPT !.cyc = h.pcs], !.enq = (@ + 1) % EvSize,
            !.pcs = IF h.enq + 1 = EvSize THEN ~@ ELSE @]
Advance(h, key) == [h EXCEPT !.rd[key] = [Reader(key) EXCEPT !.deq = @ + 1]]
Ev(t, ptr, ok, s) == [t |-> t, ptr |-> ptr, ok |-> ok, s |-> s, cyc |-> FALSE]

RunCommand ==
  /\ hw.run /\ Room /\ Fetchable(Cmd)
  /\ LET trb == Fetched(Cmd)
         free == {s \in SlotIds : hw.slot[s] = 0}
         h == Advance(hw, Cmd)
     IN \/ /\ trb.t = "enable" /\ free # {}
           /\ LET s == CHOOSE s \in free : \A u \in free : s <= u IN
              hw' = Posted([h EXCEPT !.slot[s] = -1], Ev("cmd", Ptr(Cmd), TRUE, s))
        \/ /\ trb.t = "enable" /\ free = {}
           /\ hw' = Posted(h, Ev("cmd", Ptr(Cmd), FALSE, 0))
        \/ /\ trb.t = "enable" /\ MoreFaults       \* a slot nobody asked for
           /\ hw' = Posted([h EXCEPT !.errors = @ + 1], Ev("cmd", Ptr(Cmd), TRUE, MaxSlots + 1))
        \/ /\ trb.t = "address"
           /\ hw' = Posted([h EXCEPT !.slot[trb.s] = trb.n, !.rd = (Ep0(trb.s) :> FreshReader) @@ @],
                           Ev("cmd", Ptr(Cmd), TRUE, trb.s))
        \/ /\ trb.t = "endpoint"
           /\ hw' = Posted([h EXCEPT !.eps[trb.s] = @ \cup {trb.n}, !.entries[trb.s] = trb.n,
                                     !.rd = (<<trb.s, trb.n>> :> FreshReader) @@ @,
                                     !.sent = (<<trb.s, trb.n>> :> 0) @@ @],
                           Ev("cmd", Ptr(Cmd), TRUE, trb.s))
        \/ /\ MoreFaults
           /\ hw' = Posted([h EXCEPT !.errors = @ + 1], Ev("cmd", Ptr(Cmd), FALSE, trb.s))

RunControl(s) ==
  /\ Ep0(s) \in DOMAIN hw.rd /\ Room /\ Fetchable(Ep0(s))
  /\ LET h == Advance(hw, Ep0(s)) IN
     \/ hw' = Posted([h EXCEPT !.buf = (Ep0(s) :> [t |-> Fetched(Ep0(s)).t, port |-> hw.slot[s], n |-> 0]) @@ @],
                     Ev("xfer", Ptr(Ep0(s)), TRUE, s))
     (* A stall halts the endpoint and names another TRB than the last. *)
     \/ /\ MoreFaults
        /\ hw' = Posted([h EXCEPT !.errors = @ + 1, !.halted = @ \cup {Ep0(s)}], Ev("xfer", NoPtr, FALSE, s))

(* A report arrives at an armed interrupt endpoint. *)
Report(s, n) ==
  /\ <<s, n>> \in DOMAIN hw.sent /\ Room /\ Fetchable(<<s, n>>)
  /\ LET key == <<s, n>>  h == Advance(hw, key) IN
     \/ /\ hw.sent[key] < MaxReports
        /\ hw' = Posted([h EXCEPT !.sent[key] = @ + 1, !.buf = (key :> [t |-> "report", port |-> hw.slot[s], n |-> hw.sent[key] + 1]) @@ @],
                        Ev("xfer", Ptr(key), TRUE, s))
     \/ /\ MoreFaults
        /\ hw' = Posted([h EXCEPT !.errors = @ + 1, !.halted = @ \cup {key}], Ev("xfer", Ptr(key), FALSE, s))

PortEvent ==
  /\ hw.run /\ Room /\ MoreFaults
  /\ hw' = Posted([hw EXCEPT !.portev = @ + 1], Ev("port", NoPtr, TRUE, 0))
  /\ UNCHANGED xh

HostController ==
  /\ \/ RunCommand
     \/ \E s \in SlotIds : RunControl(s)
     \/ \E key \in DOMAIN hw.sent : Report(key[1], key[2])
  /\ UNCHANGED xh

(***************************************************************************)
(* Waiting for an answer: xhci_cmd_send and wait_transfer_event              *)
(***************************************************************************)

(* Events are taken in order; the one for the TRB that was queued ends the    *)
(* wait, every other is dropped.                                              *)
AnyAnswer(kind) == Valid /\ Event.t = kind
Answer(kind) == Valid /\ Event.t = kind /\ Event.ptr = xh.wait
Drop(kind) == Valid /\ ~Answer(kind) /\ xh' = TakeEvent(xh)

(* The poll gives up: the controller is late, or the endpoint is halted and   *)
(* will never answer.                                                         *)
TimedOut ==
  \/ ~Valid /\ MoreFaults
  \/ ~Valid /\ xh.wait[1] \in hw.halted
Late(x) == IF xh.wait[1] \in hw.halted THEN x ELSE [x EXCEPT !.timeouts = @ + 1]

(* What a wait of pc ends in: yes with the event, or no. *)
Wait(pc, kind, yes, no) ==
  /\ xh.pc = pc
  /\ \/ Drop(kind)
     \/ Answer(kind) /\ Event.ok /\ xh' \in yes
     \/ Answer(kind) /\ ~Event.ok /\ xh' = TakeEvent(no)
     \/ TimedOut /\ xh' = Late(no)
  /\ UNCHANGED hw

(***************************************************************************)
(* Bring-up (entry.c calls the stages one after the other)                  *)
(***************************************************************************)

At(pc) == [xh EXCEPT !.pc = pc, !.s = 1, !.j = 1]

(* A step that may fail for want of pages, or of an answer of the hardware;   *)
(* such a failure counts as an error.                                         *)
Fails(next) == MoreFaults /\ hw' = [hw EXCEPT !.errors = @ + 1] /\ xh' = next

Croi_Xhci_Probe ==
  /\ xh.pc = "probe"
  /\ \/ xh' = At("setup") /\ UNCHANGED hw
     \/ Fails(At("dead"))

Croi_Xhci_Setup ==
  /\ xh.pc = "setup"
  /\ \/ /\ xh' = [At("ports") EXCEPT !.ring = (Cmd :> FreshRing)]
        /\ hw' = [hw EXCEPT !.run = TRUE, !.rd = (Cmd :> FreshReader)]
     \/ Fails(At("dead"))

Croi_Xhci_PortsWalk ==
  /\ xh.pc = "ports"
  /\ xh' = [At("reset") EXCEPT !.conn = {p \in 1..NPorts : hw.plug[p].there}]
  /\ UNCHANGED hw

NextPort == [xh EXCEPT !.pc = "reset", !.i = @ + 1]

Croi_Xhci_AddressConnectedDevices ==
  /\ xh.pc = "reset"
  /\ \/ xh.i > NPorts /\ xh' = At("dd") /\ UNCHANGED hw
     \/ xh.i <= NPorts /\ xh.i \notin xh.conn /\ xh' = NextPort /\ UNCHANGED hw
     \/ xh.i \in xh.conn /\ xh' = Send(xh, Cmd, [t |-> "enable", s |-> 0, n |-> 0], "enable?") /\ UNCHANGED hw
     \/ xh.i \in xh.conn /\ Fails(NextPort)    \* port_reset

(* enable_slot, then address_device: its contexts and its EP0 ring, which may *)
(* find no pages.  A slot the driver has no place for is not used.            *)
enable_slot ==
  LET s == Event.s
      x == TakeEvent([xh EXCEPT !.s = s, !.ring = (Ep0(s) :> FreshRing) @@ @])
  IN Wait("enable?", "cmd",
          {TakeEvent(NextPort)} \cup
          (IF s \in SlotIds THEN {Send(x, Cmd, [t |-> "address", s |-> s, n |-> xh.i], "address?")} ELSE {}),
          NextPort)

address_device ==
  Wait("address?", "cmd",
       {[TakeEvent(NextPort) EXCEPT !.slots[xh.s].in_use = TRUE, !.slots[xh.s].port = xh.i]},
       NextPort)

(* The stages that go from slot to slot: a slot that does not qualify is      *)
(* skipped, one whose transfer fails too.                                     *)
NextSlot(pc) == [xh EXCEPT !.pc = pc, !.s = @ + 1, !.j = 1]
Slot == xh.slots[xh.s]

Stage(pc, wants, x, next) ==
  /\ xh.pc = pc
  /\ xh' = IF xh.s > MaxSlots THEN At(next) ELSE IF wants THEN x ELSE NextSlot(pc)
  /\ UNCHANGED hw

ControlTransfer(t, pc) == Send(xh, Ep0(xh.s), [t |-> t, s |-> xh.s, n |-> 0], pc)

Croi_Xhci_ReadDescriptors ==
  \/ Stage("dd", xh.s <= MaxSlots /\ Slot.in_use /\ ~Slot.dd, ControlTransfer("device", "dd?"), "cfg")
  \/ Wait("dd?", "xfer", {[TakeEvent(NextSlot("dd")) EXCEPT !.slots[xh.s].dd = TRUE]}, NextSlot("dd"))

(***************************************************************************)
(* parse_config_tree: the configuration's value and its interfaces, each     *)
(* with its first interrupt-IN endpoint.                                     *)
(***************************************************************************)

Iface(d) == [num |-> d.num, class |-> d.class, ep |-> -1, disp |-> "none", conf |-> FALSE, boot |-> FALSE,
             out |-> NoPtr, ready |-> FALSE, report |-> 0]

(* An interface there is no place for: its endpoints belong to nobody. *)
NoPlace(st) == [st EXCEPT !.cur = 0]

ParseStep(st, d) ==
  IF st.done \/ d.t = "bad" THEN [st EXCEPT !.done = TRUE]
  ELSE IF d.t = "config" THEN [st EXCEPT !.val = IF d.long THEN d.num ELSE @]
  ELSE IF d.t = "interface"
    THEN IF d.long /\ Len(st.ifs) < MaxIfs
           THEN [st EXCEPT !.ifs = Append(@, Iface(d)), !.cur = Len(st.ifs) + 1]
           ELSE NoPlace(st)
  ELSE IF d.t = "endpoint" /\ d.long /\ st.cur > 0 /\ st.ifs[st.cur].ep = -1 /\ d.class = "int-in"
    THEN [st EXCEPT !.ifs[st.cur].ep = d.num]
  ELSE st

parse_config_tree(tree) ==
  FoldLeft(ParseStep, [val |-> 0, ifs |-> << >>, cur |-> 0, done |-> FALSE], tree)

(* Nine bytes for the length, then the whole; what is read is what the DMA    *)
(* buffer of the slot holds.                                                  *)
Buf == hw.buf[Ep0(xh.s)]
Tree == IF Buf.t = "tree" THEN hw.plug[Buf.port].tree ELSE << >>
Parsed ==
  LET p == parse_config_tree(Tree) IN
  [TakeEvent(NextSlot("cfg")) EXCEPT !.slots[xh.s].cfg = TRUE, !.slots[xh.s].val = p.val, !.slots[xh.s].ifs = p.ifs]

Croi_Xhci_ReadConfigurations ==
  \/ Stage("cfg", xh.s <= MaxSlots /\ Slot.in_use /\ Slot.dd /\ ~Slot.cfg, ControlTransfer("head", "cfg9?"), "usb")
  \/ Wait("cfg9?", "xfer",
          {IF hw.plug[Buf.port].tree = << >> THEN TakeEvent(NextSlot("cfg"))
           ELSE TakeEvent(ControlTransfer("tree", "cfgall?"))},
          NextSlot("cfg"))
  \/ Wait("cfgall?", "xfer", {Parsed}, NextSlot("cfg"))

Croi_Xhci_ConfigureSlots ==
  \/ Stage("usb", xh.s <= MaxSlots /\ Slot.in_use /\ Slot.cfg /\ Slot.val # 0, ControlTransfer("setcfg", "usb?"), "dispatch")
  \/ Wait("usb?", "xfer", {[TakeEvent(NextSlot("usb")) EXCEPT !.slots[xh.s].usb = TRUE]}, NextSlot("usb"))

Dispatch(f) == [f EXCEPT !.disp = IF f.class \in {"kbd", "mouse"} THEN f.class ELSE "other"]
Croi_Xhci_DispatchInterfaces ==
  /\ xh.pc = "dispatch"
  /\ xh' = [At("ints") EXCEPT !.slots = [s \in SlotIds |-> [xh.slots[s] EXCEPT !.ifs = [j \in DOMAIN @ |-> Dispatch(@[j])]]]]
  /\ UNCHANGED hw

(* The stages that go from interface to interface. *)
NextIface(pc) == IF xh.s <= MaxSlots /\ xh.j < Len(Slot.ifs) THEN [xh EXCEPT !.pc = pc, !.j = @ + 1] ELSE NextSlot(pc)
HidIface(s, j) == xh.slots[s].in_use /\ j \in DOMAIN xh.slots[s].ifs /\ xh.slots[s].ifs[j].disp \in {"kbd", "mouse"}

(* endpoint_dci of an IN endpoint; 1 is EP0, past 31 there is none. *)
endpoint_dci(n) == 2 * n + 1
If == Slot.ifs[xh.j]
Wanted == HidIface(xh.s, xh.j) /\ If.ep # -1 /\ ~If.conf

configure_one_int_endpoint ==
  LET n == endpoint_dci(If.ep)
      x == [xh EXCEPT !.ring = (<<xh.s, n>> :> FreshRing) @@ @]
  IN Send(x, Cmd, [t |-> "endpoint", s |-> xh.s, n |-> n], "int?")

Croi_Xhci_ConfigureHidInterrupts ==
  \/ /\ xh.pc = "ints"
     /\ \/ xh.s > MaxSlots /\ xh' = At("boot") /\ UNCHANGED hw
        \/ xh.s <= MaxSlots /\ ~Wanted /\ xh' = NextIface("ints") /\ UNCHANGED hw
        \/ /\ xh.s <= MaxSlots /\ Wanted
           /\ IF endpoint_dci(If.ep) \in 2..31 THEN xh' = configure_one_int_endpoint ELSE xh' = NextIface("ints")
           /\ UNCHANGED hw
        \/ xh.s <= MaxSlots /\ Wanted /\ Fails(NextIface("ints"))      \* no pages
  \/ Wait("int?", "cmd", {[TakeEvent(NextIface("ints")) EXCEPT !.slots[xh.s].ifs[xh.j].conf = TRUE]}, NextIface("ints"))

Croi_Xhci_HidSetBootProtocols ==
  \/ /\ xh.pc = "boot"
     /\ xh' = IF xh.s > MaxSlots THEN At("pump")
              ELSE IF HidIface(xh.s, xh.j) /\ ~If.boot THEN ControlTransfer("protocol", "boot?")
              ELSE NextIface("boot")
     /\ UNCHANGED hw
  \/ Wait("boot?", "xfer", {[TakeEvent(NextIface("boot")) EXCEPT !.slots[xh.s].ifs[xh.j].boot = TRUE]}, NextIface("boot"))

(***************************************************************************)
(* The input pump                                                           *)
(***************************************************************************)

Key(x, s, j) == <<s, endpoint_dci(x.slots[s].ifs[j].ep)>>
Interfaces == {<<s, j>> \in SlotIds \X (1..MaxIfs) : HidIface(s, j)}
Armable(x, s, j) == x.slots[s].ifs[j].conf /\ x.slots[s].ifs[j].out = NoPtr

(* Croi_Xhci_HidArm: at most one transfer of an interface under way. *)
Croi_Xhci_HidArm(x, ij) ==
  LET s == ij[1]  j == ij[2]  key == Key(x, s, j) IN
  IF ~Armable(x, s, j) THEN x
  ELSE [x EXCEPT !.ring[key] = Enqueue(@, [t |-> "in", s |-> s, n |-> j]),
                 !.slots[s].ifs[j].out = <<key, x.ring[key].enq>>]

PumpArm ==
  /\ xh.pc = "pump"
  /\ xh' = [FoldLeft(Croi_Xhci_HidArm, xh, SetToSortSeq(Interfaces, LAMBDA a, b : a[1] < b[1] \/ (a[1] = b[1] /\ a[2] < b[2])))
            EXCEPT !.pc = "service"]
  /\ UNCHANGED hw

(* Croi_Xhci_HidServiceEvents: one event; the interface whose transfer it     *)
(* completes has a report, unless the transfer failed.                        *)
Owner == {ij \in Interfaces : xh.slots[ij[1]].ifs[ij[2]].out = Event.ptr /\ Event.ptr # NoPtr}
Completed(x, ij) ==
  LET f == x.slots[ij[1]].ifs[ij[2]] IN
  [x EXCEPT !.slots[ij[1]].ifs[ij[2]] =
     IF Event.ok THEN [f EXCEPT !.out = NoPtr, !.ready = TRUE, !.report = hw.buf[Key(x, ij[1], ij[2])].n]
     ELSE [f EXCEPT !.out = NoPtr]]

Croi_Xhci_HidServiceEvents ==
  /\ xh.pc = "service" /\ Valid
  /\ xh' = TakeEvent(IF Event.t = "xfer" /\ Owner # {} THEN Completed(xh, CHOOSE ij \in Owner : TRUE) ELSE xh)
  /\ UNCHANGED hw

(* No more events: emit_report for every interface that has one, and yield. *)
PumpEmit ==
  /\ xh.pc = "service" /\ ~Valid
  /\ LET ready == {ij \in Interfaces : xh.slots[ij[1]].ifs[ij[2]].ready} IN
     xh' = [xh EXCEPT !.pc = "pump",
                      !.got = [ij \in ready |-> Append(IF ij \in DOMAIN xh.got THEN xh.got[ij] ELSE << >>,
                                                       xh.slots[ij[1]].ifs[ij[2]].report)] @@ @,
                      !.slots = [s \in SlotIds |-> [xh.slots[s] EXCEPT !.ifs = [j \in DOMAIN @ |-> [@[j] EXCEPT !.ready = FALSE]]]]]
  /\ UNCHANGED hw

DriverStep ==
  \/ Croi_Xhci_Probe \/ Croi_Xhci_Setup \/ Croi_Xhci_PortsWalk \/ Croi_Xhci_AddressConnectedDevices
  \/ enable_slot \/ address_device \/ Croi_Xhci_ReadDescriptors \/ Croi_Xhci_ReadConfigurations
  \/ Croi_Xhci_ConfigureSlots \/ Croi_Xhci_DispatchInterfaces \/ Croi_Xhci_ConfigureHidInterrupts
  \/ Croi_Xhci_HidSetBootProtocols \/ PumpArm \/ Croi_Xhci_HidServiceEvents \/ PumpEmit

XhciNext == DriverStep \/ HostController \/ PortEvent

(* Weak fairness of the driver and of the controller, with their enabling    *)
(* conditions written out: the driver moves unless it has stopped or polls an  *)
(* empty event ring, the controller while some ring has a TRB for it and the   *)
(* event ring has room (a device sends MaxReports reports).                    *)
Polling == xh.pc \in {"enable?", "address?", "dd?", "cfg9?", "cfgall?", "usb?", "int?", "boot?"}
DriverCan == IF Polling THEN Valid \/ TimedOut ELSE xh.pc # "dead"
HostControllerCan ==
  Room /\ \E key \in DOMAIN hw.rd :
    Fetchable(key) /\ (key \in DOMAIN hw.sent => hw.sent[key] < MaxReports)
XhciFairness ==
  /\ <>[]DriverCan => []<><<xh' # xh>>_xhciVars
  /\ <>[]HostControllerCan => []<><<HostController>>_xhciVars

XhciSpec == XhciInit /\ [][XhciNext]_xhciVars /\ XhciFairness

(***************************************************************************)
(* Properties                                                               *)
(***************************************************************************)

(* A slot the driver uses is the controller's slot of the same port, even      *)
(* when an Enable Slot or Address Device was given up and its completion came   *)
(* in the middle of another port's: completions are matched by TRB address.     *)
SlotsMatchPorts == \A s \in SlotIds : xh.slots[s].in_use => hw.slot[s] = xh.slots[s].port

(* The interface table of a slot is what its own device says: every interface   *)
(* has the first interrupt-IN endpoint listed under it, and none of an           *)
(* interface that found no place (parse_config_tree), whatever was given up      *)
(* before the descriptors were read.                                            *)
FirstEp(tree, i) ==
  LET mine == {k \in DOMAIN tree : /\ k > i /\ tree[k].t = "endpoint" /\ tree[k].class = "int-in" /\ tree[k].long
                                   /\ \A m \in i+1..k : tree[m].t \notin {"interface", "bad"}} IN
  IF mine = {} THEN -1 ELSE tree[CHOOSE k \in mine : \A m \in mine : k <= m].num
InterfacesTrue ==
  \A s \in SlotIds : xh.slots[s].cfg =>
    LET tree == hw.plug[xh.slots[s].port].tree
        sound == {i \in DOMAIN tree : tree[i].t = "interface" /\ tree[i].long /\ \A m \in 1..i : tree[m].t # "bad"}
        nth(i) == Cardinality({m \in sound : m <= i})
    IN /\ Len(xh.slots[s].ifs) = IF Cardinality(sound) < MaxIfs THEN Cardinality(sound) ELSE MaxIfs
       /\ \A i \in sound : nth(i) <= MaxIfs => xh.slots[s].ifs[nth(i)].ep = FirstEp(tree, i)

(* The pump hands on every report of a device once and in order, across the     *)
(* wraps of its ring, and never has two of one interface at a time.             *)
ReportsInOrder ==
  \A ij \in DOMAIN xh.got :
    /\ \A k \in DOMAIN xh.got[ij] : xh.got[ij][k] = k
    /\ hw.sent[Key(xh, ij[1], ij[2])] <= Len(xh.got[ij]) + 1

(* What the driver holds of each device is what the controller and the device  *)
(* say: the three above.                                                        *)
UsbStateTrue == SlotsMatchPorts /\ InterfacesTrue /\ ReportsInOrder

(* An endpoint that was configured and is not halted keeps delivering: no       *)
(* completion is consumed without its interface being armed again.              *)
InputFlows ==
  \A s \in SlotIds, j \in 1..MaxIfs :
    (HidIface(s, j) /\ xh.slots[s].ifs[j].conf)
      ~> /\ HidIface(s, j)
         /\ \/ Key(xh, s, j) \in hw.halted
            \/ <<s, j>> \in DOMAIN xh.got /\ Len(xh.got[<<s, j>>]) = MaxReports
=============================================================================
