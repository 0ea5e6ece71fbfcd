----------------------------- MODULE NvmeDriver -----------------------------
(***************************************************************************)
(* The NVMe driver (src/croi/nvme) and the block device the volume binding  *)
(* makes of it (carafs_bind.c).  A command is written into the submission   *)
(* queue, the controller fetches it, moves the data by DMA and posts a      *)
(* completion with a phase bit; the driver polls for it and gives up after  *)
(* a while.  The controller (dev) is external: it may take its commands in  *)
(* any order, fail one, or be slow.  A reboot leaves it as it was.          *)
(*                                                                         *)
(* Memory the controller can reach is ram: the two queue pairs, the page    *)
(* Identify uses and the bounce buffer of the block device.                 *)
(***************************************************************************)
EXTENDS Integers, Sequences

CONSTANTS
  Entries,      \* CARA_NVME_QUEUE_ENTRIES
  CidMod,       \* command identifiers are 16 bits wide
  NBlocks,      \* LBAs of the namespace
  Chunk,        \* LBAs that fit the bounce buffer
  Controllers,  \* what a controller says of itself
  Transfers,    \* the reads and writes that are asked for
  MaxTimeouts, MaxErrors, MaxReboots, MaxCalls

ASSUME NvmeAssumption ==
  /\ {Entries, CidMod, NBlocks, Chunk} \subseteq Nat
  /\ Entries > 1 /\ CidMod > 0 /\ Chunk > 0

(* A write comes with as many blocks as it asks for. *)
ASSUME TransfersAssumption ==
  \A t \in Transfers :
    /\ t.op \in {"read", "write", "flush"} /\ t.lba \in Nat /\ t.n \in Nat
    /\ t.op = "write" => Len(t.buf) = t.n

VARIABLES
  nv,    \* struct NvmeController
  dev,   \* the controller
  ram,
  call   \* the call in progress and what the last one returned

nvmeVars == <<nv, dev, ram, call>>

Qids == {0, 1}
Slots == 0 .. Entries - 1
Zero == [i \in Slots |-> [phase |-> FALSE, cid |-> 0, ok |-> TRUE]]
Command(op, lba, n) == [op |-> op, lba |-> lba, n |-> n]

FreshQueue == [tail |-> 0, head |-> 0, phase |-> TRUE, cid |-> 0]
FreshDevQueue == [live |-> FALSE, sqHead |-> 0, sqTail |-> 0, cqHead |-> 0, cqTail |-> 0, phase |-> TRUE]
ZeroController == [regs |-> FALSE, enabled |-> FALSE, ioReady |-> FALSE, ns |-> FALSE, q |-> [q \in Qids |-> FreshQueue]]

NvmeInit ==
  /\ nv = ZeroController
  /\ \E c \in Controllers :
       dev = [is |-> c, en |-> FALSE, q |-> [q \in Qids |-> FreshDevQueue], flying |-> {}, boot |-> 0,
              disk |-> [b \in 0 .. NBlocks - 1 |-> b], errors |-> 0]
  /\ ram = [sq |-> [q \in Qids |-> Zero], cq |-> [q \in Qids |-> Zero], dma |-> "zero", bounce |-> [i \in 1 .. Chunk |-> 0]]
  /\ call = [pc |-> "off", op |-> "none", lba |-> 0, n |-> 0, buf |-> << >>, off |-> 0, rc |-> "none", cid |-> 0,
             calm |-> TRUE, cause |-> FALSE, count |-> 0, timeouts |-> 0]

(***************************************************************************)
(* The controller: external, from how the driver uses it.                   *)
(***************************************************************************)

DevFetch(q) ==
  LET d == dev.q[q] IN
  /\ d.live /\ d.sqHead # d.sqTail
  /\ dev' = [dev EXCEPT !.q[q].sqHead = (d.sqHead + 1) % Entries,
                        !.flying = @ \cup {[q |-> q, boot |-> dev.boot, slot |-> d.sqHead, cmd |-> ram.sq[q][d.sqHead]]}]
  /\ UNCHANGED <<nv, ram, call>>

(* DMA and its effect on the device: on media, on memory, on its queues. *)
Disk(c) ==
  IF c.op = "write"
  THEN [b \in DOMAIN dev.disk |-> IF b \in c.lba .. c.lba + c.n - 1 THEN ram.bounce[b - c.lba + 1] ELSE dev.disk[b]]
  ELSE dev.disk
Bounce(c) ==
  IF c.op = "read"
  THEN [i \in 1 .. Chunk |-> IF i <= c.n THEN dev.disk[c.lba + i - 1] ELSE ram.bounce[i]]
  ELSE ram.bounce
Dma(c) == CASE c.op = "idctrl" -> "controller" [] c.op = "idns" -> "namespace" [] OTHER -> ram.dma

(* The controller's queues once the completion is posted. *)
PostedQueues(f, ok) ==
  LET d == dev.q[f.q]
      posted == [dev.q EXCEPT ![f.q].cqTail = (d.cqTail + 1) % Entries,
                              ![f.q].phase = IF d.cqTail + 1 = Entries THEN ~@ ELSE @] IN
  [posted EXCEPT ![1].live = @ \/ (ok /\ f.cmd.op = "createsq")]

DevComplete(f, ok) ==
  LET d == dev.q[f.q]
      c == f.cmd IN
  /\ f \in dev.flying
  /\ (d.cqTail + 1) % Entries # d.cqHead
  /\ ok \/ dev.errors < MaxErrors
  /\ dev' = [dev EXCEPT !.flying = @ \ {f},
                        !.errors = IF ok THEN @ ELSE @ + 1,
                        !.disk = IF ok THEN Disk(c) ELSE @,
                        !.q = PostedQueues(f, ok)]
  /\ ram' = [ram EXCEPT !.cq[f.q][d.cqTail] = [phase |-> d.phase, cid |-> c.cid, ok |-> ok],
                        !.bounce = IF ok THEN Bounce(c) ELSE @,
                        !.dma = IF ok THEN Dma(c) ELSE @]
  /\ call' = [call EXCEPT !.cause = @ \/ ~ok]
  /\ UNCHANGED nv

(***************************************************************************)
(* nvme_submit_sync                                                         *)
(***************************************************************************)

(* What a write puts in the bounce buffer. *)
Filled(cmd) ==
  IF cmd.op = "write"
  THEN [i \in 1 .. Chunk |-> IF i <= cmd.n THEN call.buf[call.off + i] ELSE ram.bounce[i]]
  ELSE ram.bounce

(* The entry at the tail, the doorbell. *)
Submit(q, cmd, pc) ==
  LET d == nv.q[q]
      tail == (d.tail + 1) % Entries IN
  /\ nv' = [nv EXCEPT !.q[q].tail = tail, !.q[q].cid = (d.cid + 1) % CidMod]
  /\ ram' = [ram EXCEPT !.sq[q][d.tail] = [op |-> cmd.op, lba |-> cmd.lba, n |-> cmd.n, cid |-> d.cid],
                        !.bounce = Filled(cmd)]
  /\ dev' = [dev EXCEPT !.q[q].sqTail = tail]
  /\ call' = [call EXCEPT !.pc = pc, !.cid = d.cid]

(* The completion at the head is new when its phase is the expected one. *)
New(q) == ram.cq[q][nv.q[q].head].phase = nv.q[q].phase

NextPhase(head, phase) == IF head = 0 THEN ~phase ELSE phase
ConsumedQueue(d) ==
  LET head == (d.head + 1) % Entries IN [d EXCEPT !.head = head, !.phase = NextPhase(head, d.phase)]

Verdict(q, cid) ==
  LET cqe == ram.cq[q][nv.q[q].head] IN IF cqe.cid # cid \/ ~cqe.ok THEN "EIO" ELSE "EOK"

(* The look at the completion queue that finds an entry, or the last look    *)
(* that does not: what it returns, and the queue and doorbell after it.      *)
Looks(q) ==
  CASE New(q) -> {[rc |-> Verdict(q, call.cid), q |-> ConsumedQueue(nv.q[q]), late |-> 0]}
    [] ~New(q) /\ call.timeouts < MaxTimeouts -> {[rc |-> "EAGAIN", q |-> nv.q[q], late |-> 1]}
    [] OTHER -> {}

Looked(q, look) == nv' = [nv EXCEPT !.q[q] = look.q] /\ dev' = [dev EXCEPT !.q[q].cqHead = look.q.head]

(***************************************************************************)
(* Bring-up: Croi_Nvme_Probe, Setup, Identify and CreateIoQueues, in the     *)
(* order entry.c calls them; a failure of one leaves the machine without    *)
(* a volume.                                                                *)
(***************************************************************************)

Goto(pc) == call' = [call EXCEPT !.pc = pc]

(* A controller that is told to stop forgets its queues and commands by the  *)
(* time RDY falls.                                                           *)
Stopped(d) == [d EXCEPT !.en = FALSE, !.q = [q \in Qids |-> FreshDevQueue], !.flying = {}]

ProbeStops(d) == IF d.en THEN Stopped(d) ELSE d

Croi_Nvme_Probe(bar, rdyFalls) ==
  /\ call.pc = "off"
  /\ IF bar /\ dev.is.nvm /\ rdyFalls
     THEN nv' = [ZeroController EXCEPT !.regs = TRUE] /\ dev' = ProbeStops(dev) /\ Goto("setup")
     ELSE nv' = [ZeroController EXCEPT !.regs = bar] /\ UNCHANGED dev /\ Goto("dead")
  /\ UNCHANGED ram

Croi_Nvme_Setup(pages, ready) ==
  /\ call.pc = "setup"
  /\ ~pages => ~ready
  /\ nv' = [nv EXCEPT !.q[0] = FreshQueue, !.enabled = ready]
  /\ ram' = IF pages THEN [ram EXCEPT !.sq[0] = Zero, !.cq[0] = Zero, !.dma = "zero"] ELSE ram
  /\ dev' = IF pages THEN [dev EXCEPT !.en = TRUE, !.q[0] = [@ EXCEPT !.live = ready]] ELSE dev
  /\ Goto(IF ready THEN "idctrl" ELSE "dead")

AdminCmds == {"idctrl", "idns", "createcq", "createsq"}
Waits(op) == CASE op = "idctrl" -> "idctrl?" [] op = "idns" -> "idns?" [] op = "createcq" -> "createcq?" [] op = "createsq" -> "createsq?" [] op = "chunk" -> "chunk?"

Croi_Nvme_AdminCmd(op) == call.pc = op /\ Submit(0, Command(op, 0, 0), Waits(op))

(* What the caller makes of the answer: Croi_Nvme_Identify reads the page the *)
(* controller filled, CreateIoQueues asks for the completion queue first.     *)
Answered(op) ==
  CASE op = "idctrl" -> IF ram.dma = "controller" /\ dev.is.namespaces > 0 THEN "idns" ELSE "dead"
    [] op = "idns" -> IF ram.dma = "namespace" /\ dev.is.blocks THEN "ioqueues" ELSE "dead"
    [] op = "createcq" -> "createsq"
    [] op = "createsq" -> "idle"

AdminAnswer(op) ==
  /\ call.pc = Waits(op)
  /\ \E look \in Looks(0) :
       LET next == IF look.rc = "EOK" THEN Answered(op) ELSE "dead" IN
       /\ nv' = [nv EXCEPT !.q[0] = look.q, !.ns = @ \/ next = "ioqueues", !.ioReady = @ \/ next = "idle"]
       /\ dev' = [dev EXCEPT !.q[0].cqHead = look.q.head]
       /\ call' = [call EXCEPT !.pc = next, !.timeouts = @ + look.late]
  /\ UNCHANGED ram

Croi_Nvme_CreateIoQueues(pages) ==
  /\ call.pc = "ioqueues"
  /\ nv' = [nv EXCEPT !.q[1] = FreshQueue]
  /\ ram' = IF pages THEN [ram EXCEPT !.sq[1] = Zero, !.cq[1] = Zero] ELSE ram
  /\ Goto(IF pages THEN "createcq" ELSE "dead")
  /\ UNCHANGED dev

(* A restart without power off: the driver's memory is cleared, the          *)
(* controller goes on with what it has.                                      *)
Reboot ==
  /\ call.pc # "off" /\ dev.boot < MaxReboots
  /\ nv' = ZeroController
  /\ dev' = [dev EXCEPT !.boot = @ + 1]
  /\ call' = [call EXCEPT !.pc = "off", !.op = "none", !.buf = << >>, !.rc = "none"]
  /\ UNCHANGED ram

(***************************************************************************)
(* The block device: nvme_chunked bounces a transfer in chunks, each one a   *)
(* command.                                                                 *)
(***************************************************************************)

(* Commands the driver has given up on and the controller has not answered. *)
Abandoned == dev.flying # {} \/ \E q \in Qids : dev.q[q].sqHead # dev.q[q].sqTail \/ dev.q[q].cqTail # nv.q[q].head

(* A transfer of no block is done at once. *)
bd_call(t) ==
  LET none == t.op # "flush" /\ t.n = 0 IN
  /\ call.pc = "idle" /\ nv.ioReady /\ call.count < MaxCalls
  /\ call' = [call EXCEPT !.pc = IF none THEN "idle" ELSE "chunk",
                          !.rc = IF none THEN "EOK" ELSE "none",
                          !.op = t.op, !.lba = t.lba, !.n = t.n, !.off = 0,
                          !.buf = IF t.op = "write" THEN t.buf ELSE << >>,
                          !.calm = ~Abandoned, !.cause = FALSE, !.count = @ + 1]
  /\ UNCHANGED <<nv, dev, ram>>

Return(rc) == call' = [call EXCEPT !.pc = "idle", !.rc = rc]

Smaller(a, b) == IF a < b THEN a ELSE b
ChunkLbaStuck == call.lba
ChunkLba == call.lba + call.off
ChunkLen == Smaller(call.n - call.off, Chunk)

nvme_io_cmd ==
  /\ call.pc = "chunk" /\ call.op # "flush" /\ call.off < call.n
  /\ IF ChunkLba + ChunkLen > NBlocks
     THEN Return("ERANGE") /\ UNCHANGED <<nv, dev, ram>>
     ELSE Submit(1, Command(call.op, ChunkLba, ChunkLen), Waits("chunk"))

Croi_Nvme_Flush ==
  /\ call.pc = "chunk" /\ call.op = "flush"
  /\ Submit(1, Command("flush", 0, 0), Waits("chunk"))

ChunkAnswer ==
  /\ call.pc = Waits("chunk")
  /\ \E look \in Looks(1) :
       /\ Looked(1, look)
       /\ call' = [call EXCEPT !.timeouts = @ + look.late,
                               !.pc = IF look.rc = "EOK" THEN "copy" ELSE "idle",
                               !.rc = IF look.rc = "EOK" THEN @ ELSE look.rc]
  /\ UNCHANGED ram

(* After the command: the data of a read leaves the bounce buffer. *)
nvme_chunked ==
  /\ call.pc = "copy"
  /\ LET off == call.off + ChunkLen
         done == call.op = "flush" \/ off >= call.n IN
     call' = [call EXCEPT !.buf = IF call.op = "read" THEN @ \o SubSeq(ram.bounce, 1, ChunkLen) ELSE @,
                          !.off = off,
                          !.pc = IF done THEN "idle" ELSE "chunk",
                          !.rc = IF done THEN "EOK" ELSE @]
  /\ UNCHANGED <<nv, dev, ram>>

Driver ==
  \/ \E bar, rdyFalls \in BOOLEAN : Croi_Nvme_Probe(bar, rdyFalls)
  \/ \E pages, ready \in BOOLEAN : Croi_Nvme_Setup(pages, ready)
  \/ \E op \in AdminCmds : Croi_Nvme_AdminCmd(op) \/ AdminAnswer(op)
  \/ \E pages \in BOOLEAN : Croi_Nvme_CreateIoQueues(pages)
  \/ nvme_io_cmd \/ Croi_Nvme_Flush \/ ChunkAnswer \/ nvme_chunked

Controller ==
  \/ \E q \in Qids : DevFetch(q)
  \/ \E f \in dev.flying, ok \in BOOLEAN : DevComplete(f, ok)

NvmeNext == Driver \/ Controller \/ Reboot \/ \E t \in Transfers : bd_call(t)

NvmeSpec == NvmeInit /\ [][NvmeNext]_nvmeVars

(***************************************************************************)
(* Properties                                                               *)
(***************************************************************************)

Returned == call.pc # "idle" /\ call'.pc = "idle" /\ call.op # "none" /\ nv.ioReady

(* What a transfer that returns EOK has done, and why one returns EIO. *)
TrueResult ==
  Returned =>
    /\ call'.rc = "EOK" /\ call.calm /\ call.op # "flush" =>
         /\ Len(call'.buf) = call.n
         /\ \A i \in 1 .. call.n : call'.buf[i] = dev'.disk[call.lba + i - 1]
    /\ call'.rc = "EIO" => call.cause \/ ~call.calm

(* A transfer that returns EOK has moved its own data: a read hands out what  *)
(* is on the media, a write has put its buffer there, through every chunk,    *)
(* wrap of the queues and phase.  Only a command given up on earlier, whose    *)
(* data may still arrive, is excepted (nvme_submit_sync, nvme_chunked).        *)
(* And it fails only for a cause: the controller failed a command, the driver  *)
(* gave up waiting, now or earlier, or the range is wrong.                     *)
ResultsTrue == [][TrueResult]_nvmeVars
=============================================================================
