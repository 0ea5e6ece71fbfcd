# CaraOS in TLA+

TLA+ models of CaraOS, an operating system in the style of AmigaOS V36: the Croi
kernel, its drivers and libraries, the Leargas window system, `dos.library`
(Logaic) and CaraFS, a journalling file system.  The modules are written from the
C source; `PROJECT.json` maps each definition to its lines, and lists every part
of the system with its status, the hazards of the code with the properties that
watch them, and the theorems.

## 1. The system and its modules

The kernel is cooperative and has one hart: a task loses the CPU only in
`Croi_Yield`, `Croi_Wait` and `Croi_TaskExit`.  One action is therefore one call,
or one stretch of a call between two such points; only the ring, the drivers and
the log are finer, because a device, another side or a power failure comes in
between.

| Module | Models | Rests on |
|---|---|---|
| `CroiSched` | tasks, run queue, sleepers, signals (`croi/sched`); the state is one record, each call a function on it | |
| `CroiSemaphore` | signal semaphores and programs that use them (`exec_lib/sem.c`) | `CroiSched` |
| `BoundedFifo`, `CaraRing` | what a ring promises; the ring at the grain of loads and stores (`cara/ring.h`) | |
| `KobjHandles` | reference counts and handle tables (`croi/kobj`) | |
| `CroiMsgPort` | message ports (`croi/ipc`, `exec_lib/ipc.c`) | `CroiSched` |
| `DosPackets` | the packet server of dos and its clients | `CroiMsgPort` |
| `CroiDevice` | device requests and the timer (`exec_lib/device.c`, `croi/device`) | `CroiMsgPort` |
| `CroiProcess` | spawn, exit, RunCommand's join and reaping | `CroiSched` |
| `CroiMemory` | usable memory, page allocator, slab heap, page tables, shared window (`croi/mm`) | |
| `ProcessImage` | the ELF loader and the seven steps of a spawn with their failures | `CroiMemory` |
| `CarafsWal` | write-ahead log, block cache, mount, crashes and device errors | |
| `CarafsBtree`, `CarafsObjects` | blocks, allocation groups and the B+tree; cnodes, files, directories, links and attributes | the second on the first |
| `FileTree`, `CarafsVolume` | what a volume promises; a mounted volume, its checker and its iterations | `CarafsObjects` |
| `DosFiles`, `DosCalls` | the console's line editing, locks, handles and seglists over a volume; processes and a shell | the second on the first |
| `DeviceTree` | the flattened device tree: its reader (`croi/fdt`), the console and the platform found in it (`croi/platform`, `dath`), memory banks and reserved regions (`croi/mm/physmap.c`) | |
| `PciBus` | the host bridge, the functions behind it and the windows of their registers (`croi/pci`) | |
| `NvmeDriver`, `VolumeBoot`, `XhciDriver` | the NVMe driver and its block device; bringing up the root volume; the USB host controller | |
| `Leargas`, `Intuition` | windows, focus, pointer, messages and the input side; the library calls and requesters | the second on the first |
| `ExecUtility` | exec lists, the library registry (`exec_lib`), tag lists (`utility_lib`) | |
| `IffParse`, `IconStore` | `iffparse.library` over a file of bytes; icons kept in attributes (`croi/icon`) | |
| `GuiObjects`, `MCToolkit` | classes and objects, commodity trees, gadgets and menus; programs that use these libraries and the two rows above, asl and screens | |

The eight modules whose names end in `Proofs` hold the theorems about the module
they are named after (section 4).  An `MC...` module composes components for a run
and gives their constants values.  Definitions whose comment says "Mutant of" are
wrong variants that no specification uses; they document what a property catches.

How state and actions correspond to the code:

- `CroiSched`: the record's fields are `g_current`, `g_runq`, `g_sleepers`, `g_dead`
  and the fields of `struct Task`; `mask` is the argument of the `Croi_Wait` call a
  task is inside of.  A task that is switched back to inside `Croi_Wait` goes round
  the loop again (`ResumeWait`).  `halted` is `arch_halt`.
- `CroiSemaphore`: `sems` is `struct SignalSemaphore`; `held` is what the callers
  believe, which the properties compare with it.  `ObtainReturns` is the end of an
  `ObtainSemaphore` that blocked.
- `CaraRing`: `prod` and `cons` are the local variables of a call in progress on
  each side; the counters wrap at `Modulus`.  Memory is sequentially consistent
  here: the acquire/release pairs of the code order the slot with its counter,
  which is all the algorithm needs.
- `CroiMsgPort`: a port is named by its owner; its ring is the sequence that
  `CaraRing` shows it to be.
- `DosPackets`: `at` is the program counter of the server and the clients between
  calls.  What a packet action does is `DosFiles`' matter; here it is its result.
- `CroiDevice`: a command that runs at once succeeds or fails; a timer request
  polls the clock and yields.  `Tick` is the hardware clock.
- `KobjHandles`: `issued` remembers what each handle was opened for.
- `CroiProcess`: `call` is the stack frame of `RunCommand` that the child writes to.
- `CroiMemory`, `ProcessImage`: memory is one record; a call maps it to one with the
  call's result.  A page frame holds what was written to it, so that a frame used
  twice shows.
- `CarafsWal`: `dev` keeps, per block, the values written since the last flush; a
  crash keeps any one of them, block by block.  One action runs from a flush to
  the next: it completes the flush the code is at (`pc` names it) and makes the
  writes up to the next.  A crash between two writes of one stretch is covered,
  since a crash at its end may keep any subset of them.
- The other CaraFS modules: an operation is a function from a volume record (cached
  blocks, blocks on the device, the open transaction) to a volume record and the
  code the C function returns, failures for want of room included.
- `DosFiles`: one record for locks, handles, seglists and the volume; a rename is
  the two transactions it is in the code.  The console is its ring with head and tail,
  the UART behind it and the line being edited; `typed` are the bytes they accepted.
- `NvmeDriver`, `XhciDriver`: the controller is a second process that takes
  commands from the shared rings and writes completions and data; it may be late
  or fail.  It is modelled from how the driver uses it.
- `Leargas`, `Intuition`: `ui` is all of Leargas' state; a colour of a pixel
  says what was painted last.  The input pump posts and routes in one step.
- `GuiObjects` and its companions: a call that allocates takes the number of the
  allocation that fails.
- `ExecUtility`: a list is its nodes' `ln_Succ` and `ln_Pred`, with the list header's
  two overlapping pseudo-nodes; a library is its name, version and open count; a tag
  list is an array of items with TAG_SKIP, TAG_MORE and TAG_IGNORE.
- `IffParse`: `CaraIff` with its context stack, stops and stored properties over the
  file's bytes; a chunk's length is four bytes, and odd chunks are padded.  A call may
  meet a byte that cannot be read.  What the
  program pushed and wrote is kept beside it, to compare with what a parse gives back.
- `IconStore`: an icon is written to bytes and parsed from bytes, each field with its
  length, as `Croi_Icon_BlobBuild` and `icon_blob_parse` do it.
- `DeviceTree`: a blob is its words, of which a string, a cell or a token takes one;
  the reader walks them by offset as `fdt_read_token` does.  The tree the blob was
  made from (`Flat`, `Dtb`) is the reference that every call of the reader is
  compared with.
- `PciBus`: an address is a pair of register halves below `HALF`, computed modulo
  `HALF * HALF` as the code computes with 32 and 64 bits.

## 2. What the runs check

Each behaviour of a composed run follows one component or workload (`kind`, `scene`,
`load`), so that a run's size is the sum of its parts and not their product.

| Run | Instance | Shows |
|---|---|---|
| `sched` | 3 tasks, 3 priorities (one out of range), 1 signal, one level of Forbid and Disable | every task is on the list its state names (`QueuesMatchStates`); no wake-up is lost (`NoLostWakeup`); the CPU goes to the highest priority (`DispatchesHighest`) and equal priorities take turns (`KeepsQueueOrder`) |
| `objects` | 3 tasks of 2 priorities with 2 semaphores, nesting 2; a ring of 4 slots with counters modulo 8; 2 handle tables of 3 slots, 2 objects, 4 handles, generations modulo 2 | who returns from Obtain owns (`HoldersOwn`), waiters are queued once or already own (`WaitersAccounted`); `NoSlotRace` and the refinement `ImplementsFifo`; `RefsCounted`, `FreeListExact`; an open handle resolves and a closed one does not, up to the wrap (`OpenHandlesResolve`, `StaleHandlesRefused`) |
| `ipc` | server and 2 clients below, at and above its priority, 2 rounds; 2 programs with a device request; 2 processes that signal callers of RunCommand as they like | `PacketInOnePlace`, `WaiterIsWaiting`; every packet is answered, every device call and every RunCommand returns (`PacketEventuallyReplied`, `CallsComplete`, `RunCommandEnds`) |
| `wal` | 2 metadata blocks (one changed in place, one reusable for data), 1 data block, a log of 10 that starts near its end, 3 operations, 2 crashes, 1 device error | `RecoversAtomically`, `DataOrdered`, `ReadsCommitted` |
| `volume` | 2 groups of 8 blocks, trees of fan-out 2, blocks of 2 cells, 4 names of which 2 collide; four workloads | every block has one owner, trees stay ordered, counts and parents agree, the checker is content, also after calls that failed half way (`VolumeSound`); an iteration sees what stayed (`IterationComplete`); up to the first such call, the volume is a tree of names with contents (`ImplementsFileTree`) |
| `gui` | 2 overlapping windows and a requester on a screen of 3 by 2; boolean, string and (horizontal and vertical) proportional gadgets; nine workloads | `WindowsConsistent`; clicks, gadget releases and menu picks were earned by what the user did where their window shows it (`MessagesEarned`); the pointer leaves no trace (`PointerDamage`) |
| `toolkit` | 2 gadgets of every kind, menus of up to 5 entries, 3 classes, 3 commodity objects, 3 screens; 3 nodes on 2 lists, 3 libraries, 6 tag lists, files of up to 30 bytes with chunks 3 deep, 5 icons, 4 tool types; an allocation, a read or a write failing anywhere | what is read back is what was set, written or stored: gadgets, the requester's drawer, tags, IFF chunks, icons, tool types (`ReadsBack`); each library's books agree with its objects, lists link both ways (`ToolkitBooks`); an iteration misses nobody (`WalkSeesAll`) |
| `dos` | 2 processes and a shell, a volume of 5 cnodes, 2 lines of script, 1 failure or power cut; a console ring that wraps; nine workloads | a listing whose directory reads succeed shows every entry that stayed, but for those whose own cnode could not be read (`ListingComplete`); bytes typed are read in order and, but for those the full ring refuses, whole (`ConsoleInOrder`); no file is lost (`FilesSurvive`); the shell comes back (`ShellComesBack`) |
| `drivers` | NVMe queues of 3, transfers of up to 3 blocks, a time-out, an error and a restart; 2 power cuts, between or inside writes, and an I/O error at boot; 2 ports with keyboards, mice and malformed devices | slots, tables and reports are true (`UsbStateTrue`), transfers report what happened (`ResultsTrue`), a volume is never formatted away (`VolumeSurvives`), input keeps flowing (`UsbInputFlows`) |
| `memory` | memories of every size from one that starts no process to one that starts several, 5 images, 3 spawns; every layout of 2 banks and 2 reserved regions, read from the device tree that says so; small device trees of every shape (cells of 16 values, walks at most 3 deep), cut short or with a damaged header, boards with a console behind an alias; 18 machines with up to 5 PCI functions and an inventory of 4 | every frame and block has one owner (`OneOwner`); a process sees its image (`ImageFaithful`); what boot works out is what is there: the tree's nodes and properties, the board's devices, the map of usable memory, the functions found by class, and the windows of their registers, apart and inside the bridge's (`MapExact`) |
| `volume_collisions` | names that collide on a hash that is not the least | violation of `ImplementsFileTree` |
| `runcommand_stray` | the processes of `ipc` | violation of `BlocksOnExit` |

The two violations are findings.  In `volume_collisions` the first entry of an
equal-hash run is removed, the separator moves up, and `carafs_dtree_scan`
(`btree.c:740`), which starts at collision number 0, ends in the leaf before: the
other names of that hash are gone, and can be created again.  In `runcommand_stray` a
program sends the task inside `RunCommand` the bit it waits for, and the one
`Croi_Wait` (`loadseg.c:192`) returns while the child runs, where the comment above says
that the call "blocks on the child's exit" and "returns its exit status".

Bounds.  Three tasks give one that runs, one that it wakes and one that
interferes; the proofs lift the numbers of tasks, signals, semaphores, slots,
handles, generations, clients and processes, the sizes of NVMe queues and transfers,
and the numbers of power cuts, errors and time-outs.  Four slots against counters modulo eight wrap often.
In `wal`, a log of ten that starts at eight wraps in the first operation, three
operations cross the checkpoint threshold, and two crashes allow one during
recovery.  Fan-out 2 splits and collapses trees within four names.  A screen of
3 by 2 has a pixel of each window alone and one of both.  Time-outs, errors and
power cuts are counted separately, one or two of each, which allows one to fall
inside the handling of another.  Deadlock checking is off where a system may stop:
tasks that all wait halt the machine by design, and bounded counts run out.

Fairness.  The scheduler is deterministic and needs none.  A program that gets the
CPU again and again goes on with the call it is inside of (the kernel does not
stop in the middle of a call), and, as cooperative programs must, yields and
exits; these are the `SF` conditions of `MCIpc` on a task's own steps, strong
because a task is not continuously current.  The priorities of a scene are such
that none is outranked for ever: the scheduler promises nothing to such a task.
The clock ticks and the wait of RunCommand goes round (`WF`).  In `DosCalls` a shell's
own steps and the end of its child are weakly fair, since nothing else is runnable
then.  In `XhciDriver` the driver's loop and the controller each go on as long as
they can; nothing is assumed of a device that is silent.

## 3. Where the code does otherwise

The runs leave these situations out, each by a named constant, constraint or
guard, because the code does not hold there; without it TLC shows the failure.

- *A stray SIGF_SINGLE* sent to a task inside `ObtainSemaphore` lets it in without
  the semaphore (`sem.c:64` does not look again).  `SentSigs` are the signals
  programs send; with `0` among them TLC breaks `HoldersOwn`, and the theorems
  assume it is not.
- *A stray exit signal*: programs send every signal to tasks inside `RunCommand`.  The
  bit that the child was given ends the call at once (`loadseg.c:192`), and the child's
  `sys_exit` later writes its status into a frame that is gone (`syscall.c:109`).  `struck`
  are the children it happened to, which `WaiterIsWaiting` and `RunCommandEnds` except;
  after the write (`wild`) the model stops.
- *Two replies owed to one port*: the second raises no signal, and a `WaitPort` after
  the first `GetMsg` sleeps, against `device.c:110`.  `MaxOwed` is 1.
- *Two harts on one ring*: `ring.h:56` says that a signal is asked for "exactly when"
  the queue was empty.  `SignalOnlyOnEmpty` is the half that holds (and is proved);
  the other fails when the consumer drains the ring between the load of `tail` and
  the store of `head`.  The ports use the ring on one cooperative hart.
- *A generation that has wrapped*: `handle_table.c:115` says "we never silently use a
  stale handle"; after 65536 closes of a slot a kept handle is good again.  The
  two handle properties say exactly up to where they hold, and generations wrap in
  the run and in the proof.
- *Volumes that are not plain* (`PlainOnly`).  A volume stops being plain when an
  operation is rolled back after it changed metadata (`cache.c:306` also drops committed
  images that are not home yet); when crashes cut short two operations while they write
  their log records, with no commit between (the COMMIT's check sum does not cover the
  target list); when the journal superblock write of a
  checkpoint fails (`journal.c:92` has already moved `j_head`); when a crash comes
  inside an append that had to make room (`journal.c:116`); and when the log is
  filled exactly (`j_used` is then 0).  The constraint cuts behaviours only where
  all three properties have become vacuous for good.
- *Reused metadata blocks*: `DataOrdered` is about blocks that never held metadata;
  replay writes an older image over the data of one that did.
- *A volume call that fails half way*: what had not joined the transaction stays
  changed in the cache (`xattr.c:108`, `file.c:110`, `file.c:194`).  `VolumeSound` and
  `IterationComplete` hold after such a call on entries, links and attributes.  After a
  write they do not, and the run stops there (`WholeWrites`).  `ImplementsFileTree`
  speaks of the time before the first one.
- *A journal superblock that does not check out beside a superblock that does*:
  `Carafs_Mount` answers `EBADMAGIC` and `carafs_bind.c:218` formats, where
  `docs/LOGAIC_BOOT.md:118` has "mkfs the partition if it has no superblock".  No power cut
  leaves such a disk, as `VolumeSurvives` shows, since a device writes an LBA whole and both
  superblocks lie in the first of their block; damaged media are not modelled.
- *A requester that frees the focused gadget* (`ActiveGadgetLive` in `Sound`):
  `bridge.c:619` clears the focused window only.
- *A window closed while it is in menu mode* (`MenuWindowOpen` in `Sound`): the release of
  the menu button then uses the freed window (`menu.c:203`).
- *A gadget that loses the focus while the button is held* (`PressedLook` in `Sound`) keeps
  `GFLG_SELECTED`, which only the release clears, and only on the active gadget
  (`router.c:165`).  A later release over it reports it although it was not pressed.
- *A focus that moves to another window*: a proportional gadget's release
  (`router.c:179`) and a string gadget's Return (`string_gadget.c:213`) report to the
  focused window, which need not be the one they are on, against `leargas.h:533`.
  `MessagesEarned` says whose window it is while the focus has stayed (`home`).
- *A checkbox in a window*: the press sets and the release clears `GFLG_SELECTED`
  (`router.c:140`, `router.c:169`), which is the checkbox's own state, before `GT_GetIMsg`
  toggles it (`gadtools_lib.c:612`): a click checks it and never unchecks it, where
  `docs/LEARGAS_GADTOOLS.md:171` has "click toggles", and a press that is released
  elsewhere unchecks it.  The model does the same; `ReadsBack` compares the message with
  the state, not with the clicks.
- *Long sliders*: level and position convert with a product of 32 bits, which wraps for
  ranges above 65535 (`gadtools_lib.c:170`).  The model's product wraps too, and
  `ReadsBack` is about ranges of at most `MaxPot`.
- *The file requester's field* holds fewer characters than a drawer may have, so OK cuts
  a long drawer that nobody touched.  When OK and Cancel are both pressed before the
  program looks, the field is copied back although the answer is Cancel
  (`asl_lib.c:284`).
- *A failed read of an IFF file* is reported as its end (`iffparse_lib.c:113`).  `ReadsBack`
  excepts the end where a read failed.
- *A put of an icon that fails late* may lose the old one: the attribute is taken out of
  the cached cnode before the new one is found not to fit (`xattr.c:108`), and what comes
  back depends on the cache.  A failed read of the attribute gives the built-in icon
  although one was put (`icon_lib.c:414`, `icon_lib.c:458`).  After either `ReadsBack` says
  only that what comes is nothing, a default, or a whole icon that some program put.
- *Two readers of one console*: they share one line buffer (`console_input.c:76`);
  `ConsoleInOrder` is about one reader at a time.  Injected bytes overtake those of the
  UART (`console_input.c:41`), so a behaviour has one source of bytes.
- *Directory reads that fail*: `ExNext` answers `ERROR_NO_MORE_ENTRIES` for every error of
  the iteration, and passes over an entry whose cnode cannot be read
  (`handler.c:325-334`); the caller cannot tell such a listing from a complete one.
  `ListingComplete` excepts the listings cut short (`hit`) and the entries passed over
  (`skip`).
- *A duplicated lock* is smaller than a lock made by `Lock`: it lacks the fields of the
  iteration, which `Examine` and `ExNext` use all the same.  *A write that runs past the largest
  position* wraps it.  The `dos` run stops at both (`outside`, `Sound` in `DosCalls`).
- *A 32-bit memory register of a PCI function*: `Croi_Pci_AllocateBar` inverts the size
  probe in 64 bits (`bar.c:88`) although the upper half was not probed, so the size
  comes out close to 2^64 and the call fails for want of room, where the comment
  above has "Mask off type bits, invert, add 1".  The model does the same;
  the drivers of the kernel use 64-bit registers only.
- *A device tree deeper than `MAX_DEPTH`*: `fdt_find_parent` gives up, and `Fdt_PropReg`
  then reads the register with two address cells and one size cell without a word.
  `ReadsNode` speaks of registers that have no node so deep before them.
  `Fdt_FindByCompatible` does not look for a second match inside a match, and the options
  after a colon are cut off `stdout-path`, not off the path an alias gives; the
  reference does the same.
- *A transfer after one that timed out*: the controller may still answer the command
  that was given up on, and its data land in the bounce buffer of the next.
  `ResultsTrue` excepts the transfers that start with such a command about (`calm`).
- *A rename is two transactions* (`handler.c:549`): between them, and for good when the
  second fails, the file has both names.  `FilesSurvive` holds across it.

## 4. What is proved

Each theorem holds for every value of the constants that satisfies the named
assumptions of its module: any set of tasks, semaphores, objects and tables, any
number of signals, slots and generations, any capacity of a ring and width of its
counters that the capacity divides, queues, bounce buffers and transfers of any
size, any number of power cuts, errors, time-outs and restarts.  TLC checked every
inductive invariant first.

`CroiSchedProofs`.  The inductive invariant `SchedInv` is the conjunction of the
types, `QueuesMatchStates`, `RunqSorted` and `NoLostWakeup`.  None is inductive alone:
`Croi_Signal` inserts a sleeper into the run queue, and that the queue stays free of
duplicates needs the sleeper not to be on it (`QueuesMatchStates`), that it stays
sorted needs the priorities typed, that the woken task finds its bit needs
`tc_SigWait` to equal the mask of the call it sleeps in.  One lemma per call
(`SpawnInv`, `YieldInv`, `SignalInv`, `WaitInv`, ...) says that the function preserves
it; they rest on a task about to be queued (`Pending`) and a CPU about to be given
away (`Parked`), and on lemmas about inserting into a sorted sequence.  Theorems:
`SchedTypeOK`, `SchedQueuesMatchStates`, `SchedRunqSorted`, `SchedNoLostWakeup` and the
action properties `SchedDispatchesHighest`, `SchedKeepsQueueOrder`,
`SchedForbidKeepsCpu`.  For the second, every call's effect on the run queue is one of
three (`QueueStep`): nothing, the head is dropped, or one task is inserted where
`RunqPosition` says, with the head dropped before it.

`CroiSemaphoreProofs`, under `SIGB_SINGLE \notin SentSigs`.  `SemInv` adds to `SchedInv`,
`HoldersOwn` and the types: requests on a queue belong to callers asleep on
`SIGF_SINGLE`, a blocked caller without a request owns the semaphore and has its
signal, an owned semaphore has a holder or such a caller, and nobody else waits on
that bit.  The last is what keeps an unrelated `Wait` from consuming the hand-over.
It uses the scheduler's lemmas call by call (`Steady`: a call concerns nobody inside
`ObtainSemaphore`).  Theorems: `SemInvariant`, `SemHoldersOwn`, `SemWaitersAccounted`, and
the action property `SemHandedOverInOrder`.

`CaraRingProofs`.  `RingInv`: the counters are at most a capacity apart, the slot that
is filled and not published holds its message, the slot that is read and not
released still holds it, and the tail the producer read is no closer to head than
the tail of now; this staleness in the safe direction is what makes the fullness
test sound.  Lemmas take the wrap-around out of the counters (`DistanceIs`, `IncIs`,
`SlotsApart`).  Theorems: `RingCountBounded`, `RingNoSlotRace`, `RingSignalOnlyOnEmpty`, and
`RingImplementsFifo`, the refinement of `BoundedFifo`: publishing and releasing map to
its two actions, every other step to a stutter.

`KobjHandlesProofs`.  `HandlesInv`: every count is the creator's references plus the
slots that hold the object, each table's free list is a sequence without
repetition of exactly the empty slots, a slot's generation counts the handles
issued for it modulo its width, and a handle's generation those issued before it;
an open handle's slot still holds its object unless another handle has the same
bits.  Theorems: `HandlesInvariant`, `HandlesRefsCounted`, `HandlesFreeListExact`,
`HandlesOpenResolve`, `HandlesStaleRefused`; the last counts: fewer later handles
than generations leave no room for the same number to come round.

`CroiProcessProofs`.  `WaiterIsWaiting` says that a process that will write its status
into somebody's stack frame finds that somebody still inside the RunCommand that
started it, as long as nobody else sent the waiter that child's signal.  `ProcessInv`
adds to `SchedInv` that the frame names the child and its signal, and that the signal is
allocated and not received: no other signal then ends the wait, and no other call of the
waiter is given the bit.  A status goes into a frame that is gone only from a child whose
signal was sent by somebody else.  Theorems: `ProcessInvariant`, `WaitersWait`.

`DosPacketsProofs`, for any number of clients and rounds, as long as a port's ring has
a slot for every packet (a full ring drops the message).  `PacketInv` says, for each
packet, where it is (with its client, in the server's ring, in the server's hands,
back in the client's ring) as a function of where its client is in its call; that a
waiting client's signal is set exactly when its reply is there; and that no packet is
in the server's ring twice.  `PacketInOnePlace` counts occurrences; the proof turns the
counts into cardinalities of sets of positions.  Theorems: `PacketInvariant`,
`PacketsInOnePlace`.

`VolumeBootProofs`, for machines whose disk holds no volume of CaraFS at first
(`FreshMachines`).  `BootInv` is about what may be on the media, whichever part of the
device's cache a power cut lets through and whichever block it leaves half written: once
a user has written, superblock, journal superblock, map and root are sound on the media
themselves, no part of the layout is pending, and the superblocks do not tear over their
own kind.  On a device that writes through, a superblock implies all the rest, because
mkfs writes it last; until then there is none, which is what a cut inside mkfs needs.  Theorems: `BootInvariant`, `VolumesSurvive`.

`NvmeDriverProofs`.  `NvmeInv` has two halves.  The first is the queue protocol:
completion entries before the controller's tail have its present phase and the others
the last one, and the driver expects the one or the other as its head is behind the
tail or ahead of it (`InStep`); so the entry at the head looks new exactly when it was
posted (`NewIsPosted`).  It holds from the creation of the I/O queues because a reset
controller has forgotten queues and commands of an earlier boot.  The second is about
a transfer that began with nothing abandoned: its chunk has exactly one command, in
the submission queue, with the controller or in the completion queue; what the chunk
has moved follows from which (`CallOK`), and what the chunks before it moved stays.
The assumptions are that sizes are natural numbers, a queue has two entries or more,
and a write brings as many blocks as it asks for.  Theorems: `NvmeInvariant`,
`TransfersAreTrue`.

Only model-checked:

- all liveness (`PacketEventuallyReplied`, `CallsComplete`, `RunCommandEnds`,
  `ShellComesBack`, `UsbInputFlows`): fairness and ENABLED are outside the prover's
  reach;
- what recursive definitions compute, since induction over data is outside it too:
  replay of the log (`RecoversAtomically`, `ReadsCommitted`, `DataOrdered`), descents of
  the B+tree and path walks (`VolumeSound`, `IterationComplete`, `ImplementsFileTree`,
  `ListingComplete`, `FilesSurvive`, `ConsoleInOrder`), menu chains, IFF chunks and icons
  (`ReadsBack`, `ToolkitBooks`, `WalkSeesAll`), the loader's and the page tables' folds and
  the reader of the device tree (`OneOwner`, `ImageFaithful`, `MapExact`);
- the window system and the USB driver (`WindowsConsistent`, `MessagesEarned`,
  `PointerDamage`, `UsbStateTrue`): nothing in them is out of reach, but their state is
  large and their invariants say much about many fields; TLC checks them on the
  instances of section 2.

## 5. Not modelled

Pixels inside a painted box, fonts, text layout, formatting and logging; the
instructions of context switch and traps (the scheduler's model takes a switch as
atomic); the LVO image and trampolines; the kernel's entry sequence; HID reports
below the level of a report; test programs and the C library.  `PROJECT.json` names each with its reason.
