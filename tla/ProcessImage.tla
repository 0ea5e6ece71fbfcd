---------------------------- MODULE ProcessImage ----------------------------
(***************************************************************************)
(* What a user process is made of: the ELF loader (src/croi/loader/elf.c),  *)
(* Croi_SpawnUserTask and Croi_SpawnUserProc step by step with everything   *)
(* they give back when a step fails, and the reaping of a dead task         *)
(* (src/croi/sched/sched.c), over the memory of CroiMemory; other clients   *)
(* of the heaps allocate and free in between.                               *)
(*                                                                         *)
(*   mem     memory                                                         *)
(*   blocks  the blocks clients hold, with the size they asked for          *)
(*   procs   the processes that run; dead, those that wait to be reaped     *)
(*   lost    the frames of processes that ended or failed to start, which   *)
(*           the code does not give back                                    *)
(*   gone    the blocks of processes that failed to start, likewise         *)
(***************************************************************************)
EXTENDS CroiMemory

CONSTANTS
  ProcSize, KstackSize, HandlesSize,   \* what a task needs from the heaps
  StackPages,                          \* CARA_USER_STACK_SIZE in pages
  CmdMax,                              \* CARA_USER_CMDLINE_MAX
  Images,                              \* the programs there are
  Memories,                            \* the usable runs a machine may have
  Sizes, MaxBlocks, MaxProcs, MaxSpawns

VARIABLES mem, blocks, procs, dead, lost, gone, spawns

imageVars == <<mem, blocks, procs, dead, lost, gone, spawns>>

TextVA == 0
StackVA == Fan

-----------------------------------------------------------------------------
(* elf.c.  A file is e.size cells, the cell at offset i holding i + 1.      *)

Blob(i) == i + 1
HeaderCells == 1

validate_header(e) ==
  CASE e.size < HeaderCells -> "EINVAL"
    [] e.size >= HeaderCells /\ ~e.magic -> "EBADMAGIC"
    [] e.size >= HeaderCells /\ e.magic /\ ~e.elf64 -> "EBADVERSION"
    [] e.size >= HeaderCells /\ e.magic /\ e.elf64 /\ ~e.riscvExec -> "EINVAL"
    [] e.size >= HeaderCells /\ e.magic /\ e.elf64 /\ e.riscvExec /\ e.phdrEnd > e.size -> "ERANGE"
    [] OTHER -> "EOK"

prot_from_flags(flags) ==
  CASE {"w", "x"} \subseteq flags -> "rwx"
    [] "w" \in flags /\ "x" \notin flags -> "rw"
    [] "x" \in flags /\ "w" \notin flags -> "rx"
    [] OTHER -> "ro"

\* Mutant of PageCells: every page is filled from the start of the segment's data.
PageCellsFromStart(p, va) ==
  [i \in 0 .. PG - 1 |->
     LET a == va * PG + i IN IF a >= p.vaddr /\ a < p.vaddr + p.filesz THEN Blob(p.offset + i) ELSE 0]

\* The file's cells that fall into the page, zeroes around them.
PageCells(p, va) ==
  [i \in 0 .. PG - 1 |->
     LET a == va * PG + i IN IF a >= p.vaddr /\ a < p.vaddr + p.filesz THEN Blob(p.offset + (a - p.vaddr)) ELSE 0]

\* One page of a segment; a page that cannot be mapped is given back.
KeepOrFree(m, f) == IF m.rc = "EOK" THEN m ELSE Page_Free(m, "k", f, 1)
FillPage(m, root, p, va) ==
  IF m.f = 0 THEN [m EXCEPT !.rc = "ENOMEM"]
  ELSE KeepOrFree(Page_Map([m EXCEPT !.ram[m.f] = [k |-> "data", c |-> PageCells(p, va)]],
                           root, va, m.f, prot_from_flags(p.flags)), m.f)
LoadPage(m, root, p, va) == IF m.rc # "EOK" THEN m ELSE FillPage(Page_Alloc(m, "k", 1), root, p, va)

PagesOf(p) ==
  LET lo == align_down(p.vaddr, PG) \div PG
      hi == align_up(p.vaddr + p.memsz, PG) \div PG IN [j \in 1 .. hi - lo |-> lo + j - 1]

load_segment(m, e, root, p) ==
  CASE m.rc # "EOK" -> m
    [] m.rc = "EOK" /\ p.offset + p.filesz > e.size -> [m EXCEPT !.rc = "ERANGE"]
    [] m.rc = "EOK" /\ p.offset + p.filesz <= e.size /\ p.memsz < p.filesz -> [m EXCEPT !.rc = "EINVAL"]
    [] OTHER -> FoldLeft(LAMBDA n, va : LoadPage(n, root, p, va), m, PagesOf(p))

Croi_LoadElf(m, e, root) ==
  LET loads == SelectSeq(e.segs, LAMBDA p : p.load) IN
  FoldLeft(LAMBDA n, p : load_segment(n, e, root, p), [m EXCEPT !.rc = validate_header(e)], loads)

\* Croi_SpawnUserTask's program is part of the kernel image: its frames are mapped.
MapText(m, e, root) ==
  FoldLeft(LAMBDA n, i : MapFrame(n, root, TextVA + i - 1, e.text[i], "rx"),
           [m EXCEPT !.rc = "EOK"], [i \in DOMAIN e.text |-> i])

-----------------------------------------------------------------------------
(* sched.c                                                                  *)

\* The stack's pages, the last one at its top.
PutStack(m, root, i) ==
  IF m.f = 0 THEN [m EXCEPT !.rc = "ENOMEM"]
  ELSE [Page_Map([m EXCEPT !.ram[m.f] = [k |-> "data", c |-> [j \in 0 .. PG - 1 |-> 0]]], root, StackVA + i - 1, m.f, "rw")
          EXCEPT !.top = m.f]
StackPage(m, root, i) == IF m.rc # "EOK" THEN m ELSE PutStack(Page_Alloc(m, "k", 1), root, i)

MapStack(m, root) == FoldLeft(LAMBDA n, i : StackPage(n, root, i), [m EXCEPT !.rc = "EOK"], [i \in 1 .. StackPages |-> i])

\* The command line's cells, cut to what there is room for, and the zero after them.
Smallest(a, b) == IF a < b THEN a ELSE b
CmdCell(k) == 100 + k
CmdLen(e) == Smallest(e.cmd, CmdMax - 1)
CmdOff == PG - CmdMax
PutCmdline(m, e) ==
  IF e.cmd = 0 THEN m
  ELSE [m EXCEPT !.ram[m.top].c = [j \in 0 .. PG - 1 |-> IF j \in CmdOff .. CmdOff + CmdLen(e) - 1 THEN CmdCell(j - CmdOff) ELSE @[j]]]

NoParts == [proc |-> None, kstack |-> None, handles |-> None, pt |-> NoPT]

DropTable(m, pt) == IF pt = NoPT THEN m ELSE Croi_DestroyPT(m, pt)

\* What a spawn that fails gives back of the parts it has: the page table, the handle
\* table, the stack, the task.
GiveBack(m, t) == Croi_Free(Croi_Free(Croi_Free(DropTable(m, t.pt), t.handles), t.kstack), t.proc)

\* The frames a table maps for the process alone: not the image of exec.library, not
\* the kernel's own text.
Pooled(m) == UNION {{r.base + r.bm + i : i \in 0 .. r.data - 1} : r \in Range(m.pool.k.runs)}
UserFrames(m, root) ==
  LET l0s == UNION {Below(m, f) : f \in OwnL1s(m, root)} IN
  UNION {{EntriesOf(m, t)[i].f : i \in DOMAIN EntriesOf(m, t)} : t \in l0s} \cap Pooled(m)

\* The result of a spawn: memory, the parts, whether it succeeded, whether it left the
\* parts behind, and the frames nobody will free.
Outcome(m, t, rc, left) ==
  [m |-> [m EXCEPT !.f = 0, !.ret = None, !.rc = "EOK", !.top = 0], parts |-> t, rc |-> rc, left |-> left]

Failed(m, t, left) == Outcome(GiveBack(m, t), t, "failed", left)
Left(m, t) == Outcome(m, t, "left", OwnTables(m, t.pt.root) \cup UserFrames(m, t.pt.root) \cup ({m.top} \ {0}))
On(m, t) == [m |-> m, parts |-> t, rc |-> "EOK", left |-> {}]

TookPart(m, t, part) == IF m.ret = None THEN Failed(m, t, {}) ELSE On(m, [t EXCEPT ![part] = m.ret])
TookTable(n, t) == IF n.pt = NoPT THEN Failed(n.m, t, {}) ELSE On(n.m, [t EXCEPT !.pt = n.pt])
GotExec(m, t) == IF m.rc # "EOK" THEN Failed(m, t, {}) ELSE On(Croi_Shared_InstallMapping(m, t.pt.root), t)
GotText(m, t) == IF m.rc # "EOK" THEN Left(m, t) ELSE On(m, t)
GotImage(m, t) == IF m.rc # "EOK" THEN Failed(m, t, UserFrames(m, t.pt.root)) ELSE On(m, t)
GotStack(m, t, e) == IF m.rc # "EOK" THEN Left(m, t) ELSE Outcome(PutCmdline(m, e), t, "EOK", {})

SpawnStep(o, e, step) ==
  LET t == o.parts
      root == t.pt.root IN
  CASE step = "proc" -> TookPart(Croi_AllocShared(o.m, ProcSize), t, step)
    [] step = "kstack" -> TookPart(Croi_Alloc(o.m, KstackSize), t, step)
    [] step = "handles" -> TookPart(Croi_Alloc(o.m, HandlesSize), t, step)
    [] step = "pt" -> TookTable(Croi_NewKernelPT(o.m), t)
    [] step = "exec" -> GotExec(Croi_ExecLib_InstallMapping(o.m, root), t)
    [] step = "program" -> IF e.kernel THEN GotText(MapText(o.m, e, root), t) ELSE GotImage(Croi_LoadElf(o.m, e, root), t)
    [] step = "stack" -> GotStack(MapStack(o.m, root), t, e)

Spawn(m, e) ==
  FoldLeft(LAMBDA o, step : IF o.rc = "EOK" THEN SpawnStep(o, e, step) ELSE o, On(m, NoParts),
           <<"proc", "kstack", "handles", "pt", "exec", "program", "stack">>)

\* Sched_ReapDead frees the stack, the handle table and the task, not the page table.
Reaped(m, t) == Croi_Free(Croi_Free(Croi_Free(m, t.kstack), t.handles), t.proc)

-----------------------------------------------------------------------------
(* The steps                                                                *)

ImageInit ==
  /\ \E banks \in Memories : mem = Booted(banks)
  /\ mem.rc = "EOK"
  /\ blocks = {} /\ procs = {} /\ dead = << >> /\ lost = {} /\ gone = {} /\ spawns = 0

Spawned(o, e) ==
  /\ mem' = o.m
  /\ procs' = IF o.rc = "EOK" THEN procs \cup {[parts |-> o.parts, e |-> e]} ELSE procs
  /\ lost' = lost \cup o.left
  /\ gone' = IF o.rc = "left" THEN gone \cup {o.parts} ELSE gone

Croi_SpawnUserProc(e) ==
  /\ spawns < MaxSpawns /\ Cardinality(procs) + Len(dead) < MaxProcs
  /\ spawns' = spawns + 1
  /\ Spawned(Spawn(mem, e), e)
  /\ UNCHANGED <<blocks, dead>>

Croi_TaskExit(t) ==
  /\ procs' = procs \ {t}
  /\ dead' = Append(dead, t)
  /\ UNCHANGED <<mem, blocks, lost, gone, spawns>>

\* The page table's frames and descriptor stay behind.
ProcFrames(t) == OwnTables(mem, t.parts.pt.root) \cup UserFrames(mem, t.parts.pt.root)
Sched_ReapDead ==
  /\ dead # << >>
  /\ mem' = FoldLeft(LAMBDA m, t : Reaped(m, t.parts), mem, dead)
  /\ dead' = << >>
  /\ lost' = lost \cup UNION {ProcFrames(t) : t \in Range(dead)}
  /\ gone' = gone \cup {[NoParts EXCEPT !.pt = t.parts.pt] : t \in Range(dead)}
  /\ UNCHANGED <<blocks, procs, spawns>>

Took(m, kind, size) ==
  /\ Cardinality(blocks) < MaxBlocks
  /\ m.ret # None
  /\ mem' = [m EXCEPT !.f = 0, !.ret = None]
  /\ blocks' = blocks \cup {[ptr |-> m.ret, size |-> size, kind |-> kind]}
  /\ UNCHANGED <<procs, dead, lost, gone, spawns>>

Allocates(size) ==
  \/ Took(Croi_Alloc(mem, size), "kernel", size)
  \/ Took(Croi_AllocShared(mem, size), "shared", size)
  \/ Took(Croi_AllocVec_Impl(mem, size), "vec", size)

Frees(b) ==
  /\ mem' = IF b.kind = "vec" THEN Croi_FreeVec_Impl(mem, b.ptr) ELSE Croi_Free(mem, b.ptr)
  /\ blocks' = blocks \ {b}
  /\ UNCHANGED <<procs, dead, lost, gone, spawns>>

\* The holder of a block writes to it.
FrameOf(m, ptr) == heap_v2p(m.heap[HeapOf(m, ptr.page)], ptr.page)
ObjectOff(b) == IF b.kind = "vec" THEN b.ptr.off - VecHeader ELSE b.ptr.off
Writes(b) ==
  LET f == FrameOf(mem, b.ptr) IN
  /\ mem' = [mem EXCEPT !.ram[f].dirty = @ \cup {ObjectOff(b)}]
  /\ mem' # mem
  /\ UNCHANGED <<blocks, procs, dead, lost, gone, spawns>>

ImageNext ==
  \/ \E e \in Images : Croi_SpawnUserProc(e)
  \/ \E t \in procs : Croi_TaskExit(t)
  \/ Sched_ReapDead
  \/ \E size \in Sizes : Allocates(size)
  \/ \E b \in blocks : Frees(b) \/ Writes(b)

-----------------------------------------------------------------------------
(* Properties                                                               *)

\* What is held of the heaps, by clients and by tasks: address and size.
Piece(ptr, size) == [at |-> ptr.page * PG + ptr.off, size |-> size, ptr |-> ptr]
PartPieces(t) ==
  {x \in {Piece(t.proc, ProcSize), Piece(t.kstack, KstackSize), Piece(t.handles, HandlesSize), Piece(t.pt.desc, 1)} : x.ptr # None}
Held ==
  {Piece(b.ptr, b.size) : b \in blocks} \cup UNION {PartPieces(t.parts) : t \in procs \cup Range(dead)} \cup UNION {PartPieces(t) : t \in gone}
CellsOf(x) == x.at .. x.at + x.size - 1
FreeObjects == UNION {{Piece(ptr, Classes[c]) : ptr \in Range(mem.heap[p].cls[c].free)} : p \in {"k", "s"}, c \in DOMAIN Classes}

\* No two blocks overlap, and none overlaps an object that is on a free list (alloc_from,
\* Croi_Free).
BlocksApart ==
  \A x, y \in Held \cup FreeObjects : x # y => CellsOf(x) \cap CellsOf(y) = {}

\* The counters are what they count: the free pages of each allocator are the zero bits
\* of its bitmaps, and each heap's blocks in flight are the blocks held of it; a failed
\* spawn gives back what it can (Page_Alloc, Page_Free, the failure paths of sched.c).
CountsExact ==
  /\ \A p \in {"k", "s"} :
       /\ \A r \in Range(mem.pool[p].runs) : r.free = r.data - Cardinality(r.used)
       /\ mem.pool[p].free = FoldLeft(LAMBDA n, r : n + r.free, 0, mem.pool[p].runs)
       /\ LET h == mem.heap[p] IN
          h.large + FoldLeft(LAMBDA n, c : n + c.flight, 0, h.cls) = Cardinality({x \in Held : HeapOf(mem, x.ptr.page) = p})

UsedFrames(m) == UNION {{r.base + r.bm + i : i \in r.used} : r \in Range(m.pool.k.runs)}
Larges ==
  {x \in Held : HeapOf(mem, x.ptr.page) = "k" /\ mem.ram[FrameOf(mem, x.ptr)].k = "large"}
LargeFrames(x) == LET f == FrameOf(mem, x.ptr) IN f .. f + mem.ram[f].n - 1
Arena == mem.heap.s.arena
Owners ==
  [slabs |-> {f \in UsedFrames(mem) \ (Arena .. Arena + ArenaPages - 1) : mem.ram[f].k = "slab"},
   large |-> UNION {LargeFrames(x) : x \in Larges},
   arena |-> Arena .. Arena + ArenaPages - 1,
   window |-> {mem.window} \cup Below(mem, mem.window),
   boot |-> OwnTables(mem, BootRoot) \ {BootRoot},
   lost |-> lost]

\* Every page frame that is in use has one owner: a heap, the window, a page table and
\* the process it belongs to, or it is one of those that are not given back when a
\* process ends or fails to start.  So no table or page of a living process is free, or
\* anybody else's (Croi_DestroyPT must leave the shared window alone).  The same holds of
\* the blocks inside the heaps' frames, and the counters agree, whatever was allocated,
\* freed, spawned and reaped before.
OneOwner ==
  LET tasks == procs \cup Range(dead)
      owners == Owners IN
  /\ UNION Range(owners) \cup UNION {ProcFrames(t) : t \in tasks} = UsedFrames(mem)
  /\ MapThenSumSet(LAMBDA k : Cardinality(owners[k]), DOMAIN owners) +
     MapThenSumSet(LAMBDA t : Cardinality(ProcFrames(t)), tasks) = Cardinality(UsedFrames(mem))
  /\ BlocksApart
  /\ CountsExact

\* What a process sees at a virtual page: the entry, if there is one.
Lookup(m, root, v) ==
  LET l1 == EntriesOf(m, root)[v \div (Fan * Fan)].f
      l0 == EntriesOf(m, l1)[(v \div Fan) % Fan].f IN EntriesOf(m, l0)[v % Fan]

SegmentSeen(m, root, p) ==
  \A a \in p.vaddr .. p.vaddr + p.memsz - 1 :
    LET e == Lookup(m, root, a \div PG) IN
    /\ e.prot = prot_from_flags(p.flags)
    /\ m.ram[e.f].c[a % PG] = IF a < p.vaddr + p.filesz THEN Blob(p.offset + a - p.vaddr) ELSE 0

\* A process that runs sees its program: every cell of every segment is the file's, or
\* zero behind it, with the segment's protection; its command line is on its stack; and
\* it sees the window and exec.library as everybody does.
ImageFaithful ==
  \A t \in procs :
    LET root == t.parts.pt.root
        top == Lookup(mem, root, StackVA + StackPages - 1) IN
    /\ ~t.e.kernel => \A i \in DOMAIN t.e.segs : t.e.segs[i].load => SegmentSeen(mem, root, t.e.segs[i])
    /\ top.prot = "rw" /\ \A k \in 0 .. CmdLen(t.e) - 1 : mem.ram[top.f].c[CmdOff + k] = CmdCell(k)
    /\ \A i \in 0 .. ArenaPages - 1 : Lookup(mem, root, SharedVA + i).f = Arena + i
    /\ \A i \in DOMAIN ExecFrames : Lookup(mem, root, ExecVA + i - 1).f = ExecFrames[i]
=============================================================================
