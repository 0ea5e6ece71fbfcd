----------------------------- MODULE CroiMemory -----------------------------
(***************************************************************************)
(* Memory: the map of usable runs made from the device tree (physmap.c),    *)
(* the bitmap page allocator (page_alloc.c), the slab heap (heap.c), the    *)
(* three-level page tables (pt.c) and the shared window that every table    *)
(* carries (shared.c), all of src/croi/mm, and AllocVec over it             *)
(* (exec_lib/mem.c).                                                        *)
(*                                                                         *)
(* Memory is one record m:                                                  *)
(*   pool   the page allocators: "k" over main memory, "s" over the arena   *)
(*          of the shared window                                            *)
(*   heap   the slab heap of each                                           *)
(*   ram    what each page frame holds                                      *)
(*   asid   g_next_asid                                                     *)
(* The calls below map such a record to one with its result: a         *)
(* frame in m.f, a pointer in m.ret, a code in m.rc.                         *)
(* A cell stands for the unit sizes are counted in, a frame holds PG cells. *)
(* The peaks kept for statistics are left out.                              *)
(***************************************************************************)
EXTENDS Integers, Sequences, FiniteSets, SequencesExt, FiniteSetsExt, TLC

CONSTANTS
  PG,            \* cells of a page
  Fan,           \* entries of a page table
  BitmapSpan,    \* pages one page of bitmap covers
  MaxBanks, MaxReserved, MaxRuns,
  Frames,        \* the highest frame number; 0 is no frame
  ArenaPages,    \* CARA_SHARED_ARENA_BYTES in pages
  ExecFrames,    \* the frames of the exec.library image
  AsidMod,       \* g_next_asid is 16 bits wide
  VecMax         \* the largest size AllocVec takes: its header still fits 32 bits

ASSUME MemoryAssumption == PG > 2 /\ Fan > 3 /\ ArenaPages < Fan * Fan

-----------------------------------------------------------------------------
(* physmap.c: the banks less the reserved regions, in whole pages.          *)

Run(base, size) == [base |-> base, size |-> size]
align_up(v, a) == ((v + a - 1) \div a) * a
align_down(v, a) == (v \div a) * a

subtract_one(bank, rsv) ==
  LET bhi == bank.base + bank.size
      rhi == rsv.base + rsv.size IN
  IF rhi <= bank.base \/ rsv.base >= bhi THEN <<bank>>
  ELSE (IF rsv.base > bank.base THEN <<Run(bank.base, rsv.base - bank.base)>> ELSE << >>) \o
       (IF rhi < bhi THEN <<Run(rhi, bhi - rhi)>> ELSE << >>)

\* Mutant of InPages: the start of a run is rounded down like its end.
InPagesDown(r) ==
  LET lo == align_down(r.base, PG)
      hi == align_down(r.base + r.size, PG) IN IF hi <= lo THEN << >> ELSE <<Run(lo, hi - lo)>>

InPages(r) ==
  LET lo == align_up(r.base, PG)
      hi == align_down(r.base + r.size, PG) IN IF hi <= lo THEN << >> ELSE <<Run(lo, hi - lo)>>

Overflow(work) == Len(work) > 2 * MaxRuns

Mm_PhysMapFromFdt(banks, reserved) ==
  LET rsv == SelectSeq(reserved, LAMBDA r : r.size > 0)
      less(work, r) == IF Overflow(work) THEN work
                       ELSE FlattenSeq([i \in DOMAIN work |-> subtract_one(work[i], r)])
      work == FoldLeft(less, banks, rsv)
      usable == FlattenSeq([i \in DOMAIN work |-> InPages(work[i])])
      answer(rc, u) == [rc |-> rc, usable |-> u] IN
  CASE Len(banks) > MaxBanks -> answer("ERANGE", << >>)
    [] banks = << >> -> answer("ENOTFOUND", << >>)
    [] Len(rsv) > MaxReserved \/ Overflow(work) \/ Len(usable) > MaxRuns -> answer("ERANGE", << >>)
    [] OTHER -> answer("EOK", usable)

-----------------------------------------------------------------------------
(* page_alloc.c                                                             *)

ZeroPage == [k |-> "zero"]

BitmapPages(n) == (n + BitmapSpan - 1) \div BitmapSpan
Page_Init(usable) ==
  LET page(r) == [base |-> r.base \div PG, n |-> r.size \div PG, bm |-> BitmapPages(r.size \div PG)]
      runs == SelectSeq([i \in DOMAIN usable |-> page(usable[i])], LAMBDA r : r.n >= 2 /\ r.bm < r.n)
      data(r) == r.n - r.bm IN
  [runs |-> [i \in DOMAIN runs |-> [base |-> runs[i].base, bm |-> runs[i].bm, data |-> data(runs[i]),
                                    used |-> {}, free |-> data(runs[i])]],
   free |-> FoldLeft(LAMBDA s, r : s + data(r), 0, runs),
   total |-> FoldLeft(LAMBDA s, r : s + data(r), 0, runs)]

Fits(r, n) == {i \in 0 .. r.data - n : \A k \in 0 .. n - 1 : i + k \notin r.used}

\* The runs whose count, and then whose bitmap, has room for n pages in a row.
PickRun(pool, n) == {i \in DOMAIN pool.runs : pool.runs[i].free >= n /\ Fits(pool.runs[i], n) # {}}

\* The first run with room, the first place in it; the frames are zeroed.
TakePages(m, p, n, i, at) ==
  LET f == m.pool[p].runs[i].base + m.pool[p].runs[i].bm + at IN
  [m EXCEPT !.pool[p].runs[i].used = @ \cup (at .. at + n - 1),
            !.pool[p].runs[i].free = @ - n,
            !.pool[p].free = @ - n,
            !.ram = [g \in f .. f + n - 1 |-> ZeroPage] @@ @,
            !.f = f]
TakeIn(m, p, n, i) == TakePages(m, p, n, i, Min(Fits(m.pool[p].runs[i], n)))
TakeFrom(m, p, n, can) == IF n = 0 \/ can = {} THEN [m EXCEPT !.f = 0] ELSE TakeIn(m, p, n, Min(can))
Page_Alloc(m, p, n) == TakeFrom(m, p, n, PickRun(m.pool[p], n))

Page_Free(m, p, f, n) ==
  LET runs == m.pool[p].runs
      lo(i) == runs[i].base + runs[i].bm
      mine == {i \in DOMAIN runs : f >= lo(i) /\ f < lo(i) + runs[i].data} IN
  IF f = 0 \/ n = 0 \/ mine = {} THEN m
  ELSE LET i == Min(mine)
           at == f - lo(i) IN
       [m EXCEPT !.pool[p].runs[i].used = @ \ (at .. at + n - 1),
                 !.pool[p].runs[i].free = @ + n,
                 !.pool[p].free = @ + n]

-----------------------------------------------------------------------------
(* heap.c.  A pointer is a virtual page and an offset; the kernel's heap is  *)
(* in the direct map, the shared one in the window.                         *)

Classes == <<1, 2>>
HeaderSize == 1
VecHeader == 1
None == [page |-> 0, off |-> 0]

FreshHeap(arena) == [arena |-> arena, bytes |-> 0, large |-> 0,
                     cls |-> [c \in DOMAIN Classes |-> [free |-> << >>, flight |-> 0]]]

\* The window is one entry of the root table; its pages are numbered from 0
\* like every virtual page.  The direct map lies above the tables' reach.
SharedL2 == 1
ExecL2 == 2
SharedVA == SharedL2 * Fan * Fan
ExecVA == ExecL2 * Fan * Fan
DirectVA == 4 * Fan * Fan

heap_p2v(h, f) == IF h.arena = 0 THEN DirectVA + f ELSE SharedVA + (f - h.arena)
heap_v2p(h, v) == IF h.arena = 0 THEN v - DirectVA ELSE h.arena + (v - SharedVA)

size_to_class(size) == LET fit == {c \in DOMAIN Classes : size <= Classes[c]} IN IF fit = {} THEN 0 ELSE Min(fit)

\* The objects of a slab, the last one first.
Objects(page, c) ==
  LET first == align_up(HeaderSize, Classes[c])
      n == (PG - first) \div Classes[c] IN
  [i \in 1 .. n |-> [page |-> page, off |-> first + (n - i) * Classes[c]]]

NewSlab(m, p, c) ==
  IF m.f = 0 THEN m
  ELSE [m EXCEPT !.ram[m.f] = [k |-> "slab", c |-> c, dirty |-> {}],
                 !.heap[p].cls[c].free = Objects(heap_p2v(m.heap[p], m.f), c)]
slab_grow(m, p, c) == NewSlab(Page_Alloc(m, p, 1), p, c)

Cleared(page, off) == [page EXCEPT !.dirty = @ \ {off}]

PopObject(m, p, c, free) ==
  IF m.f = 0 THEN [m EXCEPT !.ret = None]
  ELSE [m EXCEPT !.heap[p].cls[c] = [free |-> Tail(free), flight |-> @.flight + 1],
                 !.heap[p].bytes = @ + Classes[c],
                 !.ram[heap_v2p(m.heap[p], free[1].page)] = Cleared(@, free[1].off),
                 !.ret = free[1]]
PopFrom(m, p, c) == PopObject(m, p, c, m.heap[p].cls[c].free)
alloc_small(m, p, c) ==
  PopFrom(IF m.heap[p].cls[c].free = << >> THEN slab_grow(m, p, c) ELSE [m EXCEPT !.f = 1], p, c)

NewLarge(m, p, n) ==
  IF m.f = 0 THEN [m EXCEPT !.ret = None]
  ELSE [m EXCEPT !.ram[m.f] = [k |-> "large", n |-> n, dirty |-> {}],
                 !.heap[p].large = @ + 1,
                 !.heap[p].bytes = @ + n * PG,
                 !.ret = [page |-> heap_p2v(m.heap[p], m.f), off |-> HeaderSize]]

PagesFor(size) == (size + HeaderSize + PG - 1) \div PG
alloc_large(m, p, size) == NewLarge(Page_Alloc(m, p, PagesFor(size)), p, PagesFor(size))

alloc_in(m, p, size, c) == IF c > 0 THEN alloc_small(m, p, c) ELSE alloc_large(m, p, size)
alloc_from(m, p, size) == IF size = 0 THEN [m EXCEPT !.ret = None] ELSE alloc_in(m, p, size, size_to_class(size))

Croi_Alloc(m, size) == alloc_from(m, "k", size)
Croi_AllocShared(m, size) == alloc_from(m, "s", size)

HeapOf(m, page) == IF page >= SharedVA /\ page < SharedVA + ArenaPages THEN "s" ELSE "k"

\* The page's header says what the pointer is: an object goes to the head of its
\* class's list, a link written into it; a large block's pages are freed.
Croi_Free(m, ptr) ==
  LET p == HeapOf(m, ptr.page)
      f == heap_v2p(m.heap[p], ptr.page)
      page == m.ram[f] IN
  CASE ptr = None -> m
    [] ptr # None /\ page.k = "slab" ->
         [m EXCEPT !.heap[p].cls[page.c] = [free |-> <<ptr>> \o @.free, flight |-> @.flight - 1],
                   !.heap[p].bytes = @ - Classes[page.c],
                   !.ram[f].dirty = @ \cup {ptr.off}]
    [] ptr # None /\ page.k = "large" ->
         Page_Free([m EXCEPT !.heap[p].large = @ - 1, !.heap[p].bytes = @ - page.n * PG], p, f, page.n)
    [] OTHER -> m

Croi_AllocVec_Impl(m, size) ==
  IF size = 0 \/ size > VecMax THEN [m EXCEPT !.ret = None]
  ELSE [Croi_AllocShared(m, size + VecHeader) EXCEPT !.ret = IF @ = None THEN None ELSE [@ EXCEPT !.off = @ + VecHeader]]
Croi_FreeVec_Impl(m, ptr) == Croi_Free(m, [ptr EXCEPT !.off = @ - VecHeader])

-----------------------------------------------------------------------------
(* pt.c.  A table holds entries at the indexes that are present; a zeroed   *)
(* page is a table without any.                                             *)

Leaf(f, prot) == [leaf |-> TRUE, f |-> f, prot |-> prot]
Table(f) == [leaf |-> FALSE, f |-> f, prot |-> "none"]
KernelL2 == 3

EntriesOf(m, f) == IF m.ram[f].k = "table" THEN m.ram[f].e ELSE << >>
Present(m, f, i) == i \in DOMAIN EntriesOf(m, f)
SetEntry(m, f, i, e) == [m EXCEPT !.ram[f] = [k |-> "table", e |-> (i :> e) @@ EntriesOf(m, f)]]

NoPT == [desc |-> None, root |-> 0, asid |-> 0]

WithRoot(m, desc) ==
  IF m.f = 0 THEN [m |-> Croi_Free(m, desc), pt |-> NoPT]
  ELSE [m |-> SetEntry([m EXCEPT !.asid = (@ + 1) % AsidMod], m.f, KernelL2, Leaf(0, "kernel")),
        pt |-> [desc |-> desc, root |-> m.f, asid |-> m.asid]]
WithDesc(m) == IF m.ret = None THEN [m |-> m, pt |-> NoPT] ELSE WithRoot(Page_Alloc(m, "k", 1), m.ret)
Croi_NewKernelPT(m) == WithDesc(Croi_Alloc(m, 1))

\* The table below entry i of table f, made when there is none: in .f, with EOK,
\* or the code.
NewTable(m, f, i) ==
  IF m.f = 0 THEN [m EXCEPT !.rc = "ENOMEM"] ELSE [SetEntry(m, f, i, Table(m.f)) EXCEPT !.rc = "EOK"]
Walk(m, f, i) ==
  IF ~Present(m, f, i) THEN NewTable(Page_Alloc(m, "k", 1), f, i)
  ELSE IF EntriesOf(m, f)[i].leaf THEN [m EXCEPT !.rc = "EINVAL"]
  ELSE [m EXCEPT !.rc = "EOK", !.f = EntriesOf(m, f)[i].f]

WalkOn(m, i) == IF m.rc = "EOK" THEN Walk(m, m.f, i) ELSE m
PutLeaf(m, i, e) ==
  CASE m.rc # "EOK" -> m
    [] m.rc = "EOK" /\ Present(m, m.f, i) -> [m EXCEPT !.rc = "EINVAL"]
    [] OTHER -> SetEntry(m, m.f, i, e)
Page_Map(m, root, v, f, prot) ==
  PutLeaf(WalkOn(Walk(m, root, v \div (Fan * Fan)), (v \div Fan) % Fan), v % Fan, Leaf(f, prot))

\* The tables below a table.
Below(m, f) == {EntriesOf(m, f)[i].f : i \in {j \in DOMAIN EntriesOf(m, f) : ~EntriesOf(m, f)[j].leaf}}

OwnL1s(m, root) ==
  LET e == EntriesOf(m, root) IN {e[i].f : i \in {j \in DOMAIN e \ {SharedL2} : j < KernelL2 /\ ~e[j].leaf}}

OwnTables(m, root) == {root} \cup OwnL1s(m, root) \cup UNION {Below(m, f) : f \in OwnL1s(m, root)}

\* Mutant of Croi_DestroyPT: the window's subtree is taken for the table's own.
DestroyPTAll(m, pt) ==
  Croi_Free(FoldSet(LAMBDA f, n : Page_Free(n, "k", f, 1), m, {pt.root} \cup Below(m, pt.root)), pt.desc)

Croi_DestroyPT(m, pt) ==
  Croi_Free(FoldSet(LAMBDA f, n : Page_Free(n, "k", f, 1), m, OwnTables(m, pt.root)), pt.desc)

-----------------------------------------------------------------------------
(* shared.c and image.c: the window and the exec.library image in a table.  *)

Croi_Shared_InstallMapping(m, root) == SetEntry(m, root, SharedL2, Table(m.window))

MapFrame(m, root, v, f, prot) == IF m.rc # "EOK" THEN m ELSE Page_Map(m, root, v, f, prot)
Croi_ExecLib_InstallMapping(m, root) ==
  FoldLeft(LAMBDA n, i : MapFrame(n, root, ExecVA + i - 1, ExecFrames[i], "rwx"),
           [m EXCEPT !.rc = "EOK"], [i \in DOMAIN ExecFrames |-> i])

\* The arena and the window's subtree come from main memory; the subtree is in the
\* boot table before the arena is mapped, so that its tables hang off it.
WindowUp(m, arena, l1) ==
  IF m.rc # "EOK" THEN m
  ELSE [m EXCEPT !.pool.s = Page_Init(<<Run(arena * PG, ArenaPages * PG)>>),
                 !.heap.s = FreshHeap(arena),
                 !.window = l1]
MapArena(m, bootRoot, arena, l1) ==
  WindowUp(FoldLeft(LAMBDA n, i : MapFrame(n, bootRoot, SharedVA + i - 1, arena + i - 1, "rw"),
                    [SetEntry(m, bootRoot, SharedL2, Table(l1)) EXCEPT !.rc = "EOK"], [i \in 1 .. ArenaPages |-> i]),
           arena, l1)
WithL1(m, bootRoot, arena) ==
  IF m.f = 0 THEN [Page_Free(m, "k", arena, ArenaPages) EXCEPT !.rc = "ENOMEM"]
  ELSE MapArena(m, bootRoot, arena, m.f)
WithArena(m, bootRoot) ==
  IF m.f = 0 THEN [m EXCEPT !.rc = "ENOMEM"] ELSE WithL1(Page_Alloc(m, "k", 1), bootRoot, m.f)
Croi_Shared_Init(m, bootRoot) == WithArena(Page_Alloc(m, "k", ArenaPages), bootRoot)

\* Memory as the boot leaves it: BootRoot is part of the kernel image.
BootRoot == 1
Raw(usable) ==
  [pool |-> [k |-> Page_Init(usable), s |-> Page_Init(<< >>)], heap |-> [k |-> FreshHeap(0), s |-> FreshHeap(0)],
   ram |-> [f \in 1 .. Frames |-> ZeroPage], asid |-> 1, window |-> 0, f |-> 0, ret |-> None, rc |-> "EOK", top |-> 0]
WithExec(m) == IF m.rc # "EOK" THEN m ELSE Croi_ExecLib_InstallMapping(m, BootRoot)
Booted(usable) == WithExec(Croi_Shared_Init(Raw(usable), BootRoot))
=============================================================================
