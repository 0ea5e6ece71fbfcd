------------------------------ MODULE MCMemory ------------------------------
(***************************************************************************)
(* Memory and process images on small machines: every size of main memory   *)
(* from one that cannot start a process to one that starts several, so that  *)
(* a spawn fails at every step there is; and, apart, the map of usable runs  *)
(* for every layout of two banks and reserved regions, read from the device  *)
(* tree that describes it; small device trees of every shape; and the        *)
(* windows that PCI functions get on a few machines.                         *)
(***************************************************************************)
EXTENDS ProcessImage, PciBus, DeviceTree

CONSTANTS Loads, SmallestRam, LargestRam

VARIABLES load, layout

memoryVars == <<imageVars, load, layout, pciVars>>

\* Frame 1 is the boot table, 2 the exec.library image, 3 a text in the kernel.
MCExecFrames == <<2>>
MCMemories == {<<Run(4 * PG, n * PG)>> : n \in (SmallestRam .. LargestRam) \cup {40}} \cup
              {<<Run(4 * PG, 10 * PG), Run(20 * PG, n * PG)>> : n \in {12}}

Seg(load_, offset, vaddr, filesz, memsz, flags) ==
  [load |-> load_, offset |-> offset, vaddr |-> vaddr, filesz |-> filesz, memsz |-> memsz, flags |-> flags]
Elf(size, segs, cmd) ==
  [kernel |-> FALSE, size |-> size, magic |-> TRUE, elf64 |-> TRUE, riscvExec |-> TRUE, phdrEnd |-> 1, segs |-> segs, cmd |-> cmd,
   text |-> << >>]
Text == <<Seg(TRUE, 1, 1, 5, 5, {"x"}), Seg(FALSE, 0, 0, 0, 0, {})>>
MCImages == {Elf(9, Text \o <<Seg(TRUE, 6, 9, 2, 5, {"w"})>>, 2),      \* text, data and bss
             Elf(6, Text \o <<Seg(TRUE, 1, 7, 1, 1, {"w"})>>, 0),      \* two segments in one page
             Elf(6, Text \o <<Seg(TRUE, 5, 8, 2, 2, {})>>, 0),         \* cut short
             [Elf(1, << >>, 0) EXCEPT !.magic = FALSE],
             [Elf(0, << >>, 0) EXCEPT !.kernel = TRUE, !.text = <<3>>]}

NoLayout == [banks |-> << >>, reserved |-> << >>]
Regions(n, lens) == {Run(b, s) : b \in 0 .. n, s \in lens}
Layouts == {[banks |-> <<Run(b, 7), Run(11, s)>>, reserved |-> r] :
              b \in {0, 1, 3}, s \in {1, 9}, r \in {<<x, y>> : x \in Regions(12, {0, 1, 6}), y \in Regions(15, {1, 3})}} \cup
           {[banks |-> << >>, reserved |-> << >>], [banks |-> <<Run(0, 1), Run(8, 8), Run(16, 8)>>, reserved |-> << >>]}

\* The device tree of a layout: a memory node for each bank, the first reserved region
\* in the reservation block, the second under /reserved-memory or the kernel's own.
Node(name, props, kids) == [name |-> name, props |-> props, kids |-> kids]
AddrSize(a, s) == << <<"#address-cells", Cells(<<a>>)>>, <<"#size-cells", Cells(<<s>>)>> >>
InNode(l) == Len(l.reserved) = 2 /\ l.reserved[2].base % 2 = 0
LayoutTree(l) ==
  Node(<<"", "">>, AddrSize(1, 1),
       [i \in DOMAIN l.banks |->
          Node(<<"memory", ToString(i)>>, << <<"device_type", Strings(<<"memory">>)>>,
                                            <<"reg", Cells(<<l.banks[i].base, l.banks[i].size>>)>> >>, << >>)]
       \o <<Node(<<"reserved-memory", "">>, AddrSize(2, 1),
                IF InNode(l) THEN <<Node(<<"r", "">>, << <<"reg", Cells(<<0, l.reserved[2].base, l.reserved[2].size>>)>> >>, << >>)>>
                ELSE << >>)>>)
LayoutBlob(l) == Dtb(LayoutTree(l), (IF l.reserved = << >> THEN << >> ELSE <<l.reserved[1]>>) \o <<Run(0, 0)>>, << >>)
KernelOf(l) == IF Len(l.reserved) = 2 /\ ~InNode(l) THEN l.reserved[2] ELSE Run(0, 0)

\* Every tree of up to four nodes with these labels below the root: two names, of which
\* one is the other with a unit address; cells to count in, a register, a compatible.
RECURSIVE Forests(_)
Labels == {Node(n, p, << >>) : n \in {<<"a", "">>, <<"a", "1">>},
                               p \in {<< <<"#address-cells", Cells(<<1>>)>> >>,
                                      << <<"reg", Cells(<<1, 2, 3>>)>> >>,
                                      << <<"compatible", Strings(<<"d", "c">>)>>, <<"reg", Cells(<<1, 2>>)>> >>}}
Forests(n) ==
  IF n = 0 THEN {<< >>}
  ELSE UNION {{<<[l EXCEPT !.kids = f]>> \o g : l \in Labels, f \in Forests(k - 1), g \in Forests(n - k)} : k \in 1 .. n}
Nops == <<[t |-> "nop"]>>
Trees == {[tree |-> Node(<<"", "">>, << >>, f), nops |-> q] : f \in UNION {Forests(n) : n \in 0 .. 3}, q \in {<< >>, Nops}}

\* Boards: a stdout-path of every form, two UARTs, buses that count in one or two cells.
At(p, options) == [p EXCEPT !.options = options]
Alias(name) == [Path(<< <<name, "">> >>) EXCEPT !.root = FALSE]
SocUart(u) == Path(<< <<"soc", "">>, u>>)
Stdouts == {SocUart(<<"uart", "2">>), At(SocUart(<<"uart", "">>), TRUE), At(SocUart(<<"none", "">>), TRUE),
            Alias("s0"), At(Alias("s0"), TRUE), Alias("s1"), Alias("s2"), [Path(<< >>) EXCEPT !.root = FALSE],
            [SocUart(<<"uart", "2">>) EXCEPT !.long = TRUE]}
Uart(unit, compat, more, cells) ==
  Node(<<"uart", unit>>, << <<"compatible", Strings(<<compat, "x">>)>>, <<"reg", Cells(cells)>> >> \o more, << >>)
Board(stdout, c, kind, format) ==
  Node(<<"", "">>, << >>,
    <<Node(<<"chosen", "">>, [i \in DOMAIN stdout |-> <<"stdout-path", Strings(<<stdout[i]>>)>>], << >>),
      Node(<<"aliases", "">>, << <<"s0", Strings(<<SocUart(<<"uart", "2">>)>>)>>,
                                <<"s1", Strings(<<At(SocUart(<<"uart", "2">>), TRUE)>>)>> >>, << >>),
      Node(<<"cpus", "">>, << <<"timebase-frequency", Cells(<<9>>)>> >>,
           <<Node(<<"cpu", "0">>, << <<"riscv,isa", Strings(<< <<"rv64", "sstc">> >>)>> >>, << >>)>>),
      Node(<<"soc", "">>, AddrSize(c, 1),
           <<Uart("1", "ns16550", << >>, [i \in 1 .. c + 1 |-> i]),
             Uart("2", kind, << <<"interrupts", Cells(<<5>>)>>, <<"current-speed", Cells(<<96>>)>> >>, [i \in 1 .. c + 1 |-> i + 3]),
             Node(<<"fb", "">>, << <<"compatible", Strings(<<"simple-framebuffer">>)>>, <<"reg", Cells([i \in 1 .. c + 1 |-> 7])>>,
                                  <<"width", Cells(<<6>>)>>, <<"height", Cells(<<4>>)>>, <<"stride", Cells(<<8>>)>>,
                                  <<"format", Strings(<<format>>)>> >>, << >>)>>)>>)
Boards == {[tree |-> Board(s, c, k, f), nops |-> q] :
             s \in {<< >>} \cup {<<p>> : p \in Stdouts}, c \in {1, 2}, k \in {"ns16550a", "other"},
             f \in {"r5g6b5", "x8b8g8r8", "a8r8g8b8", "yuv"}, q \in {<< >>, Nops}}

\* Headers with blocks inside, at the end of and outside the blob.
Headers == [at : {0, 2}, magic : BOOLEAN, version : {16, 17}, lastComp : {16, 17}, total : {39, 40, 96},
            offStruct : {40, 42, 92, 100}, sizeStruct : {0, 4, 8}, offStrings : {40, 96}, sizeStrings : {0, 1},
            offRsv : {40, 44, 80, 88}]

\* Functions that answer without function 0, more of them than the inventory holds,
\* registers of every kind; bridges without what they need and with a window at 0.
Reg(kind, size) == [kind |-> kind, size |-> size]
None3 == <<Reg("none", 0), Reg("none", 0), Reg("none", 0)>>
Wide(size) == <<Reg("m64", size), Reg("upper", 0)>>
Fn(class, multi, bars) == [class |-> class, multi |-> multi, bars |-> bars]
Buses ==
  {(<<0, 0, 0>> :> Fn("bridge", FALSE, <<Reg("none", 0), Reg("io", 1), Reg("below1M", 1)>>)) @@
   (<<0, 0, 1>> :> Fn("xhci", FALSE, None3)) @@
   (<<0, 1, 0>> :> Fn("nvme", TRUE, Wide(4) \o <<Reg("m64", 2)>>)) @@
   (<<0, 1, 1>> :> Fn("xhci", FALSE, <<Reg("m32", 2)>> \o Wide(1))) @@
   (<<1, 1, 0>> :> Fn("xhci", FALSE, Wide(2) \o <<Reg("m32", 1)>>)),
   (<<0, 1, 0>> :> Fn("xhci", FALSE, Wide(2) \o <<Reg("none", 0)>>)) @@
   (<<1, 1, 0>> :> Fn("xhci", TRUE, Wide(4) \o <<Reg("none", 0)>>)) @@
   (<<1, 1, 1>> :> Fn("nvme", TRUE, Wide(1) \o <<Reg("none", 0)>>)) @@
   (<<2, 1, 1>> :> Fn("nvme", TRUE, None3))}
Window(kind, cpu, size) == [kind |-> kind, cpu |-> cpu, size |-> size]
Bridge(bus, ranges) == [found |-> TRUE, reg |-> TRUE, bus |-> bus, ranges |-> ranges]
Bridges ==
  {Bridge(<<0, 1>>, <<Window("IO", 0, 4), Window("MEM32", 4, 8), Window("MEM64", 32, 32)>>),
   Bridge(<<0, 0>>, <<Window("config", 0, 4), Window("MEM32", 3, 8)>>),
   Bridge(<<1, 2>>, <<Window("MEM32", 0, 8), Window("MEM32", 4, 4)>>),
   Bridge(<<0, 1>>, <<Window("MEM32", 8, 8)>>), Bridge(<<0, 2>>, <<Window("MEM64", 8, 8)>>),
   Bridge(<<>>, <<Window("MEM32", 8, 8)>>), Bridge(<<0, 1>>, <<Window("config", 8, 8)>>),
   [Bridge(<<0, 1>>, <<>>) EXCEPT !.found = FALSE], [Bridge(<<0, 1>>, <<>>) EXCEPT !.reg = FALSE]}
MCMachines == {[dt |-> b, fns |-> f] : b \in Bridges, f \in Buses}
NoPci == [dt |-> [Bridge(<<0, 1>>, <<>>) EXCEPT !.found = FALSE], fns |-> << >>]

Machine == Booted(<<Run(4 * PG, 11 * PG)>>)
AtRest == blocks = {} /\ procs = {} /\ dead = << >> /\ lost = {} /\ gone = {} /\ spawns = 0
MemoryInit ==
  /\ load \in Loads
  /\ IF load = "pci" THEN PciInit ELSE machine = NoPci /\ pci = Croi_Pci_Init(NoPci)
  /\ CASE load = "images" -> ImageInit /\ layout = NoLayout
       [] load = "heaps" -> mem = Machine /\ AtRest /\ layout = NoLayout
       [] load = "maps" -> mem = Machine /\ AtRest /\ layout \in Layouts
       [] load = "trees" -> mem = Machine /\ AtRest /\ layout \in Trees
       [] load = "boards" -> mem = Machine /\ AtRest /\ layout \in Boards
       [] load = "headers" -> mem = Machine /\ AtRest /\ layout \in Headers
       [] load = "pci" -> mem = Machine /\ AtRest /\ layout = NoLayout

\* Processes in memories of every size, or blocks in a memory that they fill.
MemoryNext ==
  /\ CASE load = "images" -> ImageNext /\ blocks' = {} /\ UNCHANGED pciVars
       [] load = "heaps" -> ImageNext /\ spawns' = 0 /\ UNCHANGED pciVars
       [] load \in {"maps", "trees", "boards", "headers"} -> FALSE
       [] load = "pci" -> PciNext /\ UNCHANGED imageVars
  /\ UNCHANGED <<load, layout>>

MemorySpec == MemoryInit /\ [][MemoryNext]_memoryVars

\* The usable runs are exactly the whole pages of the banks that no reserved region
\* touches, in runs that do not overlap; or the map says that it has no room for them
\* (Mm_PhysMapFromFdt against the definition of usable).
WholePages(b, rsv) ==
  {p \in 0 .. 10 : /\ p * PG >= b.base /\ (p + 1) * PG <= b.base + b.size
                   /\ \A i \in DOMAIN rsv : rsv[i].size > 0 => rsv[i].base >= (p + 1) * PG \/ rsv[i].base + rsv[i].size <= p * PG}
PagesOfRun(r) == r.base \div PG .. (r.base + r.size) \div PG - 1
RunsOf(pm, want) ==
  pm.rc = "EOK" =>
    /\ UNION {PagesOfRun(r) : r \in Range(pm.usable)} = want
    /\ FoldLeft(LAMBDA n, r : n + r.size \div PG, 0, pm.usable) = Cardinality(want)
RunsExact ==
  LET blob == LayoutBlob(layout) IN
  RunsOf(Mm_PhysMapFromFdt(FdtBanks(blob), FdtReserved(blob, KernelOf(layout), Run(0, 0))),
         UNION {WholePages(layout.banks[i], layout.reserved) : i \in DOMAIN layout.banks})

\* A tree reads as what it is, whole or cut off at any token.
TreeExact ==
  LET b == Dtb(layout.tree, << >>, layout.nops) IN
  /\ ReadsTree(layout.tree, b, "c")
  /\ layout.nops = << >> => \A n \in 1 .. Len(b.struct) - 1 : NeverMisread(b, [b EXCEPT !.struct = SubSeq(@, 1, n)], "c")

\* An accepted blob has its blocks inside it.
HeaderExact ==
  Fdt_Open(layout) = "EOK" =>
    /\ layout.offStruct + layout.sizeStruct <= layout.total /\ layout.sizeStruct >= 4
    /\ layout.offStrings + layout.sizeStrings <= layout.total
    /\ layout.offRsv + 16 <= layout.total

\* What the kernel works out from the device tree and the bus at boot is what is
\* there: the nodes and properties of a tree, the console and the framebuffer, the
\* usable runs, the functions by class, and the windows of their registers.
MapExact ==
  /\ CASE load = "trees" -> TreeExact
       [] load = "boards" -> ReadsBoard(layout.tree, Dtb(layout.tree, << >>, layout.nops))
       [] load = "headers" -> HeaderExact
       [] OTHER -> RunsExact
  /\ PciFindsAll /\ PciWindows
=============================================================================
