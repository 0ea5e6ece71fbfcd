------------------------------- MODULE PciBus -------------------------------
(***************************************************************************)
(* The PCI bus (src/croi/pci): the host bridge as the device tree has it   *)
(* (fdt.c), the functions found behind it (enum.c), and the windows their  *)
(* base address registers get (bar.c, over the accessors of config.c).     *)
(*                                                                         *)
(* A machine is a record: dt, the host bridge's node (found, reg, bus, the *)
(* two cells of bus-range or <<>>, and ranges), and fns, the functions     *)
(* that answer, by <<bus, device, function>>: their class, whether they    *)
(* say multi-function, and their registers, each of a kind (the upper half *)
(* of a 64-bit one is "upper") and a size.                                 *)
(* Addresses are in units of the 16 bytes below which a register has only  *)
(* type bits: a register half holds values below HALF, the code computes   *)
(* modulo FULL = HALF * HALF, as with 32 and 64 bits.                      *)
(*                                                                         *)
(*   pci   struct PciInventory, the registers as written (regs), and the   *)
(*         result of the last call                                         *)
(***************************************************************************)
EXTENDS Integers, Sequences, SequencesExt, FiniteSets, Bitwise

CONSTANTS
    Machines,
    HALF,
    GIB,                                   \* what one leaf of the boot table maps
    MAX_RANGES, MAX_FUNCTIONS, MAX_BARS,   \* CARA_MAX_PCI_*
    MaxDev, MaxFn                          \* 31 and 7

VARIABLES machine, pci

pciVars == <<machine, pci>>

FULL == HALF * HALF

-----------------------------------------------------------------------------
(* The host bridge. *)

Croi_Pci_HostBridgeFromFdt(dt) ==
    LET Bad(rc) == [rc |-> rc, first |-> 0, last |-> 0, range |-> <<>>]
        taken == SubSeq(dt.ranges, 1, IF Len(dt.ranges) < MAX_RANGES THEN Len(dt.ranges) ELSE MAX_RANGES)
        kept == SelectSeq(taken, LAMBDA r : r.kind # "config") IN
    IF ~dt.found THEN Bad("ENOTFOUND")
    ELSE IF ~dt.reg THEN Bad("ENOENT")
    ELSE IF dt.bus = <<>> \/ dt.bus[1] > dt.bus[2] THEN Bad("EINVAL")
    ELSE IF kept = <<>> THEN Bad("EINVAL")
    ELSE [rc |-> "EOK", first |-> dt.bus[1], last |-> dt.bus[2], range |-> kept]

(* ecam_addr with the accessors: outside the bus range nothing answers.    *)
Answers(m, b, at) == at[1] \in b.first..b.last /\ at \in DOMAIN m.fns

-----------------------------------------------------------------------------
(* The walk: every function of a device whose function 0 answers and says  *)
(* it has more, as long as there is room.                                  *)

FunctionsOf(m, b, bus, dev) ==
    IF ~Answers(m, b, <<bus, dev, 0>>) THEN <<>>
    ELSE LET more == IF m.fns[<<bus, dev, 0>>].multi THEN MaxFn ELSE 0 IN
         SelectSeq([fn \in 1..(more + 1) |-> <<bus, dev, fn - 1>>], LAMBDA at : Answers(m, b, at))

Enumerated(m, b) ==
    LET buses == [i \in 1..(b.last - b.first + 1) |-> b.first + i - 1]
        OnBus(bus) == FoldLeft(LAMBDA s, dev : s \o FunctionsOf(m, b, bus, dev - 1), <<>>,
                               [dev \in 1..(MaxDev + 1) |-> dev])
        all == FoldLeft(LAMBDA s, bus : s \o OnBus(bus), <<>>, buses) IN
    SubSeq(all, 1, IF Len(all) < MAX_FUNCTIONS THEN Len(all) ELSE MAX_FUNCTIONS)

(* The ranges of a kind the walk of Croi_Pci_Init tries: up to the first   *)
(* that does not start at 0 (the cursor is tested for 0).  The last counts.*)
Tried(ranges, kind) ==
    LET all == SelectSeq(ranges, LAMBDA r : r.kind = kind)
        i == SelectInSeq(all, LAMBDA r : r.cpu # 0) IN
    IF i = 0 THEN all ELSE SubSeq(all, 1, i)

Cursor(tried) == IF tried = <<>> THEN [cpu |-> 0, size |-> 0] ELSE Last(tried)

(* Windows are cut from the MEM32 range; the MEM64 cursor is kept and not  *)
(* used.  leaves are the addresses mapped in the boot page table, by one   *)
(* leaf each where the alignment allows it.                                *)
Croi_Pci_Init(m) ==
    LET b == Croi_Pci_HostBridgeFromFdt(m.dt)
        tried == Tried(b.range, "MEM32")
        from == Cursor(tried)
        funcs == IF b.rc = "EOK" THEN Enumerated(m, b) ELSE <<>> IN
    [rc |-> b.rc, func |-> funcs, cursor |-> from.cpu, end |-> from.cpu + from.size,
     low |-> from.cpu, mem64 |-> Cursor(Tried(b.range, "MEM64")),
     leaves |-> {r.cpu : r \in {r_ \in ToSet(tried) : r_.cpu % GIB = 0}},
     cmd |-> [i_ \in DOMAIN funcs |-> FALSE], bar |-> [i_ \in DOMAIN funcs |-> [k \in 0..(MAX_BARS - 1) |-> <<>>]],
     regs |-> [i_ \in DOMAIN funcs |-> [k \in 0..(MAX_BARS - 1) |-> 0]]]

(* The index after *cursor of the next function of a class, or 0.          *)
Croi_Pci_FindByClass(x, m, class, cursor) ==
    LET i == SelectInSubSeq(x.func, cursor + 1, Len(x.func), LAMBDA at : m.fns[at].class = class) IN
    [found |-> i, cursor |-> IF i = 0 THEN Len(x.func) ELSE i]

-----------------------------------------------------------------------------
(* Windows. *)

bar_align_up(v, a) == IF a = 0 THEN v ELSE ((v + a - 1) % FULL) & (FULL - 1 - (a - 1))

(* What ones written to a register read back as; a register that is not    *)
(* there reads as 0.  The upper half is read for a 64-bit one only.        *)
SizeProbe(r) ==
    CASE r.kind = "none" -> 0
      [] r.kind = "m32"  -> HALF - r.size
      [] r.kind = "m64"  -> FULL - r.size

SizeOf(raw) == (FULL - raw) % FULL

Croi_Pci_AllocateBar(x, m, f, k) ==
    LET r == m.fns[x.func[f]].bars[k + 1]
        raw == SizeProbe(r)
        size == SizeOf(raw)
        base == bar_align_up(x.cursor, size) IN
    IF f \notin DOMAIN x.func \/ k >= MAX_BARS THEN [x EXCEPT !.rc = "EINVAL"]
    ELSE IF r.kind \in {"io", "below1M"} THEN [x EXCEPT !.rc = "EINVAL"]
    ELSE IF r.kind = "m64" /\ k + 1 >= MAX_BARS THEN [x EXCEPT !.rc = "EINVAL"]
    ELSE IF raw = 0 THEN [x EXCEPT !.rc = "ENOENT"]
    ELSE IF (base + size) % FULL > x.end \/ base < x.cursor THEN [x EXCEPT !.rc = "ENOMEM"]
    ELSE [x EXCEPT !.rc = "EOK", !.cursor = (base + size) % FULL, !.cmd[f] = TRUE,
                   !.regs[f][k] = base % HALF, !.bar[f][k] = <<base, size>>,
                   !.regs[f] = IF r.kind = "m64" THEN [@ EXCEPT ![k + 1] = base \div HALF] ELSE @,
                   !.bar[f] = IF r.kind = "m64" THEN [@ EXCEPT ![k + 1] = <<>>] ELSE @]

-----------------------------------------------------------------------------
PciInit == machine \in Machines /\ pci = Croi_Pci_Init(machine)

(* A driver allocates a register of a function it found, once.             *)
PciNext ==
    /\ \E f \in DOMAIN pci.func, k \in 0..(MAX_BARS - 1) :
          /\ pci.bar[f][k] = <<>>
          /\ machine.fns[pci.func[f]].bars[k + 1].kind # "upper"
          /\ pci' = Croi_Pci_AllocateBar(pci, machine, f, k)
    /\ UNCHANGED machine

-----------------------------------------------------------------------------
(* What must hold. *)

(* Windows lie in the bridge's range, aligned to their size, and apart;    *)
(* the register decodes the window that is recorded, and the functions     *)
(* that have one, and no others, were told to decode (bar.c:28-134).  A    *)
(* search by class returns every function of it that answers, once, unless *)
(* there are more functions than the inventory holds (enum.c:97-158).      *)
PciWindows ==
    LET all == {b \in [f : DOMAIN pci.func, k : 0..(MAX_BARS - 1)] : pci.bar[b.f][b.k] # <<>>}
        Base(b) == pci.bar[b.f][b.k][1]
        Size(b) == pci.bar[b.f][b.k][2]
        kind(b) == machine.fns[pci.func[b.f]].bars[b.k + 1].kind IN
    /\ \A f \in DOMAIN pci.func : pci.cmd[f] <=> \E b \in all : b.f = f
    /\ \A b \in all :
          /\ Base(b) >= pci.low /\ Base(b) + Size(b) <= pci.end
          /\ Base(b) % Size(b) = 0
          /\ Size(b) = machine.fns[pci.func[b.f]].bars[b.k + 1].size
          /\ Base(b) = pci.regs[b.f][b.k] + IF kind(b) = "m64" THEN HALF * pci.regs[b.f][b.k + 1] ELSE 0
    /\ \A b, c \in all : b # c => Base(b) + Size(b) <= Base(c) \/ Base(c) + Size(c) <= Base(b)

RECURSIVE Search(_, _)
Search(class, cursor) ==
    LET r == Croi_Pci_FindByClass(pci, machine, class, cursor) IN
    IF r.found = 0 THEN <<>> ELSE <<pci.func[r.found]>> \o Search(class, r.cursor)

PciFindsAll ==
    LET here == {at \in DOMAIN machine.fns :
                   /\ at[1] \in machine.dt.bus[1]..machine.dt.bus[2]
                   /\ <<at[1], at[2], 0>> \in DOMAIN machine.fns
                   /\ at[3] # 0 => machine.fns[<<at[1], at[2], 0>>].multi}
        classes == {machine.fns[at].class : at \in DOMAIN machine.fns} IN
    (pci.func # <<>> /\ Cardinality(here) <= MAX_FUNCTIONS) =>
        \A c \in classes :
           /\ ToSet(Search(c, 0)) = {at \in here : machine.fns[at].class = c}
           /\ Len(Search(c, 0)) = Cardinality(ToSet(Search(c, 0)))
=============================================================================
