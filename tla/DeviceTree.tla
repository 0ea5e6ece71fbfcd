----------------------------- MODULE DeviceTree -----------------------------
(***************************************************************************)
(* The device tree the firmware hands to the kernel: the parser of the     *)
(* flattened blob (src/croi/fdt) and what is read through it at boot: the  *)
(* console and the timer (platform_init.c), the inherited framebuffer      *)
(* (dath/fdt_simple.c), the memory banks and reserved regions (physmap.c). *)
(*                                                                         *)
(* A blob b is the memory reservation block (rsv, without its terminator   *)
(* when it has none) and the structure block (struct), a sequence of       *)
(* tokens; an offset counts tokens from 0.  A token that cannot be read is *)
(* the error its reading gives.  A node name and a path segment are pairs  *)
(* of what is before and after the '@'.  A property holds cells, strings   *)
(* (each ended by a NUL) or bytes that are neither; a path that is the     *)
(* value of a property may carry options after a ':'.  No string is read   *)
(* as a cell: none has the length of one.                                  *)
(***************************************************************************)
EXTENDS Integers, Sequences, SequencesExt, FiniteSetsExt

CONSTANTS
    CELL,           \* what a cell counts to: 2^32
    MAX_DEPTH,      \* nodes fdt_find_parent keeps track of
    Word            \* what a u32 of the header counts to

Unreadable == "name outside the strings block"
Errors == {"ERANGE", "EINVAL", "EOVERFLOW"}

Cells(v) == [k |-> "cells", v |-> v]
Strings(v) == [k |-> "strings", v |-> v]
Path(segs) == [root |-> TRUE, segs |-> segs, options |-> FALSE, long |-> FALSE]
Top(name) == Path(<< <<name, "">> >>)

-----------------------------------------------------------------------------
(* fdt.c: the header, tokens, nodes and reservations.                      *)

(* h.at is the address of the blob; the block sizes are those the header   *)
(* states.                                                                 *)
Fdt_Open(h) ==
    LET Outside(off, size) == off > h.total \/ size > h.total - off IN
    CASE h.at % 4 # 0 -> "EINVAL"
      [] ~h.magic -> "EBADMAGIC"
      [] h.version < 17 \/ h.lastComp > 16 -> "EBADVERSION"
      [] h.total < 40 -> "EINVAL"
      [] Outside(h.offStruct, h.sizeStruct) -> "ERANGE"
      [] Outside(h.offStrings, h.sizeStrings) -> "ERANGE"
      [] h.offRsv > h.total -> "ERANGE"
      [] h.offStruct % 4 # 0 \/ h.sizeStruct < 4 -> "ERANGE"
      [] h.offRsv % 8 # 0 \/ (h.offRsv + 16) % Word > h.total -> "ERANGE"
      [] OTHER -> "EOK"

fdt_read_token(b, off) == IF off < Len(b.struct) THEN b.struct[off + 1] ELSE [t |-> "ERANGE"]

(* The first token from off that ends a loop over tokens; the size of the  *)
(* block when none does.                                                   *)
FirstFrom(b, off, Ends(_)) ==
    LET at[i \in Nat] == IF i >= Len(b.struct) \/ Ends(i) THEN i ELSE at[i + 1] IN at[off]

Count(b, first, last, t) == Cardinality({i \in first .. last : fdt_read_token(b, i).t = t})

(* The depth the loops count: nodes begun less nodes ended.                *)
Level(b, first, last) == Count(b, first, last, "begin") - Count(b, first, last, "end")

(* The offset behind the node's end.                                       *)
SkippedTo(b, at) ==
    LET t == fdt_read_token(b, at).t IN
    CASE t \in Errors -> [rc |-> t, off |-> 0]
      [] t = "stop" -> [rc |-> "ERANGE", off |-> 0]
      [] OTHER -> [rc |-> "EOK", off |-> at + 1]
fdt_skip_node(b, node) ==
    LET Of(i) == fdt_read_token(b, i).t IN
    CASE Of(node) \in Errors -> [rc |-> Of(node), off |-> 0]
      [] Of(node) # "begin" -> [rc |-> "EINVAL", off |-> 0]
      [] OTHER -> SkippedTo(b, FirstFrom(b, node, LAMBDA i : Of(i) \in Errors \cup {"stop"} \/ Level(b, node, i) = 0))

(* Leading NOPs are passed over; 0 when there is no node behind them.      *)
Fdt_Root(b) ==
    LET at == FirstFrom(b, 0, LAMBDA i : fdt_read_token(b, i).t # "nop") IN
    IF fdt_read_token(b, at).t = "begin" THEN at ELSE 0

(* Asked of nodes only.                                                    *)
Fdt_NodeName(b, node) == fdt_read_token(b, node).name

Fdt_RsvIter(b, cursor) ==
    CASE cursor >= Len(b.rsv) -> [rc |-> "ERANGE", cursor |-> cursor]
      [] b.rsv[cursor + 1] = [base |-> 0, size |-> 0] -> [rc |-> "ENOTFOUND", cursor |-> cursor]
      [] OTHER -> [rc |-> "EOK", cursor |-> cursor + 1, run |-> b.rsv[cursor + 1]]

-----------------------------------------------------------------------------
(* fdt_props.c: properties.                                                *)

(* Up to the first child or the node's end.                                *)
PropAt(b, at) ==
    LET tok == fdt_read_token(b, at) IN
    CASE at >= Len(b.struct) -> [rc |-> "ENOTFOUND"]
      [] tok.t \in Errors -> [rc |-> tok.t]
      [] tok.t # "prop" -> [rc |-> "ENOTFOUND"]
      [] tok.name = Unreadable -> [rc |-> "EINVAL"]
      [] OTHER -> [rc |-> "EOK", val |-> tok.val]
fdt_find_prop(b, node, name) ==
    LET first == fdt_read_token(b, node)
        Ends(i) == LET tok == fdt_read_token(b, i) IN
                   \/ tok.t \in Errors \cup {"begin", "end", "stop"}
                   \/ tok.t = "prop" /\ tok.name \in {name, Unreadable} IN
    CASE first.t \in Errors -> [rc |-> first.t]
      [] first.t # "begin" -> [rc |-> "EINVAL"]
      [] OTHER -> PropAt(b, FirstFrom(b, node + 1, Ends))

Fdt_PropRaw(b, node, name) == fdt_find_prop(b, node, name)

fdt_be64(hi, lo) == hi * CELL + lo

Fdt_PropU32(b, node, name) ==
    LET p == Fdt_PropRaw(b, node, name) IN
    CASE p.rc # "EOK" -> p
      [] p.val.k # "cells" \/ Len(p.val.v) # 1 -> [rc |-> "EINVAL"]
      [] OTHER -> [rc |-> "EOK", n |-> p.val.v[1]]

Fdt_PropU64(b, node, name) ==
    LET p == Fdt_PropRaw(b, node, name) IN
    CASE p.rc # "EOK" -> p
      [] p.val.k # "cells" \/ Len(p.val.v) # 2 -> [rc |-> "EINVAL"]
      [] OTHER -> [rc |-> "EOK", n |-> fdt_be64(p.val.v[1], p.val.v[2])]

(* The string in a sequence of its own; nullptr is the empty sequence.     *)
IsString(p) == p.rc = "EOK" /\ p.val.k = "strings" /\ p.val.v # <<>>
Fdt_PropStr(b, node, name) ==
    LET p == Fdt_PropRaw(b, node, name) IN IF IsString(p) THEN <<p.val.v[1]>> ELSE <<>>

(* The cursor counts strings.                                              *)
Fdt_PropStrIter(b, node, name, cursor) ==
    LET p == Fdt_PropRaw(b, node, name) IN
    CASE p.rc # "EOK" -> p
      [] p.val.k # "bytes" /\ cursor >= Len(p.val.v) -> [rc |-> "ENOTFOUND"]
      [] ~IsString(p) -> [rc |-> "EINVAL"]
      [] OTHER -> [rc |-> "EOK", str |-> p.val.v[cursor + 1], cursor |-> cursor + 1]

RECURSIVE StringsFrom(_, _, _, _)
StringsFrom(b, node, name, cursor) ==
    LET s == Fdt_PropStrIter(b, node, name, cursor) IN
    IF s.rc = "EOK" THEN <<s.str>> \o StringsFrom(b, node, name, s.cursor) ELSE <<>>

Fdt_NodeIsCompatible(b, node, compat) == Contains(StringsFrom(b, node, "compatible", 0), compat)

(* From the start of the block to the node; the walk gives up below        *)
(* MAX_DEPTH nodes.                                                        *)
ParentAt(b, child, at) ==
    LET Of(i) == fdt_read_token(b, i).t
        Open(i) == Level(b, 0, i - 1)
        above == {i \in 0 .. at - 1 : Of(i) = "begin" /\ Open(i) = Open(at) - 1} IN
    CASE at >= Len(b.struct) \/ Of(at) = "stop" -> [rc |-> "ENOTFOUND"]
      [] Of(at) \in Errors -> [rc |-> Of(at)]
      [] Of(at) = "end" -> [rc |-> "EINVAL"]
      [] at # child -> [rc |-> "ERANGE"]
      [] Open(at) = 0 -> [rc |-> "ENOTFOUND"]
      [] OTHER -> [rc |-> "EOK", node |-> Max(above)]
fdt_find_parent(b, child) ==
    LET Of(i) == fdt_read_token(b, i).t
        Open(i) == Level(b, 0, i - 1)
        Ends(i) == \/ Of(i) \in Errors \cup {"stop"}
                   \/ Of(i) = "begin" /\ (i = child \/ Open(i) >= MAX_DEPTH)
                   \/ Of(i) = "end" /\ Open(i) = 0 IN
    ParentAt(b, child, FirstFrom(b, 0, Ends))

GetU32(b, node, name, default) ==
    LET v == Fdt_PropU32(b, node, name) IN IF v.rc = "EOK" THEN v.n ELSE default

CellsBelow(b, parent) ==
    IF parent.rc # "EOK" THEN [addr |-> 2, size |-> 1]
    ELSE [addr |-> GetU32(b, parent.node, "#address-cells", 2), size |-> GetU32(b, parent.node, "#size-cells", 1)]
fdt_get_parent_cells(b, node) == CellsBelow(b, fdt_find_parent(b, node))

Number(cells) == FoldLeft(LAMBDA n, c : n * CELL + c, 0, cells)
Entry(cells, at, c) ==
    [base |-> Number(SubSeq(cells, at + 1, at + c.addr)),
     size |-> Number(SubSeq(cells, at + c.addr + 1, at + c.addr + c.size))]

RegEntry(c, p, index) ==
    LET width == c.addr + c.size IN
    CASE c.addr \notin {1, 2} \/ c.size > 2 -> [rc |-> "EINVAL"]
      [] p.rc # "EOK" -> p
      [] p.val.k # "cells" -> [rc |-> "EINVAL"]
      [] Len(p.val.v) % width # 0 -> [rc |-> "EINVAL"]
      [] index >= Len(p.val.v) \div width -> [rc |-> "ENOTFOUND"]
      [] OTHER -> [rc |-> "EOK", run |-> Entry(p.val.v, index * width, c)]
Fdt_PropReg(b, node, index) == RegEntry(fdt_get_parent_cells(b, node), Fdt_PropRaw(b, node, "reg"), index)

-----------------------------------------------------------------------------
(* fdt_path.c: children, paths and compatible nodes.                       *)

(* With or without the unit address.                                       *)
fdt_segment_matches(seg, name) == seg = name \/ seg = <<name[1], "">>

ChildAt(b, at) ==
    LET t == fdt_read_token(b, at).t
        after == fdt_skip_node(b, at) IN
    CASE at >= Len(b.struct) \/ t \in {"end", "stop"} -> [rc |-> "ENOTFOUND"]
      [] t \in Errors -> [rc |-> t]
      [] after.rc # "EOK" -> after
      [] OTHER -> [rc |-> "EOK", node |-> at, cursor |-> after.off]
Fdt_ChildIter(b, parent, cursor) ==
    LET Of(i) == fdt_read_token(b, i).t IN
    CASE cursor = 0 /\ Of(parent) \in Errors -> [rc |-> Of(parent)]
      [] cursor = 0 /\ Of(parent) # "begin" -> [rc |-> "EINVAL"]
      [] OTHER -> ChildAt(b, FirstFrom(b, IF cursor = 0 THEN parent + 1 ELSE cursor,
                                       LAMBDA i : Of(i) \notin {"prop", "nop"}))

RECURSIVE ChildrenFrom(_, _, _)
ChildrenFrom(b, parent, cursor) ==
    LET c == Fdt_ChildIter(b, parent, cursor) IN
    IF c.rc = "EOK" THEN <<c.node>> \o ChildrenFrom(b, parent, c.cursor) ELSE <<>>

fdt_resolve_segment(b, parent, seg) ==
    LET hits == SelectSeq(ChildrenFrom(b, parent, 0),
                          LAMBDA n : fdt_segment_matches(seg, Fdt_NodeName(b, n))) IN
    IF hits = <<>> THEN [rc |-> "ENOTFOUND"] ELSE [rc |-> "EOK", node |-> hits[1]]

(* Options are part of the last segment and match no name.                 *)
Segments(path) == IF path.options THEN SubSeq(path.segs, 1, Len(path.segs) - 1) \o << <<"?", "options">> >>
                  ELSE path.segs

Fdt_ResolvePath(b, path) ==
    IF ~path.root THEN [rc |-> "EINVAL"]
    ELSE FoldLeft(LAMBDA r, seg : IF r.rc # "EOK" THEN r
                                  ELSE IF seg = <<"", "">> THEN [rc |-> "EINVAL"]
                                  ELSE fdt_resolve_segment(b, r.node, seg),
                  [rc |-> "EOK", node |-> Fdt_Root(b)], Segments(path))

(* A search that goes on does so behind the node found last, its children  *)
(* included.                                                               *)
CompatibleAt(b, at) ==
    LET t == fdt_read_token(b, at).t IN
    CASE at >= Len(b.struct) \/ t = "stop" -> [rc |-> "ENOTFOUND"]
      [] t \in Errors -> [rc |-> t]
      [] OTHER -> [rc |-> "EOK", node |-> at]
Fdt_FindByCompatible(b, compat, last) ==
    LET after == fdt_skip_node(b, last)
        Of(i) == fdt_read_token(b, i).t IN
    IF last # 0 /\ after.rc # "EOK" THEN after
    ELSE CompatibleAt(b, FirstFrom(b, IF last = 0 THEN 0 ELSE after.off,
                                   LAMBDA i : \/ Of(i) \in Errors \cup {"stop"}
                                              \/ Of(i) = "begin" /\ Fdt_NodeIsCompatible(b, i, compat)))
-----------------------------------------------------------------------------
(* platform_init.c: the console's UART, the timer's frequency, sstc.       *)

(* Options are cut off the path in /chosen, not off the one an alias has.  *)
(* An alias is the first segment of a path that does not start at the      *)
(* root.                                                                   *)
AliasNode(b, path, aliases) ==
    LET target == Fdt_PropStr(b, aliases.node, path.segs[1][1]) IN
    CASE aliases.rc # "EOK" -> aliases
      [] path.segs = <<>> \/ path.long -> [rc |-> "EINVAL"]
      [] target = <<>> -> [rc |-> "ENOTFOUND"]
      [] OTHER -> Fdt_ResolvePath(b, target[1])
StdoutNode(b, found) ==
    LET path == found[1] IN
    CASE found = <<>> -> [rc |-> "ENOTFOUND"]
      [] path.root /\ path.long -> [rc |-> "EINVAL"]
      [] path.root -> Fdt_ResolvePath(b, [path EXCEPT !.options = FALSE])
      [] OTHER -> AliasNode(b, path, Fdt_ResolvePath(b, Top("aliases")))
resolve_stdout(b) ==
    LET chosen == Fdt_ResolvePath(b, Top("chosen")) IN
    IF chosen.rc # "EOK" THEN chosen ELSE StdoutNode(b, Fdt_PropStr(b, chosen.node, "stdout-path"))

(* The UART /chosen names, or else the first ns16550a, or else the first   *)
(* ns16550.                                                                *)
FirstFound(named, a, plain) ==
    CASE named.rc = "EOK" -> named
      [] a.rc = "EOK" -> a
      [] plain.rc = "EOK" -> plain
      [] OTHER -> named
ConsoleNode(b) ==
    FirstFound(resolve_stdout(b), Fdt_FindByCompatible(b, "ns16550a", 0), Fdt_FindByCompatible(b, "ns16550", 0))

NoConsole == [kind |-> "none", base |-> 0, irq |-> 0, shift |-> 0, width |-> 1, clock |-> 0, baud |-> 115200]

ReadConsole(b, uart) ==
    LET reg == Fdt_PropReg(b, uart.node, 0)
        Get(name, default) == GetU32(b, uart.node, name, default) IN
    IF uart.rc # "EOK" THEN [rc |-> uart.rc, console |-> NoConsole]
    ELSE IF reg.rc # "EOK" THEN [rc |-> reg.rc, console |-> NoConsole]
    ELSE [rc |-> "EOK",
          console |-> [kind |-> "ns16550", base |-> reg.run.base, irq |-> Get("interrupts", 0),
                       shift |-> Get("reg-shift", 0), width |-> Get("reg-io-width", 1),
                       clock |-> Get("clock-frequency", 0), baud |-> Get("current-speed", 115200)]]

(* An isa string is the sequence of the extensions it is made of.          *)
ReadCpus(b, cpus) ==
    LET cpu == Fdt_ChildIter(b, cpus.node, 0)
        isa == Fdt_PropStr(b, cpu.node, "riscv,isa") IN
    [timebase |-> IF cpus.rc = "EOK" THEN GetU32(b, cpus.node, "timebase-frequency", 0) ELSE 0,
     sstc |-> cpus.rc = "EOK" /\ cpu.rc = "EOK" /\ isa # <<>> /\ Contains(isa[1], "sstc")]

Platform_FromFdt(b) == ReadConsole(b, ConsoleNode(b)) @@ ReadCpus(b, Fdt_ResolvePath(b, Top("cpus")))

-----------------------------------------------------------------------------
(* dath/fdt_simple.c: the framebuffer the firmware left.                   *)

parse_format(s) ==
    CASE s \in {<<"a8r8g8b8">>, <<"x8r8g8b8">>} -> "RGBA8888"
      [] s \in {<<"a8b8g8r8">>, <<"x8b8g8r8">>} -> "BGRA8888"
      [] s = <<"r5g6b5">> -> "RGB565"
      [] OTHER -> "none"

ReadFramebuffer(b, fb) ==
    LET reg == Fdt_PropReg(b, fb.node, 0)
        dim == [d \in {"width", "height", "stride"} |-> Fdt_PropU32(b, fb.node, d)]
        format == parse_format(Fdt_PropStr(b, fb.node, "format")) IN
    CASE fb.rc # "EOK" -> [rc |-> "ENOTFOUND"]
      [] reg.rc # "EOK" -> reg
      [] \E d \in DOMAIN dim : dim[d].rc # "EOK" -> [rc |-> "EINVAL"]
      [] format = "none" -> [rc |-> "EINVAL"]
      [] OTHER -> [rc |-> "EOK", run |-> reg.run, dim |-> [d \in DOMAIN dim |-> dim[d].n], format |-> format]
Dath_Framebuffer_FromFdt(b) == ReadFramebuffer(b, Fdt_FindByCompatible(b, "simple-framebuffer", 0))

-----------------------------------------------------------------------------
(* physmap.c: what Mm_PhysMapFromFdt makes its map from.                   *)

RECURSIVE RegsFrom(_, _, _)
RegsFrom(b, node, index) ==
    LET r == Fdt_PropReg(b, node, index) IN
    IF r.rc = "EOK" THEN <<r.run>> \o RegsFrom(b, node, index + 1) ELSE <<>>

RegsOf(b, nodes) == FlattenSeq([i \in DOMAIN nodes |-> RegsFrom(b, nodes[i], 0)])

FdtBanks(b) ==
    RegsOf(b, SelectSeq(ChildrenFrom(b, Fdt_Root(b), 0),
                        LAMBDA n : Fdt_PropStr(b, n, "device_type") = <<"memory">>))

RECURSIVE ReservationsFrom(_, _)
ReservationsFrom(b, cursor) ==
    LET r == Fdt_RsvIter(b, cursor) IN
    IF r.rc = "EOK" THEN <<r.run>> \o ReservationsFrom(b, r.cursor) ELSE <<>>

(* kernel and dtb are where the kernel and the blob itself lie.            *)
FdtReserved(b, kernel, dtb) ==
    LET node == Fdt_ResolvePath(b, Top("reserved-memory")) IN
    ReservationsFrom(b, 0)
    \o (IF node.rc = "EOK" THEN RegsOf(b, ChildrenFrom(b, node.node, 0)) ELSE <<>>)
    \o SelectSeq(<<kernel, dtb>>, LAMBDA r : r.size > 0)

-----------------------------------------------------------------------------
(* What a blob is made from: a tree of nodes [name, props, kids], props a  *)
(* sequence of <<name, value>>.  A node is known by the sequence of kid    *)
(* numbers that leads to it.  A compiler may leave NOPs anywhere.          *)

RECURSIVE Flat(_, _, _)
Flat(tree, id, nops) ==
    <<[t |-> "begin", name |-> tree.name, id |-> id]>> \o nops
    \o FlattenSeq([i \in DOMAIN tree.props |->
          <<[t |-> "prop", name |-> tree.props[i][1], val |-> tree.props[i][2]]>> \o nops])
    \o FlattenSeq([i \in DOMAIN tree.kids |-> Flat(tree.kids[i], Append(id, i), nops)])
    \o <<[t |-> "end"]>> \o nops

Dtb(tree, rsv, nops) == [struct |-> nops \o Flat(tree, <<>>, nops) \o <<[t |-> "stop"]>>, rsv |-> rsv]

NodeOffsets(b) == {i \in 0 .. Len(b.struct) - 1 : b.struct[i + 1].t = "begin"}
IdAt(b, off) == b.struct[off + 1].id

RECURSIVE NodeOf(_, _)
NodeOf(tree, id) == IF id = <<>> THEN tree ELSE NodeOf(tree.kids[id[1]], Tail(id))

PropOf(tree, id, name) ==
    LET hits == SelectSeq(NodeOf(tree, id).props, LAMBDA p : p[1] = name) IN
    IF hits = <<>> THEN [rc |-> "ENOTFOUND"] ELSE [rc |-> "EOK", val |-> hits[1][2]]

CellOf(tree, id, name, default) ==
    LET p == PropOf(tree, id, name) IN IF p.rc = "EOK" THEN p.val.v[1] ELSE default

ParentCells(tree, id) ==
    LET parent == SubSeq(id, 1, Len(id) - 1) IN
    [addr |-> CellOf(tree, parent, "#address-cells", 2), size |-> CellOf(tree, parent, "#size-cells", 1)]
RegOf(tree, id) == Entry(PropOf(tree, id, "reg").val.v, 0, ParentCells(tree, id))

(* The offsets of the nodes for which P holds, in the order of the tree.   *)
Select(b, P(_)) == SetToSortSeq({n \in NodeOffsets(b) : P(IdAt(b, n))}, <)

(* Calls on a node answer what the tree says of that node: its children in *)
(* order, its own property and not a child's of the same name, its reg in  *)
(* the cells its parent counts in (unless a node before it lies too deep   *)
(* for the walk that finds the parent), and of a compatible string every   *)
(* node that has it and does not lie inside another that has it            *)
(* (fdt_path.c:44-192, fdt_props.c:25-300).                                *)
ReadsNode(tree, b, n) ==
    LET id == IdAt(b, n)
        reg == PropOf(tree, id, "reg")
        c == ParentCells(tree, id)
        shallow == \A m \in NodeOffsets(b) : m < n => Len(IdAt(b, m)) < MAX_DEPTH IN
    /\ ChildrenFrom(b, n, 0) = Select(b, LAMBDA k : Len(k) = Len(id) + 1 /\ IsPrefix(id, k))
    /\ \A p \in {"#address-cells", "reg", "compatible"} : Fdt_PropRaw(b, n, p) = PropOf(tree, id, p)
    /\ reg.rc = "EOK" => Fdt_PropU64(b, n, "reg") = IF Len(reg.val.v) = 2 THEN [rc |-> "EOK", n |-> Number(reg.val.v)]
                                                   ELSE [rc |-> "EINVAL"]
    /\ (id # <<>> /\ shallow /\ reg.rc = "EOK" /\ Len(reg.val.v) = c.addr + c.size) =>
          Fdt_PropReg(b, n, 0) = [rc |-> "EOK", run |-> RegOf(tree, id)]

RECURSIVE FoundFrom(_, _, _)
FoundFrom(b, compat, last) ==
    LET r == Fdt_FindByCompatible(b, compat, last) IN
    IF r.rc = "EOK" THEN <<r.node>> \o FoundFrom(b, compat, r.node) ELSE <<>>

ReadsTree(tree, b, compat) ==
    LET Has(id) == LET p == PropOf(tree, id, "compatible") IN p.rc = "EOK" /\ Contains(p.val.v, compat)
        outermost == Select(b, LAMBDA id : Has(id) /\ \A k \in 0 .. Len(id) - 1 : ~Has(SubSeq(id, 1, k))) IN
    /\ \A n \in NodeOffsets(b) : ReadsNode(tree, b, n)
    /\ FoundFrom(b, compat, 0) = outermost

(* A blob whose structure block ends early gives errors, and never an      *)
(* answer that the whole tree would not have given.                        *)
NeverMisread(whole, b, compat) ==
    /\ IsPrefix(FoundFrom(b, compat, 0), FoundFrom(whole, compat, 0))
    /\ \A n \in NodeOffsets(b) :
       /\ IsPrefix(ChildrenFrom(b, n, 0), ChildrenFrom(whole, n, 0))
       /\ Fdt_PropRaw(b, n, "reg").rc = "EOK" => Fdt_PropRaw(b, n, "reg") = Fdt_PropRaw(whole, n, "reg")
       /\ Fdt_PropReg(b, n, 0).rc = "EOK" => Fdt_PropReg(b, n, 0) = Fdt_PropReg(whole, n, 0)

(* The node a path leads to: the first child of the name at every step,    *)
(* and of the unit address if the path gives one.                          *)
RECURSIVE Follow(_, _, _)
Follow(tree, id, segs) ==
    LET kids == NodeOf(tree, id).kids
        hits == {k \in DOMAIN kids : segs[1][1] = kids[k].name[1] /\ segs[1][2] \in {"", kids[k].name[2]}} IN
    IF segs = <<>> THEN {id}
    ELSE IF hits = {} THEN {} ELSE Follow(tree, Append(id, Min(hits)), Tail(segs))

(* The console is the UART that the tree's stdout-path or alias names,     *)
(* whatever options follow it in /chosen; only when they name none is it   *)
(* the first ns16550a, or the first ns16550.  The framebuffer is the one   *)
(* the tree describes, in a format that is known                           *)
(* (platform_init.c:22-164, fdt_simple.c:44-89).                           *)
ConsoleTrue(tree, got, uarts) ==
    /\ got.rc = "EOK" <=> \E id \in uarts : PropOf(tree, id, "reg").rc = "EOK"
    /\ got.rc = "EOK" => \A id \in uarts :
          /\ got.console.base = RegOf(tree, id).base
          /\ got.console.irq = CellOf(tree, id, "interrupts", 0)
          /\ got.console.baud = CellOf(tree, id, "current-speed", 115200)
FramebufferTrue(tree, fb, fbs) ==
    fb.rc = "EOK" => \E id \in fbs :
          /\ fb.run = RegOf(tree, id)
          /\ \A d \in DOMAIN fb.dim : fb.dim[d] = CellOf(tree, id, d, 0)
ReadsBoard(tree, b) ==
    LET Text(at, prop) == {PropOf(tree, id, prop).val.v[1] : id \in {i \in at : PropOf(tree, i, prop).rc = "EOK"}}
        Names(p) == IF p.options THEN {} ELSE Follow(tree, <<>>, p.segs)
        aliases == Follow(tree, <<>>, Top("aliases").segs)
        stdout == {p \in Text(Follow(tree, <<>>, Top("chosen").segs), "stdout-path") : ~p.long /\ p.segs # <<>>}
        named == UNION {IF p.root THEN Names([p EXCEPT !.options = FALSE])
                        ELSE UNION {Names(q) : q \in Text(aliases, p.segs[1][1])} : p \in stdout}
        With(c) == Select(b, LAMBDA id : LET p == PropOf(tree, id, "compatible") IN p.rc = "EOK" /\ Contains(p.val.v, c))
        fallback == With("ns16550a") \o With("ns16550")
        uarts == IF named = {} /\ fallback # <<>> THEN {IdAt(b, fallback[1])} ELSE named
        fbs == {IdAt(b, n) : n \in Range(With("simple-framebuffer"))} IN
    /\ ConsoleTrue(tree, Platform_FromFdt(b), uarts)
    /\ FramebufferTrue(tree, Dath_Framebuffer_FromFdt(b), fbs)
=============================================================================
