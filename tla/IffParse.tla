------------------------------ MODULE IffParse ------------------------------
(***************************************************************************)
(* iffparse.library (src/croi/iffparse/iffparse_lib.c): a program writes   *)
(* an IFF file chunk by chunk and reads one back by steps and scans.       *)
(*                                                                         *)
(* iff is the handle (struct CaraIff) and the dos file it is bound to: the *)
(* bytes, the position, the context stack (nodes), what the program        *)
(* registered and what was gathered for it.  A four-byte field is its      *)
(* value and three more bytes.  The fields from whole on are not the       *)
(* handle's: what the program wrote, kept apart from the file (doc, the    *)
(* open chunks; chunks, the finished ones of the form), and how far it has *)
(* read (seen chunks, of which skip were not gathered; got, the bytes of   *)
(* the current one; from, where the last call started; hit, that a read of *)
(* the last call failed).                                                  *)
(*                                                                         *)
(* A write to the file fails or is whole, a read that takes in the byte    *)
(* bad of the file fails and moves nothing, and an allocation may fail.    *)
(* Programs open a handle once before they close it, write one form to a   *)
(* new file, with bytes in leaf chunks and chunks in groups, give up when  *)
(* a write fails or a file is mangled, and register what they want before  *)
(* they parse.                                                             *)
(***************************************************************************)
EXTENDS Integers, Sequences, SequencesExt, FiniteSets

CONSTANTS
    ID_FORM, FormType, LeafIds,  \* chunk identifiers and types are numbers
    MAXDEPTH, MAXSTOPS,          \* CARA_IFF_MAXDEPTH, CARA_IFF_MAXSTOPS
    MaxFile, MaxBody             \* bounds on the file and on what is written into a chunk

VARIABLE iff

be32(v) == <<v, 0, 0, 0>>
Depth(x) == Len(x.nodes)
Rc(x, rc) == [x EXCEPT !.rc = rc]
Pad(size) == size % 2
Group(id) == id = ID_FORM

-----------------------------------------------------------------------------
(* The handle. *)

Croi_Iff_AllocIFF_Impl(x, oom) ==
    IF oom THEN x ELSE [x EXCEPT !.made = TRUE, !.as_dos = FALSE, !.live = @ + 1]

Croi_Iff_FreeIFF_Impl(x) == [x EXCEPT !.made = FALSE, !.live = @ - 1]

Croi_Iff_InitIFFasDOS_Impl(x) == [x EXCEPT !.as_dos = TRUE]

Croi_Iff_OpenIFF_Impl(x, stream) ==
    IF ~x.as_dos \/ ~stream THEN Rc(x, "NOHOOK")
    ELSE [x EXCEPT !.stream = TRUE, !.nodes = <<>>, !.write_off = 0, !.stops = <<>>,
                   !.props = <<>>, !.colls = <<>>, !.rc = "ok"]

(* Frees what was gathered. *)
Croi_Iff_CloseIFF_Impl(x) ==
    LET copies == FoldLeft(LAMBDA n, p : n + Len(p.items), 0, x.props \o x.colls) IN
    [x EXCEPT !.live = @ - copies, !.props = <<>>, !.colls = <<>>, !.nodes = <<>>, !.stream = FALSE]

-----------------------------------------------------------------------------
(* Reading. *)

Upto(x, n) == SubSeq(x.file, x.pos + 1, IF x.pos + n < Len(x.file) THEN x.pos + n ELSE Len(x.file))

ReadFails(x, b) == x.bad \in (x.pos + 1)..(x.pos + Len(b))

(* A read that fails and one that comes short are the same to the caller.  *)
iff_read_be32(x) ==
    LET b == Upto(x, 4) IN
    IF ReadFails(x, b) THEN [x |-> [x EXCEPT !.hit = TRUE], ok |-> FALSE, v |-> 0]
    ELSE [x |-> [x EXCEPT !.pos = @ + Len(b)], ok |-> Len(b) = 4, v |-> IF b = <<>> THEN 0 ELSE b[1]]

(* The header and the type of the form. *)
EnterTop(x) ==
    LET fid == iff_read_be32(x)
        fsize == iff_read_be32(fid.x)
        ftype == iff_read_be32(fsize.x) IN
    IF ~fid.ok THEN Rc(fid.x, "EOF")
    ELSE IF ~Group(fid.v) THEN Rc(fid.x, "NOTIFF")
    ELSE IF ~fsize.ok THEN Rc(fsize.x, "MANGLED")
    ELSE IF ~ftype.ok THEN Rc(ftype.x, "MANGLED")
    ELSE [ftype.x EXCEPT !.nodes = <<[id |-> fid.v, type |-> ftype.v, size |-> fsize.v,
                                      scan |-> 4, push_pos |-> 0]>>]

(* Over the rest of the current chunk and its pad byte.                    *)
LeaveChunk(x) ==
    LET cur == x.nodes[Depth(x)]
        rest == cur.size - cur.scan + Pad(cur.size) IN
    [x EXCEPT !.pos = IF rest > 0 THEN @ + rest ELSE @,
              !.nodes = <<[x.nodes[1] EXCEPT !.scan = @ + 8 + cur.size + Pad(cur.size)]>>]

EnterChunk(x) ==
    LET top == x.nodes[1]
        cid == iff_read_be32(x)
        csize == iff_read_be32(cid.x) IN
    IF top.scan >= top.size THEN Rc(x, "EOF")
    ELSE IF ~cid.ok THEN Rc(cid.x, "EOF")
    ELSE IF ~csize.ok THEN Rc(csize.x, "MANGLED")
    ELSE IF Depth(x) >= MAXDEPTH THEN Rc(csize.x, "NOSCOPE")
    ELSE [csize.x EXCEPT !.nodes = <<top, [id |-> cid.v, type |-> top.type, size |-> csize.v,
                                           scan |-> 0, push_pos |-> 0]>>,
                         !.seen = @ + 1, !.got = <<>>]

iff_step(x) ==
    LET y == CASE Depth(x) = 0  -> EnterTop(Rc(x, "ok"))
               [] Depth(x) >= 2 -> LeaveChunk(Rc(x, "ok"))
               [] OTHER         -> Rc(x, "ok") IN
    IF y.rc # "ok" THEN y ELSE EnterChunk(y)

(* As much of the current chunk as there is.                               *)
Croi_Iff_ReadChunkBytes_Impl(x, n) ==
    LET d == Depth(x)
        avail == x.nodes[d].size - x.nodes[d].scan
        size == IF n > avail THEN avail ELSE n
        b == Upto(x, size) IN
    IF d < 2 THEN Rc(x, "NOSCOPE")
    ELSE IF size <= 0 THEN x
    ELSE IF ReadFails(x, b) THEN [x EXCEPT !.hit = TRUE]
    ELSE [x EXCEPT !.pos = @ + Len(b), !.nodes[d].scan = @ + Len(b), !.got = @ \o b]

Croi_Iff_ReadChunkRecords_Impl(x, recSize, numRec) ==
    IF recSize <= 0 THEN x ELSE Croi_Iff_ReadChunkBytes_Impl(x, recSize * numRec)

Entry(list, cur) == SelectInSeq(list, LAMBDA e : e.type = cur.type /\ e.id = cur.id)

(* The whole body into a block of its own, or FALSE and what was read of   *)
(* it; a property takes the place of the one before, a collection grows at *)
(* its head.  oom counts the allocations down to the one that fails.       *)
iff_gather(x, oom) ==
    LET cur == x.nodes[Depth(x)]
        p == Entry(x.props, cur)
        c == Entry(x.colls, cur)
        y == Croi_Iff_ReadChunkBytes_Impl(x, cur.size)
        kept == [y EXCEPT !.live = @ + 1] IN
    IF p = 0 /\ c = 0 THEN [x |-> x, done |-> FALSE, oom |-> oom]
    ELSE IF oom = 1 THEN [x |-> x, done |-> FALSE, oom |-> 0]
    ELSE IF Len(y.got) # cur.size THEN [x |-> y, done |-> FALSE, oom |-> oom - 1]
    ELSE [x |-> IF p # 0
                THEN [kept EXCEPT !.live = @ - Len(x.props[p].items), !.props[p].items = <<y.got>>]
                ELSE [kept EXCEPT !.colls[c].items = <<y.got>> \o @],
          done |-> TRUE, oom |-> oom - 1]

iff_is_stop(x, cur) == Entry(x.stops, cur) # 0

Skipped(x) == [x EXCEPT !.skip = @ \cup {x.seen}]

RECURSIVE ParseLoop(_, _, _)
ParseLoop(x, control, oom) ==
    LET y == iff_step(x)
        g == IF control = "RAWSTEP" THEN [x |-> y, done |-> FALSE, oom |-> oom] ELSE iff_gather(y, oom)
        z == IF g.done THEN g.x ELSE Skipped(g.x) IN
    IF y.rc # "ok" THEN y
    ELSE IF control # "SCAN" \/ (~g.done /\ iff_is_stop(y, y.nodes[2])) THEN z
    ELSE ParseLoop(z, control, g.oom)

Croi_Iff_ParseIFF_Impl(x, control, oom) ==
    IF ~x.stream THEN Rc(x, "NOHOOK")
    ELSE ParseLoop([x EXCEPT !.from = x.seen, !.control = control], control, oom)

-----------------------------------------------------------------------------
(* Registering. *)

Registered(list, id) == Append(list, [type |-> FormType, id |-> id, items |-> <<>>])

Croi_Iff_StopChunk_Impl(x, id) ==
    IF Len(x.stops) >= MAXSTOPS THEN Rc(x, "NOMEM") ELSE [x EXCEPT !.stops = Registered(@, id), !.rc = "ok"]

Croi_Iff_PropChunk_Impl(x, id) ==
    IF Entry(x.props, [type |-> FormType, id |-> id]) # 0 THEN Rc(x, "ok")
    ELSE IF Len(x.props) >= MAXSTOPS THEN Rc(x, "NOMEM")
    ELSE [x EXCEPT !.props = Registered(@, id), !.rc = "ok"]

Croi_Iff_CollectionChunk_Impl(x, id) ==
    IF Entry(x.colls, [type |-> FormType, id |-> id]) # 0 THEN Rc(x, "ok")
    ELSE IF Len(x.colls) >= MAXSTOPS THEN Rc(x, "NOMEM")
    ELSE [x EXCEPT !.colls = Registered(@, id), !.rc = "ok"]

(* PropChunks and CollectionChunks: up to the first that fails.            *)
Croi_Iff_PropChunks_Impl(x, ids) ==
    FoldLeft(LAMBDA y, id : IF y.rc = "ok" THEN Croi_Iff_PropChunk_Impl(y, id) ELSE y, Rc(x, "ok"), ids)

Croi_Iff_CollectionChunks_Impl(x, ids) ==
    FoldLeft(LAMBDA y, id : IF y.rc = "ok" THEN Croi_Iff_CollectionChunk_Impl(y, id) ELSE y, Rc(x, "ok"), ids)

Croi_Iff_FindProp_Impl(x, id) ==
    LET p == Entry(x.props, [type |-> FormType, id |-> id]) IN IF p = 0 THEN <<>> ELSE x.props[p].items

Croi_Iff_FindCollection_Impl(x, id) ==
    LET c == Entry(x.colls, [type |-> FormType, id |-> id]) IN IF c = 0 THEN <<>> ELSE x.colls[c].items

-----------------------------------------------------------------------------
(* Writing.  fail counts the writes of a call down to the one that fails.  *)

Over(file, pos, b) ==
    SubSeq(file, 1, pos) \o b \o SubSeq(file, pos + Len(b) + 1, Len(file))

Failed(x) == [x EXCEPT !.rc = "WRITE", !.whole = FALSE]

iff_write(x, b) ==
    [x EXCEPT !.file = Over(@, x.pos, b), !.pos = @ + Len(b), !.write_off = @ + Len(b)]

Croi_Iff_PushChunk_Impl(x, id, declared, fail) ==
    LET head == iff_write(x, be32(id))
        sized == iff_write(head, be32(declared))
        d == Depth(x)
        type == IF Group(id) \/ d = 0 THEN FormType ELSE x.nodes[d].type
        node == [id |-> id, type |-> type, size |-> declared,
                 scan |-> IF Group(id) THEN 4 ELSE 0, push_pos |-> head.write_off]
        full == IF Group(id) THEN iff_write(sized, be32(type)) ELSE sized IN
    IF ~x.stream THEN Rc(x, "NOHOOK")
    ELSE IF d >= MAXDEPTH THEN Rc(x, "NOSCOPE")
    ELSE CASE fail = 1              -> Failed(x)
           [] fail = 2              -> Failed(head)
           [] fail = 3 /\ Group(id) -> Failed(sized)
           [] OTHER ->
                [full EXCEPT !.nodes = Append(@, node), !.rc = "ok",
                             !.doc = Append(@, [id |-> id, body |-> IF Group(id) THEN be32(type) ELSE <<>>])]

Croi_Iff_WriteChunkBytes_Impl(x, b, fail) ==
    LET d == Depth(x) IN
    IF d < 1 THEN Rc(x, "NOSCOPE")
    ELSE IF b = <<>> THEN x
    ELSE IF fail = 1 THEN Failed(x)
    ELSE [iff_write(x, b) EXCEPT !.nodes[d].scan = @ + Len(b), !.rc = "ok", !.doc[d].body = @ \o b]

(* A chunk as it is to be in the file. *)
Encoded(c) ==
    be32(c.id) \o be32(Len(c.body)) \o c.body \o IF Pad(Len(c.body)) = 1 THEN <<0>> ELSE <<>>

(* What the program means by closing a chunk: it joins the one around it.  *)
Finished(x) ==
    LET d == Len(x.doc)
        c == x.doc[d]
        rest == SubSeq(x.doc, 1, d - 1) IN
    [x EXCEPT !.doc = IF d = 1 THEN <<>> ELSE [rest EXCEPT ![d - 1].body = @ \o Encoded(c)],
              !.want = IF d = 1 THEN Encoded(c) ELSE @,
              !.chunks = IF d = 2 THEN Append(@, c) ELSE @]

(* The pad byte, the size over what was written for it, back to the end.   *)
Croi_Iff_PopChunk_Impl(x, fail) ==
    LET d == Depth(x)
        sz == x.nodes[d].scan
        padded == IF Pad(sz) = 1 THEN iff_write(x, <<0>>) ELSE x
        patched == [padded EXCEPT !.file = Over(@, x.nodes[d].push_pos, be32(sz)),
                                  !.pos = padded.write_off]
        rest == SubSeq(x.nodes, 1, d - 1) IN
    IF d < 1 THEN Rc(x, "NOSCOPE")
    ELSE CASE fail = 1 /\ Pad(sz) = 1 -> Failed(x)
           [] fail = 1 /\ Pad(sz) = 0 -> Failed([padded EXCEPT !.pos = x.nodes[d].push_pos])
           [] fail = 2 /\ Pad(sz) = 1 -> Failed([padded EXCEPT !.pos = x.nodes[d].push_pos])
           [] OTHER ->
                [Finished(patched) EXCEPT !.rc = "ok",
                   !.nodes = IF d >= 2 THEN [rest EXCEPT ![d - 1].scan = @ + 8 + sz + Pad(sz)] ELSE rest]

-----------------------------------------------------------------------------
(* A program. *)

IffInit ==
    iff = [made |-> FALSE, as_dos |-> FALSE, stream |-> FALSE, mode |-> "none", rc |-> "ok",
           file |-> <<>>, pos |-> 0, write_off |-> 0, nodes |-> <<>>, stops |-> <<>>,
           props |-> <<>>, colls |-> <<>>, live |-> 0,
           whole |-> TRUE, doc |-> <<>>, chunks |-> <<>>, want |-> <<>>,
           seen |-> 0, skip |-> {}, got |-> <<>>, from |-> 0, control |-> "none",
           bad |-> 0, hit |-> FALSE]

IffHandle ==
    \/ \E oom \in BOOLEAN : ~iff.made /\ iff' = Croi_Iff_AllocIFF_Impl(iff, oom)
    \/ iff.made /\ ~iff.stream /\ iff' = Croi_Iff_FreeIFF_Impl(iff)
    \/ iff.made /\ ~iff.as_dos /\ iff' = Croi_Iff_InitIFFasDOS_Impl(iff)
    \/ /\ iff.stream
       /\ iff' = [Croi_Iff_CloseIFF_Impl(iff) EXCEPT
                    !.mode = "none", !.pos = 0, !.rc = "ok", !.from = 0, !.seen = 0, !.skip = {},
                    !.got = <<>>, !.control = "none", !.hit = FALSE]
    \/ \E stream \in BOOLEAN, mode \in {"read", "write"} :
          /\ iff.made /\ ~iff.stream /\ (mode = "write" => iff.file = <<>>)
          /\ iff' = [Croi_Iff_OpenIFF_Impl(iff, stream) EXCEPT
                       !.mode = mode]

IffWrites ==
    /\ iff.stream /\ iff.mode = "write" /\ iff.whole
    /\ \/ \E id \in LeafIds \cup {ID_FORM}, declared \in 0..1, fail \in 0..3 :
             /\ IF iff.nodes = <<>> THEN iff.file = <<>> ELSE Group(iff.nodes[Depth(iff)].id)
             /\ Len(iff.file) + 8 <= MaxFile
             /\ iff' = Croi_Iff_PushChunk_Impl(iff, id, declared, fail)
       \/ \E b \in {<<>>, <<Len(iff.file)>>}, fail \in 0..1 :
             /\ Len(iff.file) < MaxFile
             /\ iff.nodes # <<>> => LET c == iff.nodes[Depth(iff)] IN ~Group(c.id) /\ c.scan < MaxBody
             /\ iff' = Croi_Iff_WriteChunkBytes_Impl(iff, b, fail)
       \/ \E fail \in 0..2 : Len(iff.file) < MaxFile /\ iff' = Croi_Iff_PopChunk_Impl(iff, fail)

(* A call on a file whose byte bad cannot be read (0: all can): a file     *)
(* that was written whole, where every field and body starts at an odd     *)
(* byte.                                                                   *)
Reading(bad) == [iff EXCEPT !.bad = bad, !.hit = FALSE]
Unreadable == {p \in (iff.pos + 1)..Len(iff.file) : iff.whole /\ p % 2 = 1}

IffReads ==
    /\ iff.stream /\ iff.mode = "read" /\ iff.rc # "MANGLED"
    /\ \/ /\ iff.control = "none"
          /\ \E id \in LeafIds :
                \/ iff' = Croi_Iff_StopChunk_Impl(iff, id)
                \/ iff' = Croi_Iff_PropChunks_Impl(iff, <<id, ID_FORM>>)
                \/ iff' = Croi_Iff_CollectionChunks_Impl(iff, <<id>>)
       \/ \E control \in {"SCAN", "STEP", "RAWSTEP"}, oom \in 0..2, bad \in {0} \cup Unreadable :
             /\ oom = 0 \/ (bad = 0 /\ iff.props \o iff.colls # <<>>)
             /\ iff' = [Croi_Iff_ParseIFF_Impl(Reading(bad), control, oom) EXCEPT !.bad = 0]
       \/ /\ Depth(iff) >= 2
          /\ \E n \in 0..2, bad \in {0, iff.pos + 1} :
                \/ iff' = [Croi_Iff_ReadChunkBytes_Impl(Reading(bad), n) EXCEPT !.bad = 0]
                \/ iff' = [Croi_Iff_ReadChunkRecords_Impl(Reading(bad), n, 1) EXCEPT !.bad = 0]

IffNext == IffHandle \/ IffWrites \/ IffReads

-----------------------------------------------------------------------------
(* What must hold. *)

(* A program reads what it wrote.  Unless a write failed, the file of a    *)
(* finished form is the encoding of its chunks; a chunk that is entered is *)
(* the next of them, and the bytes read from it are its bytes in order;    *)
(* the end comes after the last, or where a read failed, which the calls   *)
(* do not tell apart.  A scan runs past no chunk the program asked to stop *)
(* at and had not gathered; a property found is the last read, a           *)
(* collection all of them, the newest first (iffparse_lib.c:109-278,       *)
(* 312-335, 392-510, 592-619).                                             *)
IffReadsBack ==
    LET form == iff.want # <<>> /\ iff.want[1] = ID_FORM
        Copies(id) ==
            SelectSeq([i \in 1..iff.seen |-> i], LAMBDA i : i \notin iff.skip /\ iff.chunks[i].id = id)
        Bodies(s) == [k \in DOMAIN s |-> iff.chunks[s[k]].body]
        Wanted(i) == iff_is_stop(iff, [type |-> FormType, id |-> iff.chunks[i].id]) IN
    (iff.whole /\ iff.doc = <<>> /\ form) =>
        /\ iff.file = iff.want
        /\ iff.mode = "read" =>
              /\ iff.seen <= Len(iff.chunks)
              /\ (iff.rc = "EOF" /\ iff.control # "none") =>
                    iff.seen = Len(iff.chunks) \/ iff.hit
              /\ Depth(iff) = 2 =>
                    LET c == iff.chunks[iff.seen] IN
                    /\ iff.nodes[2].id = c.id /\ iff.nodes[2].size = Len(c.body)
                    /\ iff.got = SubSeq(c.body, 1, iff.nodes[2].scan)
              /\ iff.control = "SCAN" =>
                    /\ iff.rc = "ok" => Wanted(iff.seen) /\ iff.seen \in iff.skip
                    /\ \A i \in (iff.from + 1)..(IF iff.rc = "ok" THEN iff.seen - 1 ELSE iff.seen) :
                          Wanted(i) => i \notin iff.skip
              /\ iff.control # "none" =>
                    \A id \in LeafIds :
                       /\ Len(iff.props) > 0 /\ iff.props[1].id = id =>
                             Croi_Iff_FindProp_Impl(iff, id)
                               = LET all == Bodies(Copies(id)) IN
                                 IF all = <<>> THEN <<>> ELSE <<all[Len(all)]>>
                       /\ Len(iff.colls) > 0 /\ iff.colls[1].id = id /\ Croi_Iff_FindProp_Impl(iff, id) = <<>> =>
                             Croi_Iff_FindCollection_Impl(iff, id) = Reverse(Bodies(Copies(id)))

(* Whichever allocation or write fails, the blocks in use are the handle   *)
(* and the copies that can still be found (iffparse_lib.c:79-106,          *)
(* 208-244).                                                               *)
IffBlocksAccounted ==
    iff.live = (IF iff.made THEN 1 ELSE 0)
               + FoldLeft(LAMBDA n, p : n + Len(p.items), 0, iff.props \o iff.colls)
=============================================================================
