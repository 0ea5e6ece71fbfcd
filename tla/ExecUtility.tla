---------------------------- MODULE ExecUtility -----------------------------
(***************************************************************************)
(* What every program uses of exec and utility: lists                      *)
(* (exec_lib/list_ops.c), the libraries there are and their open counts    *)
(* (library_registry.c, make_library.c, open_library.c), and tag lists     *)
(* (utility_lib/tag_ops.c, tag_alloc.c).                                   *)
(*                                                                         *)
(*   lists   ln_Succ, ln_Pred and ln_Pri of the nodes, a list's lh_Head,   *)
(*           lh_Tail and lh_TailPred being its two sentinel nodes; order   *)
(*           is what the callers think is on each list                     *)
(*   libs    g_lib_list; held counts the opens not yet closed              *)
(*   tags    tag items in memory, a clone of them, blocks in use, and the  *)
(*           last call with what was there before it                       *)
(***************************************************************************)
EXTENDS Integers, Sequences, SequencesExt, FiniteSets

CONSTANTS
    Lists, Nodes, NoNode,
    NodePris,           \* priorities of nodes
    NodeName,           \* ln_Name of each node
    LibNames, NoName,   \* names of libraries and of nodes; no name
    MaxLibs, OpenMod,   \* bound on libraries; lib_OpenCnt is 16 bits wide
    TagLists,           \* tag lists: sequences of items, the list starts at 1
    TagMaps             \* functions from tags to tags

VARIABLES lists, libs, tags

execVars == <<lists, libs, tags>>

-----------------------------------------------------------------------------
(* Lists. *)

HEAD_NODE(l) == <<l, "head">>
TAIL_NODE(l) == <<l, "tail">>

Link(x, p, n, s) ==
    [x EXCEPT !.succ[n] = s, !.pred[n] = p, !.pred[s] = n, !.succ[p] = n]

Croi_Exec_AddHead(x, l, n) == Link(x, HEAD_NODE(l), n, x.succ[HEAD_NODE(l)])

Croi_Exec_AddTail(x, l, n) == Link(x, x.pred[TAIL_NODE(l)], n, TAIL_NODE(l))

Croi_Exec_Remove(x, n) ==
    [x EXCEPT !.succ[x.pred[n]] = x.succ[n], !.pred[x.succ[n]] = x.pred[n]]

RemHeadNode(x, l) ==
    LET n == x.succ[HEAD_NODE(l)] IN IF x.succ[n] = NoNode THEN NoNode ELSE n

Croi_Exec_RemHead(x, l) ==
    LET s == x.succ[RemHeadNode(x, l)] IN
    IF RemHeadNode(x, l) = NoNode THEN x
    ELSE [x EXCEPT !.succ[HEAD_NODE(l)] = s, !.pred[s] = HEAD_NODE(l)]

RemTailNode(x, l) ==
    LET n == x.pred[TAIL_NODE(l)] IN IF x.pred[n] = NoNode THEN NoNode ELSE n

Croi_Exec_RemTail(x, l) ==
    LET p == x.pred[RemTailNode(x, l)] IN
    IF RemTailNode(x, l) = NoNode THEN x
    ELSE [x EXCEPT !.pred[TAIL_NODE(l)] = p, !.succ[p] = TAIL_NODE(l)]

Croi_Exec_Insert(x, l, n, p) ==
    IF p # NoNode /\ x.succ[p] # NoNode THEN Link(x, p, n, x.succ[p])
    ELSE Croi_Exec_AddHead(x, l, n)

RECURSIVE EnqueueAfter(_, _, _)
EnqueueAfter(x, cur, pri) ==
    LET next == x.succ[cur] IN
    IF x.succ[next] = NoNode \/ x.pri[next] < pri THEN cur ELSE EnqueueAfter(x, next, pri)

Croi_Exec_Enqueue(x, l, n) ==
    LET cur == EnqueueAfter(x, HEAD_NODE(l), x.pri[n]) IN Link(x, cur, n, x.succ[cur])

RECURSIVE Forward(_, _)
Forward(x, n) == IF x.succ[n] = NoNode THEN <<>> ELSE <<n>> \o Forward(x, x.succ[n])
RECURSIVE Backward(_, _)
Backward(x, n) == IF x.pred[n] = NoNode THEN <<>> ELSE <<n>> \o Backward(x, x.pred[n])

Croi_Exec_FindName(x, l, name) ==
    LET on == Forward(x, x.succ[HEAD_NODE(l)])
        i == SelectInSeq(on, LAMBDA n : NodeName[n] # NoName /\ NodeName[n] = name) IN
    IF i = 0 THEN NoNode ELSE on[i]

(* Callers add a node that is on no list and remove one that is on a list. *)
OnNoList(n) == \A l \in Lists : n \notin ToSet(lists.order[l])
Drop(n) == [l \in Lists |-> SelectSeq(lists.order[l], LAMBDA m : m # n)]
Goes(l, n, i) == [lists.order EXCEPT ![l] = InsertAt(@, i, n)]

Does(x, order) == lists' = [x EXCEPT !.order = order]

AddsNode(l, n) ==
    LET on == lists.order[l]
        lower == SelectInSeq(on, LAMBDA m : lists.pri[m] < lists.pri[n]) IN
    /\ OnNoList(n)
    /\ \/ Does(Croi_Exec_AddHead(lists, l, n), Goes(l, n, 1))
       \/ Does(Croi_Exec_AddTail(lists, l, n), Goes(l, n, Len(on) + 1))
       \/ Does(Croi_Exec_Enqueue(lists, l, n), Goes(l, n, IF lower = 0 THEN Len(on) + 1 ELSE lower))
       \/ \E p \in ToSet(on) \cup {NoNode, TAIL_NODE(l)} :
             Does(Croi_Exec_Insert(lists, l, n, p),
                  Goes(l, n, SelectInSeq(on, LAMBDA m : m = p) + 1))

RemovesNode(l) ==
    \/ \E n \in ToSet(lists.order[l]) : Does(Croi_Exec_Remove(lists, n), Drop(n))
    \/ Does(Croi_Exec_RemHead(lists, l), Drop(RemHeadNode(lists, l)))
    \/ Does(Croi_Exec_RemTail(lists, l), Drop(RemTailNode(lists, l)))

ListsInit ==
    LET all == Nodes \cup {HEAD_NODE(l) : l \in Lists} \cup {TAIL_NODE(l) : l \in Lists} IN
    \E pri \in [Nodes -> NodePris] :
       lists = [succ |-> [n \in all |-> IF n \in {HEAD_NODE(l) : l \in Lists}
                                        THEN TAIL_NODE(n[1]) ELSE NoNode],
                pred |-> [n \in all |-> IF n \in {TAIL_NODE(l) : l \in Lists}
                                        THEN HEAD_NODE(n[1]) ELSE NoNode],
                pri |-> pri, order |-> [l \in Lists |-> <<>>]]

ListsNext == \E l \in Lists : RemovesNode(l) \/ \E n \in Nodes : AddsNode(l, n)

-----------------------------------------------------------------------------
(* Libraries.  The registry is a list in the order of registration.        *)

Croi_FindLibraryByName(x, name) == SelectInSeq(x.on, LAMBDA lib : lib.name = name)

Croi_RegisterLibrary(x, lib) == [x EXCEPT !.on = Append(@, lib), !.held = Append(@, 0)]

(* Without a base to build at, the image comes from the heap.              *)
Croi_MakeLibrary(x, name, version, vecs, base, oom) ==
    IF name = NoName \/ vecs = 0 \/ (~base /\ oom) THEN x
    ELSE Croi_RegisterLibrary(x, [name |-> name, version |-> version, cnt |-> 0])

CanOpen(x, name, version) ==
    LET i == Croi_FindLibraryByName(x, name) IN
    i # 0 /\ (version = 0 \/ x.on[i].version >= version)

Croi_OpenLibrary_Impl(x, name, version) ==
    LET i == Croi_FindLibraryByName(x, name) IN
    IF CanOpen(x, name, version)
    THEN [x EXCEPT !.on[i].cnt = (@ + 1) % OpenMod, !.held[i] = @ + 1]
    ELSE x

Croi_CloseLibrary_Impl(x, i) ==
    IF x.on[i].cnt = 0 THEN x ELSE [x EXCEPT !.on[i].cnt = @ - 1]

LibsInit == libs = [on |-> <<>>, held |-> <<>>]

(* Programs close what they opened, fewer than OpenMod times at once.      *)
LibsNext ==
    \/ /\ Len(libs.on) < MaxLibs
       /\ \E name \in LibNames \cup {NoName}, version \in 1..2, vecs \in 0..1, base, oom \in BOOLEAN :
             libs' = Croi_MakeLibrary(libs, name, version, vecs, base, oom)
    \/ \E name \in LibNames, version \in 0..2 :
          /\ \A i \in DOMAIN libs.held : libs.held[i] < OpenMod - 1
          /\ libs' = Croi_OpenLibrary_Impl(libs, name, version)
    \/ \E i \in DOMAIN libs.on :
          /\ libs.held[i] > 0
          /\ libs' = [Croi_CloseLibrary_Impl(libs, i) EXCEPT !.held[i] = @ - 1]

-----------------------------------------------------------------------------
(* Tag lists.  mem is an array of items, an address an index into it; 0 is *)
(* the null pointer.                                                       *)

DONE == [tag |-> "done", data |-> 0]

(* u_next, Croi_Utility_NextTagItem: the next item that is no control tag. *)
RECURSIVE u_next(_, _)
u_next(mem, ti) ==
    IF ti = 0 THEN 0
    ELSE CASE mem[ti].tag = "done"   -> 0
           [] mem[ti].tag = "ignore" -> u_next(mem, ti + 1)
           [] mem[ti].tag = "more"   -> u_next(mem, mem[ti].data)
           [] mem[ti].tag = "skip"   -> u_next(mem, ti + mem[ti].data + 1)
           [] OTHER                  -> ti

RECURSIVE Items(_, _)
Items(mem, ti) ==
    LET t == u_next(mem, ti) IN IF t = 0 THEN <<>> ELSE <<t>> \o Items(mem, t + 1)

Croi_Utility_FindTagItem(mem, tag) ==
    LET all == Items(mem, 1)
        i == SelectInSeq(all, LAMBDA t : mem[t].tag = tag) IN
    IF i = 0 THEN 0 ELSE all[i]

Croi_Utility_GetTagData(mem, tag, default) ==
    LET t == Croi_Utility_FindTagItem(mem, tag) IN IF t = 0 THEN default ELSE mem[t].data

(* Flags are a set; bits maps the tags it knows to one each.               *)
Croi_Utility_PackBoolTags(flags, mem, bits) ==
    FoldLeft(LAMBDA f, t : IF mem[t].tag \notin DOMAIN bits THEN f
                           ELSE IF mem[t].data # 0 THEN f \cup {bits[mem[t].tag]}
                           ELSE f \ {bits[mem[t].tag]},
             flags, Items(mem, 1))

Croi_Utility_MapTags(mem, map, keep) ==
    LET Mapped(tag) == IF tag \in DOMAIN map THEN map[tag] ELSE IF keep THEN tag ELSE "ignore" IN
    [t \in DOMAIN mem |-> IF t \in ToSet(Items(mem, 1))
                          THEN [mem[t] EXCEPT !.tag = Mapped(@)] ELSE mem[t]]

(* The flat list that starts a block, and the block with another one there *)
(* (compaction in place writes a new end and leaves the rest).             *)
FlatLen(mem) == SelectInSeq(mem, LAMBDA it : it.tag = "done") - 1
Flat(mem) == SubSeq(mem, 1, FlatLen(mem))
Compacted(mem, kept) == kept \o <<DONE>> \o SubSeq(mem, Len(kept) + 2, Len(mem))

Croi_Utility_TagInArray(tag, array) == tag \in ToSet(array)

Croi_Utility_FilterTagItems(mem, array, and) ==
    Compacted(mem, SelectSeq(Flat(mem), LAMBDA it :
        it.tag # "ignore" /\ (Croi_Utility_TagInArray(it.tag, array) <=> and)))

(* One item of the change list against the original; kept if it changes.   *)
FilterOne(r, it, apply) ==
    LET o == SelectInSeq(Flat(r.orig), LAMBDA x : x.tag = it.tag) IN
    IF it.tag = "ignore" \/ (o # 0 /\ r.orig[o].data = it.data) THEN r
    ELSE [orig |-> IF apply /\ o # 0 THEN [r.orig EXCEPT ![o].data = it.data] ELSE r.orig,
          kept |-> Append(r.kept, it)]

Croi_Utility_FilterTagChanges(change, orig, apply) ==
    LET r == FoldLeft(LAMBDA x, it : FilterOne(x, it, apply), [orig |-> orig, kept |-> <<>>],
                      Flat(change)) IN
    [change |-> Compacted(change, r.kept), orig |-> r.orig]

(* Memory is cleared, which makes every item the end of a list.            *)
Croi_Utility_AllocateTagItems_Impl(n) == [i \in 1..n |-> DONE]

(* RefreshTagItemClones: the items and an end over what is there.          *)
Refreshed(clone, mem) ==
    Compacted(clone, [i \in DOMAIN Items(mem, 1) |-> mem[Items(mem, 1)[i]]])

Croi_Utility_CloneTagItems_Impl(mem) ==
    Refreshed(Croi_Utility_AllocateTagItems_Impl(Len(Items(mem, 1)) + 1), mem)

(* A program clones a list, changes the clone, refreshes and frees it.     *)
NoTags == <<>>
Did(op, arg) == [op |-> op, arg |-> arg, mem |-> tags.mem, clone |-> tags.clone]

TagsInit ==
    \E mem \in TagLists :
       tags = [mem |-> mem, clone |-> NoTags, live |-> 0,
               did |-> [op |-> "none", arg |-> 0, mem |-> mem, clone |-> NoTags]]

Clones(oom) ==
    /\ tags.clone = NoTags
    /\ tags' = IF oom THEN [tags EXCEPT !.did = Did("none", 0)]
               ELSE [tags EXCEPT !.clone = Croi_Utility_CloneTagItems_Impl(tags.mem),
                                 !.live = @ + 1, !.did = Did("clone", 0)]

UsesClone ==
    /\ tags.clone # NoTags
    /\ \/ \E map \in TagMaps, keep \in BOOLEAN :
             tags' = [tags EXCEPT !.clone = Croi_Utility_MapTags(@, map, keep),
                                  !.did = Did("map", [map |-> map, keep |-> keep])]
       \/ \E map \in TagMaps, and \in BOOLEAN :
             tags' = [tags EXCEPT !.clone = Croi_Utility_FilterTagItems(@, SetToSeq(DOMAIN map), and),
                                  !.did = Did("filter", [keep |-> DOMAIN map, and |-> and])]
       \/ \E change \in TagLists, apply \in BOOLEAN :
             LET r == Croi_Utility_FilterTagChanges(change, tags.clone, apply) IN
             /\ \A it \in ToSet(change) : it.tag \notin {"more", "skip"}
             /\ tags' = [tags EXCEPT !.clone = r.orig,
                                     !.did = Did("change", [list |-> change, kept |-> r.change, apply |-> apply])]
       \/ tags' = [tags EXCEPT !.clone = Refreshed(@, tags.mem), !.did = Did("clone", 0)]
       \/ tags' = [tags EXCEPT !.clone = NoTags, !.live = @ - 1, !.did = Did("none", 0)]

TagsNext == (\E oom \in BOOLEAN : Clones(oom)) \/ UsesClone

-----------------------------------------------------------------------------
(* What must hold. *)

(* A list read forwards and one read backwards are what the callers put on *)
(* it, in the order they asked for, and a name is found on its first node  *)
(* (list_ops.c:40-150).                                                    *)
ListsLinked ==
    \A l \in Lists :
       LET on == lists.order[l] IN
       /\ Forward(lists, lists.succ[HEAD_NODE(l)]) = on
       /\ Backward(lists, lists.pred[TAIL_NODE(l)]) = Reverse(on)
       /\ \A name \in LibNames :
             LET n == Croi_Exec_FindName(lists, l, name) IN
             IF n = NoNode THEN \A m \in ToSet(on) : NodeName[m] # name
             ELSE NodeName[n] = name

(* The open counts are the opens not closed (open_library.c:34-75).        *)
LibrariesCounted == \A i \in DOMAIN libs.on : libs.on[i].cnt = libs.held[i]

(* What a program reads through GetTagData and PackBoolTags from a list it *)
(* cloned, filtered, mapped or changed is what it would have read from the *)
(* list before, as the call says: a tag mapped from one other reads as     *)
(* that one, a change that is applied wins, and the changes that are kept  *)
(* are enough to make them all (tag_ops.c:27-285, tag_alloc.c:43-103).     *)
TagsReadBack ==
    LET did == tags.did
        was == did.clone
        Get(mem, tag) == Croi_Utility_GetTagData(mem, tag, -1)
        In(mem) == {mem[t].tag : t \in ToSet(Items(mem, 1))}
        LastOf(list, tag, else) ==
            LET i == SelectLastInSeq(list, LAMBDA it : it.tag = tag) IN
            IF i = 0 THEN else ELSE list[i].data
        Becomes(tag) == IF tag \in DOMAIN did.arg.map THEN did.arg.map[tag] ELSE tag
        From(tag) == {x \in In(was) : Becomes(x) = tag /\ (did.arg.keep \/ x \in DOMAIN did.arg.map)} IN
    CASE did.op = "clone" ->
            /\ In(tags.clone) = In(tags.mem)
            /\ \A tag \in In(tags.mem) : Get(tags.clone, tag) = Get(tags.mem, tag)
            /\ Croi_Utility_PackBoolTags({}, tags.mem, [x \in In(tags.mem) |-> x])
                 = {x \in In(tags.mem) : LastOf(Flat(tags.clone), x, 0) # 0}
      [] did.op = "filter" ->
            \A tag \in In(was) :
               Get(tags.clone, tag) = IF tag \in did.arg.keep <=> did.arg.and THEN Get(was, tag) ELSE -1
      [] did.op = "map" ->
            /\ In(tags.clone) = {tag \in {Becomes(x) : x \in In(was)} : From(tag) # {}} \ {"ignore"}
            /\ \A tag \in In(tags.clone), x \in In(was) : From(tag) = {x} => Get(tags.clone, tag) = Get(was, x)
      [] did.op = "change" ->
            \A tag \in In(was) :
               /\ Get(tags.clone, tag)
                    = IF did.arg.apply THEN LastOf(Flat(did.arg.list), tag, Get(was, tag)) ELSE Get(was, tag)
               /\ did.arg.apply => Get(tags.clone, tag) = LastOf(Flat(did.arg.kept), tag, Get(was, tag))
               /\ ~did.arg.apply =>
                    {it \in ToSet(Flat(did.arg.kept)) : it.tag = tag}
                      = {it \in ToSet(Flat(did.arg.list)) : it.tag = tag /\ it.data # Get(was, tag)}
      [] OTHER -> TRUE
=============================================================================
