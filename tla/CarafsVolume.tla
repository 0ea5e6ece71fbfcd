------------------------------ MODULE CarafsVolume ------------------------------
(***************************************************************************)
(* A mounted CaraFS volume: the calls of carafs.h that change it, each one  *)
(* whole transaction (carafs_op_begin ... carafs_op_commit / _abort), an    *)
(* iteration over a directory that other calls interrupt, the consistency   *)
(* checker, and what the volume shows its callers.                          *)
(***************************************************************************)
EXTENDS CarafsObjects

CONSTANTS
  Names,        \* names of entries and of attributes
  Types,        \* the types Carafs_DirCreate is called with
  Writes,       \* the writes made: records [off, src]
  AttrValues,   \* the attribute values set
  Targets,      \* the symbolic link targets
  MaxDeletes    \* bound on the calls that take a name or an object away

VARIABLES
  fs,       \* the volume
  whole,    \* FALSE once a failed call left a change behind in the cache
  view,     \* what the calls that read return, until such a call
  deletes,  \* calls so far that took a name or an object away
  cursor    \* the iteration over the root: [started, key, seen, stay, done]

vars == << fs, whole, view, deletes, cursor >>

Cnodes(img) == { b \in Blocks : IsKind(img[b], "cnode") /\ img[b].links # 0 }
Allocated(img) ==
  UNION { { AgBlock(ag) + i : i \in img[AgBlock(ag)].bits \cap 0..(Covered(ag) - 1) } : ag \in 0..(AgCount - 1) }

\* The entries of a directory and the blocks a cnode owns, by walking the image.
Entries(img, d) ==
  LET recs == IF img[d].root # 0 THEN TreeRecs(img, img[d].root) ELSE Item(img[d], "dirents")
  IN  { recs[i] : i \in DOMAIN recs }
Runs(img, c) ==
  LET recs == IF img[c].root # 0 /\ img[c].type = "file" THEN TreeRecs(img, img[c].root) ELSE img[c].ext
  IN  [i \in DOMAIN recs |-> recs[i].start..(recs[i].start + recs[i].count - 1)]
Mapped(img, c) == SelectSeq(Runs(img, c), LAMBDA r : 0 \notin r)
TreeOf(img, c) == IF img[c].root = 0 THEN {} ELSE TreeBlocks(img, img[c].root)

\* What lookups, reads and attribute queries return.
View(f) ==
  LET live == Cnodes(f.blk)
      Of(type) == { c \in live : f.blk[c].type = type }
  IN  [dirs  |-> [d \in Of("dir") |-> [n \in { n \in Names : Carafs_DirLookup(f, d, n) # << >> } |->
                                   Carafs_DirLookup(f, d, n)[1]]],
       files |-> [c \in Of("file") |-> Carafs_FileRead(f, c, 0, f.blk[c].size)],
       attrs |-> [c \in live |-> [n \in { n \in Names : Carafs_XattrGet(f, c, n) # << >> } |->
                                   Carafs_XattrGet(f, c, n)[1]]]]

NoCursor == [started |-> FALSE, key |-> <<0, 0>>, seen |-> << >>, stay |-> {}, done |-> FALSE]

Init ==
  /\ fs = Carafs_Mkfs(Cnode(1, "dir", 1))
  /\ whole = TRUE /\ view = View(fs)
  /\ deletes = 0
  /\ cursor = NoCursor

NamesIn(img, d) == { e.name : e \in Entries(img, d) }

\* The objects, and the names by directory.
Held(img) ==
  UNION { {<<c, "">>} \cup (IF img[c].type = "dir" THEN {c} \X NamesIn(img, c) ELSE {}) : c \in Cnodes(img) }

\* One call: the transaction bracket around the operation.  A name that leaves
\* the root is no longer one the iteration has to show.
Returned(out) ==
  LET \* the lock and its return code do not outlive the call
      end == [out EXCEPT !.rc = "EOK"]
      ok  == OK(out) \/ \A b \in Allocated(fs.home) : end.blk[b] = fs.blk[b]
  IN  /\ deletes' = deletes + IF Held(fs.blk) \subseteq Held(end.blk) THEN 0 ELSE 1
      /\ deletes' <= MaxDeletes
      /\ fs' = end
      /\ whole' = (whole /\ ok)
      /\ view' = IF whole' THEN View(end) ELSE view
      /\ cursor' = [cursor EXCEPT !.stay = @ \cap NamesIn(end.blk, RootCnode)]
Call(result) == Returned(Bracket(result, fs))

Begun == carafs_op_begin(fs)
Dirs == { b \in Cnodes(fs.blk) : fs.blk[b].type = "dir" }
Files == { b \in Cnodes(fs.blk) : fs.blk[b].type = "file" }

DirCreate(d, n, type) == Call(Carafs_DirCreate(Begun, d, n, type))
DirSymlink(d, n, target) == Call(Carafs_DirSymlink(Begun, d, n, target))
DirLink(d, n, t) == Call(Carafs_DirLink(Begun, d, n, t))
DirRemove(d, n) == Call(Carafs_DirRemove(Begun, d, n))
FileWrite(c, w) == Call(Carafs_FileWrite(Begun, c, w.off, w.src))
XattrSet(c, n, v) == Call(Carafs_XattrSet(Begun, c, n, v))
XattrRemove(c, n) == Call(Carafs_XattrRemove(Begun, c, n))
CnodeCreate == Call(Carafs_CnodeCreate(Begun, "file", 0))
\* Its callers delete only objects without a name.
CnodeDelete(c) ==
  /\ \A d \in Dirs : \A e \in Entries(fs.blk, d) : e.cnode # c
  /\ Call(Carafs_CnodeDelete(Begun, c))

\* Carafs_DirNext by a reader of the root, between the other calls.
DirNext ==
  LET nxt == Carafs_DirNext(fs, RootCnode, cursor)
      all == NamesIn(fs.blk, RootCnode)
  IN  /\ ~cursor.done
      /\ cursor' = [cursor EXCEPT
           !.started = TRUE,
           !.key = IF nxt = << >> THEN @ ELSE nxt[1].key,
           !.seen = IF nxt = << >> THEN @ ELSE Append(@, nxt[1].name),
           !.stay = IF cursor.started THEN @ ELSE all,
           !.done = nxt = << >>]
      /\ UNCHANGED << fs, whole, view, deletes >>

(***************************************************************************)
(* Carafs_Fsck, on the image on the device.                                *)
(***************************************************************************)
check_child(img, d, e) ==
  /\ e.type \in {"file", "dir", "symlink"}
  /\ e.cnode \in AgFirst..(BackupSb - 1)
  /\ IsKind(img[e.cnode], "cnode")
  /\ img[e.cnode].type = e.type /\ img[e.cnode].links >= 1
  /\ e.type = "dir" => img[e.cnode].parent = d

check_dir(img, d) ==
  /\ \A b \in TreeOf(img, d) : b \in AgFirst..(BackupSb - 1) /\ IsKind(img[b], "node") /\ img[b].flavour = "dir"
  /\ \A e \in Entries(img, d) : check_child(img, d, e)

Carafs_Fsck(img) ==
  /\ IsKind(img[0], "sb")
  /\ \A ag \in 0..(AgCount - 1) :
       LET a == img[AgBlock(ag)]
       IN  /\ IsKind(a, "ag") /\ 0 \in a.bits
           /\ Covered(ag)..(AgSize - 1) \subseteq a.bits
           /\ a.free = AgSize - Cardinality(a.bits)
  /\ LET Free(ag) == img[AgBlock(ag)].free IN img[0].free = MapThenSumSet(Free, 0..(AgCount - 1))
  /\ IsKind(img[RootCnode], "cnode") /\ img[RootCnode].type = "dir" /\ img[RootCnode].links >= 1
  /\ check_dir(img, RootCnode)

(***************************************************************************)
(* Properties.                                                             *)
(***************************************************************************)
Tree == INSTANCE FileTree WITH
  Objects <- Blocks, Root <- RootCnode, dirs <- view.dirs, files <- view.files, attrs <- view.attrs

\* What lookups, reads and attribute queries return is what a tree of names
\* with contents returns: a name added is found and found under one object,
\* a name removed is gone, the last name takes the object along, cells written
\* are read back with zeros in the gaps, whether entries and extents live in
\* the cnode or in a tree of several levels that splits and collapses.  It is
\* said of the calls up to the first that fails half way (whole).
ImplementsFileTree == Tree!Spec

\* Every block the bitmaps call taken is the header of its group, a live cnode,
\* a node of exactly one tree or part of exactly one extent, every block so used
\* is taken, and the three free counts agree.
BlocksAccounted(img) ==
  LET live == Cnodes(img)
      Sizes(c) == 1 + Cardinality(TreeOf(img, c))
                    + FoldSeq(LAMBDA r, n : n + Cardinality(r), 0, Mapped(img, c))
      owned == UNION { {c} \cup TreeOf(img, c) \cup UNION Range(Mapped(img, c)) : c \in live }
      heads == { AgBlock(ag) : ag \in 0..(AgCount - 1) }
  IN  /\ Allocated(img) = owned \cup heads
      /\ owned \cap heads = {}
      /\ MapThenSumSet(Sizes, live) = Cardinality(owned)
      /\ fs.sbfree = img[0].free
      /\ \A c \in live : img[c].used = FoldSeq(LAMBDA r, n : n + Cardinality(r), 0, Mapped(img, c))

\* A link count is the number of entries that name the object (the checker does
\* not reconcile them), a directory's size is its number of entries, and a
\* recorded parent really has an entry for the child (dir.c:428 clears it on
\* the second link).
LinksCounted(img) ==
  LET dirs == { b \in Cnodes(img) : img[b].type = "dir" }
      Naming(c) == { <<d, e>> \in UNION { {d} \X Entries(img, d) : d \in dirs } : e.cnode = c }
  IN  /\ \A d \in dirs : img[d].size = Cardinality(Entries(img, d))
      /\ \A c \in Cnodes(img) \ {RootCnode} :
           /\ img[c].links = Max({1, Cardinality(Naming(c))})
           /\ img[c].parent # 0 => \E p \in Naming(c) : p[1] = img[c].parent

\* A separator is the least key below it, keys ascend through the leaves, and
\* the leaves are all at level 0 with nothing empty in between.
TreesOrdered(img) ==
  \A c \in Cnodes(img) :
    img[c].root # 0 =>
      LET recs == TreeRecs(img, img[c].root)
      IN  /\ \A i \in 1..(Len(recs) - 1) : Less(recs[i].key, recs[i + 1].key)
          /\ \A b \in TreeBlocks(img, img[c].root) :
               /\ img[b].recs # << >>
               /\ img[b].level > 0 =>
                    \A i \in DOMAIN img[b].recs :
                      LET r == img[b].recs[i]
                      IN  img[r.child].level = img[b].level - 1 /\ r.key = node_min_key(img[r.child])

\* The image every commit leaves behind is sound: it passes the checker, and
\* what the checker does not look at agrees too.  No call leaks a block or gives
\* one out twice (alloc.c, tree_free_all, carafs_cnode_free_locked), miscounts a
\* link or misplaces a separator (bt_propagate), and neither does what follows a
\* call that failed, also one that left its change of a cnode in the cache
\* (xattr.c:108).  What follows a write that failed half way (file.c:110, 194) is
\* not covered: the cached cnode then has extents that were given back.
VolumeSound ==
  /\ Carafs_Fsck(fs.home)
  /\ BlocksAccounted(fs.home)
  /\ LinksCounted(fs.home)
  /\ TreesOrdered(fs.home)

\* An iteration that other calls interrupt shows every entry that was there all
\* along: splits, collapses and the move out of the cnode do not disturb the
\* cursor (dtree_next, dir.c:184).
IterationComplete ==
  cursor.done => cursor.stay \subseteq Range(cursor.seen)
=============================================================================
