---------------------------- MODULE CarafsBtree -----------------------------
(***************************************************************************)
(* Blocks of a CaraFS volume as one operation sees them: the cached image, *)
(* the image on the device, the blocks of the open transaction, and the    *)
(* allocator over the allocation groups (alloc.c, mkfs.c, the transaction   *)
(* bracket of mount.c and cache.c).                                         *)
(*                                                                         *)
(* An operation of the file system is a function from a volume record to a *)
(* volume record; rc is the value the C function returns.  How the log     *)
(* makes a commit durable is CarafsWal's subject: here every operation     *)
(* starts with an empty log, so that "on the device" and "committed" are   *)
(* the same.  CRCs, magics and time stamps are left out; a block that is   *)
(* read as the wrong kind gives EBADMAGIC.                                 *)
(***************************************************************************)
EXTENDS Integers, Sequences, FiniteSets, FiniteSetsExt, TLC, SequencesExt

CONSTANTS
  AgCount,      \* number of allocation groups
  AgSize,       \* blocks of an allocation group, its header included
  LastCovered   \* blocks of the last group that exist on the device

ASSUME GeometryAssumption ==
  /\ AgCount \in Nat \ {0} /\ AgSize \in Nat
  /\ 2 < AgSize /\ LastCovered \in 2..AgSize

AgFirst == 1
AgBlock(ag) == AgFirst + ag * AgSize
BackupSb == AgBlock(AgCount - 1) + LastCovered
Blocks == 0..(AgCount * AgSize)
RootCnode == AgFirst + 1
Covered(ag) == IF ag = AgCount - 1 THEN LastCovered ELSE AgSize

\* What a block may hold.  A block nobody wrote reads as zeros.
Zero == [kind |-> "zero"]
SbBlock(free) == [kind |-> "sb", free |-> free]
AgHeader(bits, free, rotor) == [kind |-> "ag", bits |-> bits, free |-> free, rotor |-> rotor]
IsKind(b, kind) == b.kind = kind

OK(fs) == fs.rc = "EOK"
Fail(fs, code) == [fs EXCEPT !.rc = code]

\* What follows a step that succeeded: a step gives a volume, an allocation a
\* volume with the run it found.
IfOK(fs, Next(_)) == IF OK(fs) THEN Next(fs) ELSE fs
IfGot(a, Next(_)) == IF OK(a.fs) THEN Next(a) ELSE a
Then(a, Next(_)) == IF OK(a.fs) THEN Next(a) ELSE a.fs
NoRun(fs, code) == [fs |-> Fail(fs, code), start |-> 0, count |-> 0]

\* carafs_txn_dirty on a block whose cached image is `image`.
TxnWrite(fs, b, image) == [fs EXCEPT !.blk[b] = image, !.txn = @ \cup {b}]

\* A change of a cached block that the transaction does not know of yet.
CacheWrite(fs, b, image) == [fs EXCEPT !.blk[b] = image]

\* carafs_cache_invalidate: unless the transaction holds it, the cached image
\* is dropped and the next reader sees the device's.
Invalidate(fs, bs) ==
  [fs EXCEPT !.blk = [b \in bs \ fs.txn |-> fs.home[b]] @@ @,
             !.dirty = @ \ (bs \ fs.txn)]

(***************************************************************************)
(* The allocator.                                                          *)
(***************************************************************************)
FreeFrom(bits, from) == { i \in from..(AgSize - 1) : i \notin bits }
FirstFree(a) ==
  LET ahead == FreeFrom(a.bits, IF a.rotor < AgSize THEN a.rotor ELSE 0)
  IN  IF ahead # {} THEN ahead ELSE FreeFrom(a.bits, 0)
RunFrom(a, rel, want) ==
  rel..(rel + Max({ k \in 1..want : \A j \in rel..(rel + k - 1) : j < AgSize /\ j \notin a.bits }) - 1)

AgTake(fs, ag, a, run) ==
  LET got  == Cardinality(run)
      next == IF Max(run) + 1 < AgSize THEN Max(run) + 1 ELSE 0
      taken == TxnWrite(fs, AgBlock(ag), AgHeader(a.bits \cup run, a.free - got, next))
  IN  [fs    |-> Invalidate([taken EXCEPT !.sbfree = @ - got], { AgBlock(ag) + i : i \in run }),
       start |-> AgBlock(ag) + Min(run),
       count |-> got]

\* One group: the first free run at or after the rotor, wrapping once.  The
\* result carries the volume and the run.
AgTryAlloc(fs, ag, want) ==
  LET a == fs.blk[AgBlock(ag)]
  IN  IF a.free = 0 THEN NoRun(fs, "ENOTFOUND")
      ELSE IF FirstFree(a) = {} THEN NoRun(fs, "EBADMAGIC")
      ELSE AgTake(fs, ag, a, RunFrom(a, Min(FirstFree(a)), want))

\* The first group, from the one of `hint` on, that has anything.
carafs_alloc_extent(fs, hint, want) ==
  LET ag0   == IF hint \in AgFirst..(BackupSb - 1) THEN (hint - AgFirst) \div AgSize ELSE 0
      Ag(i) == (ag0 + i) % AgCount
      useful == { i \in 0..(AgCount - 1) : fs.blk[AgBlock(Ag(i))].free # 0 }
  IN  IF want = 0 THEN NoRun(fs, "EINVAL")
      ELSE IF useful = {} THEN NoRun(fs, "ENOMEM")
      ELSE AgTryAlloc(fs, Ag(Min(useful)), want)

carafs_free_extent(fs, start, count) ==
  LET ag  == (start - AgFirst) \div AgSize
      rel == start - AgBlock(ag)
      run == rel..(rel + count - 1)
      a   == fs.blk[AgBlock(ag)]
  IN  IF count = 0 \/ start < AgFirst \/ start + count > BackupSb THEN Fail(fs, "EINVAL")
      ELSE IF rel = 0 \/ rel + count > AgSize THEN Fail(fs, "EINVAL")
      ELSE IF ~(run \subseteq a.bits) THEN Fail(fs, "EINVAL")
      ELSE [TxnWrite(fs, AgBlock(ag), AgHeader(a.bits \ run, a.free + count, a.rotor))
              EXCEPT !.sbfree = @ + count]

\* Frees a sequence of runs, up to the first that fails.
FreeRuns(fs, runs) ==
  LET After[i \in 0..Len(runs)] ==
        IF i = 0 THEN fs
        ELSE IF ~OK(After[i - 1]) THEN After[i - 1]
        ELSE carafs_free_extent(After[i - 1], runs[i].start, runs[i].count)
  IN  After[Len(runs)]

(***************************************************************************)
(* The bracket around every mutating operation.                            *)
(***************************************************************************)
carafs_op_begin(fs) == [fs EXCEPT !.txn = {}, !.rc = "EOK"]

\* Dirty file data goes home first, then the transaction with the superblock.
carafs_op_commit(fs) ==
  LET put == TxnWrite(fs, 0, SbBlock(fs.sbfree))
      out == put.txn \cup put.dirty
  IN  [put EXCEPT !.home = [b \in out |-> put.blk[b]] @@ @,
                  !.txn = {}, !.dirty = {}]

\* The transaction's blocks are dropped from the cache and the in-memory
\* superblock is restored from the copy op_begin took.
carafs_op_abort(fs, before) ==
  [fs EXCEPT !.blk = [b \in fs.txn |-> fs.home[b]] @@ @,
             !.txn = {}, !.dirty = @ \ fs.txn, !.sbfree = before.sbfree]

Bracket(fs, before) == IF OK(fs) THEN carafs_op_commit(fs) ELSE carafs_op_abort(fs, before)

(***************************************************************************)
(* Carafs_Mkfs: every group's header with its own block, the root cnode    *)
(* and the blocks past the device's end taken.                             *)
(***************************************************************************)
MkfsBits(ag) == {0} \cup (IF ag = 0 THEN {RootCnode - AgFirst} ELSE {}) \cup Covered(ag)..(AgSize - 1)
MkfsFree(ag) == AgSize - Cardinality(MkfsBits(ag))
MkfsTotal == MapThenSumSet(MkfsFree, 0..(AgCount - 1))

Carafs_Mkfs(root) ==
  LET image == [b \in Blocks |->
        IF b = 0 THEN SbBlock(MkfsTotal)
        ELSE IF b = RootCnode THEN root
        ELSE IF (b - AgFirst) % AgSize = 0
             THEN LET ag == (b - AgFirst) \div AgSize IN AgHeader(MkfsBits(ag), MkfsFree(ag), 0)
        ELSE Zero]
  IN  [blk |-> image, home |-> image, txn |-> {}, dirty |-> {}, sbfree |-> MkfsTotal, rc |-> "EOK"]


-----------------------------------------------------------------------------
(***************************************************************************)
(* The B+tree of CaraFS (btree.c), extent and directory flavour.           *)
(*                                                                         *)
(* A node block holds a sequence of records sorted by key.  A key is the   *)
(* composite <<hi, lo>>; an extent record is keyed by <<file offset, 0>>,  *)
(* a directory entry by <<name hash, collision sequence>>, an interior     *)
(* record by the least key below its child.  Bytes are counted in units:   *)
(* every directory entry takes one.                                        *)
(***************************************************************************)

CONSTANTS
  BtCap,     \* interior (and extent leaf) records of a node
  LeafCap    \* directory entries of a leaf

Node(level, flavour, recs) ==
  [kind |-> "node", level |-> level, flavour |-> flavour, recs |-> recs]

Leq(k1, k2) == k1[1] < k2[1] \/ (k1[1] = k2[1] /\ k1[2] <= k2[2])
Less(k1, k2) == Leq(k1, k2) /\ k1 # k2

node_min_key(node) == node.recs[1].key

\* The last record whose key is at most `key`; 0 when there is none.
Floor(recs, key) ==
  LET below == { i \in DOMAIN recs : Leq(recs[i].key, key) }
  IN  IF below = {} THEN 0 ELSE Max(below)

\* A descent in an interior node takes the first child when the key precedes all.
bt_idescend(recs, key) == Max({1, Floor(recs, key)})

\* The interior levels passed on the way from `b` to the leaf for `key`.
RECURSIVE Descend(_, _, _, _)
Descend(blk, b, key, path) ==
  IF blk[b].level = 0 THEN [path |-> path, leaf |-> b]
  ELSE LET i == bt_idescend(blk[b].recs, key)
       IN  Descend(blk, blk[b].recs[i].child, key, Append(path, [block |-> b, idx |-> i]))

RECURSIVE LeftmostLeaf(_, _)
LeftmostLeaf(blk, b) == IF blk[b].level = 0 THEN b ELSE LeftmostLeaf(blk, blk[b].recs[1].child)

\* The leaf right of the one `path` leads to; 0 at the end.
NextLeaf(blk, path) ==
  LET turns == { d \in DOMAIN path : path[d].idx < Len(blk[path[d].block].recs) }
      d     == Max(turns)
  IN  IF turns = {} THEN 0
      ELSE LeftmostLeaf(blk, blk[path[d].block].recs[path[d].idx + 1].child)

\* The blocks of the tree below b, and the records of its leaves in order.
RECURSIVE TreeBlocks(_, _)
TreeBlocks(blk, b) ==
  {b} \cup (IF blk[b].level = 0 THEN {}
            ELSE UNION { TreeBlocks(blk, blk[b].recs[i].child) : i \in DOMAIN blk[b].recs })
RECURSIVE TreeRecs(_, _)
TreeRecs(blk, b) ==
  IF blk[b].level = 0 THEN blk[b].recs
  ELSE FlattenSeq([i \in DOMAIN blk[b].recs |-> TreeRecs(blk, blk[b].recs[i].child)])

\* A fresh node: allocated, and zeroed in the cache (which marks it dirty).
bt_new(fs, hint, level, flavour) ==
  IfGot(carafs_alloc_extent(fs, hint, 1), LAMBDA a :
    [a EXCEPT !.fs = CacheWrite([@ EXCEPT !.dirty = @ \cup {a.start}], a.start, Node(level, flavour, <<>>))])

\* Moves the records from keep + 1 on into a fresh right sibling.  The split
\* node itself is only changed in the cache.
SplitAt(fs, b, keep) ==
  LET n == fs.blk[b]
      moved == SubSeq(n.recs, keep + 1, Len(n.recs))
  IN  IfGot(bt_new(fs, b, n.level, n.flavour), LAMBDA r :
        [r EXCEPT !.fs = CacheWrite(CacheWrite(@, r.start, Node(n.level, n.flavour, moved)),
                                    b, Node(n.level, n.flavour, SubSeq(n.recs, 1, keep)))])

\* The record placed after every record with a smaller or equal key.
InsertByKey(recs, rec) == InsertAt(recs, Floor(recs, rec.key) + 1, rec)

\* After a split, the half that owns the key takes the record, and both halves
\* join the transaction.
DirtyBoth(fs, left, right) == TxnWrite(TxnWrite(fs, left, fs.blk[left]), right, fs.blk[right])
PlaceAndDirty(fs, left, right, rec) ==
  LET tgt == IF Leq(node_min_key(fs.blk[right]), rec.key) THEN right ELSE left
  IN  DirtyBoth(CacheWrite(fs, tgt, [fs.blk[tgt] EXCEPT !.recs = InsertByKey(@, rec)]), left, right)

NoCarry == [key |-> <<0, 0>>, child |-> 0]

\* The root was split: one more level above it.
GrowRoot(fs, cn, carry) ==
  LET old == fs.blk[fs.blk[cn].root]
      recs == << [key |-> node_min_key(old), child |-> fs.blk[cn].root], carry >>
  IN  Then(bt_new(fs, cn, old.level + 1, old.flavour), LAMBDA r :
        CacheWrite(TxnWrite(r.fs, r.start, Node(old.level + 1, old.flavour, recs)),
                   cn, [r.fs.blk[cn] EXCEPT !.root = r.start]))

\* Walks the path up from a changed child: its separator becomes its least key
\* again, and a pending sibling is put beside it, splitting where there is no room.
RECURSIVE bt_propagate(_, _, _, _, _)
CarryUp(fs, cn, path, child, right) ==
  bt_propagate(fs, cn, path, child, [key |-> node_min_key(fs.blk[right]), child |-> right])
bt_propagate(fs, cn, path, child, carry) ==
  IF path = <<>> THEN IF carry = NoCarry THEN fs ELSE GrowRoot(fs, cn, carry)
  ELSE
    LET lvl   == Last(path)
        p     == lvl.block
        fixed == [fs.blk[p] EXCEPT !.recs[lvl.idx].key = node_min_key(fs.blk[child])]
        room  == Len(fixed.recs) < BtCap
        fits  == IF carry = NoCarry THEN fixed ELSE [fixed EXCEPT !.recs = InsertAt(@, lvl.idx + 1, carry)]
    IN  IF carry = NoCarry \/ room
        THEN bt_propagate(IF fits = fs.blk[p] THEN fs ELSE TxnWrite(fs, p, fits), cn, Front(path), p, NoCarry)
        ELSE Then(SplitAt(CacheWrite(fs, p, fixed), p, Len(fixed.recs) \div 2), LAMBDA s :
               CarryUp(PlaceAndDirty(s.fs, p, s.start, carry), cn, Front(path), p, s.start))

\* Where a full leaf is cut: extent leaves in the middle, directory leaves near
\* the middle byte with both halves non-empty.
KeepOf(node) ==
  LET n == Len(node.recs)
  IN  IF node.flavour = "extent" THEN n \div 2
      ELSE Min({ Max({1, Min({ i \in 1..n : 2 * i >= n })}), n - 1 })

LeafRoom(node) == Len(node.recs) < IF node.flavour = "extent" THEN BtCap ELSE LeafCap

\* Insert into the tree of cnode block cn; the key is not there yet.
InsertAtLeaf(fs, cn, d, leaf, rec) ==
  IF LeafRoom(leaf)
  THEN bt_propagate(TxnWrite(fs, d.leaf, [leaf EXCEPT !.recs = InsertByKey(@, rec)]), cn, d.path, d.leaf, NoCarry)
  ELSE IF leaf.flavour = "dir" /\ Len(leaf.recs) < 2 THEN Fail(fs, "EOVERFLOW")
  ELSE Then(SplitAt(fs, d.leaf, KeepOf(leaf)), LAMBDA s :
         CarryUp(PlaceAndDirty(s.fs, d.leaf, s.start, rec), cn, d.path, d.leaf, s.start))
InsertFrom(fs, cn, d, rec) == InsertAtLeaf(fs, cn, d, fs.blk[d.leaf], rec)
TreeInsert(fs, cn, rec) == InsertFrom(fs, cn, Descend(fs.blk, fs.blk[cn].root, rec.key, <<>>), rec)

\* A new tree of one leaf.  The cnode is only changed in the cache.
Spill(fs, cn, flavour, recs) ==
  Then(bt_new(fs, cn, 0, flavour), LAMBDA r :
    CacheWrite(TxnWrite(r.fs, r.start, Node(0, flavour, recs)),
               cn, [r.fs.blk[cn] EXCEPT !.root = r.start]))

\* Every node of the tree is freed, and with it every extent its leaves map.
tree_free_all(fs, cn) ==
  LET root  == fs.blk[cn].root
      nodes == SetToSeq({ [start |-> b, count |-> 1] : b \in TreeBlocks(fs.blk, root) })
      runs  == IF fs.blk[root].flavour = "dir" THEN <<>>
               ELSE LET recs == TreeRecs(fs.blk, root)
                    IN  [i \in DOMAIN recs |-> [start |-> recs[i].start, count |-> recs[i].count]]
  IN  IfOK(FreeRuns(fs, runs \o nodes), LAMBDA g : CacheWrite(g, cn, [g.blk[cn] EXCEPT !.root = 0]))

(***************************************************************************)
(* Extent flavour.                                                         *)
(***************************************************************************)
NoRec == [key |-> <<0, 0>>, start |-> 0, count |-> 0]

RecAt(recs, i) == IF i = 0 THEN NoRec ELSE recs[i]
FloorIn(recs, fblk) == RecAt(recs, Floor(recs, <<fblk, 0>>))
carafs_etree_floor(blk, root, fblk) ==
  FloorIn(blk[Descend(blk, root, <<fblk, 0>>, <<>>).leaf].recs, fblk)

FirstOrNext(blk, recs, later, n) ==
  IF later # {} THEN recs[Min(later)] ELSE IF n = 0 THEN NoRec ELSE blk[n].recs[1]
EtreeNextFrom(blk, d, recs, fblk) ==
  FirstOrNext(blk, recs, { i \in DOMAIN recs : recs[i].key[1] > fblk }, NextLeaf(blk, d.path))
EtreeNextAt(blk, d, fblk) == EtreeNextFrom(blk, d, blk[d.leaf].recs, fblk)
carafs_etree_next(blk, root, fblk) == EtreeNextAt(blk, Descend(blk, root, <<fblk, 0>>, <<>>), fblk)

\* An insert joins a predecessor that ends, in the file and on the device, where
\* the new run starts.
EtreeInsertAt(fs, cn, leaf, i, rec) ==
  LET r == fs.blk[leaf].recs[i]
  IN  IF i > 0 /\ r.key[1] + r.count = rec.key[1] /\ r.start + r.count = rec.start
      THEN TxnWrite(fs, leaf, [fs.blk[leaf] EXCEPT !.recs[i].count = @ + rec.count])
      ELSE TreeInsert(fs, cn, rec)
EtreeInsertIn(fs, cn, leaf, rec) == EtreeInsertAt(fs, cn, leaf, Floor(fs.blk[leaf].recs, rec.key), rec)
carafs_etree_insert(fs, cn, fo, start, count) ==
  EtreeInsertIn(fs, cn, Descend(fs.blk, fs.blk[cn].root, <<fo, 0>>, <<>>).leaf,
                [key |-> <<fo, 0>>, start |-> start, count |-> count])

(***************************************************************************)
(* Directory flavour.                                                      *)
(***************************************************************************)
\* The equal-hash run from collision number s on, leaf after leaf, as long as
\* the run reaches the end of a leaf.
RECURSIVE ScanRun(_, _, _, _)
RunIn(recs, hash, s) == { i \in DOMAIN recs : recs[i].key[1] = hash /\ recs[i].key[2] >= s }
ScanLeaf(blk, root, hash, recs, hits) ==
  { recs[i] : i \in hits } \cup
  (IF Len(recs) \in hits THEN ScanRun(blk, root, hash, Last(recs).key[2] + 1) ELSE {})
ScanIn(blk, root, hash, recs, s) == ScanLeaf(blk, root, hash, recs, RunIn(recs, hash, s))
ScanRun(blk, root, hash, s) ==
  ScanIn(blk, root, hash, blk[Descend(blk, root, <<hash, s>>, <<>>).leaf].recs, s)

PastCursor(recs, key, strict) ==
  { i \in DOMAIN recs : IF strict THEN Less(key, recs[i].key) ELSE Leq(key, recs[i].key) }

\* Mutant of DtreeNextFrom: the leaf of the cursor is taken for the last.
DtreeNextInLeaf(blk, d, recs, past) == IF past # {} THEN << recs[Min(past)] >> ELSE <<>>

\* The first entry past the cursor (at it, when the cursor has not started).
FirstIn(blk, n) == IF n = 0 \/ blk[n].recs = <<>> THEN <<>> ELSE << blk[n].recs[1] >>
DtreeNextFrom(blk, d, recs, past) ==
  IF past # {} THEN << recs[Min(past)] >> ELSE FirstIn(blk, NextLeaf(blk, d.path))
DtreeNextAt(blk, d, recs, key, strict) == DtreeNextFrom(blk, d, recs, PastCursor(recs, key, strict))
DtreeNextIn(blk, d, key, strict) == DtreeNextAt(blk, d, blk[d.leaf].recs, key, strict)
carafs_dtree_next(blk, root, key, strict) == DtreeNextIn(blk, Descend(blk, root, key, <<>>), key, strict)

\* Takes the record of an emptied child out of its parent; a parent that
\* empties is freed as well, and the separators above a survivor are repaired.
RECURSIVE dtree_collapse(_, _, _)
dtree_collapse(fs, cn, path) ==
  LET lvl  == Last(path)
      left == [fs.blk[lvl.block] EXCEPT !.recs = RemoveAt(@, lvl.idx)]
  IN  IF left.recs # <<>>
      THEN bt_propagate(TxnWrite(fs, lvl.block, left), cn, Front(path), lvl.block, NoCarry)
      ELSE IfOK(carafs_free_extent(CacheWrite(fs, lvl.block, left), lvl.block, 1), LAMBDA g :
             IF Len(path) = 1 THEN CacheWrite(g, cn, [g.blk[cn] EXCEPT !.root = 0])
             ELSE dtree_collapse(g, cn, Front(path)))

DtreeLeft(fs, cn, d, left) ==
  IF left.recs # <<>> THEN bt_propagate(TxnWrite(fs, d.leaf, left), cn, d.path, d.leaf, NoCarry)
  ELSE IfOK(carafs_free_extent(CacheWrite(fs, d.leaf, left), d.leaf, 1), LAMBDA g :
         IF d.path = <<>> THEN CacheWrite(g, cn, [g.blk[cn] EXCEPT !.root = 0])
         ELSE dtree_collapse(g, cn, d.path))
DtreeCut(fs, cn, d, at) ==
  IF at = {} THEN Fail(fs, "ENOTFOUND")
  ELSE DtreeLeft(fs, cn, d, [fs.blk[d.leaf] EXCEPT !.recs = RemoveAt(@, Min(at))])
DtreeRemoveAt(fs, cn, d, key) ==
  DtreeCut(fs, cn, d, { i \in DOMAIN fs.blk[d.leaf].recs : fs.blk[d.leaf].recs[i].key = key })
carafs_dtree_remove(fs, cn, key) ==
  DtreeRemoveAt(fs, cn, Descend(fs.blk, fs.blk[cn].root, key, <<>>), key)
=============================================================================
