----------------------------- MODULE CarafsObjects -----------------------------
(***************************************************************************)
(* Cnodes and what they name: the item area, file contents, directories,   *)
(* links and extended attributes (cnode.c, file.c, dir.c, xattr.c), as     *)
(* functions on a volume record.                                           *)
(*                                                                         *)
(* Names are taken up to case folding, so that equality of names is        *)
(* Carafs_NameEq.  Sizes are counted in cells; the header of an item is     *)
(* small against its payload and takes none.                                *)
(***************************************************************************)
EXTENDS CarafsBtree

CONSTANTS
  NameHash,        \* Carafs_NameHash, from the names to the naturals
  Bs,              \* cells of a block
  ItemCap,         \* cells of a cnode's item area
  InlineExtents    \* CARAFS_INLINE_EXTENTS

NoItems == << >>
Cnode(gen, type, links) ==
  [kind |-> "cnode", gen |-> gen, type |-> type, links |-> links, size |-> 0, used |-> 0,
   parent |-> 0, root |-> 0, ext |-> << >>, items |-> NoItems]

(***************************************************************************)
(* The item area: a function from the kinds present to their payload.      *)
(***************************************************************************)
HasItem(cn, k) == k \in DOMAIN cn.items
Item(cn, k) == IF HasItem(cn, k) THEN cn.items[k] ELSE << >>
item_bytes(cn) == LET Stride(k) == Len(cn.items[k]) IN MapThenSumSet(Stride, DOMAIN cn.items)

carafs_item_remove(cn, k) ==
  [cn EXCEPT !.items = [j \in DOMAIN cn.items \ {k} |-> cn.items[j]]]

\* carafs_item_resize succeeds when the other items leave the room.
item_fits(cn, k, n) == item_bytes(carafs_item_remove(cn, k)) + n <= ItemCap

SetItem(cn, k, payload) ==
  [cn EXCEPT !.items = [j \in DOMAIN cn.items \cup {k} |-> IF j = k THEN payload ELSE cn.items[j]]]

(***************************************************************************)
(* Cnodes.                                                                 *)
(***************************************************************************)
carafs_cnode_get(fs, c) ==
  IF c \notin Blocks \/ ~IsKind(fs.blk[c], "cnode") THEN "EBADMAGIC"
  ELSE IF fs.blk[c].links = 0 THEN "ENOENT" ELSE "EOK"

\* carafs_cnode_dirty, after the cached cnode was changed to cn.
CnodeDirty(fs, c, cn) == TxnWrite(fs, c, cn)

\* A legible tombstone in the granted block passes its generation on.
GenAfter(old) == IF IsKind(old, "cnode") THEN old.gen + 1 ELSE 1
carafs_cnode_alloc(fs, type, hint) ==
  IfGot(carafs_alloc_extent(fs, hint, 1), LAMBDA a :
    [a EXCEPT !.fs = CnodeDirty(@, a.start, Cnode(GenAfter(@.blk[a.start]), type, 1))])

\* Mutant of carafs_cnode_free_locked: the tree goes, the inline extents stay.
FreeForgetsExtents(fs, c) ==
  LET cn == fs.blk[c]
  IN  IfOK(IfOK(IF cn.root # 0 THEN tree_free_all(fs, c) ELSE fs,
                LAMBDA g : FreeRuns(g, << [start |-> c, count |-> 1] >>)),
           LAMBDA g : CnodeDirty(g, c, Cnode(cn.gen + 1, cn.type, 0)))

\* The storage is freed, then the block; what stays is a tombstone.
carafs_cnode_free_locked(fs, c) ==
  LET cn   == fs.blk[c]
      runs == SelectSeq(cn.ext, LAMBDA e : e.start # 0)
  IN  IfOK(IfOK(IF cn.root # 0 THEN tree_free_all(fs, c) ELSE fs,
                LAMBDA g : FreeRuns(g, Append(runs, [start |-> c, count |-> 1]))),
           LAMBDA g : CnodeDirty(g, c, Cnode(cn.gen + 1, cn.type, 0)))

Carafs_CnodeCreate(fs, type, hint) == carafs_cnode_alloc(fs, type, hint).fs

Carafs_CnodeDelete(fs, c) ==
  IF carafs_cnode_get(fs, c) # "EOK" THEN Fail(fs, carafs_cnode_get(fs, c))
  ELSE carafs_cnode_free_locked(fs, c)

(***************************************************************************)
(* File contents.                                                          *)
(***************************************************************************)
Unbounded == 1000        \* the run of a hole that nothing follows

\* The offset in the file at which inline extent i starts.
ExtOffset(cn, i) == LET Count(j) == cn.ext[j].count IN MapThenSumSet(Count, 1..(i - 1))
inline_mapped_end(cn) == ExtOffset(cn, Len(cn.ext) + 1)
ExtOf(cn, fblk) == { i \in DOMAIN cn.ext : ExtOffset(cn, i) <= fblk /\ fblk < ExtOffset(cn, i + 1) }

\* Where file block fblk lives (0: a hole) and how many blocks go on from there.
TreeMapping(fblk, f, n) ==
  IF f # NoRec /\ fblk < f.key[1] + f.count
  THEN [phys |-> f.start + (fblk - f.key[1]), run |-> f.key[1] + f.count - fblk]
  ELSE [phys |-> 0, run |-> IF n = NoRec THEN Unbounded ELSE n.key[1] - fblk]
InlineMapping(cn, fblk, i) ==
  [phys |-> IF cn.ext[i].start = 0 THEN 0 ELSE cn.ext[i].start + (fblk - ExtOffset(cn, i)),
   run  |-> ExtOffset(cn, i + 1) - fblk]
map_lookup(fs, cn, fblk) ==
  IF cn.root # 0
  THEN TreeMapping(fblk, carafs_etree_floor(fs.blk, cn.root, fblk), carafs_etree_next(fs.blk, cn.root, fblk))
  ELSE IF ExtOf(cn, fblk) = {} THEN [phys |-> 0, run |-> Unbounded]
  ELSE InlineMapping(cn, fblk, CHOOSE i \in ExtOf(cn, fblk) : TRUE)

\* The inline extents move into a tree; holes become absent keys.
carafs_etree_spill(fs, c) ==
  LET cn   == fs.blk[c]
      data == SelectSeq([i \in DOMAIN cn.ext |->
                [key |-> <<ExtOffset(cn, i), 0>>, start |-> cn.ext[i].start, count |-> cn.ext[i].count]],
                LAMBDA r : r.start # 0)
  IN  IfOK(Spill(fs, c, "extent", data), LAMBDA s : CacheWrite(s, c, [s.blk[c] EXCEPT !.ext = << >>]))

SpillInsert(fs, c, fo, start, count) ==
  IfOK(carafs_etree_spill(fs, c), LAMBDA s : carafs_etree_insert(s, c, fo, start, count))

Ext(start, count) == [start |-> start, count |-> count]
Hole(count) == IF count = 0 THEN << >> ELSE << Ext(0, count) >>

\* Records a fresh run in the inline array (changed in the cache only).
With(fs, c, ext) == CacheWrite(fs, c, [fs.blk[c] EXCEPT !.ext = ext])
Spliced(ext, i, parts) == SubSeq(ext, 1, i - 1) \o parts \o SubSeq(ext, i + 1, Len(ext))
\* Past the mapped end: joined to the last run, or appended behind a hole.
AppendRun(fs, c, gap, run) ==
  LET ext  == fs.blk[c].ext
      n    == Len(ext)
      tail == Hole(gap) \o << run >>
  IN  IF gap = 0 /\ n > 0 /\ ext[n].start # 0 /\ ext[n].start + ext[n].count = run.start
      THEN << [ext EXCEPT ![n].count = @ + run.count] >>
      ELSE IF n + Len(tail) > InlineExtents THEN << >> ELSE << ext \o tail >>
\* In a hole: the hole is cut in up to three.
FillHole(fs, c, i, pre, run) ==
  LET ext   == fs.blk[c].ext
      parts == Hole(pre) \o << run >> \o Hole(ext[i].count - pre - run.count)
  IN  IF Len(ext) - 1 + Len(parts) > InlineExtents THEN << >> ELSE << Spliced(ext, i, parts) >>
InlineOrSpill(fs, c, fo, run, ext) ==
  IF ext = << >> THEN SpillInsert(fs, c, fo, run.start, run.count) ELSE With(fs, c, ext[1])
InlineAt(fs, c, fo, run, i) ==
  LET hole == fs.blk[c].ext[i]
      pre  == fo - ExtOffset(fs.blk[c], i)
  IN  IF hole.start # 0 \/ pre + run.count > hole.count THEN Fail(fs, "EINVAL")
      ELSE InlineOrSpill(fs, c, fo, run, FillHole(fs, c, i, pre, run))
inline_insert(fs, c, fo, start, count) ==
  LET end == inline_mapped_end(fs.blk[c])
  IN  IF fo >= end
      THEN InlineOrSpill(fs, c, fo, Ext(start, count), AppendRun(fs, c, fo - end, Ext(start, count)))
      ELSE InlineAt(fs, c, fo, Ext(start, count), CHOOSE i \in ExtOf(fs.blk[c], fo) : TRUE)

\* Maps fblk, allocating up to `want` blocks where there is a hole.
Unmapped(fs) == [fs |-> fs, phys |-> 0, run |-> 0, fresh |-> TRUE]
FreshRun(fs, c, a) ==
  IF ~OK(fs) THEN Unmapped(fs)
  ELSE [fs |-> CacheWrite(fs, c, [fs.blk[c] EXCEPT !.used = @ + a.count]),
        phys |-> a.start, run |-> a.count, fresh |-> TRUE]
RecordRun(a, c, fblk) ==
  IF a.fs.blk[c].root # 0 THEN carafs_etree_insert(a.fs, c, fblk, a.start, a.count)
  ELSE inline_insert(a.fs, c, fblk, a.start, a.count)
FillRun(a, c, fblk) == IF OK(a.fs) THEN FreshRun(RecordRun(a, c, fblk), c, a) ELSE Unmapped(a.fs)
EnsureAt(fs, c, fblk, want, map) ==
  IF map.phys # 0 THEN [fs |-> fs, phys |-> map.phys, run |-> Min({map.run, want}), fresh |-> FALSE]
  ELSE FillRun(carafs_alloc_extent(fs, c, Min({want, map.run})), c, fblk)
ensure_mapped(fs, c, fblk, want) == EnsureAt(fs, c, fblk, want, map_lookup(fs, fs.blk[c], fblk))

DataBlock(cells) == [kind |-> "data", cells |-> cells]
Cells(b) == IF IsKind(b, "data") THEN b.cells ELSE [i \in 1..Bs |-> IF IsKind(b, "zero") THEN 0 ELSE -1]

\* Mutant of Patched: a fresh block keeps what it held before.
PatchedStale(old, boff, src, fresh) ==
  DataBlock([i \in 1..Bs |-> IF i \in (boff + 1)..(boff + Len(src)) THEN src[i - boff] ELSE Cells(old)[i]])

\* The block image after cells were put at offset boff.  A fresh block misses
\* the cache and starts from zeros (CARAFS_GET_ZERO); a cached one keeps its rest.
Patched(old, boff, src, fresh) ==
  DataBlock([i \in 1..Bs |-> IF i \in (boff + 1)..(boff + Len(src)) THEN src[i - boff]
                             ELSE IF fresh THEN 0 ELSE Cells(old)[i]])

\* Copies src to cell offset `off`, a mapped run at a time.
RECURSIVE blocks_write(_, _, _, _)
PartOf(src, boff, todo, b) == SubSeq(src, Max({0, b * Bs - boff}) + 1, Min({ todo, (b + 1) * Bs - boff }))
PutRun(map, boff, src, todo, run) ==
  [map.fs EXCEPT !.blk = [x \in run |-> Patched(@[x], IF x = map.phys THEN boff ELSE 0,
                                                PartOf(src, boff, todo, x - map.phys), map.fresh)] @@ @,
                 !.dirty = @ \cup run]
WriteOn(map, c, off, boff, src, todo) ==
  blocks_write(PutRun(map, boff, src, todo, map.phys..(map.phys + ((boff + todo - 1) \div Bs))),
               c, off + todo, SubSeq(src, todo + 1, Len(src)))
WriteAt(map, c, off, src) ==
  IF ~OK(map.fs) THEN map.fs
  ELSE WriteOn(map, c, off, off % Bs, src, Min({ Len(src), map.run * Bs - (off % Bs) }))
blocks_write(fs, c, off, src) ==
  LET fblk == off \div Bs
      last == (off + Len(src) - 1) \div Bs
  IN  IF src = << >> THEN fs ELSE WriteAt(ensure_mapped(fs, c, fblk, last - fblk + 1), c, off, src)

\* Inline data padded or cut to n cells, with src at off.
InlineData(cur, n, off, src) ==
  [i \in 1..n |-> IF i \in (off + 1)..(off + Len(src)) THEN src[i - off]
                  ELSE IF i <= Len(cur) THEN cur[i] ELSE 0]

WithSize(fs, c, size) == CnodeDirty(fs, c, [fs.blk[c] EXCEPT !.size = size])
Promoted(fs, c, cur) ==
  IfOK(blocks_write(fs, c, 0, cur), LAMBDA g : CacheWrite(g, c, carafs_item_remove(g.blk[c], "data")))
WriteMapped(fs, c, off, src, newsize) ==
  IfOK(IfOK(fs, LAMBDA g : blocks_write(g, c, off, src)), LAMBDA g : WithSize(g, c, newsize))
Carafs_FileWrite(fs, c, off, src) ==
  LET cn      == fs.blk[c]
      newsize == Max({cn.size, off + Len(src)})
      mapped  == cn.root # 0 \/ cn.ext # << >>
      cur     == Item(cn, "data")
  IN  IF carafs_cnode_get(fs, c) # "EOK" THEN Fail(fs, carafs_cnode_get(fs, c))
      ELSE IF cn.type # "file" THEN Fail(fs, "EINVAL")
      ELSE IF ~mapped /\ item_fits(cn, "data", newsize)
      THEN CnodeDirty(fs, c, [SetItem(cn, "data", InlineData(cur, newsize, off, src)) EXCEPT !.size = newsize])
      ELSE WriteMapped(IF mapped THEN fs ELSE Promoted(fs, c, cur), c, off, src, newsize)

\* The cells [off, off + len) of the file, cut at its size.
CellAt(fs, map, i) == IF map.phys = 0 THEN 0 ELSE Cells(fs.blk[map.phys])[(i % Bs) + 1]
Carafs_FileRead(fs, c, off, len) ==
  LET cn == fs.blk[c]
      n  == IF off >= cn.size THEN 0 ELSE Min({len, cn.size - off})
  IN  [k \in 1..n |-> IF HasItem(cn, "data") THEN cn.items["data"][off + k]
                      ELSE CellAt(fs, map_lookup(fs, cn, (off + k - 1) \div Bs), off + k - 1)]

(***************************************************************************)
(* Directories, links and extended attributes.  A directory keeps its      *)
(* entries in its item area until that is full, then in a tree.            *)
(***************************************************************************)
Dirent(name, seq, c, type) ==
  [key |-> <<NameHash[name], seq>>, name |-> name, cnode |-> c, type |-> type]

\* The entries of the name's hash that the lookup reaches.
EqualHash(fs, d, name) ==
  LET cn == fs.blk[d]
      inl == Item(cn, "dirents")
  IN  IF cn.root # 0 THEN ScanRun(fs.blk, cn.root, NameHash[name], 0)
      ELSE { inl[i] : i \in { i \in DOMAIN inl : inl[i].key[1] = NameHash[name] } }

Matches(fs, d, name) == { e \in EqualHash(fs, d, name) : e.name = name }
dir_probe(fs, d, name) == Matches(fs, d, name) # {}
FreeSeqIn(run) == Min({ s \in 0..Cardinality(run) : \A e \in run : e.key[2] # s })
free_seq(fs, d, name) == FreeSeqIn(EqualHash(fs, d, name))
FirstByKey(run) == CHOOSE e \in run : \A f \in run : Leq(e.key, f.key)
dir_find(fs, d, name) == FirstByKey(Matches(fs, d, name))

\* The directory cnode is changed in the cache; the caller dirties it.
dir_insert_entry(fs, d, de) ==
  LET cn  == fs.blk[d]
      inl == Item(cn, "dirents")
      Bare(s) == CacheWrite(s, d, carafs_item_remove(s.blk[d], "dirents"))
  IN  IF cn.root # 0 THEN TreeInsert(fs, d, de)
      ELSE IF item_fits(cn, "dirents", Len(inl) + 1)
      THEN CacheWrite(fs, d, SetItem(cn, "dirents", InsertByKey(inl, de)))
      ELSE IfOK(Spill(fs, d, "dir", inl), LAMBDA s : TreeInsert(Bare(s), d, de))

dir_remove_entry(fs, d, key) ==
  LET cn   == fs.blk[d]
      left == SelectSeq(Item(cn, "dirents"), LAMBDA e : e.key # key)
  IN  IF cn.root # 0 THEN carafs_dtree_remove(fs, d, key)
      ELSE IF left = Item(cn, "dirents") THEN Fail(fs, "ENOTFOUND")
      ELSE CacheWrite(fs, d, IF left = << >> THEN carafs_item_remove(cn, "dirents")
                             ELSE SetItem(cn, "dirents", left))

\* get_dir: what the directory argument of every operation must be.
get_dir(fs, d) ==
  IF carafs_cnode_get(fs, d) # "EOK" THEN carafs_cnode_get(fs, d)
  ELSE IF fs.blk[d].type # "dir" THEN "EINVAL" ELSE "EOK"

\* The object a name leads to, as a sequence of at most one.
FoundIn(run) == IF run = {} THEN << >> ELSE << FirstByKey(run).cnode >>
Carafs_DirLookup(fs, d, name) == IF get_dir(fs, d) = "EOK" THEN FoundIn(Matches(fs, d, name)) ELSE << >>

Resized(fs, d, n) == CnodeDirty(fs, d, [fs.blk[d] EXCEPT !.size = @ + n])

NewEntry(fs, d, c, cn, de) ==
  IfOK(dir_insert_entry(CnodeDirty(fs, c, cn), d, de),
       LAMBDA g : CacheWrite(g, d, [g.blk[d] EXCEPT !.size = @ + 1]))

\* A fresh child cnode with its NAME item, and the entry for it in d.
NamedChild(cn, d, name) == [SetItem(cn, "name", << name >>) EXCEPT !.parent = d]
dir_link_new(fs, d, type, name) ==
  IF dir_probe(fs, d, name) THEN NoRun(fs, "EEXIST")
  ELSE IfGot(carafs_cnode_alloc(fs, type, d), LAMBDA a :
         [a EXCEPT !.fs = NewEntry(a.fs, d, a.start, NamedChild(a.fs.blk[a.start], d, name),
                                   Dirent(name, free_seq(fs, d, name), a.start, type))])

Carafs_DirCreate(fs, d, name, type) ==
  IF get_dir(fs, d) # "EOK" THEN Fail(fs, get_dir(fs, d))
  ELSE Then(dir_link_new(fs, d, type, name), LAMBDA l : CnodeDirty(l.fs, d, l.fs.blk[d]))

PutTarget(fs, c, target) ==
  IF ~item_fits(fs.blk[c], "target", Len(target)) THEN Fail(fs, "EOVERFLOW")
  ELSE CnodeDirty(fs, c, [SetItem(fs.blk[c], "target", target) EXCEPT !.size = Len(target)])
Carafs_DirSymlink(fs, d, name, target) ==
  IF get_dir(fs, d) # "EOK" THEN Fail(fs, get_dir(fs, d))
  ELSE Then(dir_link_new(fs, d, "symlink", name),
            LAMBDA l : PutTarget(CnodeDirty(l.fs, d, l.fs.blk[d]), l.start, target))

\* A hard link: a file only; a second link makes the parent unknown.
Linked(cn) == [cn EXCEPT !.links = @ + 1, !.parent = IF cn.links = 1 THEN 0 ELSE @]
Carafs_DirLink(fs, d, name, t) ==
  IF get_dir(fs, d) # "EOK" THEN Fail(fs, get_dir(fs, d))
  ELSE IF carafs_cnode_get(fs, t) # "EOK" THEN Fail(fs, carafs_cnode_get(fs, t))
  ELSE IF fs.blk[t].type # "file" THEN Fail(fs, "EINVAL")
  ELSE IF dir_probe(fs, d, name) THEN Fail(fs, "EEXIST")
  ELSE IfOK(dir_insert_entry(fs, d, Dirent(name, free_seq(fs, d, name), t, "file")),
            LAMBDA g : Resized(CnodeDirty(g, t, Linked(g.blk[t])), d, 1))

\* The last link takes the object with it; a directory must be empty.
DropLink(fs, c) ==
  IF fs.blk[c].links <= 1 THEN carafs_cnode_free_locked(fs, c)
  ELSE CnodeDirty(fs, c, [fs.blk[c] EXCEPT !.links = @ - 1])
RemoveEntry(fs, d, de) ==
  IF carafs_cnode_get(fs, de.cnode) # "EOK" THEN Fail(fs, carafs_cnode_get(fs, de.cnode))
  ELSE IF fs.blk[de.cnode].type = "dir" /\ fs.blk[de.cnode].size # 0 THEN Fail(fs, "ENOTEMPTY")
  ELSE IfOK(IfOK(dir_remove_entry(fs, d, de.key), LAMBDA g :
              DropLink(CacheWrite(g, d, [g.blk[d] EXCEPT !.size = @ - 1]), de.cnode)),
            LAMBDA g : CnodeDirty(g, d, g.blk[d]))
Carafs_DirRemove(fs, d, name) ==
  IF get_dir(fs, d) # "EOK" THEN Fail(fs, get_dir(fs, d))
  ELSE IF ~dir_probe(fs, d, name) THEN Fail(fs, "ENOENT")
  ELSE RemoveEntry(fs, d, dir_find(fs, d, name))

\* The next entry for a cursor, as a sequence of at most one.
Carafs_DirNext(fs, d, cur) ==
  LET cn   == fs.blk[d]
      inl  == Item(cn, "dirents")
      past == { i \in DOMAIN inl : ~cur.started \/ Less(cur.key, inl[i].key) }
  IN  IF cn.root # 0 THEN carafs_dtree_next(fs.blk, cn.root, cur.key, cur.started)
      ELSE IF past = {} THEN << >> ELSE << inl[Min(past)] >>

(***************************************************************************)
(* Extended attributes: one item, the records packed one after the other.  *)
(* A record is a header cell followed by the cells of its value.           *)
(***************************************************************************)
Header(n, v) == [hd |-> TRUE, name |-> n, len |-> Len(v)]
Record(n, v) == << Header(n, v) >> \o [i \in DOMAIN v |-> [hd |-> FALSE, val |-> v[i]]]

\* Where the record of n starts (counted from 0); the payload's length when absent.
RECURSIVE FindFrom(_, _, _)
FindFrom(p, n, off) ==
  IF off >= Len(p) \/ ~p[off + 1].hd \/ off + 1 + p[off + 1].len > Len(p) THEN Len(p)
  ELSE IF p[off + 1].name = n THEN off
  ELSE FindFrom(p, n, off + 1 + p[off + 1].len)
xattr_find(p, n) == FindFrom(p, n, 0)

\* The value, as a sequence of at most one.
Carafs_XattrGet(fs, c, n) ==
  LET p == Item(fs.blk[c], "xattr")
      off == xattr_find(p, n)
  IN  IF off < Len(p) THEN << [i \in 1..p[off + 1].len |-> p[off + 1 + i].val] >> ELSE << >>

\* The payload with the record at `off` moved over: the tail stays as it was.
GapClosed(p, off) ==
  LET size == 1 + p[off + 1].len
  IN  SubSeq(p, 1, off) \o SubSeq(p, off + size + 1, Len(p)) \o SubSeq(p, Len(p) - size + 1, Len(p))

Carafs_XattrSet(fs, c, n, v) ==
  LET cn   == fs.blk[c]
      p    == Item(cn, "xattr")
      off  == xattr_find(p, n)
      q    == IF off < Len(p) THEN GapClosed(p, off) ELSE p
      base == IF off < Len(p) THEN Len(p) - 1 - p[off + 1].len ELSE Len(p)
      closed == IF q = p THEN fs ELSE CacheWrite(fs, c, SetItem(cn, "xattr", q))
  IN  IF carafs_cnode_get(fs, c) # "EOK" THEN Fail(fs, carafs_cnode_get(fs, c))
      ELSE IF ~item_fits(cn, "xattr", base + 1 + Len(v)) THEN Fail(closed, "EOVERFLOW")
      ELSE CnodeDirty(closed, c, SetItem(cn, "xattr", SubSeq(q, 1, base) \o Record(n, v)))

Carafs_XattrRemove(fs, c, n) ==
  LET cn   == fs.blk[c]
      p    == Item(cn, "xattr")
      off  == xattr_find(p, n)
      base == Len(p) - 1 - p[off + 1].len
  IN  IF carafs_cnode_get(fs, c) # "EOK" THEN Fail(fs, carafs_cnode_get(fs, c))
      ELSE IF off >= Len(p) THEN Fail(fs, "ENOENT")
      ELSE CnodeDirty(fs, c, IF base = 0 THEN carafs_item_remove(cn, "xattr")
                             ELSE SetItem(cn, "xattr", SubSeq(GapClosed(p, off), 1, base)))
=============================================================================
