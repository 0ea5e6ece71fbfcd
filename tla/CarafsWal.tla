----------------------------- MODULE CarafsWal -----------------------------
(***************************************************************************)
(* CaraFS's write-ahead log and block cache (src/logaic/carafs/journal.c,  *)
(* cache.c) under mount, sync, unmount and the operation bracket           *)
(* (mount.c), with crashes and device errors.                              *)
(*                                                                         *)
(*   dev    the device: per block, the values written to it since the last *)
(*          flush, oldest first, after the one that is durable.  A read    *)
(*          returns the newest; a crash keeps any one of them; a flush     *)
(*          keeps the newest.                                              *)
(*   cache  the entries that differ from the device: their value and       *)
(*          CARAFS_ENT_DIRTY.  A clean entry that equals the device and    *)
(*          an absent one are not told apart.                              *)
(*   mnt    struct CarafsMount: the log's j_head, j_head_seq, j_tail and   *)
(*          j_next_seq, sb, sb_at_txn, and txn, the entries with           *)
(*          CARAFS_ENT_TXN                                                 *)
(*   pc     the flush the code is about to make, "up" between operations,  *)
(*          "op" inside one, "down" when not mounted; ret is where a       *)
(*          checkpoint goes on                                             *)
(*   vol    the volume as its user sees it: what each block holds by the   *)
(*          operations that were acknowledged (acked), and with the one in *)
(*          progress (doing); the operations begun (op); cut: one was cut  *)
(*          short in the log and none was committed since; reused: the     *)
(*          blocks that went from metadata to file data; the crashes and   *)
(*          faults so far; and plain                                       *)
(*                                                                         *)
(* plain is lost by what the log is known not to survive: an operation     *)
(* that is rolled back after it changed metadata, two that are cut short   *)
(* in the log with no commit between, a JSB write that fails at a          *)
(* checkpoint, a crash inside an append that makes room, and a log that is *)
(* filled exactly (its tail is then its head, as when empty).              *)
(*                                                                         *)
(* The value of a block is the number of the operation that wrote it.  A   *)
(* block is written atomically (its CRC tells).                            *)
(***************************************************************************)
EXTENDS Integers, FiniteSets, Sequences, SequencesExt, FiniteSetsExt

CONSTANTS
  LogBlocks,   \* j_log_blocks, the journal region without its JSB
  FirstHead,   \* where the log of the volume starts: it was used before
  Meta, Data,  \* block numbers that hold metadata, and file data, at first
  Reusable,    \* metadata blocks that may be freed and reused for file data
  InPlace,     \* metadata blocks an operation changes before txn_dirty
  FaultAt,     \* the flushes (values of pc) that may report an error
  MaxOps, MaxCrashes, MaxFaults

\* Block 0 is the superblock, block 1 the JSB, the log follows.
Sb == 0
JsbBlock == 1
j_phys(off) == JsbBlock + off
Home == {Sb} \cup Meta \cup Data
Addr == Home \cup (JsbBlock..j_phys(LogBlocks))

\* carafs_geometry: the log holds more than one maximal transaction.
ASSUME WalAssumption ==
  /\ LogBlocks \in Nat /\ LogBlocks >= Cardinality(Meta) + 1 + 4
  /\ FirstHead \in 1..LogBlocks
  /\ Meta \cap Data = {} /\ Reusable \subseteq Meta /\ InPlace \subseteq Meta
  /\ \A b \in Meta \cup Data : b \in Nat /\ b > j_phys(LogBlocks)
  /\ MaxOps \in Nat /\ MaxCrashes \in Nat /\ MaxFaults \in Nat

VARIABLES dev, cache, mnt, pc, ret, vol

walVars == <<dev, cache, mnt, pc, ret, vol>>

-----------------------------------------------------------------------------
(* The device.                                                             *)

Val(n) == [n |-> n, state |-> "-"]
SbVal(n, state) == [n |-> n, state |-> state]

Read(d, a) == Last(d[a])
Write(d, a, v) == [d EXCEPT ![a] = IF Last(@) = v THEN @ ELSE Append(@, v)]
Flush(d) == [a \in Addr |-> <<Last(d[a])>>]

\* Every block of f, a function of blocks to values.
WriteAll(d, f) ==
  [a \in Addr |-> IF a \in DOMAIN f /\ Last(d[a]) # f[a] THEN Append(d[a], f[a]) ELSE d[a]]

\* What a power failure may leave.
Unsettled(d) == {a \in Addr : Len(d[a]) > 1}
CrashImages(d) ==
  LET longest == Max({Len(d[a]) : a \in Addr})
      picks   == {p \in [Unsettled(d) -> 1..longest] : \A a \in DOMAIN p : p[a] <= Len(d[a])}
  IN  {[a \in Addr |-> IF a \in DOMAIN p THEN <<d[a][p[a]]>> ELSE d[a]] : p \in picks}

-----------------------------------------------------------------------------
(* The cache.                                                              *)

NoEnt == [v |-> Val(-1), dirty |-> FALSE]
Cached(b) == cache[b] # NoEnt
\* carafs_cache_get and a read of the block.
View(b) == IF Cached(b) THEN cache[b].v ELSE Read(dev, b)

Empty == [b \in Home |-> NoEnt]
Dirty == {b \in Home : cache[b].dirty}
Images(S) == [b \in S |-> cache[b].v]
\* ent_writeback of the blocks in S: they are clean now.
Cleaned(c, S) == [b \in Home |-> IF b \in S THEN NoEnt ELSE c[b]]

-----------------------------------------------------------------------------
(* The log.                                                                *)

\* j_adv
Adv(off, k) == ((off + k - 1) % LogBlocks) + 1
\* j_used
Used(m) == IF m.tail >= m.head THEN m.tail - m.head ELSE m.tail + LogBlocks - m.head
Need(m) == Cardinality(m.txn) + 2

Blank == <<"blank">>
Desc(seq, targets) == <<"desc", seq, targets>>
Image(v) == <<"image", v>>
\* The CRC chained over the images stands for the images themselves.
Commit(seq, images) == <<"commit", seq, images>>

\* carafs_journal_append: DESC, the images, COMMIT.
LogWrites(d, m, value) ==
  LET targets == SetToSortSeq(m.txn, <)
      n       == Len(targets)
      images  == [i \in 1..n |-> value[targets[i]]]
      block(i) == IF i = 0 THEN Desc(m.next, targets)
                  ELSE IF i <= n THEN Image(images[i]) ELSE Commit(m.next, images)
      offs    == {Adv(m.tail, i) : i \in 0..n + 1}
  IN  WriteAll(d, [a \in {j_phys(o) : o \in offs} |->
                     block(CHOOSE i \in 0..n + 1 : j_phys(Adv(m.tail, i)) = a)])

\* One round of carafs_journal_replay at r.off: a complete transaction is
\* written home and passed over.
Targets(d, off) == Read(d, j_phys(off))[3]
ImagesAt(d, off, n) == [i \in 1..n |-> Read(d, j_phys(Adv(off, i)))[2]]

\* A block that is no image has no place in the chained CRC.
IsImages(d, off, n) == \A i \in 1..n : Read(d, j_phys(Adv(off, i)))[1] = "image"

\* Mutant of Complete: the COMMIT is accepted by its sequence number alone.
CompleteBySeq(d, off, seq) ==
  /\ Read(d, j_phys(off))[1] = "desc"
  /\ Read(d, j_phys(off))[2] = seq
  /\ LET n == Len(Targets(d, off))
         c == Read(d, j_phys(Adv(off, n + 1)))
     IN  IsImages(d, off, n) /\ c[1] = "commit" /\ c[2] = seq

Complete(d, off, seq) ==
  /\ Read(d, j_phys(off))[1] = "desc"
  /\ Read(d, j_phys(off))[2] = seq
  /\ LET n == Len(Targets(d, off))
     IN  /\ IsImages(d, off, n)
         /\ Read(d, j_phys(Adv(off, n + 1))) = Commit(seq, ImagesAt(d, off, n))

ReplayRound(r) ==
  IF ~Complete(r.d, r.off, r.seq) THEN r
  ELSE LET targets == Targets(r.d, r.off)
           n       == Len(targets)
           images  == ImagesAt(r.d, r.off, n)
       IN  [d   |-> WriteAll(r.d, [b \in ToSet(targets) |->
                                      images[CHOOSE i \in 1..n : targets[i] = b]]),
            off |-> Adv(r.off, n + 2),
            seq |-> r.seq + 1]

\* The whole of carafs_journal_replay's loop.
Replay(d) ==
  LET jsb == Read(d, JsbBlock)
      after[i \in 0..LogBlocks] ==
        IF i = 0 THEN [d |-> d, off |-> jsb.head, seq |-> jsb.seq]
        ELSE ReplayRound(after[i - 1])
  IN  after[LogBlocks]

JsbWrite(d, m) == Write(d, JsbBlock, [head |-> m.head, seq |-> m.hseq])

-----------------------------------------------------------------------------
(* A volume that was unmounted: CLEAN, with an empty log.  What is left in *)
(* the log has older sequence numbers, which replay does not accept.       *)

NoMount ==
  [head |-> FirstHead, hseq |-> 1, tail |-> FirstHead, next |-> 1,
   sb |-> SbVal(0, "CLEAN"), sb_at_txn |-> SbVal(0, "CLEAN"), txn |-> {}]

Role(b) == IF b \in Data THEN "data" ELSE "meta"
Expect0 == [b \in Home |-> [n |-> 0, role |-> Role(b)]]

WalInit ==
  /\ dev = [a \in Addr |->
              IF a = Sb THEN <<SbVal(0, "CLEAN")>>
              ELSE IF a = JsbBlock THEN <<[head |-> FirstHead, seq |-> 1]>>
              ELSE IF a \in Home THEN <<Val(0)>> ELSE <<Blank>>]
  /\ cache = Empty
  /\ mnt = NoMount
  /\ pc = "down" /\ ret = "-"
  /\ vol = [acked |-> Expect0, doing |-> Expect0, op |-> 0, cut |-> FALSE,
            plain |-> TRUE, reused |-> {}, crashes |-> 0, faults |-> 0]

-----------------------------------------------------------------------------
(* Carafs_Mount.                                                           *)

\* The blocks that hold metadata by e hold what e says; so do those that hold
\* file data, which a later write that was not committed may have changed.
MetaMatches(d, e) ==
  \A b \in Home : e[b].role = "meta" => Read(d, b).n = e[b].n
DataMatches(d, e, blocks) ==
  \A b \in blocks : e[b].role = "data" => Read(d, b).n >= e[b].n

\* What the user of a volume that was just mounted finds there: the
\* acknowledged operations, perhaps with the one under way.
Recovered(d) ==
  LET e == IF MetaMatches(d, vol.doing) THEN vol.doing ELSE vol.acked
  IN  [vol EXCEPT !.acked = e, !.doing = e,
                  !.cut = @ /\ ~(vol.acked # vol.doing /\ e = vol.doing)]

MountClean ==
  /\ pc = "down"
  /\ Read(dev, Sb).state = "CLEAN"
  /\ LET jsb == Read(dev, JsbBlock)
     IN  mnt' = [NoMount EXCEPT !.sb = Read(dev, Sb), !.head = jsb.head, !.tail = jsb.head,
                                !.hseq = jsb.seq, !.next = jsb.seq]
  /\ pc' = "up"
  /\ cache' = Empty
  /\ vol' = Recovered(dev)
  /\ UNCHANGED <<dev, ret>>

\* Replay: its writes, then a flush, then the JSB, then the superblock.
MountDirty ==
  /\ pc = "down"
  /\ Read(dev, Sb).state = "DIRTY"
  /\ dev' = Replay(dev).d
  /\ LET r == Replay(dev)
     IN  mnt' = [NoMount EXCEPT !.head = r.off, !.tail = r.off, !.hseq = r.seq, !.next = r.seq]
  /\ pc' = "replay" /\ ret' = "mount"
  /\ cache' = Empty
  /\ UNCHANGED vol

ReplayFlushed ==
  /\ pc = "replay"
  /\ dev' = JsbWrite(Flush(dev), mnt)
  /\ pc' = "jsb"
  /\ UNCHANGED <<cache, mnt, ret, vol>>

-----------------------------------------------------------------------------
(* Carafs_Sync, Carafs_Unmount and carafs_journal_checkpoint: every dirty  *)
(* block home, flush; head to tail, JSB, flush; back to the caller.        *)

\* carafs_cache_sync up to its flush.
SyncsCache(d, S) ==
  /\ dev' = WriteAll(d, Images(S))
  /\ cache' = Cleaned(cache, S)

Sync ==
  /\ pc = "up"
  /\ SyncsCache(dev, Dirty)
  /\ pc' = "ckpt" /\ ret' = "up"
  /\ UNCHANGED <<mnt, vol>>

Unmount ==
  /\ pc = "up"
  /\ SyncsCache(dev, Dirty)
  /\ pc' = "ckpt" /\ ret' = "unmount"
  /\ UNCHANGED <<mnt, vol>>

\* Mutant of CkptFlushed: the log is dropped before the home writes are durable.
CkptNotFlushed ==
  /\ pc = "ckpt"
  /\ mnt' = [mnt EXCEPT !.head = mnt.tail, !.hseq = mnt.next]
  /\ dev' = JsbWrite(dev, mnt')
  /\ pc' = "jsb"
  /\ UNCHANGED <<cache, ret, vol>>

CkptFlushed ==
  /\ pc = "ckpt"
  /\ mnt' = [mnt EXCEPT !.head = mnt.tail, !.hseq = mnt.next]
  /\ dev' = JsbWrite(Flush(dev), mnt')
  /\ pc' = "jsb"
  /\ UNCHANGED <<cache, ret, vol>>

\* The JSB is durable: to the append that made room, to the superblock of a
\* mount or an unmount, or back to the user.
JsbFlushed ==
  /\ pc = "jsb"
  /\ LET d == Flush(dev) IN
     \/ /\ ret = "append"
        /\ dev' = LogWrites(d, mnt, [b \in Home |-> View(b)])
        /\ pc' = "log"
        /\ UNCHANGED mnt
     \/ /\ ret = "up"
        /\ dev' = d
        /\ pc' = "up"
        /\ UNCHANGED mnt
     \/ /\ ret = "unmount" /\ mnt.sb.state = "CLEAN"
        /\ dev' = d
        /\ pc' = "down"
        /\ UNCHANGED mnt
     \/ /\ ret = "unmount" /\ mnt.sb.state = "DIRTY"
        /\ mnt' = [mnt EXCEPT !.sb.state = "CLEAN"]
        /\ dev' = Write(d, Sb, mnt'.sb)
        /\ pc' = "clean"
     \/ /\ ret = "mount"
        /\ mnt' = [mnt EXCEPT !.sb = SbVal(Read(d, Sb).n, "CLEAN")]
        /\ dev' = Write(d, Sb, mnt'.sb)
        /\ pc' = "clean"
  /\ UNCHANGED <<cache, ret, vol>>

\* sb_write_direct's flush, at the end of a mount or an unmount.
CleanFlushed ==
  /\ pc = "clean"
  /\ dev' = Flush(dev)
  /\ IF ret = "mount" THEN pc' = "up" /\ vol' = Recovered(dev)
     ELSE pc' = "down" /\ UNCHANGED vol
  /\ UNCHANGED <<cache, mnt, ret>>

-----------------------------------------------------------------------------
(* An operation: carafs_op_begin, its changes, carafs_op_commit or         *)
(* carafs_op_abort.                                                        *)

Begun == [vol EXCEPT !.op = @ + 1, !.doing = [vol.acked EXCEPT ![Sb].n = vol.op + 1]]
InTxn(m) == [m EXCEPT !.sb_at_txn = m.sb, !.txn = {}]

OpBegin ==
  /\ pc = "up" /\ vol.op < MaxOps
  /\ vol' = Begun
  /\ IF mnt.sb.state = "DIRTY"
     THEN /\ mnt' = InTxn(mnt)
          /\ pc' = "op"
          /\ UNCHANGED dev
     ELSE /\ mnt' = [mnt EXCEPT !.sb.state = "DIRTY"]
          /\ dev' = Write(dev, Sb, mnt'.sb)
          /\ pc' = "dirty"
  /\ UNCHANGED <<cache, ret>>

\* carafs_mark_dirty is durable before the operation starts.
DirtyFlushed ==
  /\ pc = "dirty"
  /\ dev' = Flush(dev)
  /\ mnt' = InTxn(mnt)
  /\ pc' = "op"
  /\ UNCHANGED <<cache, ret, vol>>

Doing(b, role) == vol' = [vol EXCEPT !.doing[b] = [n |-> vol.op, role |-> role]]

\* A change of a metadata block and carafs_txn_dirty.
OpDirties ==
  /\ pc = "op"
  /\ \E b \in Meta \ mnt.txn :
       /\ vol.doing[b].role = "meta"
       /\ cache' = [cache EXCEPT ![b] = [v |-> Val(vol.op), dirty |-> TRUE]]
       /\ mnt' = [mnt EXCEPT !.txn = @ \cup {b}]
       /\ \E role \in {"meta"} \cup (IF b \in Reusable THEN {"free"} ELSE {}) : Doing(b, role)
  /\ UNCHANGED <<dev, pc, ret>>

\* A change of a pinned metadata block that is not yet in the transaction
\* (Carafs_FileWrite and its helpers on the cnode).
OpTouches ==
  /\ pc = "op"
  /\ \E b \in InPlace \ mnt.txn : cache' = [cache EXCEPT ![b].v = Val(vol.op)]
  /\ UNCHANGED <<dev, mnt, pc, ret, vol>>

\* blocks_write of one file block; a block that was freed before is dropped
\* from the cache when it is allocated.
OpWritesData ==
  /\ pc = "op"
  /\ \E b \in Data \cup Reusable :
       /\ vol.acked[b].role \in {"data", "free"} /\ b \notin mnt.txn
       /\ cache' = [cache EXCEPT ![b] = [v |-> Val(vol.op), dirty |-> TRUE]]
       /\ vol' = [vol EXCEPT !.doing[b] = [n |-> vol.op, role |-> "data"],
                             !.reused = @ \cup ({b} \cap Reusable)]
  /\ UNCHANGED <<dev, mnt, pc, ret>>

\* ent_obtain takes the coldest entry that is not pinned and not in the
\* transaction, so never the one last used: of the file blocks an operation
\* writes, one is still cached when it commits.
Evictable(b) ==
  /\ Cached(b) /\ b \notin mnt.txn
  /\ pc = "op" /\ cache[b].v.n = vol.op =>
       /\ vol.doing[b].role = "data"
       /\ \E c \in Dirty \ {b} : vol.doing[c] = [n |-> vol.op, role |-> "data"]

\* Mutant of Evict: the victim is dropped without being written back.
EvictDrops ==
  /\ pc \in {"up", "op"}
  /\ \E b \in Home :
       /\ Evictable(b)
       /\ cache' = [cache EXCEPT ![b] = NoEnt]
  /\ UNCHANGED <<dev, mnt, pc, ret, vol>>

Evict ==
  /\ pc \in {"up", "op"}
  /\ \E b \in Home :
       /\ Evictable(b)
       /\ dev' = IF cache[b].dirty THEN Write(dev, b, cache[b].v) ELSE dev
       /\ cache' = [cache EXCEPT ![b] = NoEnt]
  /\ UNCHANGED <<mnt, pc, ret, vol>>

-----------------------------------------------------------------------------
(* carafs_op_commit: the superblock joins the transaction; file data home  *)
(* and flushed; the log written and flushed; the entries released.         *)

\* carafs_journal_append, after the data is durable (d).
AppendStarts(d, c, m) ==
  LET value    == [b \in Home |-> IF c[b] = NoEnt THEN Read(d, b) ELSE c[b].v]
      dirty    == {b \in Home : c[b].dirty}
  IN  IF Used(m) + Need(m) > LogBlocks
      THEN /\ dev' = WriteAll(d, [b \in dirty |-> c[b].v])
           /\ cache' = Cleaned(c, dirty)
           /\ pc' = "ckpt" /\ ret' = "append"
      ELSE /\ dev' = LogWrites(d, m, value)
           /\ cache' = c
           /\ pc' = "log" /\ UNCHANGED ret

\* Mutant of OpCommit: the log is written while file data is still dirty.
OpCommitDataLater ==
  /\ pc = "op" /\ mnt.txn # {}
  /\ mnt' = [mnt EXCEPT !.sb.n = vol.op, !.txn = @ \cup {Sb}]
  /\ UNCHANGED vol
  /\ AppendStarts(dev, [cache EXCEPT ![Sb] = [v |-> mnt'.sb, dirty |-> TRUE]], mnt')

OpCommit ==
  /\ pc = "op" /\ mnt.txn # {}
  /\ \A b \in InPlace \ mnt.txn : cache[b].v = Val(vol.op) => vol.doing[b].role = "data"
  /\ mnt' = [mnt EXCEPT !.sb.n = vol.op, !.txn = @ \cup {Sb}]
  /\ UNCHANGED vol
  /\ LET c == [cache EXCEPT ![Sb] = [v |-> mnt'.sb, dirty |-> TRUE]]
         S == {b \in Home : c[b].dirty} \ mnt'.txn
     IN  IF S = {} THEN AppendStarts(dev, c, mnt')
         ELSE /\ dev' = WriteAll(dev, Images(S))
              /\ cache' = Cleaned(c, S)
              /\ pc' = "data" /\ UNCHANGED ret

\* Mutant of DataFlushed: the log is written without a flush of the data.
DataNotFlushed ==
  /\ pc = "data"
  /\ AppendStarts(dev, cache, mnt)
  /\ UNCHANGED <<mnt, vol>>

DataFlushed ==
  /\ pc = "data"
  /\ AppendStarts(Flush(dev), cache, mnt)
  /\ UNCHANGED <<mnt, vol>>

\* The transaction is durable.
LogFlushed ==
  /\ pc = "log"
  /\ mnt' = [mnt EXCEPT !.tail = Adv(@, Need(mnt)), !.next = @ + 1, !.txn = {}]
  /\ vol' = [vol EXCEPT !.acked = vol.doing, !.cut = FALSE,
                        !.plain = @ /\ mnt'.tail # mnt.head]
  /\ ret' = "up"
  /\ IF Used(mnt') >= LogBlocks \div 2
     THEN SyncsCache(Flush(dev), Dirty) /\ pc' = "ckpt"
     ELSE dev' = Flush(dev) /\ pc' = "up" /\ UNCHANGED cache

\* carafs_op_abort: the transaction's entries are dropped.
RollsBack ==
  /\ cache' = Cleaned(cache, mnt.txn)
  /\ mnt' = [mnt EXCEPT !.txn = {}, !.sb = mnt.sb_at_txn]
  /\ pc' = "up"

Aborted ==
  [vol EXCEPT !.doing = vol.acked,
              !.plain = @ /\ mnt.txn = {} /\ \A b \in InPlace : cache[b].v # Val(vol.op)]

\* The operation fails by itself (a full volume, a name that exists).
OpAbort ==
  /\ pc = "op"
  /\ RollsBack
  /\ vol' = Aborted
  /\ UNCHANGED <<dev, ret>>

-----------------------------------------------------------------------------
(* Device errors: the flush the code is at returns one, or the write of    *)
(* the one block, JSB or superblock, before it.                            *)

MayFail == vol.faults < MaxFaults /\ pc \in FaultAt
WrittenBefore == CASE pc = "jsb" -> {JsbBlock} [] pc \in {"dirty", "clean"} -> {Sb}
                   [] OTHER -> {}
FlushOrWriteFails ==
  \/ UNCHANGED dev
  \/ \E a \in WrittenBefore : dev' = [dev EXCEPT ![a] = IF Len(@) > 1 THEN Front(@) ELSE @]

Faulty(v) == [v EXCEPT !.faults = @ + 1]

CommitFails ==
  /\ MayFail /\ FlushOrWriteFails
  /\ pc \in {"data", "log"} \/ (pc \in {"ckpt", "jsb"} /\ ret = "append")
  /\ RollsBack
  /\ vol' = Faulty(Aborted)
  /\ UNCHANGED <<ret>>

\* After a commit the error is ignored; Sync and Unmount return it, and the
\* volume stays mounted.
CheckpointFails ==
  /\ MayFail /\ FlushOrWriteFails
  /\ \/ pc \in {"ckpt", "jsb"} /\ ret \in {"up", "unmount"}
     \/ pc = "clean" /\ ret = "unmount"
  /\ pc' = "up"
  /\ vol' = Faulty([vol EXCEPT !.plain = @ /\ pc # "jsb"])
  /\ UNCHANGED <<cache, mnt, ret>>

DirtyFails ==
  /\ MayFail /\ FlushOrWriteFails
  /\ pc = "dirty"
  /\ mnt' = [mnt EXCEPT !.sb.state = "CLEAN"]
  /\ pc' = "up"
  /\ vol' = Faulty([vol EXCEPT !.doing = vol.acked])
  /\ UNCHANGED <<cache, ret>>

MountFails ==
  /\ MayFail /\ FlushOrWriteFails
  /\ pc \in {"replay", "jsb", "clean"} /\ ret = "mount"
  /\ pc' = "down"
  /\ vol' = Faulty(vol)
  /\ UNCHANGED <<cache, mnt, ret>>

\* Power fails.
Crash ==
  /\ vol.crashes < MaxCrashes
  /\ dev' \in CrashImages(dev)
  /\ cache' = Empty /\ mnt' = NoMount
  /\ pc' = "down" /\ ret' = "-"
  /\ vol' = [vol EXCEPT !.crashes = @ + 1, !.cut = @ \/ pc = "log",
                        !.plain = @ /\ ret # "append" /\ ~(vol.cut /\ pc = "log")]

WalNext ==
  \/ MountClean \/ MountDirty \/ ReplayFlushed
  \/ Sync \/ Unmount \/ CkptFlushed \/ JsbFlushed \/ CleanFlushed
  \/ OpBegin \/ DirtyFlushed \/ OpDirties \/ OpTouches \/ OpWritesData \/ Evict
  \/ OpCommit \/ DataFlushed \/ LogFlushed \/ OpAbort
  \/ CommitFails \/ CheckpointFails \/ DirtyFails \/ MountFails
  \/ Crash

WalSpec == WalInit /\ [][WalNext]_walVars

-----------------------------------------------------------------------------
(* Properties.                                                             *)

Mounts == pc' = "up" /\ (pc = "down" \/ (pc = "clean" /\ ret = "mount"))

\* "A crash shows either the old metadata or new metadata": after a crash at
\* any point of any call, and after further crashes while mounting, a plain
\* volume that is mounted holds every acknowledged operation, and of the one
\* that was under way all of its metadata or none.
RecoversAtomically ==
  [][Mounts /\ vol'.plain =>
       MetaMatches(dev', vol.acked) \/ MetaMatches(dev', vol.doing)]_walVars

\* data=ordered: file data that the recovered metadata refers to was written,
\* for blocks that never held metadata.
DataOrdered ==
  [][Mounts /\ vol'.plain => DataMatches(dev', vol'.acked, Home \ vol.reused)]_walVars

\* Between operations a read returns what the last acknowledged operation on
\* the block wrote, whatever was evicted, checkpointed or replayed meanwhile.
ReadsCommitted ==
  pc = "up" /\ vol.plain =>
    \A b \in Home : vol.acked[b].role = "meta" => View(b).n = vol.acked[b].n

-----------------------------------------------------------------------------
\* The invariant and the properties are about plain volumes, and a volume that
\* is not plain does not become so again: what happens to it later need not be
\* explored.
PlainOnly == vol.plain
=============================================================================
