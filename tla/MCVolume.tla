-------------------------------- MODULE MCVolume --------------------------------
(***************************************************************************)
(* A small CaraFS volume.  Each behaviour follows one of four workloads, so *)
(* that the run's size is the sum of theirs and not the product: entries    *)
(* coming and going under an iteration, links and subdirectories, file      *)
(* contents, and attributes with symbolic links.                            *)
(***************************************************************************)
EXTENDS CarafsVolume

CONSTANT Loads      \* the workloads of the run

VARIABLE load
mcvars == << vars, load >>

\* Two names collide on the least hash.
MCHash == [n \in Names |-> CASE n = "a" -> 1 [] n = "b" -> 1 [] n = "c" -> 2 [] n = "d" -> 3 [] n = "e" -> 4]
\* Two names collide on a hash that is not the least.
MCHashHigh == [n \in Names |-> CASE n = "a" -> 2 [] n = "b" -> 2 [] n = "c" -> 1 [] n = "d" -> 1 [] n = "e" -> 3]
MCWrites == { [off |-> 1, src |-> <<2, 2, 2>>], [off |-> 6, src |-> <<3>>], [off |-> 10, src |-> <<4, 4>>] }
MCAttrValues == { << >>, <<7>>, <<8>> }
MCTargets == { <<9>>, <<9, 9>> }

MCInit == Init /\ load \in Loads

\* The interesting removals are those from a directory that has a tree.
EntriesLoad ==
  /\ load = "entries"
  /\ \/ \E n \in Names : DirCreate(RootCnode, n, "file")
     \/ /\ deletes > 0 \/ fs.blk[RootCnode].size >= 4
        /\ \E n \in Names : DirRemove(RootCnode, n)
     \/ /\ cursor.started \/ (fs.blk[RootCnode].size >= 3 /\ deletes = 0)
        /\ DirNext
LinksLoad ==
  /\ load = "links"
  /\ \/ \E d \in Dirs, n \in {"a", "c"} :
          \/ \E type \in Types :
               /\ type = "dir" => Cardinality(Dirs) < 2
               /\ type = "file" => Cardinality(Files) < 2
               /\ DirCreate(d, n, type)
          \/ \E t \in Files : DirLink(d, n, t)
          \/ DirRemove(d, n)
FilesLoad ==
  /\ load = "files"
  /\ \/ CnodeCreate /\ Cardinality(Files) < 2
     \/ \E c \in Files : (deletes = 0 /\ CnodeDelete(c)) \/ \E w \in Writes : FileWrite(c, w) /\ (c = Min(Files) \/ w.off = 6)

AttrsLoad ==
  /\ load = "attrs"
  /\ \/ \E t \in Targets : DirSymlink(RootCnode, "a", t)
     \/ DirRemove(RootCnode, "a")
     \/ \E c \in Cnodes(fs.blk), n \in {"a", "c"} :
          XattrRemove(c, n) \/ \E v \in AttrValues : XattrSet(c, n, v)

MCNext == (EntriesLoad \/ LinksLoad \/ FilesLoad \/ AttrsLoad) /\ UNCHANGED load
MCSpec == MCInit /\ [][MCNext]_mcvars

\* Nothing is claimed of what follows a write that failed half way.
WholeWrites == load = "files" => whole
=============================================================================
