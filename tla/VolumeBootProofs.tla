-------------------------- MODULE VolumeBootProofs --------------------------
(***************************************************************************)
(* What a user has written survives every later boot, and a boot ends as it  *)
(* should (VolumeSurvives), for any number of power cuts and I/O errors, on  *)
(* devices that write through and on devices that hold writes back, also when *)
(* a cut leaves a block half written.  No disk holds a volume at first.       *)
(*                                                                         *)
(* VolumeSurvives is not inductive.  That a disk in use is never formatted     *)
(* rests on what reaches the media: once a user has written, superblock and    *)
(* journal are sound on the media itself, and nothing in the device's cache    *)
(* can make them unsound, whichever part of it a cut lets through, because the *)
(* superblocks do not tear and nothing else of the volume is being written.    *)
(***************************************************************************)
EXTENDS VolumeBoot, TLAPS

InUse == {"clean", "dirty"}

Steps ==
  {"off", "find", "gpt", "mount", "replayed", "mkfs", "mounted", "novolume", "seedS", "seedSeq", "seedText", "startup",
   "cmdDir", "cmdRemove", "cmdCreate", "cmdWrite", "up"}
BeforeMount == {"find", "gpt", "mount", "replayed", "mkfs", "mounted", "novolume"}
AfterStartup == {"cmdDir", "cmdRemove", "cmdCreate", "cmdWrite", "up"}

(* What the system writes into a region. *)
Written(r, v) == IF r = "sb" THEN v \in InUse ELSE v = "ours"

DeviceOK ==
  /\ disk = [r \in Regions |-> disk[r]]
  /\ pend = [r \in DOMAIN pend |-> pend[r]] /\ DOMAIN pend \subseteq Regions
  /\ \A r \in DOMAIN pend : Written(r, pend[r])

Dirs == {"none", "dir"}
Scripts == {"none", "empty", "seeded"}
Binaries == {"none", "empty", "whole"}
VolType == [S : Dirs, seq : Scripts, C : Dirs, cmd : Binaries, user : BOOLEAN]
VolOK == vol \in VolType

Answers == {"unknown", "yes", "no"}
BootType ==
  [pc : Steps, i : Int, cached : BOOLEAN, mounted : BOOLEAN, formatted : BOOLEAN, wb : Answers, ok : BOOLEAN,
   cuts : Int, errors : Int]
BootOK == boot \in BootType /\ boot.i \in 1 .. 6 /\ (boot.pc = "gpt" => boot.i <= 5)

(* What is mounted can be mounted; until then nothing is; the Workbench is     *)
(* decided on once the startup script was read.                               *)
PhaseOK ==
  /\ boot.pc \in BeforeMount => ~boot.mounted
  /\ boot.pc \in AfterStartup => boot.wb = "yes"
  /\ boot.pc # "off" /\ (boot.mounted \/ boot.pc \in {"replayed", "mounted"}) => Mountable

(* A volume that mounts and has its allocation map and root directory. *)
Sound(d) == d["sb"] \in InUse /\ d["jsb"] = "ours" /\ Whole(d)

(* The device's cache holds no part of a new volume's layout. *)
NoLayout(p) == "map" \notin DOMAIN p /\ "root" \notin DOMAIN p

(* Once a user has written, the media hold a sound volume. *)
UserOK == vol.user => Sound(disk) /\ NoLayout(pend) /\ boot.pc # "mkfs"

(* On a device that writes through, a superblock says that the volume is sound: *)
(* mkfs has written all the rest before it.                                    *)
MkfsWrote ==
  /\ boot.i > 1 => disk["jsb"] = "ours"
  /\ boot.i > 2 => disk["map"] = "ours"
  /\ boot.i > 3 => disk["root"] = "ours"
  /\ boot.i < 6 => disk["sb"] \notin InUse
ThroughOK ==
  ~boot.cached =>
    /\ DOMAIN pend \subseteq {"jsb"}
    /\ disk["sb"] \in InUse => Sound(disk)
    /\ boot.pc = "mkfs" => MkfsWrote

(* As long as nothing failed, every step of the seeding finds what the one      *)
(* before it left.                                                             *)
CommandOK ==
  boot.ok =>
    /\ boot.pc \in {"cmdRemove", "cmdCreate", "cmdWrite"} => vol.C = "dir"
    /\ boot.pc = "cmdCreate" => vol.cmd = "none"
    /\ boot.pc = "up" /\ boot.mounted => vol.C = "dir" /\ vol.cmd = "whole"

BootInv == DeviceOK /\ VolOK /\ BootOK /\ PhaseOK /\ UserOK /\ ThroughOK /\ CommandOK

(* The machines spoken of: no disk comes with a superblock of ours. *)
FreshMachines ==
  /\ Caches \subseteq BOOLEAN
  /\ \A d \in Disks : d = [r \in Regions |-> d[r]] /\ d["sb"] \notin InUse

-----------------------------------------------------------------------------
(* The device.                                                             *)

(* A read gives the pending write, or what is on the media. *)
LEMMA ViewReads ==
  ASSUME NEW p, NEW d
  PROVE  /\ DOMAIN Over(p, d) = Regions
         /\ \A r \in Regions : Over(p, d)[r] = IF r \in DOMAIN p THEN p[r] ELSE d[r]
BY DEF Over

(* What is read back is of the type of what is written. *)
LEMMA ViewType == ASSUME DeviceOK PROVE View = [r \in Regions |-> View[r]]
BY DEF DeviceOK, View, Over

(* What an access may do to the media and to what is read back: nothing, or     *)
(* what the system writes; and a device that writes through stays so.           *)
Access ==
  /\ DeviceOK'
  /\ \A r \in Regions : disk'[r] = disk[r] \/ Written(r, disk'[r])
  /\ \A r \in Regions : View'[r] = View[r] \/ Written(r, View'[r])
  /\ ~boot.cached /\ DOMAIN pend \subseteq {"jsb"} => DOMAIN pend' \subseteq {"jsb"}

(* An access that leaves the device alone. *)
LEMMA KeepAccess == ASSUME DeviceOK, Keep PROVE Access /\ disk' = disk /\ pend' = pend /\ View' = View
<1>1. View' = View
  BY DEF Keep, View
<1>2. DeviceOK'
  BY DEF Keep, DeviceOK
<1> QED BY <1>1, <1>2 DEF Keep, Access

(* Gpt_FormatN, Carafs_Mkfs, sb_write_direct: a write of what belongs there. *)
LEMMA WriteAccess ==
  ASSUME DeviceOK, BootOK, NEW r, NEW v, Written(r, v), Write(r, v)
  PROVE  /\ Access
         /\ ~boot.cached => \A q \in Regions : disk'[q] = IF q = r THEN v ELSE disk[q]
         /\ boot.cached => disk' = disk
         /\ r \notin {"map", "root"} /\ NoLayout(pend) => NoLayout(pend')
<1>c. boot.cached \in BOOLEAN
  BY DEF BootOK, BootType
<1>1. CASE r \notin Regions
  <2>1. Keep
    BY <1>1 DEF Write, Keep
  <2> QED BY <1>1, <2>1, KeepAccess DEF Keep
<1>2. CASE r \in Regions /\ boot.cached
  <2>1. pend' = [q \in DOMAIN pend \cup {r} |-> IF q = r THEN v ELSE pend[q]] /\ disk' = disk
    BY <1>2 DEF Write
  <2>2. /\ pend' = [q \in DOMAIN pend' |-> pend'[q]] /\ DOMAIN pend' = DOMAIN pend \cup {r}
        /\ \A q \in DOMAIN pend' : pend'[q] = IF q = r THEN v ELSE pend[q]
    BY <2>1 DEF DeviceOK
  <2>3. DeviceOK'
    BY <2>1, <2>2, <1>2 DEF DeviceOK
  <2>4. \A q \in Regions : View'[q] = IF q = r THEN v ELSE View[q]
    BY <2>1, <2>2, <2>3, <1>2, ViewReads DEF DeviceOK, View
  <2>5. r \notin {"map", "root"} /\ NoLayout(pend) => NoLayout(pend')
    BY <2>2 DEF NoLayout
  <2> QED BY <2>1, <2>3, <2>4, <2>5, <1>2 DEF Access
<1>3. CASE r \in Regions /\ ~boot.cached
  <2>1. disk' = [disk EXCEPT ![r] = v] /\ pend' = pend
    BY <1>3 DEF Write
  <2>2. DeviceOK'
    BY <2>1, <1>3 DEF DeviceOK
  <2>3. \A q \in Regions : disk'[q] = IF q = r THEN v ELSE disk[q]
    BY <2>1, <1>3 DEF DeviceOK
  <2>4. \A q \in Regions : View'[q] = View[q] \/ Written(q, View'[q])
    <3>0. View' = Over(pend, disk')
      BY <2>1 DEF View
    <3>1. \A q \in Regions : View'[q] = IF q \in DOMAIN pend THEN pend[q] ELSE disk'[q]
      BY <3>0 DEF Over
    <3>2. \A q \in Regions : View[q] = IF q \in DOMAIN pend THEN pend[q] ELSE disk[q]
      BY ViewReads DEF View
    <3> QED BY <2>3, <3>1, <3>2
  <2> QED BY <2>1, <2>2, <2>3, <2>4, <1>3 DEF Access
<1> QED BY <1>1, <1>2, <1>3, <1>c

(* A flush: the media hold what was read before it. *)
LEMMA FlushAccess ==
  ASSUME DeviceOK, Flush
  PROVE  Access /\ disk' = View /\ pend' = << >> /\ NoLayout(pend')
<1>1. disk' = View /\ pend' = << >> /\ DOMAIN pend' = {}
  BY DEF Flush
<1>2. DeviceOK'
  BY <1>1, ViewType DEF DeviceOK
<1>3. \A r \in Regions : disk'[r] = disk[r] \/ Written(r, disk'[r])
  BY <1>1, ViewReads DEF DeviceOK, View
<1>4. \A r \in Regions : View'[r] = View[r]
  BY <1>1, <1>2, ViewReads DEF View
<1> QED BY <1>1, <1>2, <1>3, <1>4 DEF Access, NoLayout

(* A sound volume stays sound on the media, and one that mounts still mounts. *)
LEMMA AccessKeeps ==
  ASSUME Access
  PROVE  (Sound(disk) => Sound(disk')) /\ (Mountable => Mountable')
<1>1. {"sb", "jsb", "map", "root"} \subseteq Regions
  BY DEF Regions
<1>2. Sound(disk) => Sound(disk')
  BY <1>1 DEF Access, Sound, Whole, Written
<1>3. Mountable => Mountable'
  BY <1>1 DEF Access, Mountable, Written, InUse
<1> QED BY <1>2, <1>3

(* What an access leaves of the three conjuncts about the media: a user's         *)
(* volume is not formatted, and a write-through device has no superblock that     *)
(* the rest of the volume does not go with.                                       *)
LEMMA AccessInv ==
  ASSUME BootInv, Access, boot'.cached = boot.cached, vol'.user => vol.user,
         vol'.user /\ NoLayout(pend) => NoLayout(pend'),
         boot'.pc = "mkfs" => ~vol'.user /\ (~boot.cached => MkfsWrote'),
         ~boot.cached /\ disk'["sb"] \in InUse => disk["sb"] \in InUse \/ Sound(disk')
  PROVE  DeviceOK' /\ UserOK' /\ ThroughOK'
<1>1. DeviceOK'
  BY DEF Access
<1>2. UserOK'
  BY AccessKeeps DEF BootInv, UserOK
<1>3. ThroughOK'
  <2>1. SUFFICES ASSUME ~boot.cached
                 PROVE  /\ DOMAIN pend' \subseteq {"jsb"}
                        /\ disk'["sb"] \in InUse => Sound(disk')
                        /\ boot'.pc = "mkfs" => MkfsWrote'
    BY DEF ThroughOK
  <2>2. DOMAIN pend' \subseteq {"jsb"}
    BY <2>1 DEF BootInv, ThroughOK, Access
  <2>3. disk'["sb"] \in InUse => Sound(disk')
    BY <2>1, AccessKeeps DEF BootInv, ThroughOK
  <2> QED BY <2>1, <2>2, <2>3
<1> QED BY <1>1, <1>2, <1>3

(* A volume that is sound on the media mounts, whatever the cache holds. *)
LEMMA SoundMounts == ASSUME DeviceOK, Sound(disk) PROVE Mountable
<1>1. \A r \in Regions : View[r] = disk[r] \/ Written(r, View[r])
  BY ViewReads DEF View, DeviceOK
<1> QED BY <1>1 DEF Sound, Mountable, Written, InUse, Regions

(* The same for a step that leaves the device alone. *)
LEMMA KeepInv ==
  ASSUME BootInv, Keep, boot'.cached = boot.cached, vol'.user => vol.user,
         boot'.pc = "mkfs" => ~vol'.user /\ boot'.i = 1 /\ ~Mountable
  PROVE  DeviceOK' /\ UserOK' /\ ThroughOK' /\ (Mountable => Mountable')
<1>1. Access /\ disk' = disk /\ pend' = pend
  BY KeepAccess DEF BootInv
<1>2. ~boot.cached /\ boot'.pc = "mkfs" => MkfsWrote'
  BY <1>1, SoundMounts DEF MkfsWrote, BootInv, ThroughOK
<1>3. DeviceOK' /\ UserOK' /\ ThroughOK'
  BY <1>1, <1>2, AccessInv
<1> QED BY <1>1, <1>3, AccessKeeps

-----------------------------------------------------------------------------
(* The control state.                                                      *)

SameBoot == boot'.cached = boot.cached /\ boot'.mounted = boot.mounted /\ boot'.wb = boot.wb

(* On to another step. *)
LEMMA GoesOn ==
  ASSUME BootOK, NEW pc \in Steps, Go(pc)
  PROVE  BootOK' /\ boot'.pc = pc /\ boot'.i = 1 /\ SameBoot /\ boot'.ok = boot.ok /\ boot'.formatted = boot.formatted
<1>1. boot \in BootType /\ boot' = [boot EXCEPT !.pc = pc, !.i = 1]
  BY DEF BootOK, Go
<1>2. boot' \in BootType
  <2>1. boot \in BootType /\ pc \in Steps /\ 1 \in Int
    BY <1>1
  <2> QED BY <2>1, <1>1, Zenon DEF BootType
<1>3. boot'.pc = pc /\ boot'.i = 1 /\ SameBoot /\ boot'.ok = boot.ok /\ boot'.formatted = boot.formatted
  BY <1>1 DEF BootType, SameBoot
<1> QED BY <1>2, <1>3 DEF BootOK

(* A failure, after which nothing is claimed of the command. *)
LEMMA GoesWrong ==
  ASSUME BootOK, NEW pc \in Steps, Fail(pc)
  PROVE  BootOK' /\ boot'.pc = pc /\ boot'.i = 1 /\ SameBoot /\ boot'.ok = FALSE
<1>1. boot \in BootType /\ boot' = [boot EXCEPT !.pc = pc, !.i = 1, !.errors = @ + 1, !.ok = FALSE]
  BY DEF BootOK, Fail
<1>2. boot' \in BootType
  <2>1. boot.errors + 1 \in Int
    BY <1>1 DEF BootType
  <2>2. boot \in BootType /\ pc \in Steps /\ 1 \in Int /\ boot.errors + 1 \in Int /\ FALSE \in BOOLEAN
    BY <1>1, <2>1
  <2> QED BY <2>2, <1>1, Zenon DEF BootType
<1>3. boot'.pc = pc /\ boot'.i = 1 /\ SameBoot /\ boot'.ok = FALSE
  BY <1>1 DEF BootType, SameBoot
<1> QED BY <1>2, <1>3 DEF BootOK

MediaOK == DeviceOK /\ UserOK /\ ThroughOK

(* Before a volume is mounted only the media matter. *)
LEMMA EarlyInv ==
  ASSUME BootInv, MediaOK', VolOK', BootOK', SameBoot, boot.pc \in BeforeMount,
         boot'.pc \in {"gpt", "mount", "mkfs", "novolume"}
  PROVE  BootInv'
<1>1. ~boot.mounted /\ ~boot'.mounted
  BY DEF BootInv, PhaseOK, SameBoot
<1>2. PhaseOK'
  BY <1>1 DEF PhaseOK, AfterStartup
<1>3. CommandOK'
  BY DEF CommandOK
<1> QED BY <1>2, <1>3 DEF BootInv, MediaOK

(* Gpt_FindCarafsNth: reads only. *)
LEMMA FindPartitionInv == ASSUME BootInv, FindPartition PROVE BootInv'
<1>1. boot.pc = "find" /\ Keep /\ vol' = vol /\ VolOK' /\ BootOK
  BY DEF FindPartition, BootInv, VolOK
<1>2. BootOK' /\ SameBoot /\ boot'.pc \in {"gpt", "mount", "novolume"}
  <2>1. CASE Go("mount")
    BY <2>1, <1>1, GoesOn DEF Steps
  <2>2. CASE Go("gpt")
    BY <2>2, <1>1, GoesOn DEF Steps
  <2>3. CASE Fail("novolume")
    BY <2>3, <1>1, GoesWrong DEF Steps
  <2> QED BY <2>1, <2>2, <2>3 DEF FindPartition
<1>3. MediaOK'
  BY <1>1, <1>2, KeepInv DEF MediaOK, SameBoot
<1> QED BY <1>1, <1>2, <1>3, EarlyInv DEF BeforeMount

(* A write outside the superblock. *)
LEMMA OtherWriteInv ==
  ASSUME BootInv, NEW r, r \notin {"sb", "map", "root"}, Write(r, "ours"), boot'.cached = boot.cached, vol' = vol, boot'.pc # "mkfs"
  PROVE  MediaOK'
<1>0. Written(r, "ours") /\ DeviceOK /\ BootOK
  BY DEF BootInv, Written
<1>1. /\ Access /\ (~boot.cached => \A q \in Regions : disk'[q] = IF q = r THEN "ours" ELSE disk[q])
      /\ NoLayout(pend) => NoLayout(pend')
  BY <1>0, WriteAccess
<1>2. ~boot.cached => disk'["sb"] = disk["sb"]
  BY <1>1 DEF Regions
<1> QED BY <1>1, <1>2, AccessInv DEF MediaOK

(* Gpt_FormatN writes what is no part of a volume. *)
LEMMA Gpt_FormatNInv == ASSUME BootInv, Gpt_FormatN PROVE BootInv'
<1>1. boot.pc = "gpt" /\ vol' = vol /\ VolOK' /\ BootOK
  BY DEF Gpt_FormatN, BootInv, VolOK
<1>2. CASE Fail("novolume") /\ Keep
  <2>1. BootOK' /\ SameBoot /\ boot'.pc = "novolume"
    BY <1>2, <1>1, GoesWrong DEF Steps
  <2>2. MediaOK'
    BY <1>1, <1>2, <2>1, KeepInv DEF MediaOK, SameBoot
  <2> QED BY <1>1, <2>1, <2>2, EarlyInv DEF BeforeMount
<1>3. CASE /\ Write(GptWrites[boot.i], "ours")
           /\ IF boot.i = Len(GptWrites) THEN Go("mount") ELSE boot' = [boot EXCEPT !.i = @ + 1]
  <2>1. Len(GptWrites) = 5 /\ boot.i \in 1 .. 5
    BY <1>1 DEF GptWrites, BootOK
  <2>2. GptWrites[boot.i] \notin {"sb", "map", "root"}
    BY <2>1 DEF GptWrites
  <2>3. BootOK' /\ SameBoot /\ boot'.pc \in {"gpt", "mount"}
    <3>1. CASE boot.i = 5
      BY <3>1, <2>1, <1>3, <1>1, GoesOn DEF Steps
    <3>2. CASE boot.i # 5
      <4>1. boot' = [boot EXCEPT !.i = boot.i + 1] /\ boot \in BootType /\ boot.i + 1 \in Int /\ boot.i + 1 \in 1 .. 5
        BY <3>2, <2>1, <1>3, <1>1 DEF BootOK
      <4>2. boot' \in BootType /\ boot'.i = boot.i + 1
        BY <4>1 DEF BootType
      <4>3. SameBoot /\ boot'.pc = boot.pc
        BY <4>1 DEF BootType, SameBoot
      <4> QED BY <4>1, <4>2, <4>3, <1>1 DEF BootOK
    <3> QED BY <3>1, <3>2
  <2>4. MediaOK'
    BY <1>1, <1>3, <2>2, <2>3, OtherWriteInv DEF SameBoot
  <2> QED BY <1>1, <2>3, <2>4, EarlyInv DEF BeforeMount
<1> QED BY <1>2, <1>3 DEF Gpt_FormatN

(* Carafs_Mount: a volume that a user has written to is found mountable. *)
LEMMA Carafs_MountInv == ASSUME BootInv, Carafs_Mount PROVE BootInv'
<1>1. boot.pc = "mount" /\ Keep /\ vol' = vol /\ VolOK' /\ BootOK
  BY DEF Carafs_Mount, BootInv, VolOK
<1>2. CASE Fail("novolume")
  <2>1. BootOK' /\ SameBoot /\ boot'.pc = "novolume"
    BY <1>2, <1>1, GoesWrong DEF Steps
  <2>2. MediaOK'
    BY <1>1, <2>1, KeepInv DEF MediaOK, SameBoot
  <2> QED BY <1>1, <2>1, <2>2, EarlyInv DEF BeforeMount
<1>3. CASE ~Mountable /\ Go(IF boot.formatted THEN "novolume" ELSE "mkfs")
  <2>1. BootOK' /\ SameBoot /\ boot'.pc \in {"novolume", "mkfs"} /\ boot'.i = 1
    BY <1>3, <1>1, GoesOn DEF Steps
  <2>2. ~vol.user
    <3>1. vol.user => Sound(disk)
      BY DEF BootInv, UserOK
    <3>2. Sound(disk) => Mountable
      BY SoundMounts DEF BootInv
    <3> QED BY <3>1, <3>2, <1>3
  <2>3. MediaOK'
    BY <1>1, <1>3, <2>1, <2>2, KeepInv DEF MediaOK, SameBoot
  <2> QED BY <1>1, <2>1, <2>3, EarlyInv DEF BeforeMount
<1>4. CASE Mountable /\ boot' = [boot EXCEPT !.pc = IF View["sb"] = "dirty" THEN "replayed" ELSE "mounted"]
  <2>1. PICK pc \in {"replayed", "mounted"} : boot' = [boot EXCEPT !.pc = pc]
    BY <1>4
  <2>2. boot \in BootType /\ pc \in Steps
    BY <1>1 DEF BootOK, Steps
  <2>3. boot' \in BootType /\ boot'.pc = pc /\ boot'.i = boot.i
    BY <2>1, <2>2 DEF BootType
  <2>4. SameBoot
    BY <2>1, <2>2 DEF BootType, SameBoot
  <2>5. BootOK'
    BY <2>3, <1>1 DEF BootOK
  <2>6. MediaOK' /\ Mountable'
    BY <1>1, <1>4, <2>3, <2>4, KeepInv DEF MediaOK, SameBoot
  <2>7. ~boot'.mounted
    BY <1>1, <2>4 DEF BootInv, PhaseOK, BeforeMount, SameBoot
  <2>8. PhaseOK' /\ CommandOK'
    BY <2>3, <2>6, <2>7 DEF PhaseOK, CommandOK, AfterStartup
  <2> QED BY <1>1, <2>5, <2>6, <2>8 DEF BootInv, MediaOK
<1> QED BY <1>2, <1>3, <1>4 DEF Carafs_Mount

(* Where the device writes through, what is read of the superblock is on the      *)
(* media.                                                                        *)
LEMMA SbRead == ASSUME BootInv, ~boot.cached PROVE View["sb"] = disk["sb"]
<1>1. "sb" \notin DOMAIN pend /\ "sb" \in Regions
  BY DEF BootInv, ThroughOK, Regions
<1> QED BY <1>1, ViewReads DEF View

(* carafs_mark_dirty and the end of a mount: another state in a superblock. *)
LEMMA SbWriteInv ==
  ASSUME BootInv, View["sb"] \in InUse, NEW v \in InUse, Write("sb", v), boot'.cached = boot.cached, vol' = vol,
         boot'.pc # "mkfs"
  PROVE  MediaOK' /\ (Mountable => Mountable')
<1>0. Written("sb", v) /\ DeviceOK /\ BootOK
  BY DEF BootInv, Written, InUse
<1>1. Access /\ (NoLayout(pend) => NoLayout(pend'))
  BY <1>0, WriteAccess
<1>2. ~boot.cached => disk["sb"] \in InUse
  BY SbRead
<1> QED BY <1>1, <1>2, AccessInv, AccessKeeps DEF MediaOK

(* A flush. *)
LEMMA FlushInv ==
  ASSUME BootInv, Flush, boot'.cached = boot.cached, vol' = vol, boot'.pc # "mkfs"
  PROVE  MediaOK' /\ (Mountable => Mountable')
<1>1. Access /\ disk' = View /\ NoLayout(pend')
  BY FlushAccess DEF BootInv
<1>2. ~boot.cached => disk'["sb"] = disk["sb"]
  BY <1>1, SbRead
<1> QED BY <1>1, <1>2, AccessInv, AccessKeeps DEF MediaOK

(* The end of Carafs_Mount on a volume that was in use. *)
LEMMA MarkCleanInv == ASSUME BootInv, MarkClean PROVE BootInv'
<1>1. boot.pc = "replayed" /\ vol' = vol /\ VolOK' /\ BootOK /\ Mountable /\ ~boot.mounted
  BY DEF MarkClean, BootInv, VolOK, PhaseOK, BeforeMount
<1>2. CASE Fail("novolume") /\ Keep
  <2>1. BootOK' /\ SameBoot /\ boot'.pc = "novolume"
    BY <1>2, <1>1, GoesWrong DEF Steps
  <2>2. MediaOK'
    BY <1>1, <1>2, <2>1, KeepInv DEF MediaOK, SameBoot
  <2> QED BY <1>1, <2>1, <2>2, EarlyInv DEF BeforeMount
<1>3. CASE View["sb"] = "dirty" /\ Write("sb", "clean") /\ UNCHANGED boot
  <2>1. boot' = boot /\ View["sb"] \in InUse /\ "clean" \in InUse
    BY <1>3 DEF InUse
  <2>2. MediaOK' /\ Mountable'
    BY <1>1, <1>3, <2>1, SbWriteInv
  <2>3. BootOK' /\ PhaseOK' /\ CommandOK'
    BY <1>1, <2>1, <2>2 DEF BootOK, PhaseOK, CommandOK, AfterStartup
  <2> QED BY <1>1, <2>2, <2>3 DEF BootInv, MediaOK
<1>4. CASE View["sb"] = "clean" /\ Flush /\ Go("mounted")
  <2>1. BootOK' /\ SameBoot /\ boot'.pc = "mounted"
    BY <1>4, <1>1, GoesOn DEF Steps
  <2>2. MediaOK' /\ Mountable'
    BY <1>1, <1>4, <2>1, FlushInv DEF SameBoot
  <2>3. PhaseOK' /\ CommandOK'
    BY <1>1, <2>1, <2>2 DEF PhaseOK, CommandOK, AfterStartup, SameBoot
  <2> QED BY <1>1, <2>1, <2>2, <2>3 DEF BootInv, MediaOK
<1> QED BY <1>2, <1>3, <1>4 DEF MarkClean

(* Carafs_Mkfs runs only on a disk no user has written to, and writes the          *)
(* superblock last.                                                               *)
LEMMA Carafs_MkfsInv == ASSUME BootInv, Carafs_Mkfs PROVE BootInv'
<1>1. boot.pc = "mkfs" /\ BootOK /\ DeviceOK /\ ~vol.user
  BY DEF Carafs_Mkfs, BootInv, UserOK
<1>2. CASE Fail("novolume") /\ Keep /\ UNCHANGED vol
  <2>1. BootOK' /\ SameBoot /\ boot'.pc = "novolume" /\ VolOK' /\ vol' = vol
    BY <1>2, <1>1, GoesWrong DEF Steps, BootInv, VolOK
  <2>2. MediaOK'
    BY <1>1, <1>2, <2>1, KeepInv DEF MediaOK, SameBoot
  <2> QED BY <1>1, <2>1, <2>2, EarlyInv DEF BeforeMount
<1>3. CASE Flush /\ boot' = [boot EXCEPT !.pc = "mount", !.i = 1, !.formatted = TRUE] /\ UNCHANGED vol
  <2>0. boot \in BootType /\ "mount" \in Steps /\ 1 \in Int /\ TRUE \in BOOLEAN
    BY <1>1 DEF BootOK, Steps
  <2>1. boot' \in BootType
    BY <1>3, <2>0, Zenon DEF BootType
  <2>2. SameBoot /\ boot'.pc = "mount" /\ boot'.i = 1
    BY <1>3, <2>0 DEF BootType, SameBoot
  <2>3. BootOK' /\ VolOK' /\ vol' = vol
    BY <1>3, <2>1, <2>2 DEF BootOK, VolOK, BootInv
  <2>4. MediaOK'
    BY <1>3, <2>2, <2>3, FlushInv DEF SameBoot
  <2> QED BY <1>1, <2>2, <2>3, <2>4, EarlyInv DEF BeforeMount
<1>4. CASE /\ boot.i <= Len(MkfsWrites)
           /\ Write(MkfsWrites[boot.i], MkfsValue(MkfsWrites[boot.i]))
           /\ boot' = [boot EXCEPT !.i = @ + 1]
           /\ vol' = IF MkfsWrites[boot.i] = "root" THEN NoFiles ELSE vol
  <2>1. Len(MkfsWrites) = 5 /\ boot.i \in 1 .. 5
    BY <1>1, <1>4 DEF MkfsWrites, BootOK
  <2>2. PICK r : r = MkfsWrites[boot.i]
    OBVIOUS
  <2>3. \/ boot.i = 1 /\ r = "jsb"
        \/ boot.i = 2 /\ r = "map"
        \/ boot.i = 3 /\ r = "root"
        \/ boot.i = 4 /\ r = "bsb"
        \/ boot.i = 5 /\ r = "sb"
    BY <2>1, <2>2 DEF MkfsWrites
  <2>4. PICK v : v = MkfsValue(r)
    OBVIOUS
  <2>5. Written(r, v) /\ (r # "sb" => v = "ours") /\ Write(r, v)
    BY <2>2, <2>4, <1>4 DEF MkfsValue, Written, InUse
  <2>6. /\ Access
        /\ ~boot.cached => \A q \in Regions : disk'[q] = IF q = r THEN v ELSE disk[q]
    BY <2>5, <1>1, WriteAccess
  <2>7. VolOK' /\ ~vol'.user
    <3>1. NoFiles \in VolType /\ ~NoFiles.user
      BY DEF NoFiles, VolType, Dirs, Scripts, Binaries
    <3>2. vol \in VolType
      BY DEF BootInv, VolOK
    <3>3. vol' = NoFiles \/ vol' = vol
      BY <1>4
    <3> QED BY <1>1, <3>1, <3>2, <3>3 DEF VolOK
  <2>8. boot' = [boot EXCEPT !.i = boot.i + 1] /\ boot \in BootType /\ boot.i + 1 \in Int /\ boot.i + 1 \in 1 .. 6
    BY <1>1, <1>4, <2>1 DEF BootOK
  <2>9. boot' \in BootType /\ boot'.i = boot.i + 1
    BY <2>8 DEF BootType
  <2>10. SameBoot /\ boot'.pc = "mkfs"
    BY <1>1, <2>8 DEF BootType, SameBoot
  <2>11. BootOK'
    BY <2>8, <2>9, <2>10 DEF BootOK
  <2>12. ~boot.cached => MkfsWrote /\ {"jsb", "map", "root", "sb"} \subseteq Regions
    BY <1>1 DEF BootInv, ThroughOK, Regions
  <2>13. ~boot.cached => MkfsWrote'
    BY <2>3, <2>5, <2>6, <2>8, <2>9, <2>12 DEF MkfsWrote
  <2>14. ~boot.cached /\ disk'["sb"] \in InUse => disk["sb"] \in InUse \/ Sound(disk')
    <3>1. CASE r # "sb"
      BY <3>1, <2>6, <2>12
    <3>2. CASE r = "sb"
      BY <3>2, <2>3, <2>6, <2>12 DEF MkfsWrote, Sound, Whole
    <3> QED BY <3>1, <3>2
  <2>15. MediaOK'
    BY <2>6, <2>7, <2>10, <2>13, <2>14, AccessInv DEF MediaOK, SameBoot
  <2> QED BY <1>1, <2>7, <2>10, <2>11, <2>15, EarlyInv DEF BeforeMount
<1> QED BY <1>2, <1>3, <1>4 DEF Carafs_Mkfs

-----------------------------------------------------------------------------
(* A mounted volume.                                                       *)

(* Once a volume is mounted, what a step may change of the control state. *)
LEMMA LateInv ==
  ASSUME BootInv, MediaOK', VolOK', BootOK', CommandOK', SameBoot, Mountable => Mountable',
         boot.pc \notin BeforeMount \cup {"off"}, boot'.pc \notin BeforeMount \cup {"off"},
         boot'.pc \in AfterStartup => boot.pc \in AfterStartup
  PROVE  BootInv'
<1>1. PhaseOK'
  BY DEF BootInv, PhaseOK, SameBoot, BeforeMount
<1> QED BY <1>1 DEF BootInv, MediaOK

(* g_root_mount is set: what follows depends on whether the volume is new. *)
LEMMA MountedInv == ASSUME BootInv, Mounted PROVE BootInv'
<1>1. boot.pc = "mounted" /\ Keep /\ vol' = vol /\ VolOK' /\ BootOK /\ Mountable
  BY DEF Mounted, BootInv, VolOK, PhaseOK
<1>2. PICK pc \in {"seedS", "startup"} : boot' = [boot EXCEPT !.mounted = TRUE, !.pc = pc]
  BY Zenon DEF Mounted
<1>3. boot \in BootType /\ pc \in Steps /\ TRUE \in BOOLEAN
  BY <1>1 DEF BootOK, Steps
<1>4. boot' \in BootType
  BY <1>2, <1>3, Zenon DEF BootType
<1>5. boot'.pc = pc /\ boot'.i = boot.i /\ boot'.cached = boot.cached
  BY <1>2, <1>3 DEF BootType
<1>6. BootOK'
  BY <1>1, <1>4, <1>5 DEF BootOK
<1>7. MediaOK' /\ Mountable'
  BY <1>1, <1>5, KeepInv DEF MediaOK
<1>8. PhaseOK' /\ CommandOK'
  BY <1>5, <1>7 DEF PhaseOK, CommandOK, BeforeMount, AfterStartup
<1> QED BY <1>1, <1>6, <1>7, <1>8 DEF BootInv, MediaOK

(* carafs_mark_dirty. *)
LEMMA MarkDirtyInv == ASSUME BootInv, MarkDirty PROVE BootInv'
<1>1. /\ boot.pc \in {"seedS", "seedSeq", "seedText", "cmdDir", "cmdRemove", "cmdCreate", "cmdWrite", "up"}
      /\ vol' = vol /\ boot' = boot
  BY DEF MarkDirty
<1>2. BootOK' /\ VolOK' /\ CommandOK' /\ SameBoot
  BY <1>1 DEF BootInv, BootOK, VolOK, CommandOK, SameBoot
<1>3. MediaOK' /\ (Mountable => Mountable')
  <2>1. CASE View["sb"] = "clean" /\ Write("sb", "dirty")
    <3>1. View["sb"] \in InUse /\ "dirty" \in InUse
      BY <2>1 DEF InUse
    <3> QED BY <1>1, <2>1, <3>1, SbWriteInv
  <2>2. CASE Flush
    BY <1>1, <2>2, FlushInv
  <2> QED BY <2>1, <2>2 DEF MarkDirty
<1> QED BY <1>1, <1>2, <1>3, LateInv DEF BeforeMount

(* Either the operation is done and the boot goes on as planned, or it is not     *)
(* and the boot is not all right.                                                *)
Done(new, next) == vol' = new /\ boot'.pc = next /\ boot'.ok = boot.ok
GivenUp(pc) == vol' = vol /\ boot'.pc = pc /\ boot'.ok = FALSE

(* One operation on the volume. *)
LEMMA OpDoes ==
  ASSUME BootInv, NEW pc \in Steps, NEW new \in VolType, new.user = vol.user, NEW next \in Steps, NEW giveUp \in Steps,
         next # "mkfs", giveUp \notin {"mkfs", "gpt"}, Op(pc, new, next, giveUp)
  PROVE  /\ MediaOK' /\ VolOK' /\ BootOK' /\ SameBoot /\ (Mountable => Mountable')
         /\ boot.pc = pc /\ (Done(new, next) \/ GivenUp(giveUp))
<1>1. boot.pc = pc /\ Keep /\ BootOK /\ vol \in VolType
  BY DEF Op, BootInv, VolOK
<1>2. BootOK' /\ SameBoot /\ (Done(new, next) \/ GivenUp(giveUp))
  <2>1. CASE vol' = new /\ Go(next)
    BY <2>1, <1>1, GoesOn DEF Done
  <2>2. CASE UNCHANGED vol /\ boot' = [boot EXCEPT !.pc = giveUp, !.ok = FALSE]
    <3>1. boot \in BootType /\ giveUp \in Steps /\ FALSE \in BOOLEAN
      BY <1>1 DEF BootOK
    <3>2. boot' \in BootType
      BY <2>2, <3>1, Zenon DEF BootType
    <3>3. boot'.pc = giveUp /\ boot'.ok = FALSE /\ boot'.i = boot.i /\ SameBoot
      BY <2>2, <3>1 DEF BootType, SameBoot
    <3>4. giveUp # "gpt" /\ boot.i \in 1 .. 6
      BY <1>1 DEF BootOK
    <3>5. BootOK'
      BY <3>2, <3>3, <3>4 DEF BootOK
    <3> QED BY <2>2, <3>3, <3>5 DEF GivenUp
  <2>3. CASE Fail(giveUp) /\ UNCHANGED vol
    BY <2>3, <1>1, GoesWrong, Zenon DEF GivenUp
  <2> QED BY <2>1, <2>2, <2>3 DEF Op
<1>3. VolOK' /\ (vol'.user => vol.user) /\ boot'.pc # "mkfs"
  BY <1>1, <1>2 DEF VolOK, Done, GivenUp
<1>4. MediaOK' /\ (Mountable => Mountable')
  BY <1>1, <1>2, <1>3, KeepInv DEF MediaOK, SameBoot
<1> QED BY <1>1, <1>2, <1>3, <1>4

(* What seed_startup writes is a script that starts the Workbench, or none. *)
LEMMA SeedStartupInv == ASSUME BootInv, seed_startup PROVE BootInv'
<1>1. vol \in VolType /\ "dir" \in Dirs /\ "empty" \in Scripts /\ "seeded" \in Scripts
  BY DEF BootInv, VolOK, Dirs, Scripts
<1>2. {"seedS", "seedSeq", "seedText", "startup"} \subseteq Steps
  BY DEF Steps
<1>3. ASSUME NEW pc \in {"seedS", "seedSeq", "seedText"}, NEW new \in VolType, new.user = vol.user,
             NEW next \in {"seedSeq", "seedText", "startup"}, Op(pc, new, next, "startup")
      PROVE  BootInv'
  <2>1. pc \in Steps /\ next \in Steps /\ "startup" \in Steps /\ next # "mkfs"
    BY <1>2, <1>3
  <2>2. /\ MediaOK' /\ VolOK' /\ BootOK' /\ SameBoot /\ (Mountable => Mountable')
        /\ boot.pc = pc /\ (Done(new, next) \/ GivenUp("startup"))
    BY <1>3, <2>1, OpDoes
  <2>3. boot'.pc \in {"seedSeq", "seedText", "startup"}
    BY <2>2, <1>3 DEF Done, GivenUp
  <2>4. CommandOK'
    BY <2>3 DEF CommandOK
  <2>5. boot.pc \notin BeforeMount \cup {"off"} /\ boot'.pc \notin BeforeMount \cup {"off"} /\ boot'.pc \notin AfterStartup
    BY <2>2, <2>3, <1>3 DEF BeforeMount, AfterStartup
  <2> QED BY <2>2, <2>4, <2>5, LateInv
<1>4. CASE Op("seedS", [vol EXCEPT !.S = "dir"], "seedSeq", "startup")
  <2>1. [vol EXCEPT !.S = "dir"] \in VolType /\ [vol EXCEPT !.S = "dir"].user = vol.user
    BY <1>1 DEF VolType
  <2> QED BY <1>3, <1>4, <2>1, Zenon
<1>5. CASE Op("seedSeq", [vol EXCEPT !.seq = "empty"], "seedText", "startup")
  <2>1. [vol EXCEPT !.seq = "empty"] \in VolType /\ [vol EXCEPT !.seq = "empty"].user = vol.user
    BY <1>1 DEF VolType
  <2> QED BY <1>3, <1>5, <2>1, Zenon
<1>6. CASE Op("seedText", [vol EXCEPT !.seq = "seeded"], "startup", "startup")
  <2>1. [vol EXCEPT !.seq = "seeded"] \in VolType /\ [vol EXCEPT !.seq = "seeded"].user = vol.user
    BY <1>1 DEF VolType
  <2> QED BY <1>3, <1>6, <2>1, Zenon
<1> QED BY <1>4, <1>5, <1>6 DEF seed_startup

(* Croi_Boot_RunStartup: whatever of the script a cut has left asks for the         *)
(* Workbench.                                                                     *)
LEMMA RunStartupInv == ASSUME BootInv, Croi_Boot_RunStartup PROVE BootInv'
<1>1. boot.pc \in {"startup", "novolume"} /\ Keep /\ vol' = vol /\ VolOK' /\ BootOK
  BY DEF Croi_Boot_RunStartup, BootInv, VolOK
<1>2. WantsWb(read_startup)
  <2>1. vol.seq \in Scripts
    BY DEF BootInv, VolOK, VolType
  <2> QED BY <2>1 DEF read_startup, WantsWb, Scripts
<1>3. PICK pc \in {"cmdDir", "up"} :
        boot' = [boot EXCEPT !.wb = "yes", !.pc = pc] /\ (boot.mounted => pc = "cmdDir")
  BY <1>2, Zenon DEF Croi_Boot_RunStartup
<1>4. boot \in BootType /\ pc \in Steps /\ "yes" \in Answers
  BY <1>1 DEF BootOK, Steps, Answers
<1>5. boot' \in BootType
  BY <1>3, <1>4, Zenon DEF BootType
<1>6. /\ boot'.pc = pc /\ boot'.i = boot.i /\ boot'.cached = boot.cached
      /\ boot'.mounted = boot.mounted /\ boot'.wb = "yes"
  BY <1>3, <1>4 DEF BootType
<1>7. BootOK'
  BY <1>1, <1>5, <1>6 DEF BootOK
<1>8. MediaOK' /\ (Mountable => Mountable')
  BY <1>1, <1>6, KeepInv DEF MediaOK
<1>9. PhaseOK'
  BY <1>1, <1>6, <1>8 DEF BootInv, PhaseOK, BeforeMount
<1>10. CommandOK'
  BY <1>3, <1>6 DEF CommandOK
<1> QED BY <1>1, <1>7, <1>8, <1>9, <1>10 DEF BootInv, MediaOK

(* A step of Croi_Boot_SeedCommand, an operation or not. *)
LEMMA SeedStepInv ==
  ASSUME BootInv, NEW new, NEW next, NEW giveUp, boot.pc \in AfterStartup, boot'.pc \in AfterStartup,
         MediaOK', VolOK', BootOK', SameBoot, Mountable => Mountable', Done(new, next) \/ GivenUp(giveUp),
         boot.ok => /\ next \in {"cmdRemove", "cmdCreate", "cmdWrite"} => new.C = "dir"
                    /\ next = "cmdCreate" => new.cmd = "none"
                    /\ next = "up" /\ boot.mounted => new.C = "dir" /\ new.cmd = "whole"
  PROVE  BootInv'
<1>1. CommandOK'
  <2>1. CASE Done(new, next)
    BY <2>1 DEF Done, CommandOK, SameBoot
  <2>2. CASE GivenUp(giveUp)
    BY <2>2 DEF GivenUp, CommandOK
  <2> QED BY <2>1, <2>2
<1>2. boot.pc \notin BeforeMount \cup {"off"} /\ boot'.pc \notin BeforeMount \cup {"off"}
  BY DEF BeforeMount, AfterStartup
<1> QED BY <1>1, <1>2, LateInv

(* A step that finds its work done. *)
LEMMA SkipInv ==
  ASSUME BootInv, NEW pc \in AfterStartup, NEW next \in AfterStartup, SeedAfter(pc, next),
         boot.ok => /\ next \in {"cmdRemove", "cmdCreate", "cmdWrite"} => vol.C = "dir"
                    /\ next = "cmdCreate" => vol.cmd = "none"
                    /\ next = "up" /\ boot.mounted => vol.C = "dir" /\ vol.cmd = "whole"
  PROVE  BootInv'
<1>1. boot.pc = pc /\ Go(next) /\ Keep /\ vol' = vol /\ BootOK /\ VolOK' /\ next \in Steps /\ next # "mkfs"
  BY DEF SeedAfter, BootInv, VolOK, AfterStartup, Steps
<1>2. BootOK' /\ SameBoot /\ boot'.pc = next /\ boot'.ok = boot.ok
  BY <1>1, GoesOn
<1>3. MediaOK' /\ (Mountable => Mountable')
  BY <1>1, <1>2, KeepInv DEF MediaOK, SameBoot
<1>4. Done(vol, next)
  BY <1>1, <1>2 DEF Done
<1> QED BY <1>1, <1>2, <1>3, <1>4, SeedStepInv

(* A step that is an operation. *)
LEMMA SeedOpInv ==
  ASSUME BootInv, NEW pc \in AfterStartup, NEW new \in VolType, new.user = vol.user, NEW next \in AfterStartup,
         NEW giveUp \in AfterStartup, Op(pc, new, next, giveUp),
         boot.ok => /\ next \in {"cmdRemove", "cmdCreate", "cmdWrite"} => new.C = "dir"
                    /\ next = "cmdCreate" => new.cmd = "none"
                    /\ next = "up" /\ boot.mounted => new.C = "dir" /\ new.cmd = "whole"
  PROVE  BootInv'
<1>1. pc \in Steps /\ next \in Steps /\ giveUp \in Steps /\ next # "mkfs" /\ giveUp \notin {"mkfs", "gpt"}
  BY DEF AfterStartup, Steps
<1>2. /\ MediaOK' /\ VolOK' /\ BootOK' /\ SameBoot /\ (Mountable => Mountable')
      /\ boot.pc = pc /\ (Done(new, next) \/ GivenUp(giveUp))
  BY <1>1, OpDoes
<1>3. boot'.pc \in AfterStartup
  BY <1>2 DEF Done, GivenUp
<1> QED BY <1>2, <1>3, SeedStepInv

(* Croi_Boot_SeedCommand: what an earlier boot left of the command is in the way     *)
(* of no step.                                                                     *)
LEMMA SeedCommandInv == ASSUME BootInv, Croi_Boot_SeedCommand PROVE BootInv'
<1>1. vol \in VolType /\ "dir" \in Dirs /\ {"none", "empty", "whole"} \subseteq Binaries
  BY DEF BootInv, VolOK, Dirs, Binaries
<1>2. {"cmdDir", "cmdRemove", "cmdCreate", "cmdWrite", "up"} \subseteq AfterStartup
  BY DEF AfterStartup
<1>3. boot.ok => /\ boot.pc \in {"cmdRemove", "cmdCreate", "cmdWrite"} => vol.C = "dir"
                 /\ boot.pc = "cmdCreate" => vol.cmd = "none"
  BY DEF BootInv, CommandOK
<1>4. CASE vol.C = "dir" /\ Whole(disk) /\ SeedAfter("cmdDir", "cmdRemove")
  BY <1>2, <1>4, SkipInv
<1>5. CASE Op("cmdDir", [vol EXCEPT !.C = "dir"], "cmdRemove", "up")
  <2>1. PICK new : new = [vol EXCEPT !.C = "dir"]
    BY Zenon
  <2>2. new \in VolType /\ new.user = vol.user /\ new.C = "dir"
    BY <1>1, <2>1 DEF VolType
  <2> QED BY <1>2, <1>5, <2>1, <2>2, SeedOpInv, Zenon
<1>6. CASE vol.cmd = "none" /\ SeedAfter("cmdRemove", "cmdCreate")
  <2>1. boot.pc = "cmdRemove"
    BY <1>6 DEF SeedAfter
  <2> QED BY <1>2, <1>3, <1>6, <2>1, SkipInv
<1>7. CASE Op("cmdRemove", [vol EXCEPT !.cmd = "none"], "cmdCreate", "cmdCreate")
  <2>1. PICK new : new = [vol EXCEPT !.cmd = "none"]
    BY Zenon
  <2>2. new \in VolType /\ new.user = vol.user /\ new.C = vol.C /\ new.cmd = "none"
    BY <1>1, <2>1 DEF VolType
  <2>3. boot.pc = "cmdRemove"
    BY <1>7 DEF Op
  <2> QED BY <1>2, <1>3, <1>7, <2>1, <2>2, <2>3, SeedOpInv, Zenon
<1>8. CASE Op("cmdCreate", [vol EXCEPT !.cmd = "empty"], "cmdWrite", "up")
  <2>1. PICK new : new = [vol EXCEPT !.cmd = "empty"]
    BY Zenon
  <2>2. new \in VolType /\ new.user = vol.user /\ new.C = vol.C
    BY <1>1, <2>1 DEF VolType
  <2>3. boot.pc = "cmdCreate"
    BY <1>8 DEF Op
  <2> QED BY <1>2, <1>3, <1>8, <2>1, <2>2, <2>3, SeedOpInv, Zenon
<1>9. CASE vol.cmd # "none" /\ SeedAfter("cmdCreate", "up")
  <2>1. boot.pc = "cmdCreate"
    BY <1>9 DEF SeedAfter
  <2> QED BY <1>2, <1>3, <1>9, <2>1, SkipInv
<1>10. CASE Op("cmdWrite", [vol EXCEPT !.cmd = "whole"], "up", "up")
  <2>1. PICK new : new = [vol EXCEPT !.cmd = "whole"]
    BY Zenon
  <2>2. new \in VolType /\ new.user = vol.user /\ new.C = vol.C /\ new.cmd = "whole"
    BY <1>1, <2>1 DEF VolType
  <2>3. boot.pc = "cmdWrite"
    BY <1>10 DEF Op
  <2> QED BY <1>2, <1>3, <1>10, <2>1, <2>2, <2>3, SeedOpInv, Zenon
<1> QED BY <1>4, <1>5, <1>6, <1>7, <1>8, <1>9, <1>10 DEF Croi_Boot_SeedCommand

-----------------------------------------------------------------------------
(* The running system and the power switch.                                *)

(* A user writes to a volume that is mounted and whole: it is sound. *)
LEMMA UserWritesInv == ASSUME BootInv, UserWrites PROVE BootInv'
<1>1. /\ boot.pc = "up" /\ boot.mounted /\ Ready /\ Whole(disk) /\ Keep /\ boot' = boot
      /\ vol' = [vol EXCEPT !.user = TRUE] /\ vol \in VolType
  BY DEF UserWrites, BootInv, VolOK
<1>2. vol' \in VolType
  BY <1>1, Zenon DEF VolType
<1>3. vol'.C = vol.C /\ vol'.cmd = vol.cmd
  BY <1>1 DEF VolType
<1>4. Mountable
  BY <1>1 DEF BootInv, PhaseOK
<1>5. disk["jsb"] = "ours" /\ disk["sb"] \in InUse
  <2>1. View["jsb"] = disk["jsb"]
    BY <1>1, ViewReads DEF Ready, View, Regions
  <2> QED BY <1>1, <1>4, <2>1 DEF Mountable, Ready, InUse
<1>6. Sound(disk) /\ disk' = disk /\ pend' = pend
  BY <1>1, <1>5 DEF Sound, Keep
<1>7. DeviceOK' /\ BootOK' /\ ThroughOK'
  BY <1>1, <1>6 DEF BootInv, DeviceOK, BootOK, ThroughOK
<1>8. View' = View
  BY <1>6 DEF View
<1>9. PhaseOK'
  BY <1>1, <1>8 DEF BootInv, PhaseOK, Mountable
<1>10. UserOK' /\ CommandOK'
  BY <1>1, <1>3, <1>6 DEF UserOK, CommandOK, BootInv, NoLayout, Ready
<1> QED BY <1>2, <1>7, <1>9, <1>10 DEF BootInv, VolOK

(* The journal's superblock is written in place. *)
LEMMA CheckpointInv == ASSUME BootInv, Checkpoint PROVE BootInv'
<1>1. boot.pc = "up" /\ boot' = boot /\ vol' = vol /\ disk' = disk /\ pend' = [r \in {"jsb"} |-> "ours"] /\ Ready
  BY DEF Checkpoint
<1>2. DOMAIN pend' = {"jsb"} /\ pend'["jsb"] = "ours" /\ pend' = [r \in DOMAIN pend' |-> pend'[r]]
  BY <1>1
<1>3. DeviceOK'
  BY <1>1, <1>2 DEF BootInv, DeviceOK, Written, Regions
<1>4. \A r \in Regions : View'[r] = IF r = "jsb" THEN "ours" ELSE disk[r]
  <2>1. View' = Over(pend', disk)
    BY <1>1 DEF View
  <2> QED BY <1>2, <2>1 DEF Over
<1>5. \A r \in Regions : View[r] = disk[r]
  BY <1>1, ViewReads DEF View, Ready
<1>6. Access /\ NoLayout(pend')
  BY <1>1, <1>2, <1>3, <1>4, <1>5 DEF Access, Written, NoLayout
<1>7. MediaOK' /\ (Mountable => Mountable')
  BY <1>1, <1>6, AccessInv, AccessKeeps DEF MediaOK
<1>8. BootOK' /\ VolOK' /\ CommandOK' /\ SameBoot
  BY <1>1 DEF BootInv, BootOK, VolOK, CommandOK, SameBoot
<1> QED BY <1>1, <1>7, <1>8, LateInv DEF BeforeMount, AfterStartup

(* The power is switched on. *)
LEMMA PowerOnInv == ASSUME BootInv, PowerOn PROVE BootInv'
<1>1. /\ Keep /\ vol' = vol /\ VolOK' /\ BootOK
      /\ boot' = [boot EXCEPT !.pc = "find", !.i = 1, !.mounted = FALSE, !.formatted = FALSE, !.wb = "unknown", !.ok = TRUE]
  BY DEF PowerOn, BootInv, VolOK
<1>2. boot \in BootType /\ "find" \in Steps /\ 1 \in Int /\ {TRUE, FALSE} \subseteq BOOLEAN /\ "unknown" \in Answers
  BY <1>1 DEF BootOK, Steps, Answers
<1>3. boot' \in BootType
  BY <1>1, <1>2, Zenon DEF BootType
<1>4. boot'.pc = "find" /\ boot'.i = 1 /\ boot'.cached = boot.cached /\ boot'.mounted = FALSE
  BY <1>1, <1>2 DEF BootType
<1>5. BootOK' /\ PhaseOK' /\ CommandOK'
  BY <1>3, <1>4 DEF BootOK, PhaseOK, CommandOK, AfterStartup
<1>6. MediaOK'
  BY <1>1, <1>4, KeepInv DEF MediaOK
<1> QED BY <1>1, <1>5, <1>6 DEF BootInv, MediaOK

(* The power is cut: every block the cache held is as it was, as it was written,     *)
(* or half written where that shows, in any combination.                           *)
LEMMA CachedCut ==
  ASSUME BootInv, NEW d \in [DOMAIN pend -> UNION {Remains(r, pend[r]) : r \in DOMAIN pend}],
         \A r \in DOMAIN pend : d[r] \in Remains(r, pend[r]), disk' = Over(d, disk)
  PROVE  /\ disk' = [r \in Regions |-> disk'[r]]
         /\ Sound(disk) /\ NoLayout(pend) => Sound(disk')
         /\ ~boot.cached /\ disk'["sb"] \in InUse => Sound(disk')
<1>1. /\ disk' = [r \in Regions |-> disk'[r]]
      /\ \A r \in Regions : disk'[r] = IF r \in DOMAIN pend THEN d[r] ELSE disk[r]
  BY DEF Over
<1>2. \A r \in DOMAIN pend : Written(r, pend[r])
  BY DEF BootInv, DeviceOK
<1>3. \A r \in DOMAIN pend : d[r] \in {disk[r], pend[r]} \/ Tears(r)
  BY DEF Remains
<1>4. {"sb", "jsb", "map", "root"} \subseteq Regions
  BY DEF Regions
<1>5. ASSUME Sound(disk), NoLayout(pend) PROVE Sound(disk')
  <2>1. disk'["map"] = "ours" /\ disk'["root"] = "ours"
    BY <1>1, <1>4, <1>5 DEF Sound, Whole, NoLayout
  <2>2. disk'["sb"] \in InUse
    <3>1. ~Tears("sb")
      BY <1>5 DEF Sound, Tears, InUse
    <3> QED BY <1>1, <1>2, <1>3, <1>4, <1>5, <3>1 DEF Sound, Written
  <2>3. disk'["jsb"] = "ours"
    <3>1. ~Tears("jsb")
      BY <1>5 DEF Sound, Tears
    <3> QED BY <1>1, <1>2, <1>3, <1>4, <1>5, <3>1 DEF Sound, Written
  <2> QED BY <2>1, <2>2, <2>3 DEF Sound, Whole
<1>6. ASSUME ~boot.cached, disk'["sb"] \in InUse PROVE Sound(disk')
  <2>1. DOMAIN pend \subseteq {"jsb"}
    BY <1>6 DEF BootInv, ThroughOK
  <2>2. disk'["sb"] = disk["sb"] /\ NoLayout(pend)
    BY <1>1, <1>4, <2>1 DEF NoLayout
  <2>3. Sound(disk)
    BY <1>6, <2>2 DEF BootInv, ThroughOK
  <2> QED BY <1>5, <2>2, <2>3
<1> QED BY <1>1, <1>5, <1>6

(* The power is cut inside a write of a device that writes through. *)
LEMMA ThroughCut ==
  ASSUME BootInv, ~boot.cached, NextWrite \in Regions, disk' = [disk EXCEPT ![NextWrite] = "torn"]
  PROVE  /\ disk' = [r \in Regions |-> disk'[r]]
         /\ vol.user => Sound(disk')
         /\ disk'["sb"] \in InUse => Sound(disk')
<1>1. /\ disk' = [r \in Regions |-> disk'[r]]
      /\ \A r \in Regions : disk'[r] = IF r = NextWrite THEN "torn" ELSE disk[r]
  BY DEF BootInv, DeviceOK
<1>2. {"sb", "jsb", "map", "root"} \subseteq Regions /\ boot.i \in 1 .. 6 /\ (boot.pc = "gpt" => boot.i <= 5) /\ "none" \notin Regions
  BY DEF Regions, BootInv, BootOK
<1>3. CASE boot.pc = "gpt"
  <2>1. NextWrite \notin {"sb", "jsb", "map", "root"}
    BY <1>2, <1>3 DEF NextWrite, GptWrites
  <2>2. Sound(disk) => Sound(disk')
    BY <1>1, <1>2, <2>1 DEF Sound, Whole
  <2>3. disk'["sb"] = disk["sb"]
    BY <1>1, <1>2, <2>1
  <2> QED BY <1>1, <2>2, <2>3 DEF BootInv, UserOK, ThroughOK
<1>4. CASE boot.pc = "mkfs" /\ boot.i <= Len(MkfsWrites)
  <2>1. boot.i < 6
    BY <1>2, <1>4 DEF MkfsWrites
  <2>2. disk["sb"] \notin InUse /\ ~vol.user
    BY <1>4, <2>1 DEF BootInv, ThroughOK, MkfsWrote, UserOK
  <2>3. disk'["sb"] \notin InUse
    BY <1>1, <1>2, <2>2 DEF InUse
  <2> QED BY <1>1, <2>2, <2>3
<1> QED BY <1>2, <1>3, <1>4 DEF NextWrite

(* The power is cut. *)
LEMMA PowerCutInv == ASSUME BootInv, PowerCut PROVE BootInv'
<1>1. /\ pend' = << >> /\ vol' = vol /\ VolOK' /\ BootOK /\ DeviceOK
      /\ boot' = [boot EXCEPT !.pc = "off", !.cuts = @ + 1]
  BY DEF PowerCut, BootInv, VolOK
<1>2. /\ disk' = [r \in Regions |-> disk'[r]]
      /\ vol.user => Sound(disk')
      /\ ~boot.cached /\ disk'["sb"] \in InUse => Sound(disk')
  <2>1. CASE \E d \in [DOMAIN pend -> UNION {Remains(r, pend[r]) : r \in DOMAIN pend}] :
               /\ \A r \in DOMAIN pend : d[r] \in Remains(r, pend[r])
               /\ disk' = Over(d, disk)
    <3>1. vol.user => Sound(disk) /\ NoLayout(pend)
      BY DEF BootInv, UserOK
    <3> QED BY <2>1, <3>1, CachedCut
  <2>2. CASE ~boot.cached /\ NextWrite \in Regions /\ disk' = [disk EXCEPT ![NextWrite] = "torn"]
    BY <2>2, ThroughCut
  <2> QED BY <2>1, <2>2 DEF PowerCut
<1>3. DOMAIN pend' = {} /\ NoLayout(pend') /\ DeviceOK'
  BY <1>1, <1>2 DEF DeviceOK, NoLayout
<1>4. boot \in BootType /\ "off" \in Steps /\ boot.cuts + 1 \in Int /\ boot' = [boot EXCEPT !.pc = "off", !.cuts = boot.cuts + 1]
  BY <1>1 DEF BootOK, BootType, Steps
<1>5. boot' \in BootType
  BY <1>4, Zenon DEF BootType
<1>6. boot'.pc = "off" /\ boot'.i = boot.i /\ boot'.cached = boot.cached
  BY <1>4 DEF BootType
<1>7. BootOK' /\ PhaseOK' /\ CommandOK'
  BY <1>1, <1>5, <1>6 DEF BootOK, PhaseOK, CommandOK, BeforeMount, AfterStartup
<1>8. UserOK'
  BY <1>1, <1>2, <1>3, <1>6 DEF UserOK
<1>9. ThroughOK'
  BY <1>2, <1>3, <1>6 DEF ThroughOK
<1> QED BY <1>1, <1>3, <1>7, <1>8, <1>9 DEF BootInv

-----------------------------------------------------------------------------
(* The theorems.                                                           *)

(* Every disk the machine may come with, every kind of device. *)
LEMMA BootInitInv == ASSUME FreshMachines, BootInit PROVE BootInv
<1>1. disk \in Disks /\ pend = << >> /\ DOMAIN pend = {} /\ vol = NoFiles
  BY DEF BootInit
<1>2. PICK c \in Caches :
        boot = [pc |-> "off", i |-> 1, cached |-> c, mounted |-> FALSE, formatted |-> FALSE, wb |-> "unknown", ok |-> TRUE,
                cuts |-> 0, errors |-> 0]
  BY Zenon DEF BootInit
<1>3. c \in BOOLEAN
  BY DEF FreshMachines
<1>4. DeviceOK /\ disk["sb"] \notin InUse
  BY <1>1 DEF DeviceOK, FreshMachines
<1>5. VolOK /\ ~vol.user
  BY <1>1 DEF VolOK, VolType, NoFiles, Dirs, Scripts, Binaries
<1>6. boot.pc = "off" /\ boot.i = 1
  BY <1>2
<1>7. BootOK
  BY <1>2, <1>3 DEF BootOK, BootType, Steps, Answers
<1>8. PhaseOK /\ UserOK /\ CommandOK
  BY <1>5, <1>6 DEF PhaseOK, UserOK, CommandOK, BeforeMount, AfterStartup
<1>9. ThroughOK
  BY <1>1, <1>4, <1>6 DEF ThroughOK
<1> QED BY <1>4, <1>5, <1>7, <1>8, <1>9 DEF BootInv

(* Every step preserves the invariant. *)
LEMMA BootNextInv == ASSUME BootInv, [BootNext]_bootVars PROVE BootInv'
<1>1. CASE BootStep
  BY <1>1, FindPartitionInv, Gpt_FormatNInv, Carafs_MountInv, MarkCleanInv, Carafs_MkfsInv, MountedInv, MarkDirtyInv,
     SeedStartupInv, RunStartupInv, SeedCommandInv DEF BootStep
<1>2. CASE PowerOn \/ UserWrites \/ Checkpoint \/ PowerCut
  BY <1>2, PowerOnInv, UserWritesInv, CheckpointInv, PowerCutInv, Zenon
<1>3. CASE UNCHANGED bootVars
  <2>1. disk' = disk /\ pend' = pend /\ vol' = vol /\ boot' = boot
    BY <1>3 DEF bootVars
  <2>2. DeviceOK' /\ VolOK' /\ BootOK'
    BY <2>1 DEF BootInv, DeviceOK, VolOK, BootOK
  <2>3. UserOK' /\ ThroughOK' /\ CommandOK'
    BY <2>1 DEF BootInv, UserOK, ThroughOK, MkfsWrote, CommandOK
  <2>4. View' = View
    BY <2>1 DEF View
  <2>5. PhaseOK'
    BY <2>1, <2>4 DEF BootInv, PhaseOK, Mountable
  <2> QED BY <2>2, <2>3, <2>5 DEF BootInv
<1> QED BY <1>1, <1>2, <1>3 DEF BootNext

(* A step never undoes what a user has written: only Carafs_Mkfs would, and it runs   *)
(* on no volume in use.                                                             *)
LEMMA UserKept == ASSUME BootInv, [BootNext]_bootVars PROVE vol.user => vol'.user
<1>1. vol \in VolType
  BY DEF BootInv, VolOK
<1>2. CASE Carafs_Mkfs
  BY <1>2 DEF Carafs_Mkfs, BootInv, UserOK
<1>3. CASE seed_startup
  BY <1>1, <1>3 DEF seed_startup, Op, VolType
<1>4. CASE Croi_Boot_SeedCommand
  BY <1>1, <1>4 DEF Croi_Boot_SeedCommand, SeedAfter, Op, VolType
<1>5. CASE UserWrites
  BY <1>5 DEF UserWrites
<1>6. CASE PowerOn \/ Checkpoint \/ PowerCut \/ UNCHANGED bootVars
  BY <1>6 DEF PowerOn, Checkpoint, PowerCut, bootVars
<1>7. CASE FindPartition \/ Gpt_FormatN \/ Carafs_Mount \/ MarkClean
  BY <1>7 DEF FindPartition, Gpt_FormatN, Carafs_Mount, MarkClean
<1>8. CASE Mounted \/ MarkDirty \/ Croi_Boot_RunStartup
  BY <1>8 DEF Mounted, MarkDirty, Croi_Boot_RunStartup
<1> QED BY <1>2, <1>3, <1>4, <1>5, <1>6, <1>7, <1>8 DEF BootNext, BootStep

(* What the invariant says of a boot that has come up. *)
LEMMA BootInvImplies == ASSUME BootInv PROVE BootsToWorkbench /\ MountedIsWhole /\ CommandsRefreshed
<1>1. BootsToWorkbench
  BY DEF BootInv, PhaseOK, BootsToWorkbench, AfterStartup
<1>2. MountedIsWhole
  <2>1. SUFFICES ASSUME boot.mounted, boot.pc # "off", ~boot.cached PROVE Whole(disk)
    BY DEF MountedIsWhole
  <2>2. View["sb"] \in InUse
    BY <2>1 DEF BootInv, PhaseOK, Mountable, InUse
  <2>3. Sound(disk)
    BY <2>1, <2>2, SbRead DEF BootInv, ThroughOK
  <2> QED BY <2>3 DEF Sound
<1>3. CommandsRefreshed
  BY DEF BootInv, CommandOK, CommandsRefreshed
<1> QED BY <1>1, <1>2, <1>3

(* BootInv is an invariant of the bring-up of the root volume. *)
THEOREM BootInvariant == ASSUME FreshMachines PROVE BootSpec => []BootInv
<1>1. BootInit => BootInv
  BY BootInitInv
<1>2. BootInv /\ [BootNext]_bootVars => BootInv'
  BY BootNextInv
<1> QED BY <1>1, <1>2, PTL DEF BootSpec

(* Whatever fails and wherever the power goes, what a user has written survives       *)
(* every later boot, and a boot ends at the Workbench, with a whole volume and with    *)
(* its command in C: for every number of cuts and errors (Croi_Carafs_BringUp).        *)
THEOREM VolumesSurvive == ASSUME FreshMachines PROVE BootSpec => VolumeSurvives
<1>1. BootSpec => []BootInv
  BY BootInvariant
<1>2. BootInv /\ [BootNext]_bootVars => [vol.user => vol'.user]_bootVars
  BY UserKept
<1>3. BootInv => BootsToWorkbench /\ MountedIsWhole /\ CommandsRefreshed
  BY BootInvImplies
<1> QED BY <1>1, <1>2, <1>3, PTL DEF BootSpec, VolumeSurvives
=============================================================================
