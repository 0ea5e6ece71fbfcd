----------------------------- MODULE VolumeBoot -----------------------------
(***************************************************************************)
(* Bringing up the root volume at boot: Croi_Carafs_BringUp finds or writes  *)
(* the partition table (gpt.c), mounts the volume or makes one (mkfs.c,      *)
(* mount.c), seeds a fresh one, runs S/Startup-Sequence and refreshes the     *)
(* commands in C (carafs_bind.c).  Every write goes to the device one at a    *)
(* time, any of them may fail, and the power may be cut between any two or      *)
(* inside one: of the writes since the last flush any part may have reached the *)
(* media, and a block of several LBAs may be half written.  A device writes an  *)
(* LBA whole.  What the journal does inside a volume is CarafsWal's and         *)
(* CarafsVolume's matter: here a volume operation is one atomic step.          *)
(***************************************************************************)
EXTENDS Integers, Sequences

CONSTANTS
  Caches,      \* whether the device may hold writes back until a flush
  Disks,       \* what the disk holds at first
  MaxCuts, MaxIoErrors

VARIABLES
  disk,        \* region -> what is on the media
  pend,        \* region -> written and not flushed
  vol,         \* files of the volume
  boot         \* where the boot is

bootVars == <<disk, pend, vol, boot>>

GptWrites == <<"mbr", "hdr", "arr", "barr", "bhdr">>
MkfsWrites == <<"jsb", "map", "root", "bsb", "sb">>

(* The regions boot reads back: not the protective MBR nor any backup. *)
Regions == {"hdr", "arr", "jsb", "map", "root", "sb"}

Blank == [r \in Regions |-> "blank"]
(* A disk somebody else partitioned, with their data. *)
Foreign == [r \in Regions |-> "foreign"]

NoFiles == [S |-> "none", seq |-> "none", C |-> "none", cmd |-> "none", user |-> FALSE]

(* What the driver reads: the last write, flushed or not. *)
Over(p, d) == [r \in Regions |-> IF r \in DOMAIN p THEN p[r] ELSE d[r]]
View == Over(pend, disk)

BootInit ==
  /\ disk \in Disks
  /\ pend = << >>
  /\ vol = NoFiles
  /\ \E c \in Caches :
       boot = [pc |-> "off", i |-> 1, cached |-> c, mounted |-> FALSE, formatted |-> FALSE, wb |-> "unknown",
               ok |-> TRUE, cuts |-> 0, errors |-> 0]

(* The device takes a write, at once or into its cache; a flush empties it. *)
Write(r, v) ==
  IF r \notin Regions THEN UNCHANGED <<disk, pend>>
  ELSE IF boot.cached THEN pend' = [q \in DOMAIN pend \cup {r} |-> IF q = r THEN v ELSE pend[q]] /\ UNCHANGED disk
  ELSE disk' = [disk EXCEPT ![r] = v] /\ UNCHANGED pend
Flush == disk' = View /\ pend' = << >>

Go(pc) == boot' = [boot EXCEPT !.pc = pc, !.i = 1]
Fail(pc) == boot' = [boot EXCEPT !.pc = pc, !.i = 1, !.errors = @ + 1, !.ok = FALSE] /\ boot.errors < MaxIoErrors
Keep == UNCHANGED <<disk, pend>>

(***************************************************************************)
(* Croi_Carafs_BringUp                                                      *)
(***************************************************************************)

(* Gpt_FindCarafsNth: header and array must check out, and an entry be ours. *)
ValidGpt(d) == d["hdr"] \in {"ours", "foreign"} /\ d["arr"] = d["hdr"]
Gpt_FindCarafs == View["hdr"] = "ours" /\ ValidGpt(View)

FindPartition ==
  /\ boot.pc = "find"
  /\ Go(IF Gpt_FindCarafs THEN "mount" ELSE "gpt") \/ Fail("novolume")
  /\ Keep /\ UNCHANGED vol

(* Gpt_FormatN: protective MBR, primary header and array, backups; no flush. *)
Gpt_FormatN ==
  /\ boot.pc = "gpt"
  /\ \/ /\ Write(GptWrites[boot.i], "ours")
        /\ IF boot.i = Len(GptWrites) THEN Go("mount") ELSE boot' = [boot EXCEPT !.i = @ + 1]
     \/ Fail("novolume") /\ Keep
  /\ UNCHANGED vol

(* Carafs_Mount: the superblock, then the journal's; both answer EBADMAGIC  *)
(* when a check sum is wrong.  A volume that was in use is replayed and      *)
(* marked clean.                                                            *)
MountableClean == View["sb"] = "clean" /\ View["jsb"] = "ours"
Mountable == View["sb"] \in {"clean", "dirty"} /\ View["jsb"] = "ours"

Carafs_Mount ==
  /\ boot.pc = "mount"
  /\ \/ /\ Mountable
        /\ boot' = [boot EXCEPT !.pc = IF View["sb"] = "dirty" THEN "replayed" ELSE "mounted"]
     \/ /\ ~Mountable
        /\ Go(IF boot.formatted THEN "novolume" ELSE "mkfs")
     \/ Fail("novolume")
  /\ Keep /\ UNCHANGED vol

MarkClean ==
  /\ boot.pc = "replayed"
  /\ \/ /\ View["sb"] = "dirty" /\ Write("sb", "clean") /\ UNCHANGED boot
     \/ /\ View["sb"] = "clean" /\ Flush /\ Go("mounted")
     \/ Fail("novolume") /\ Keep
  /\ UNCHANGED vol

(* Carafs_Mkfs: the root directory is empty from then on, the superblock     *)
(* makes it a volume.                                                       *)
MkfsValue(r) == IF r = "sb" THEN "clean" ELSE "ours"

Carafs_Mkfs ==
  /\ boot.pc = "mkfs"
  /\ \/ /\ boot.i <= Len(MkfsWrites)
        /\ Write(MkfsWrites[boot.i], MkfsValue(MkfsWrites[boot.i]))
        /\ boot' = [boot EXCEPT !.i = @ + 1]
        /\ vol' = IF MkfsWrites[boot.i] = "root" THEN NoFiles ELSE vol
     \/ /\ boot.i > Len(MkfsWrites)
        /\ Flush
        /\ boot' = [boot EXCEPT !.pc = "mount", !.i = 1, !.formatted = TRUE]
        /\ UNCHANGED vol
     \/ Fail("novolume") /\ Keep /\ UNCHANGED vol

Mounted ==
  /\ boot.pc = "mounted"
  /\ boot' = [boot EXCEPT !.mounted = TRUE, !.pc = IF boot.formatted THEN "seedS" ELSE "startup"]
  /\ Keep /\ UNCHANGED vol

(***************************************************************************)
(* Volume operations: the first one marks the volume dirty and flushes that, *)
(* each one commits and is durable when it returns.  A volume without a root  *)
(* directory fails them all.                                                *)
(***************************************************************************)

MarkDirty ==
  /\ boot.pc \in {"seedS", "seedSeq", "seedText", "cmdDir", "cmdRemove", "cmdCreate", "cmdWrite", "up"}
  /\ boot.mounted
  /\ \/ /\ View["sb"] = "clean" /\ Write("sb", "dirty")
     \/ /\ View["sb"] = "dirty" /\ DOMAIN pend # {} /\ Flush
  /\ UNCHANGED <<vol, boot>>

Ready == disk["sb"] = "dirty" /\ DOMAIN pend = {}
Whole(d) == d["map"] = "ours" /\ d["root"] = "ours"

(* A step of the boot that is one operation on the volume; whatever becomes  *)
(* of it, a message at most, and the boot goes on.                           *)
Op(pc, new, next, giveUp) ==
  /\ boot.pc = pc /\ Keep
  /\ \/ Ready /\ Whole(disk) /\ vol' = new /\ Go(next)
     \/ Ready /\ ~Whole(disk) /\ UNCHANGED vol /\ boot' = [boot EXCEPT !.pc = giveUp, !.ok = FALSE]
     \/ Fail(giveUp) /\ UNCHANGED vol

seed_startup ==
  \/ Op("seedS", [vol EXCEPT !.S = "dir"], "seedSeq", "startup")
  \/ Op("seedSeq", [vol EXCEPT !.seq = "empty"], "seedText", "startup")
  \/ Op("seedText", [vol EXCEPT !.seq = "seeded"], "startup", "startup")

(* Croi_Boot_RunStartup: no volume, no script or an empty one start the       *)
(* Workbench; a script does where it says so, the seeded one does.            *)
read_startup == IF boot.mounted /\ Whole(disk) /\ vol.S = "dir" THEN vol.seq ELSE "none"
WantsWb(script) == script \in {"none", "empty", "seeded"}

Croi_Boot_RunStartup ==
  /\ boot.pc \in {"startup", "novolume"}
  /\ boot' = [boot EXCEPT !.wb = IF WantsWb(read_startup) THEN "yes" ELSE "no",
                          !.pc = IF boot.mounted THEN "cmdDir" ELSE "up"]
  /\ Keep /\ UNCHANGED vol

(* Croi_Boot_SeedCommand: find or make C, drop the old command, write the     *)
(* new one.                                                                  *)
SeedAfter(pc, next) == boot.pc = pc /\ Go(next) /\ Keep /\ UNCHANGED vol

Croi_Boot_SeedCommand ==
  \/ vol.C = "dir" /\ Whole(disk) /\ SeedAfter("cmdDir", "cmdRemove")
  \/ ~(vol.C = "dir" /\ Whole(disk)) /\ Op("cmdDir", [vol EXCEPT !.C = "dir"], "cmdRemove", "up")
  \/ vol.cmd = "none" /\ SeedAfter("cmdRemove", "cmdCreate")
  \/ vol.cmd # "none" /\ Op("cmdRemove", [vol EXCEPT !.cmd = "none"], "cmdCreate", "cmdCreate")
  \/ vol.cmd = "none" /\ Op("cmdCreate", [vol EXCEPT !.cmd = "empty"], "cmdWrite", "up")
  \/ vol.cmd # "none" /\ SeedAfter("cmdCreate", "up")
  \/ Op("cmdWrite", [vol EXCEPT !.cmd = "whole"], "up", "up")

(***************************************************************************)
(* The running system, the power switch                                     *)
(***************************************************************************)

UserWrites ==
  /\ boot.pc = "up" /\ boot.mounted /\ ~vol.user /\ Ready /\ Whole(disk)
  /\ vol' = [vol EXCEPT !.user = TRUE]
  /\ Keep /\ UNCHANGED boot

(* A checkpoint writes the journal's superblock in place. *)
Checkpoint ==
  /\ boot.pc = "up" /\ boot.mounted /\ Ready
  /\ pend' = [r \in {"jsb"} |-> "ours"]
  /\ UNCHANGED <<disk, vol, boot>>

PowerOn ==
  /\ boot.pc = "off"
  /\ boot' = [boot EXCEPT !.pc = "find", !.i = 1, !.mounted = FALSE, !.formatted = FALSE, !.wb = "unknown", !.ok = TRUE]
  /\ Keep /\ UNCHANGED vol

(* A half written block shows, except that the GPT header is one LBA, and that  *)
(* the two superblocks are zero behind their first LBA: written over one of      *)
(* their kind, such a block is the old one or the new one (jsb_write,            *)
(* sb_write_direct).                                                             *)
Tears(r) == r # "hdr" /\ ~(r \in {"jsb", "sb"} /\ disk[r] \in {"ours", "clean", "dirty"})

(* What is left of a write that was under way. *)
Remains(r, v) == {disk[r], v} \cup IF Tears(r) THEN {"torn"} ELSE {}

(* The region that gpt.c or mkfs.c writes next. *)
NextWrite ==
  IF boot.pc = "gpt" THEN GptWrites[boot.i]
  ELSE IF boot.pc = "mkfs" /\ boot.i <= Len(MkfsWrites) THEN MkfsWrites[boot.i] ELSE "none"

PowerCut ==
  /\ boot.pc # "off" /\ boot.cuts < MaxCuts
  /\ \/ \E d \in [DOMAIN pend -> UNION {Remains(r, pend[r]) : r \in DOMAIN pend}] :
          /\ \A r \in DOMAIN pend : d[r] \in Remains(r, pend[r])
          /\ disk' = Over(d, disk)
     \/ /\ ~boot.cached /\ NextWrite \in Regions /\ Tears(NextWrite)
        /\ disk' = [disk EXCEPT ![NextWrite] = "torn"]
  /\ pend' = << >>
  /\ boot' = [boot EXCEPT !.pc = "off", !.cuts = @ + 1]
  /\ UNCHANGED vol

BootStep ==
  \/ FindPartition \/ Gpt_FormatN \/ Carafs_Mount \/ MarkClean \/ Carafs_Mkfs \/ Mounted
  \/ MarkDirty \/ seed_startup \/ Croi_Boot_RunStartup \/ Croi_Boot_SeedCommand

BootNext == BootStep \/ PowerOn \/ UserWrites \/ Checkpoint \/ PowerCut

BootSpec == BootInit /\ [][BootNext]_bootVars

(***************************************************************************)
(* Properties                                                               *)
(***************************************************************************)

(* A system that comes up comes up at the Workbench, on every disk that only   *)
(* the system has written: a cut while the script is being seeded does not     *)
(* leave a system without a screen (read_startup, Croi_Boot_RunStartup).       *)
BootsToWorkbench == boot.pc = "up" => boot.wb = "yes"

(* On a device that writes through, a volume that mounts is whole: the         *)
(* superblock is the last thing mkfs writes.                                   *)
MountedIsWhole == boot.mounted /\ boot.pc # "off" /\ ~boot.cached => Whole(disk)

(* A boot in which nothing fails ends with the command of this system in C,    *)
(* also when an earlier boot was cut between removing it and writing it.        *)
CommandsRefreshed ==
  boot.pc = "up" /\ boot.ok /\ boot.mounted => vol.C = "dir" /\ vol.cmd = "whole"

(* What a user has written survives every later boot, whatever fails in it    *)
(* and wherever the power goes, inside a write too: BringUp formats only a disk *)
(* that never held a volume in use; and the boot ends as the three above say.   *)
VolumeSurvives ==
  /\ [][vol.user => vol'.user]_bootVars
  /\ [](BootsToWorkbench /\ MountedIsWhole /\ CommandsRefreshed)
=============================================================================
