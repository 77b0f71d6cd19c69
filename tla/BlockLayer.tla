----------------------------- MODULE BlockLayer -----------------------------
(***************************************************************************)
(* What performLinuxRestore stands on and does not control: the kernel's   *)
(* block layer, udev and the desktop automounter.  External: modelled from *)
(* how src/linux uses it (BLKGETDISKSEQ, O_EXCL, mountinfo, BLKRRPART, the *)
(* loop driver).                                                           *)
(*                                                                         *)
(* A Disk is one instance of a plugged-in drive: plugging the same stick   *)
(* in again gives another instance, with another disk sequence number.     *)
(* One kernel name (say sdb) is watched: /dev/sdb and /sys/block/sdb both  *)
(* denote `name`, the instance that holds it at present.                   *)
(***************************************************************************)
EXTENDS Integers, FiniteSets

CONSTANTS
  Disk,        \* instances of drives
  Selected,    \* the instance the restore was asked for
  NoDisk,
  MountPoint,  \* mount points, each named by the length of its path
  Protected,   \* the ones the running system needs
  MaxEvents    \* bound on what happens to the drive during one restore

ASSUME SelectedAssumption == Selected \in Disk /\ NoDisk \notin Disk
ASSUME MountAssumption == MountPoint \subseteq Nat /\ Protected \subseteq MountPoint
ASSUME EventsAssumption == MaxEvents \in Nat

VARIABLES
  presence,  \* [Disk -> absent | present | gone]
  safe,      \* [Disk -> BOOLEAN]: on the USB bus, writable, not a system disk
  name,      \* the instance the kernel name denotes
  seq,       \* [Disk -> disk sequence number, 0 before it is plugged in]
  lastSeq,   \* the highest number given out
  mounts,    \* [Disk -> mount points of its file systems]
  head,      \* [Disk -> what the start of the drive holds]
  tail,      \* [Disk -> what its end holds]
  fs,        \* [Disk -> what the planned partition range holds]
  listed,    \* [Disk -> the partitions the kernel lists in sysfs]
  partNode,  \* [Disk -> the partition node udev keeps for its partition 1]
  claim,     \* the instance held by the restore's O_EXCL descriptor, which a
             \* loop device bound to it keeps open
  loop,      \* is the formatter's loop device bound to that descriptor?
  loopClaim, \* is the loop node itself held O_EXCL?
  loopMount, \* has somebody else mounted the file system the loop node shows?
  rescan,    \* an instance udev re-reads after a writer closed it
  events

media == << head, tail, fs >>
kernelVars == << listed, partNode, rescan >>
loopVars == << loop, loopClaim, loopMount >>
plugVars == << presence, safe, name, seq, lastSeq >>
blockVars == << plugVars, mounts, media, kernelVars, claim, loopVars, events >>

BlockTypeOK ==
  /\ presence \in [Disk -> {"absent", "present", "gone"}]
  /\ safe \in [Disk -> BOOLEAN]
  /\ name \in Disk \cup {NoDisk}
  /\ seq \in [Disk -> Nat]
  /\ lastSeq \in Nat
  /\ mounts \in [Disk -> SUBSET MountPoint]
  /\ head \in [Disk -> {"old", "torn", "zero", "new"}]
  /\ tail \in [Disk -> {"old", "torn", "zero", "new"}]
  /\ fs \in [Disk -> {"old", "torn", "cached", "new"}]
  /\ listed \in [Disk -> {"old", "none", "new"}]
  /\ partNode \in [Disk -> {"old", "none", "new"}]
  /\ claim \in Disk \cup {NoDisk}
  /\ loop \in BOOLEAN
  /\ loopClaim \in BOOLEAN
  /\ loopMount \in BOOLEAN
  /\ rescan \in Disk \cup {NoDisk}
  /\ events \in 0 .. MaxEvents

BlockInit ==
  /\ presence = [d \in Disk |-> IF d = Selected THEN "present" ELSE "absent"]
  /\ safe \in [Disk -> BOOLEAN]
  /\ name = Selected
  /\ seq = [d \in Disk |-> IF d = Selected THEN 1 ELSE 0]
  /\ lastSeq = 1
  /\ \E m \in SUBSET MountPoint :
       mounts = [d \in Disk |-> IF d = Selected THEN m ELSE {}]
  /\ head = [d \in Disk |-> "old"]
  /\ tail = [d \in Disk |-> "old"]
  /\ fs = [d \in Disk |-> "old"]
  /\ listed = [d \in Disk |-> "old"]
  /\ partNode = [d \in Disk |-> "old"]
  /\ claim = NoDisk
  /\ loop = FALSE
  /\ loopClaim = FALSE
  /\ loopMount = FALSE
  /\ rescan = NoDisk
  /\ events = 0

Present(d) == d # NoDisk /\ presence[d] = "present"

\* Nothing of the drive has been overwritten.
Untouched(d) == head[d] = "old" /\ tail[d] = "old" /\ fs[d] = "old"

\* The partitions a scan of the drive's partition table finds.
Scan(d) == IF head[d] \in {"old", "new"} THEN head[d] ELSE "none"

\* There is a partition with a file system the desktop could mount.
Mountable(d) ==
  \/ listed[d] = "old" /\ head[d] = "old"
  \/ listed[d] = "new" /\ fs[d] = "new"

----------------------------------------------------------------------------
\* What happens to drives.  Each of these spends one of MaxEvents.

Happens == events < MaxEvents /\ events' = events + 1

Unplug(d) ==
  /\ Happens
  /\ Present(d)
  /\ presence' = [presence EXCEPT ![d] = "gone"]
  /\ name' = IF name = d THEN NoDisk ELSE name
  /\ mounts' = [mounts EXCEPT ![d] = {}]
  /\ UNCHANGED << safe, seq, lastSeq, media, kernelVars, claim, loopVars >>

\* Another drive, or the same stick again, takes the free name.
Plug(d) ==
  /\ Happens
  /\ presence[d] = "absent"
  /\ name = NoDisk
  /\ presence' = [presence EXCEPT ![d] = "present"]
  /\ name' = d
  /\ seq' = [seq EXCEPT ![d] = lastSeq + 1]
  /\ lastSeq' = lastSeq + 1
  /\ UNCHANGED << safe, mounts, media, kernelVars, claim, loopVars >>

\* A reset the kernel takes for a media change: the same drive, a new number.
MediaChange(d) ==
  /\ Happens
  /\ Present(d)
  /\ seq' = [seq EXCEPT ![d] = lastSeq + 1]
  /\ lastSeq' = lastSeq + 1
  /\ UNCHANGED << presence, safe, name, mounts, media, kernelVars, claim, loopVars >>

\* The automounter, or an administrator.  The kernel refuses to mount a
\* partition of a drive that is claimed as a whole.
Mount(d, m) ==
  /\ Happens
  /\ Present(d)
  /\ claim # d
  /\ Mountable(d)
  /\ \A other \in Disk : m \notin mounts[other]
  /\ mounts' = [mounts EXCEPT ![d] = @ \cup {m}]
  /\ UNCHANGED << plugVars, media, kernelVars, claim, loopVars >>

\* The file system at the start of the planned range.  The clearing of the
\* drive's start reaches into the range, and comes before that of its end.
ShowsFileSystem(d) ==
  \/ fs[d] \in {"cached", "new"}
  \/ fs[d] = "old" /\ tail[d] = "old" /\ head[d] \in {"old", "torn"}

\* The automounter finds it on the loop node, unless that is claimed.
MountLoop ==
  /\ Happens
  /\ loop /\ ~ loopClaim /\ ~ loopMount
  /\ Present(claim)
  /\ ShowsFileSystem(claim)
  /\ loopMount' = TRUE
  /\ UNCHANGED << plugVars, mounts, media, kernelVars, claim, loop, loopClaim >>

----------------------------------------------------------------------------
\* udev, in its own time.

\* The node of partition 1 catches up with what the kernel lists.
SettleNode(d) ==
  /\ partNode[d] # listed[d]
  /\ partNode' = [partNode EXCEPT ![d] = listed[d]]
  /\ UNCHANGED << plugVars, mounts, media, listed, rescan, claim, loopVars, events >>

\* A writer closed the drive: its partitions are dropped, then read again.
BeginRescan(d) ==
  /\ rescan = d
  /\ Present(d)
  /\ claim # d
  /\ mounts[d] = {}
  /\ rescan' = NoDisk
  /\ listed' = [listed EXCEPT ![d] = "none"]
  /\ UNCHANGED << plugVars, mounts, media, partNode, claim, loopVars, events >>

EndRescan(d) ==
  /\ listed[d] = "none"
  /\ Present(d)
  /\ claim # d
  /\ Scan(d) # "none"
  /\ listed' = [listed EXCEPT ![d] = Scan(d)]
  /\ UNCHANGED << plugVars, mounts, media, partNode, rescan, claim, loopVars, events >>

World ==
  \/ MountLoop
  \/ \E d \in Disk :
       \/ Unplug(d) \/ Plug(d) \/ MediaChange(d)
       \/ \E m \in MountPoint : Mount(d, m)
       \/ SettleNode(d) \/ BeginRescan(d) \/ EndRescan(d)
=============================================================================
