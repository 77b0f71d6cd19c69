----------------------------- MODULE SystemGuard -----------------------------
(***************************************************************************)
(* Which stick the running system lives on: the mount table, the guard     *)
(* that is made from it, the facts of the stick that are compared with the *)
(* guard, and the unmounting of what is left (src/linux/sysfs.cpp,         *)
(* linuxRestoreGuard of src/linux/linux_enumerate.cpp,                     *)
(* isProtectedMountPoint of src/core/safety.cpp, unmountDisk of            *)
(* src/linux/linux_restore.cpp).                                           *)
(*                                                                         *)
(* The table is read whole, five times and more, and changes in between.   *)
(* A mount names its file system's device number and a source, and which   *)
(* of them leads back to the stick depends on what lies between.           *)
(***************************************************************************)
EXTENDS Naturals, SequencesExt, FiniteSetsExt

CONSTANTS
  Stick,                \* the selected drive
  PossibleMounts,       \* [at, drive, via]: a path as a sequence of names
  ProtectedPaths,       \* protectedSystemMounts
  OpenAttempts,
  MaxEvents             \* changes of the table by others

\* A partition's own file system; one that has a number of its own and names the
\* partition as its source; one behind the device mapper, which names that.
Vias == {"partition", "pool", "mapper"}

ASSUME GuardAssumption ==
  /\ \A m \in PossibleMounts : m.via \in Vias
  /\ OpenAttempts \in Nat \ {0}
  /\ MaxEvents \in Nat

VARIABLES
  mounts,               \* the table
  mountedAt,            \* events when a mount was last made, itself included
  events,
  phase,
  guard,                \* deviceIds
  guardAt,              \* events when the guard was made
  factsAt,              \* events when the facts were last found safe
  pending,              \* mounts that unmountDisk has still to undo
  tableAt,              \* events when it read the table
  attempts,
  reason                \* why the restore was refused

tableVars == << mounts, mountedAt, events >>
restoreVars == << phase, guard, guardAt, factsAt, pending, tableAt, attempts, reason >>
guardVars == << tableVars, restoreVars >>

Beneath(path, other) == IsStrictPrefix(other, path)

\* "A disk mounted at "/" holds "/boot" whether or not that is a separate mount."
isProtectedMountPoint(path) == \E guarded \in ProtectedPaths : IsPrefix(path, guarded)

\* A table as other programs leave it: the system's root is there, nobody mounts
\* twice at one path.
Tables ==
  { table \in SUBSET PossibleMounts :
      /\ \E m \in table : m.at = << >>
      /\ \A m, n \in table : m.at = n.at => m = n }

GuardInit ==
  /\ mounts \in Tables
  /\ mountedAt = [m \in PossibleMounts |-> 0]
  /\ events = 0
  /\ phase = "ScanGuard"
  /\ guard = {} /\ guardAt = 0 /\ factsAt = 0
  /\ pending = {} /\ tableAt = 0
  /\ attempts = 0
  /\ reason = "none"

----------------------------------------------------------------------------
\* Others.

Free(path) == \A m \in mounts : m.at # path /\ ~ Beneath(m.at, path)

Mount(m) ==
  /\ events < MaxEvents
  /\ Free(m.at)
  /\ phase = "Opened" => m.drive # Stick
  /\ mounts' = mounts \cup {m}
  /\ events' = events + 1
  /\ mountedAt' = [mountedAt EXCEPT ![m] = events + 1]
  /\ UNCHANGED restoreVars

\* Nobody takes away what the system needs.
Unmount(m) ==
  /\ events < MaxEvents
  /\ m \in mounts
  /\ ~ isProtectedMountPoint(m.at)
  /\ \A n \in mounts : ~ Beneath(n.at, m.at)
  /\ mounts' = mounts \ {m}
  /\ events' = events + 1
  /\ UNCHANGED << mountedAt, restoreVars >>

----------------------------------------------------------------------------
\* The restore.

RefuseStick(why) ==
  /\ phase' = "Refused"
  /\ reason' = why

SourceAsNamed(m) == IF m.via = "partition" THEN {m.drive} ELSE {}

\* The drive that a mount's source names, partitions by their parent.
SourceDrive(m) == IF m.via \in {"partition", "pool"} THEN {m.drive} ELSE {}

linuxRestoreGuard ==
  UNION { SourceDrive(m) : m \in { n \in mounts : isProtectedMountPoint(n.at) } }

\* deviceNumbersOnDisk: the numbers of the stick and of its partitions.
Owned(m) == m.drive = Stick /\ m.via = "partition"

\* isSafeRestoreTarget, as far as it depends on the table.
SafeByMounts ==
  /\ Stick \notin guard
  /\ \A m \in mounts : Owned(m) => ~ isProtectedMountPoint(m.at)

\* The window scans; the helper does the same again with its own eyes.
ReadGuard ==
  /\ \/ phase = "ScanGuard" /\ phase' = "ScanFacts"
     \/ phase = "HelperGuard" /\ phase' = "HelperFacts"
  /\ guard' = linuxRestoreGuard
  /\ guardAt' = events
  /\ UNCHANGED << tableVars, factsAt, pending, tableAt, attempts, reason >>

\* The scan's row, the helper's main, and the restore's first step, which has no
\* guard of its own.  A restore started with sudo has no helper.
ReadFacts ==
  /\ \/ /\ SafeByMounts
        /\ \/ phase = "ScanFacts" /\ phase' \in {"HelperGuard", "Refresh"}
           \/ phase = "HelperFacts" /\ phase' = "Refresh"
           \/ phase = "Refresh" /\ phase' = "ReadTable"
        /\ factsAt' = events
        /\ UNCHANGED reason
     \/ /\ ~ SafeByMounts
        /\ phase \in {"ScanFacts", "HelperFacts", "Refresh"}
        /\ RefuseStick("unsafe")
        /\ UNCHANGED factsAt
  /\ UNCHANGED << tableVars, guard, guardAt, pending, tableAt, attempts >>

ReadTable ==
  /\ phase = "ReadTable"
  /\ phase' = "Unmount"
  /\ pending' = { m \in mounts : Owned(m) }
  /\ tableAt' = events
  /\ UNCHANGED << tableVars, guard, guardAt, factsAt, attempts, reason >>

AnyOrder(m) == m \in pending

\* "Deepest first": what is beneath a path has a longer one.
IsNext(m) == m \in pending /\ \A n \in pending : ~ Beneath(n.at, m.at)

MayUnmount(path) == ~ isProtectedMountPoint(path)

\* umount2 goes by path, whatever is mounted there by now.
UnmountOne(m) ==
  /\ phase = "Unmount"
  /\ IsNext(m)
  /\ LET there == { n \in mounts : n.at = m.at }
         nested == \E n \in mounts : Beneath(n.at, m.at)
     IN  \/ ~ MayUnmount(m.at) /\ RefuseStick("protected") /\ UNCHANGED << mounts, pending >>
         \/ /\ MayUnmount(m.at)
            /\ there # {} => ~ nested
            /\ mounts' = mounts \ there
            /\ pending' = pending \ {m}
            /\ UNCHANGED << phase, reason >>
         \/ /\ MayUnmount(m.at)
            /\ there # {}
            /\ RefuseStick(IF nested THEN "nested" ELSE "in use")
            /\ UNCHANGED << mounts, pending >>
  /\ UNCHANGED << mountedAt, events, guard, guardAt, factsAt, tableAt, attempts >>

EndUnmount ==
  /\ phase = "Unmount" /\ pending = {}
  /\ phase' = "Open"
  /\ UNCHANGED << tableVars, guard, guardAt, factsAt, pending, tableAt, attempts, reason >>

MayTryAgain == attempts < OpenAttempts - 1

\* O_EXCL: neither a file system nor a mapping holds the stick.
OpensExclusively == \A m \in mounts : m.drive # Stick

OpenStick ==
  /\ phase = "Open"
  /\ \/ OpensExclusively /\ phase' = "Opened" /\ UNCHANGED << attempts, reason >>
     \/ /\ ~ OpensExclusively
        /\ MayTryAgain
        /\ attempts' = attempts + 1
        /\ phase' = "ReadTable"
        /\ UNCHANGED reason
     \/ /\ ~ OpensExclusively
        /\ ~ MayTryAgain
        /\ RefuseStick("claimed")
        /\ UNCHANGED attempts
  /\ UNCHANGED << tableVars, guard, guardAt, factsAt, pending, tableAt >>

Restore ==
  \/ ReadGuard \/ ReadFacts \/ ReadTable
  \/ \E m \in pending : UnmountOne(m)
  \/ EndUnmount \/ OpenStick

Others == \E m \in PossibleMounts : Mount(m) \/ Unmount(m)

GuardNext == Restore \/ Others

GuardSpec == GuardInit /\ [][GuardNext]_guardVars

----------------------------------------------------------------------------
\* What of the system is on the stick.
SystemMounts == { m \in mounts : m.drive = Stick /\ isProtectedMountPoint(m.at) }

Checked == phase \in {"ReadTable", "Unmount", "Open", "Opened"}

\* A stick that holds the system has not passed the checks, whatever else was
\* mounted and unmounted between their readings of the table, unless the very mount
\* is younger: than the guard where it names the stick only as its source (btrfs
\* has a number of its own), than the guard and the restore's own look where it has
\* the number of the stick's partition.  What is behind the mapper passes.
SystemStickIsRefused ==
  Checked => \A m \in SystemMounts :
               /\ m.via = "pool" => mountedAt[m] > guardAt
               /\ m.via = "partition" => mountedAt[m] > guardAt /\ mountedAt[m] > factsAt

\* The stick's own mounts never stand in each other's way: if one is refused for
\* another beneath it, that one is of another drive, or not known to be the
\* stick's, or new.
OwnNestingNeverBlocks ==
  phase = "Refused" /\ reason = "nested" /\ tableAt = events =>
    \E m \in pending, n \in mounts : Beneath(n.at, m.at) /\ ~ Owned(n)
=============================================================================
