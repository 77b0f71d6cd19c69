------------------------- MODULE LinuxRestoreProofs -------------------------
(***************************************************************************)
(* The safety of the Linux restore for any number of drives, mount points, *)
(* disturbances and open attempts.  IInv is the inductive invariant: what  *)
(* each location of performLinuxRestore may rely on.  The theorems are its *)
(* consequences.                                                           *)
(***************************************************************************)
EXTENDS LinuxRestoreSafety, TLAPS

Unwinding == {"Unwind", "UnwindUnbind", "CloseDrive"}

Returned == Unwinding \cup {"Judge", "Done"}

\* From the successful open to the close.
Holding ==
  { "VerifyOpen", "AfterOpen", "Configure", "BeforeWriting", "VerifyLast",
    "Announce", "ClearHead", "ClearTail", "WriteTable", "WriteBackup",
    "FlushTable", "PrepareFormat", "Mkfs", "Detach", "Unbind", "Salvage",
    "SalvageUnbind", "SalvageTable", "Reread", "ReadSequence", "Close" }

Verified == Holding \ {"VerifyOpen"}

\* Every location at which nothing can have been written yet.
Pristine ==
  { "Start", "VerifyDisk", "Identify", "BeforeUnmount", "Unmount", "Unmounting",
    "TryOpen", "VerifyOpen", "AfterOpen", "Configure", "BeforeWriting",
    "VerifyLast", "Announce", "ClearHead" }

\* Locations at which the restore itself may keep the loop device bound.
Mapped ==
  { "BeforeWriting", "VerifyLast", "Announce", "ClearHead", "ClearTail",
    "WriteTable", "WriteBackup", "FlushTable", "PrepareFormat", "Mkfs", "Detach",
    "Unbind", "Salvage", "SalvageUnbind", "Unwind", "UnwindUnbind" }

\* Locations after the last write of the restore: what the formatter left in
\* the cache may still be synced.
Formatted ==
  { "Detach", "Unbind", "Salvage", "SalvageUnbind", "SalvageTable", "Reread",
    "ReadSequence", "Close", "WaitPartition", "AcceptPartition" } \cup Returned

\* Only Selected ever carries the number it was enumerated with, and that is
\* the only number the restore looks for.
NumberInv ==
  /\ lastSeq >= 1
  /\ \A d \in Disk : seq[d] <= lastSeq
  /\ \A d \in Disk \ {Selected} : seq[d] # 1 /\ seq[d] # seq[Selected]
  /\ seq[Selected] >= 1
  /\ expected \in {0, 1}

\* The descriptor: held where it is used, on an unmounted drive, and past
\* verifyIdentity on the selected one.
HeldInv ==
  /\ pc \in Holding => claim # NoDisk
  /\ pc \notin Holding \cup Unwinding => claim = NoDisk \/ loop
  /\ claim # NoDisk => mounts[claim] = {}
  /\ pc \in Verified => claim = Selected /\ sequences /\ safe[Selected]

\* The return values: an error text wherever something may have been written.
ReturnInv ==
  /\ ok => pc \in Returned
  /\ error => pc \in Returned \cup {"Unbind", "Salvage", "SalvageUnbind", "SalvageTable"}
  /\ pc \in {"Salvage", "SalvageUnbind", "SalvageTable"} => error
  /\ (verdict # "none") = (pc = "Done")
  /\ pc \in Returned /\ ~ ok /\ ~ error
       => cancel /\ done <= 4 /\ \A d \in Disk : Untouched(d)
  /\ verdict = "cancelled" => ~ ok /\ ~ error
  /\ verdict = "succeeded" => ok

PristineInv == pc \in Pristine => \A d \in Disk : Untouched(d)

\* The steps reported so far: every one in the plan's order, so that what the
\* user is shown is what the counter counts.
StepInv ==
  /\ shown = done
  /\ pc \in {"Start", "VerifyDisk"} => done = 0
  /\ pc = "Identify" => done = 1
  /\ pc = "BeforeUnmount" => done = 2
  /\ pc = "Unmount" => done = IF attempt = 0 THEN 2 ELSE 4
  /\ pc = "Unmounting" => done = IF attempt = 0 THEN 3 ELSE 4
  /\ pc \in { "TryOpen", "VerifyOpen", "AfterOpen", "Configure", "BeforeWriting",
              "VerifyLast", "Announce" } => done = 4
  /\ pc \in {"ClearHead", "ClearTail", "WriteTable"} => done = 5
  /\ pc \in {"WriteBackup", "FlushTable", "PrepareFormat"} => done = 6
  /\ pc \in {"Mkfs", "Detach", "Unbind", "Salvage", "SalvageUnbind", "SalvageTable", "Reread"}
       => done = 7
  /\ pc \in {"ReadSequence", "Close"} => done = 8
  /\ pc \in {"WaitPartition", "AcceptPartition"} => done = 9
  /\ ok => done = 10
  /\ (\E d \in Disk : ~ Untouched(d)) => done >= 5

\* A try of the open is left before each open.
AttemptInv ==
  /\ pc \in {"Start", "VerifyDisk", "Identify", "BeforeUnmount"} => attempt = 0
  /\ pc \in {"Unmount", "Unmounting", "TryOpen"} => attempt < OpenAttempts

\* The mapping: its claim is given up to the formatter, over the new table, or
\* when nothing will be written any more; what survives the restore's own
\* unbinding is what somebody has mounted.
MappingInv ==
  /\ loop => pc \in Mapped \/ loopMount
  /\ loop => claim = Selected
  /\ loop /\ ~ loopClaim => pc \in Formatted \cup {"Mkfs"}
  /\ loopMount => loop /\ pc \in Formatted

\* What the drive holds: after each writing step, what that step wrote.
ContentInv ==
  /\ pc \in {"WriteBackup", "FlushTable", "PrepareFormat", "Mkfs", "Detach", "Unbind",
             "Salvage", "SalvageUnbind", "SalvageTable", "Reread", "ReadSequence", "Close",
             "WaitPartition", "AcceptPartition"}
       => head[Selected] = "new"
  /\ pc = "WriteTable" => tail[Selected] = "zero"
  /\ pc = "WriteBackup" => style = "gpt"
  /\ pc \in {"FlushTable", "PrepareFormat", "Mkfs", "Detach", "Unbind", "Reread",
             "ReadSequence", "Close", "WaitPartition", "AcceptPartition"} \/ ok
       => tail[Selected] = IF style = "gpt" THEN "new" ELSE "zero"
  /\ pc = "WriteBackup" => tail[Selected] = "zero"
  /\ pc = "Detach" => fs[Selected] = "cached"
  /\ (\/ pc \in {"Reread", "ReadSequence", "Close", "WaitPartition", "AcceptPartition"} \/ ok
      \/ pc = "Unbind" /\ ~ error)
       => fs[Selected] = "new"
  /\ \A d \in Disk : fs[d] = "cached" => pc = "Detach" /\ d = Selected
  /\ \A d \in Disk : fs[d] = "new" => pc \in Formatted
  /\ done >= 7 => head[Selected] = "new"

\* The number the new table was read under is a past or present one of the
\* selected instance, and of no other.
LocationInv ==
  /\ pc \in {"Close", "WaitPartition", "AcceptPartition"}
       => newSeq <= lastSeq /\ \A d \in Disk \ {Selected} : seq[d] # newSeq
  /\ ok => located = Selected

\* What a failed format step leaves in the kernel.
RereadInv ==
  pc \in Returned /\ done = 7 => gaveUp \/ listed[Selected] # "old"

IInv ==
  /\ TypeOK
  /\ NumberInv
  /\ HeldInv
  /\ ReturnInv
  /\ PristineInv
  /\ OnlySelectedDriveWritten
  /\ StepInv
  /\ AttemptInv
  /\ MappingInv
  /\ ContentInv
  /\ LocationInv
  /\ RereadInv

----------------------------------------------------------------------------
\* The plan as numbers.

\* Ten steps are planned.
LEMMA PlanLength == Len(linuxRestorePlan) = 10
  BY DEF linuxRestorePlan

\* The fifth is the first that changes the drive.
LEMMA BoundaryIsFive == Boundary = 5
<1> DEFINE First(i) ==
      /\ i <= 10 => changesDiskContents(linuxRestorePlan[i])
      /\ \A j \in 1 .. i - 1 : ~ changesDiskContents(linuxRestorePlan[j])
<1>1. /\ ~ changesDiskContents(linuxRestorePlan[1])
      /\ ~ changesDiskContents(linuxRestorePlan[2])
      /\ ~ changesDiskContents(linuxRestorePlan[3])
      /\ ~ changesDiskContents(linuxRestorePlan[4])
      /\ changesDiskContents(linuxRestorePlan[5])
  BY DEF changesDiskContents, linuxRestorePlan
<1>2. First(5)
  <2>1. \A j \in 1 .. 4 : j = 1 \/ j = 2 \/ j = 3 \/ j = 4
    OBVIOUS
  <2>2. QED BY <1>1, <2>1
<1>3. \A i \in 1 .. 11 : First(i) => i = 5
  <2> SUFFICES ASSUME NEW i \in 1 .. 11, First(i) PROVE i = 5
    OBVIOUS
  <2>1. ~ (i > 5)
    BY <1>1
  <2>2. i < 5 => i = 1 \/ i = 2 \/ i = 3 \/ i = 4
    OBVIOUS
  <2>3. QED BY <1>1, <2>1, <2>2
<1>4. Boundary = CHOOSE i \in 1 .. 11 : First(i)
  BY PlanLength DEF Boundary, firstDestructiveStepOf
<1>5. QED BY <1>2, <1>3, <1>4

\* A report moves the counters by at most one step, and the shown one by
\* exactly one until the plan is over.
LEMMA ReportEffect ==
  ASSUME done \in 0 .. 10, shown \in 0 .. 10, NEW step, Report(step)
  PROVE  /\ done' \in 0 .. 10 /\ done' >= done /\ done' <= done + 1
         /\ shown' \in 0 .. 10 /\ shown' >= shown
         /\ shown < 10 => shown' = shown + 1
  BY PlanLength DEF Report, advance, shownStep

----------------------------------------------------------------------------
\* Type correctness.

USE SelectedAssumption, MountAssumption, EventsAssumption, OpenAssumption,
    StyleAssumption, PlanLength

\* Names for the tuples of variables are looked through everywhere.
USE DEF blockVars, localVars, progressVars, requestVars, returnVars, plugVars, media,
        kernelVars, loopVars

\* TypeOK without the kernel's part.
LocalTypeOK ==
  /\ pc \in Locations
  /\ done \in 0 .. 10
  /\ shown \in 0 .. 10
  /\ style \in Styles
  /\ commands \in {1, 2}
  /\ sequences \in BOOLEAN
  /\ expected \in Nat
  /\ newSeq \in Nat
  /\ todo \subseteq MountPoint
  /\ attempt \in 0 .. OpenAttempts
  /\ located \in Disk \cup {NoDisk}
  /\ gaveUp \in BOOLEAN
  /\ cancel \in BOOLEAN
  /\ ok \in BOOLEAN
  /\ error \in BOOLEAN
  /\ verdict \in {"none", "succeeded", "failed", "cancelled"}

\* The two halves of the type invariant are proved apart.
LEMMA TypeParts == TypeOK <=> BlockTypeOK /\ LocalTypeOK
  BY DEF TypeOK, LocalTypeOK

\* A restore starts well typed.
LEMMA InitType == Init => TypeOK
<1> SUFFICES ASSUME Init PROVE BlockTypeOK /\ LocalTypeOK
  BY TypeParts
<1>1. BlockTypeOK
  <2>1. /\ presence \in [Disk -> {"absent", "present", "gone"}]
        /\ name \in Disk \cup {NoDisk}
        /\ claim \in Disk \cup {NoDisk}
    BY DEF Init, BlockInit
  <2>2. seq \in [Disk -> Nat] /\ lastSeq \in Nat /\ events \in 0 .. MaxEvents
    BY DEF Init, BlockInit
  <2>3. mounts \in [Disk -> SUBSET MountPoint]
    BY DEF Init, BlockInit
  <2>4. /\ head \in [Disk -> {"old", "torn", "zero", "new"}]
        /\ tail \in [Disk -> {"old", "torn", "zero", "new"}]
        /\ fs \in [Disk -> {"old", "torn", "cached", "new"}]
        /\ listed \in [Disk -> {"old", "none", "new"}]
        /\ partNode \in [Disk -> {"old", "none", "new"}]
    BY DEF Init, BlockInit
  <2>5. /\ safe \in [Disk -> BOOLEAN]
        /\ loop \in BOOLEAN
        /\ loopClaim \in BOOLEAN
        /\ loopMount \in BOOLEAN
        /\ rescan \in Disk \cup {NoDisk}
    BY Zenon DEF Init, BlockInit
  <2>6. QED BY <2>1, <2>2, <2>3, <2>4, <2>5 DEF BlockTypeOK
<1>2. LocalTypeOK
  <2>1. /\ pc \in Locations
        /\ done \in 0 .. 10
        /\ shown \in 0 .. 10
        /\ commands \in {1, 2}
        /\ expected \in Nat
        /\ newSeq \in Nat
        /\ attempt \in 0 .. OpenAttempts
    BY DEF Init, Locations
  <2>2. /\ style \in Styles
        /\ sequences \in BOOLEAN
        /\ todo \subseteq MountPoint
        /\ located \in Disk \cup {NoDisk}
        /\ verdict \in {"none", "succeeded", "failed", "cancelled"}
    BY DEF Init
  <2>3. /\ gaveUp \in BOOLEAN
        /\ cancel \in BOOLEAN
        /\ ok \in BOOLEAN
        /\ error \in BOOLEAN
    BY Zenon DEF Init
  <2>4. QED BY <2>1, <2>2, <2>3 DEF LocalTypeOK
<1>3. QED BY <1>1, <1>2

\* What the world does keeps the kernel's state well typed.
LEMMA WorldType == ASSUME BlockTypeOK, World PROVE BlockTypeOK'
<1> USE DEF BlockTypeOK, Happens
<1>1. CASE MountLoop
  BY <1>1 DEF MountLoop
<1> SUFFICES ASSUME NEW d \in Disk,
                    \/ Unplug(d) \/ Plug(d) \/ MediaChange(d)
                    \/ \E m \in MountPoint : Mount(d, m)
                    \/ SettleNode(d) \/ BeginRescan(d) \/ EndRescan(d)
             PROVE  BlockTypeOK'
  BY <1>1 DEF World
<1>2. CASE Unplug(d)
  BY <1>2 DEF Unplug
<1>3. CASE Plug(d)
  BY <1>3 DEF Plug
<1>4. CASE MediaChange(d)
  BY <1>4 DEF MediaChange
<1>5. CASE \E m \in MountPoint : Mount(d, m)
  BY <1>5 DEF Mount
<1>6. CASE SettleNode(d)
  BY <1>6 DEF SettleNode
<1>7. CASE BeginRescan(d)
  BY <1>7 DEF BeginRescan
<1>8. CASE EndRescan(d)
  BY <1>8 DEF EndRescan, Scan
<1>9. QED BY <1>2, <1>3, <1>4, <1>5, <1>6, <1>7, <1>8

\* The steps that leave the drive, the mounts and the descriptors alone.
Quiet ==
  \/ CheckRequest \/ VerifyDisk \/ IdentifyDevice \/ CheckCancel \/ StartUnmount
  \/ EndUnmount \/ VerifyHeld \/ AnnounceClear \/ FlushTable \/ ReadSequence
  \/ WaitPartition \/ AcceptPartition \/ Judge

\* They do leave them alone.
LEMMA QuietSteps == Quiet => UNCHANGED blockVars
  BY DEF Quiet, CheckRequest, VerifyDisk, IdentifyDevice, CheckCancel, StartUnmount,
         EndUnmount, VerifyHeld, AnnounceClear, FlushTable, ReadSequence,
         WaitPartition, AcceptPartition, Judge

\* The restore's steps keep the kernel's state well typed.
LEMMA RestoreBlockType == ASSUME BlockTypeOK, Restore PROVE BlockTypeOK'
<1> USE DEF BlockTypeOK
<1>1. CASE Quiet
  BY <1>1, QuietSteps
<1>2. CASE UnmountOne
  BY <1>2 DEF UnmountOne
<1>3. CASE TryOpen
  BY <1>3 DEF TryOpen, OpensExclusively, Present
<1>4. CASE ConfigureLoop
  BY <1>4 DEF ConfigureLoop, Bind
<1>5. CASE WriteRaw
  BY <1>5 DEF WriteRaw, ClearHead, ClearTail, WriteTable, WriteBackup, Overwrite
<1>6. CASE PrepareFormat
  BY <1>6 DEF PrepareFormat
<1>7. CASE Mkfs
  BY <1>7 DEF Mkfs
<1>8. CASE Detach
  <2>1. fs' \in [Disk -> {"old", "torn", "cached", "new"}]
    BY <1>8 DEF Detach, SyncedFs
  <2>2. QED BY <1>8, <2>1 DEF Detach, Release
<1>9. CASE SalvageTable
  <2>1. listed' \in [Disk -> {"old", "none", "new"}]
    BY <1>9 DEF SalvageTable, RereadIfPossible, Scan
  <2>2. QED BY <1>9, <2>1 DEF SalvageTable
<1>10. CASE Reread
  BY <1>10 DEF Reread, Scan
<1>11. CASE CloseDevice \/ CloseDrive
  BY <1>11 DEF CloseDevice, CloseDrive, Closed
<1>12. CASE Unbind \/ UnbindMapping \/ ReleaseMapping
  BY <1>12 DEF Unbind, UnbindMapping, ReleaseMapping, Release, Unbound
<1>13. QED
  BY <1>1, <1>2, <1>3, <1>4, <1>5, <1>6, <1>7, <1>8, <1>9, <1>10, <1>11, <1>12
  DEF Restore, Prepare, Rewrite, Finish, Quiet

\* Until the invariant is assembled, the steps of the restore are looked into.
USE DEF Restore, Prepare, Rewrite, Finish, CheckRequest, VerifyDisk,
    IdentifyDevice, CheckCancel, StartUnmount, UnmountOne, EndUnmount, TryOpen,
    VerifyHeld, ConfigureLoop, AnnounceClear, WriteRaw, ClearHead, ClearTail,
    WriteTable, WriteBackup, FlushTable, PrepareFormat, Mkfs, Detach, Unbind,
    ReleaseMapping, UnbindMapping, SalvageTable, Reread, ReadSequence, CloseDevice,
    WaitPartition, AcceptPartition, CloseDrive, Judge

\* A step reports at most one planned step.
LEMMA StepCount ==
  ASSUME LocalTypeOK, Restore
  PROVE  /\ done' \in 0 .. 10 /\ done' >= done /\ done' <= done + 1
         /\ shown' \in 0 .. 10 /\ shown' >= shown
<1>1. UNCHANGED progressVars \/ \E step : Report(step)
  OBVIOUS
<1>2. QED BY <1>1, ReportEffect DEF LocalTypeOK

\* The restore's steps keep its own state well typed.  ReadSequence needs the
\* descriptor to be open.
LEMMA RestoreLocalType ==
  ASSUME BlockTypeOK, LocalTypeOK, HeldInv, AttemptInv, Restore
  PROVE  LocalTypeOK'
<1> USE DEF LocalTypeOK
<1>1. done' \in 0 .. 10 /\ shown' \in 0 .. 10
  BY StepCount
<1>2. pc' \in Locations
  BY DEF Locations, Continue, FailWithError, FailFormat, Checkpoint, Overwrite
<1>3. /\ ok' \in BOOLEAN
      /\ error' \in BOOLEAN
      /\ verdict' \in {"none", "succeeded", "failed", "cancelled"}
  BY Zenon DEF Continue, FailWithError, FailFormat, Overwrite, Verdict
<1>4. /\ style' \in Styles
      /\ sequences' \in BOOLEAN
      /\ cancel' \in BOOLEAN
  OBVIOUS
<1>5. gaveUp' \in BOOLEAN
  BY Zenon DEF RereadIfPossible
<1>6. todo' \subseteq MountPoint
  <2>1. CASE StartUnmount
    BY <2>1 DEF BlockTypeOK
  <2>2. CASE ~ StartUnmount
    BY <2>2
  <2>3. QED BY <2>1, <2>2
<1>7. attempt' \in 0 .. OpenAttempts
  BY DEF AttemptInv, MayTryAgain, CountedTry, Continue
<1>8. located' \in Disk \cup {NoDisk}
  BY DEF NodeExists, BlockTypeOK
<1>9. commands' \in {1, 2}
  OBVIOUS
<1>10. expected' \in Nat
  BY DEF BlockTypeOK
<1>11. newSeq' \in Nat
  BY DEF BlockTypeOK, HeldInv, Holding
<1>12. QED
  BY <1>1, <1>2, <1>3, <1>4, <1>5, <1>6, <1>7, <1>8, <1>9, <1>10, <1>11

----------------------------------------------------------------------------
\* The restore's steps preserve the rest of IInv, one conjunct after another.

\* Sequence numbers.
LEMMA RestoreNumber ==
  ASSUME BlockTypeOK, NumberInv, Restore
  PROVE  NumberInv'
<1>1. UNCHANGED << seq, lastSeq >>
  OBVIOUS
<1>2. expected' \in {0, 1}
  BY DEF NumberInv, SameTarget
<1>3. QED BY <1>1, <1>2 DEF NumberInv

\* The descriptor.
LEMMA RestoreHeld ==
  ASSUME BlockTypeOK, LocalTypeOK, NumberInv, HeldInv, Restore
  PROVE  HeldInv'
<1> USE DEF Continue, FailWithError, FailFormat, Overwrite, Checkpoint, Holding,
            Verified
<1>1. pc' \in Holding => claim' # NoDisk
  BY DEF HeldInv, OpensExclusively, Present
<1>2. pc' \notin Holding \cup Unwinding => claim' = NoDisk \/ loop'
  BY DEF HeldInv, Closed, Unwinding
<1>3. claim' # NoDisk => mounts'[claim'] = {}
  BY DEF HeldInv, OpensExclusively, Present, BlockTypeOK, Closed
<1>4. pc' \in Verified => claim' = Selected /\ sequences' /\ safe'[Selected]
  <2>1. CASE VerifyHeld
    <3>1. Identity(claim) => claim = Selected /\ sequences /\ safe[Selected]
      BY DEF NumberInv, Identity, Present, BlockTypeOK
    <3>2. QED BY <2>1, <3>1
  <2>2. CASE CheckCancel
    BY <2>2 DEF HeldInv
  <2>3. CASE ~ VerifyHeld /\ ~ CheckCancel
    BY <2>3 DEF HeldInv
  <2>4. QED BY <2>1, <2>2, <2>3
<1>5. QED BY <1>1, <1>2, <1>3, <1>4 DEF HeldInv

\* Nothing is written before the last check.
LEMMA RestorePristine ==
  ASSUME PristineInv, Restore
  PROVE  PristineInv'
<1> USE DEF Continue, FailWithError, FailFormat, Overwrite, Checkpoint, Pristine
<1>1. CASE UNCHANGED media
  BY <1>1 DEF PristineInv, Untouched
<1>2. CASE ~ UNCHANGED media
  BY <1>2 DEF PristineInv
<1>3. QED BY <1>1, <1>2

\* The restore writes to the drive it holds, having checked it, and only then.
LEMMA WritesAreHeld ==
  ASSUME BlockTypeOK, HeldInv, Restore
  PROVE  \A d \in Disk : << head'[d], tail'[d], fs'[d] >> # << head[d], tail[d], fs[d] >>
           => claim = d /\ mounts[d] = {} /\ pc \in Verified
<1>1. ASSUME NEW d \in Disk, d # claim PROVE UNCHANGED << head[d], tail[d], fs[d] >>
  BY <1>1 DEF Overwrite, BlockTypeOK
<1>2. ~ UNCHANGED media => pc \in Verified
  BY DEF Holding, Verified
<1>3. QED BY <1>1, <1>2, SelectedAssumption DEF HeldInv

\* Only the selected drive.
LEMMA RestoreSelected ==
  ASSUME BlockTypeOK, HeldInv, OnlySelectedDriveWritten, Restore
  PROVE  OnlySelectedDriveWritten'
<1>1. UNCHANGED << safe, sequences >>
  OBVIOUS
<1>2. ASSUME NEW d \in Disk, d # Selected PROVE UNCHANGED << head[d], tail[d], fs[d] >>
  <2>1. << head'[d], tail'[d], fs'[d] >> # << head[d], tail[d], fs[d] >>
          => claim = d /\ pc \in Verified
    BY WritesAreHeld
  <2>2. QED BY <1>2, <2>1 DEF HeldInv
<1>3. ~ UNCHANGED media => pc \in Verified
  BY DEF Holding, Verified
<1>4. QED BY <1>1, <1>2, <1>3 DEF OnlySelectedDriveWritten, Untouched, HeldInv

\* Tries of the open.
LEMMA RestoreAttempt ==
  ASSUME LocalTypeOK, AttemptInv, Restore
  PROVE  AttemptInv'
<1>1. QED
  BY DEF Continue, FailWithError, FailFormat, Overwrite, Checkpoint, AttemptInv,
         MayTryAgain, CountedTry, LocalTypeOK

\* The mapping.
LEMMA RestoreMapping ==
  ASSUME BlockTypeOK, HeldInv, MappingInv, Restore
  PROVE  MappingInv'
<1> USE DEF Continue, FailWithError, FailFormat, Overwrite, Checkpoint, Holding,
            Verified, Mapped, Formatted, Returned, Unwinding, Bind, Release, Unbound,
            Closed, MappingInv
<1>1. loopMount' = loopMount
  OBVIOUS
<1>2. loopMount => pc' \in Formatted
  OBVIOUS
<1>3. CASE UNCHANGED << loop, loopClaim >>
  <2>1. loop => pc' \in Mapped \/ loopMount
    <3>1. CASE Unbind \/ UnbindMapping \/ ReleaseMapping
      BY <1>3, <3>1
    <3>2. CASE CheckCancel
      BY <1>3, <3>2
    <3>3. CASE ~ (Unbind \/ UnbindMapping \/ ReleaseMapping \/ CheckCancel)
      <4>1. loop /\ ~ loopMount => pc \in Mapped \ {"Unbind", "SalvageUnbind", "UnwindUnbind", "Salvage",
                                                  "Unwind", "BeforeWriting"}
        BY <3>3
      <4>2. QED BY <3>3, <4>1
    <3>4. QED BY <3>1, <3>2, <3>3
  <2>2. loop => claim' = Selected
    <3>1. loop => ~ TryOpen
      OBVIOUS
    <3>2. loop => UNCHANGED claim
      BY <1>3, <3>1
    <3>3. QED BY <3>2
  <2>3. loop /\ ~ loopClaim => pc' \in Formatted \cup {"Mkfs"}
    <3>1. pc \in Formatted => pc' \in Formatted
      BY <1>3
    <3>2. pc = "Mkfs" => pc' \in Formatted \cup {"Mkfs"}
      BY <1>3
    <3>3. QED BY <3>1, <3>2
  <2>4. QED BY <1>1, <1>2, <1>3, <2>1, <2>2, <2>3
<1>4. CASE ConfigureLoop
  BY <1>4 DEF HeldInv
<1>5. CASE PrepareFormat
  BY <1>5
<1>6. CASE Detach \/ ReleaseMapping
  BY <1>6
<1>7. CASE Unbind \/ UnbindMapping
  BY <1>7
<1>8. ~ UNCHANGED << loop, loopClaim >>
        => ConfigureLoop \/ PrepareFormat \/ Detach \/ ReleaseMapping \/ Unbind
             \/ UnbindMapping
  OBVIOUS
<1>9. QED BY <1>3, <1>4, <1>5, <1>6, <1>7, <1>8

\* The return values.
LEMMA RestoreReturn ==
  ASSUME LocalTypeOK, PristineInv, StepInv, ReturnInv, Restore
  PROVE  ReturnInv'
<1> USE DEF Continue, FailWithError, FailFormat, Overwrite, Checkpoint, Returned,
            Unwinding, Pristine
<1>1. ok' => pc' \in Returned
  BY DEF ReturnInv
<1>2. error' => pc' \in Returned \cup {"Unbind", "Salvage", "SalvageUnbind", "SalvageTable"}
  BY DEF ReturnInv
<1>3. pc' \in {"Salvage", "SalvageUnbind", "SalvageTable"} => error'
  BY DEF ReturnInv
<1>4. (verdict' # "none") = (pc' = "Done")
  BY DEF ReturnInv, Verdict
<1>5. pc' \in Returned /\ ~ ok' /\ ~ error'
        => cancel' /\ done' <= 4 /\ \A d \in Disk : Untouched(d)'
  BY DEF ReturnInv, PristineInv, StepInv, Untouched
<1>6. /\ verdict' = "cancelled" => ~ ok' /\ ~ error'
      /\ verdict' = "succeeded" => ok'
  BY DEF ReturnInv, Verdict
<1>7. QED BY <1>1, <1>2, <1>3, <1>4, <1>5, <1>6 DEF ReturnInv

\* A step reported in the plan's order is counted and shown.
LEMMA ReportInOrder ==
  ASSUME NEW n \in 0 .. 9, done = n, shown = n, Report(linuxRestorePlan[n + 1])
  PROVE  done' = n + 1 /\ shown' = n + 1
  BY PlanLength DEF Report, advance, shownStep

\* The plan, step by step.
LEMMA PlanSteps ==
  /\ linuxRestorePlan[1] = "VerifyDisk"
  /\ linuxRestorePlan[2] = "IdentifyDevice"
  /\ linuxRestorePlan[3] = "Unmount"
  /\ linuxRestorePlan[4] = "OpenExclusive"
  /\ linuxRestorePlan[5] = "ClearSignatures"
  /\ linuxRestorePlan[6] = "WritePartitionTable"
  /\ linuxRestorePlan[7] = "Format"
  /\ linuxRestorePlan[8] = "RereadPartitionTable"
  /\ linuxRestorePlan[9] = "WaitForPartition"
  /\ linuxRestorePlan[10] = "Complete"
  BY DEF linuxRestorePlan

\* The reported steps.
LEMMA RestoreStep ==
  ASSUME LocalTypeOK, PristineInv, StepInv, AttemptInv, ReturnInv, Restore
  PROVE  StepInv'
<1> USE DEF Continue, FailWithError, FailFormat, Overwrite, Checkpoint
<1>1. CASE VerifyDisk
  <2>1. done' = 1 /\ shown' = 1
    BY <1>1, PlanSteps, ReportInOrder DEF VerifyDisk, StepInv
  <2>2. QED BY <1>1, <2>1 DEF VerifyDisk, StepInv, Untouched, PristineInv, Pristine,
                              ReturnInv, Returned, Unwinding
<1>2. CASE IdentifyDevice
  <2>1. done' = 2 /\ shown' = 2
    BY <1>2, PlanSteps, ReportInOrder DEF IdentifyDevice, StepInv
  <2>2. QED BY <1>2, <2>1 DEF IdentifyDevice, StepInv, Untouched, PristineInv,
                              Pristine, ReturnInv, Returned, Unwinding
<1>3. CASE StartUnmount
  <2>1. /\ done' = IF attempt = 0 THEN 3 ELSE 4
        /\ shown' = done'
    BY <1>3, PlanSteps, ReportInOrder DEF StartUnmount, StepInv
  <2>2. QED BY <1>3, <2>1 DEF StartUnmount, StepInv, Untouched, PristineInv, Pristine,
                              ReturnInv, Returned, Unwinding
<1>4. CASE EndUnmount
  <2>1. done' = 4 /\ shown' = 4
    BY <1>4, PlanSteps, ReportInOrder DEF EndUnmount, StepInv
  <2>2. QED BY <1>4, <2>1 DEF EndUnmount, StepInv, Untouched, PristineInv, Pristine,
                              ReturnInv, Returned, Unwinding
<1>5. CASE AnnounceClear
  <2>1. done' = 5 /\ shown' = 5
    BY <1>5, PlanSteps, ReportInOrder DEF AnnounceClear, StepInv
  <2>2. QED BY <1>5, <2>1 DEF AnnounceClear, StepInv, ReturnInv, Returned, Unwinding
<1>6. CASE WriteRaw
  <2>1. /\ done' = IF pc = "WriteTable" THEN 6 ELSE done
        /\ shown' = done'
    BY <1>6, PlanSteps, ReportInOrder
    DEF WriteRaw, ClearHead, ClearTail, WriteTable, WriteBackup, StepInv
  <2>2. done' >= 5
    BY <1>6, <2>1 DEF WriteRaw, ClearHead, ClearTail, WriteTable, WriteBackup, StepInv
  <2>3. ~ ok'
    BY <1>6 DEF WriteRaw, ClearHead, ClearTail, WriteTable, WriteBackup, ReturnInv,
                Returned, Unwinding
  <2>4. \/ pc' = "Unwind"
        \/ pc' \in {"ClearTail", "WriteTable"} /\ done' = 5
        \/ pc' \in {"WriteBackup", "FlushTable"} /\ done' = 6
    BY <1>6, <2>1 DEF WriteRaw, ClearHead, ClearTail, WriteTable, WriteBackup, StepInv
  <2>5. QED BY <2>1, <2>2, <2>3, <2>4 DEF StepInv
<1>7. CASE PrepareFormat
  <2>1. done' = 7 /\ shown' = 7
    BY <1>7, PlanSteps, ReportInOrder DEF PrepareFormat, StepInv
  <2>2. QED BY <1>7, <2>1 DEF PrepareFormat, StepInv, ReturnInv, Returned, Unwinding
<1>8. CASE Reread
  <2>1. done' = 8 /\ shown' = 8
    BY <1>8, PlanSteps, ReportInOrder DEF Reread, StepInv
  <2>2. QED BY <1>8, <2>1 DEF Reread, StepInv, ReturnInv, Returned, Unwinding
<1>9. CASE CloseDevice
  <2>1. done' = 9 /\ shown' = 9
    BY <1>9, PlanSteps, ReportInOrder DEF CloseDevice, StepInv
  <2>2. QED BY <1>9, <2>1 DEF CloseDevice, StepInv, ReturnInv, Returned, Unwinding
<1>10. CASE AcceptPartition
  <2>1. CASE pc' = "Unwind" /\ ok'
    <3>1. Report("Complete")
      BY <1>10, <2>1 DEF AcceptPartition, ReturnInv, Returned, Unwinding
    <3>2. done' = 10 /\ shown' = 10
      BY <1>10, <3>1, PlanSteps, ReportInOrder DEF AcceptPartition, StepInv
    <3>3. QED BY <2>1, <3>2 DEF StepInv
  <2>2. CASE ~ ok'
    BY <1>10, <2>2 DEF AcceptPartition, StepInv, ReturnInv, Returned, Unwinding, Untouched
  <2>3. QED BY <1>10, <2>1, <2>2 DEF AcceptPartition
<1>11. CASE CheckRequest \/ CheckCancel \/ UnmountOne \/ TryOpen \/ VerifyHeld \/ ConfigureLoop
  BY <1>11
  DEF CheckRequest, CheckCancel, UnmountOne, TryOpen, VerifyHeld, ConfigureLoop, StepInv,
      AttemptInv, CountedTry, LocalTypeOK, Untouched, ReturnInv, Returned, Unwinding
<1>12. CASE Mkfs \/ Detach \/ Unbind
  BY <1>12 DEF Mkfs, Detach, Unbind, StepInv, ReturnInv, Returned, Unwinding
<1>13. CASE FlushTable \/ ReleaseMapping \/ UnbindMapping \/ SalvageTable \/ ReadSequence
              \/ WaitPartition \/ CloseDrive \/ Judge
  BY <1>13
  DEF FlushTable, ReleaseMapping, UnbindMapping, SalvageTable, ReadSequence,
      WaitPartition, CloseDrive, Judge, StepInv, Untouched, ReturnInv, Returned, Unwinding
<1>14. QED
  BY <1>1, <1>2, <1>3, <1>4, <1>5, <1>6, <1>7, <1>8, <1>9, <1>10, <1>11, <1>12, <1>13
  DEF Restore, Prepare, Rewrite, Finish

\* What the drive holds.
LEMMA RestoreContent ==
  ASSUME BlockTypeOK, LocalTypeOK, HeldInv, ReturnInv, StepInv, ContentInv, StepInv', Restore
  PROVE  ContentInv'
<1> USE DEF Continue, FailWithError, FailFormat, Overwrite, Checkpoint, Holding,
            Verified, Returned, Unwinding, BlockTypeOK
<1>1. pc' \in {"WriteBackup", "FlushTable", "PrepareFormat", "Mkfs", "Detach", "Unbind",
              "Salvage", "SalvageUnbind", "SalvageTable", "Reread", "ReadSequence", "Close",
              "WaitPartition", "AcceptPartition"}
       => head'[Selected] = "new"
  BY DEF HeldInv, ContentInv
<1>2. pc' = "WriteTable" => tail'[Selected] = "zero"
  BY DEF HeldInv, ContentInv
<1>3. pc' = "WriteBackup" => style' = "gpt" /\ tail'[Selected] = "zero"
  BY DEF HeldInv, ContentInv
<1>4. pc' \in {"FlushTable", "PrepareFormat", "Mkfs", "Detach", "Unbind", "Reread",
              "ReadSequence", "Close", "WaitPartition", "AcceptPartition"} \/ ok'
       => tail'[Selected] = IF style' = "gpt" THEN "new" ELSE "zero"
  BY DEF HeldInv, ContentInv, ReturnInv
<1>5. pc' = "Detach" => fs'[Selected] = "cached"
  BY DEF HeldInv, ContentInv
<1>6. (\/ pc' \in {"Reread", "ReadSequence", "Close", "WaitPartition", "AcceptPartition"} \/ ok'
       \/ pc' = "Unbind" /\ ~ error')
       => fs'[Selected] = "new"
  BY DEF HeldInv, ContentInv, ReturnInv, SyncedFs
<1>7. ASSUME NEW d \in Disk, fs'[d] = "cached" PROVE pc' = "Detach" /\ d = Selected
  <2>1. CASE Mkfs
    BY <1>7, <2>1 DEF HeldInv, ContentInv
  <2>2. CASE Detach
    BY <1>7, <2>2 DEF HeldInv, ContentInv, SyncedFs
  <2>3. CASE ~ Mkfs /\ ~ Detach
    <3>1. UNCHANGED fs /\ pc # "Detach"
      BY <2>3
    <3>2. QED BY <1>7, <3>1 DEF ContentInv
  <2>4. QED BY <2>1, <2>2, <2>3
<1>8. done' >= 7 => head'[Selected] = "new"
  <2>1. done \in 0 .. 10 /\ done' \in 0 .. 10 /\ done' <= done + 1
    BY StepCount DEF LocalTypeOK
  <2>2. CASE pc \in Returned
    BY <2>2 DEF ContentInv
  <2>3. CASE pc \in {"ClearHead", "ClearTail", "WriteTable"}
    BY <2>1, <2>3 DEF StepInv
  <2>4. CASE pc = "WriteBackup"
    BY <2>4 DEF StepInv
  <2>5. CASE pc \notin Returned \cup {"ClearHead", "ClearTail", "WriteTable", "WriteBackup"}
    <3>1. UNCHANGED head
      BY <2>5
    <3>2. done >= 6 => head[Selected] = "new"
      BY <2>1, <2>5 DEF StepInv, ContentInv, LocalTypeOK, Locations
    <3>3. QED BY <2>1, <3>1, <3>2
  <2>6. QED BY <2>2, <2>3, <2>4, <2>5
<1>9. ASSUME NEW d \in Disk, fs'[d] = "new" PROVE pc' \in Formatted
  <2>1. pc \in Formatted => pc' \in Formatted
    BY DEF Formatted
  <2>2. fs[d] = "new" \/ Detach
    BY <1>9 DEF SyncedFs
  <2>3. QED BY <2>1, <2>2 DEF ContentInv, Formatted
<1>10. QED BY <1>1, <1>2, <1>3, <1>4, <1>5, <1>6, <1>7, <1>8, <1>9 DEF ContentInv

\* Where the reported partition lies.
LEMMA RestoreLocation ==
  ASSUME BlockTypeOK, LocalTypeOK, HeldInv, NumberInv, ReturnInv, LocationInv, Restore
  PROVE  LocationInv'
<1> USE DEF Continue, FailWithError, FailFormat, Overwrite, Checkpoint, Holding,
            Verified, Returned, Unwinding, BlockTypeOK
<1>1. UNCHANGED << seq, lastSeq >>
  OBVIOUS
<1>2. pc' \in {"Close", "WaitPartition", "AcceptPartition"}
        => newSeq' <= lastSeq /\ \A d \in Disk \ {Selected} : seq[d] # newSeq'
  BY DEF LocationInv, NumberInv, HeldInv
<1>3. ok' => located' = Selected
  <2>1. CASE AcceptPartition
    BY <2>1 DEF LocationInv, ReturnInv, NodeExists, Belongs
  <2>2. CASE ~ AcceptPartition
    <3>1. located' = located
      BY <2>2
    <3>2. ok' = ok
      BY <2>2 DEF FailFormat
    <3>3. QED BY <3>1, <3>2 DEF LocationInv
  <2>3. QED BY <2>1, <2>2
<1>4. QED BY <1>1, <1>2, <1>3 DEF LocationInv

\* The kernel's view after a failed format.
LEMMA RestoreReread ==
  ASSUME BlockTypeOK, LocalTypeOK, HeldInv, StepInv, StepInv', ContentInv, RereadInv, Restore
  PROVE  RereadInv'
<1> USE DEF Continue, FailWithError, FailFormat, Overwrite, Checkpoint, Holding,
            Verified, Returned, Unwinding, BlockTypeOK
<1>1. CASE SalvageTable
  BY <1>1 DEF RereadIfPossible, Scan, HeldInv, ContentInv, RereadInv
<1>2. CASE pc \in Returned
  BY <1>2 DEF RereadInv
<1>3. CASE pc \notin Returned /\ ~ SalvageTable /\ ~ Reread
  <2>1. done \in 0 .. 10 /\ done' \in 0 .. 10 /\ done' <= done + 1
    BY StepCount DEF LocalTypeOK
  <2>2. CASE pc \in {"WriteBackup", "FlushTable"}
    BY <1>3, <2>2 DEF StepInv, RereadInv
  <2>3. CASE pc \in {"PrepareFormat", "Mkfs", "Detach", "Unbind", "Salvage", "SalvageUnbind"}
    BY <1>3, <2>3 DEF RereadInv
  <2>4. CASE pc \notin {"WriteBackup", "FlushTable", "PrepareFormat", "Mkfs", "Detach",
                        "Unbind", "Salvage", "SalvageUnbind"}
    <3>1. done < 6 \/ done >= 8
      BY <1>3, <2>1, <2>4 DEF StepInv, LocalTypeOK, Locations
    <3>2. done' >= done
      BY StepCount DEF LocalTypeOK
    <3>3. QED BY <2>1, <3>1, <3>2 DEF RereadInv
  <2>5. QED BY <2>2, <2>3, <2>4
<1>4. CASE Reread
  <2>1. done' = 8
    BY <1>4, PlanSteps, ReportInOrder DEF StepInv
  <2>2. QED BY <2>1 DEF RereadInv
<1>5. QED BY <1>1, <1>2, <1>3, <1>4

\* Mounts go in unmountDisk only.
LEMMA MountsKept == Restore /\ ~ UnmountOne => UNCHANGED mounts
<1>1. QED OBVIOUS

HIDE DEF Restore, Prepare, Rewrite, Finish, CheckRequest, VerifyDisk,
    IdentifyDevice, CheckCancel, StartUnmount, UnmountOne, EndUnmount, TryOpen,
    VerifyHeld, ConfigureLoop, AnnounceClear, WriteRaw, ClearHead, ClearTail,
    WriteTable, WriteBackup, FlushTable, PrepareFormat, Mkfs, Detach, Unbind,
    ReleaseMapping, UnbindMapping, SalvageTable, Reread, ReadSequence, CloseDevice,
    WaitPartition, AcceptPartition, CloseDrive, Judge

\* The kernel's list changes in the two re-reads only.
LEMMA ListedByReread ==
  ASSUME Restore, NEW d \in Disk, listed'[d] # listed[d]
  PROVE  pc \in {"SalvageTable", "Reread"} /\ UNCHANGED loopVars
<1>1. SalvageTable \/ Reread
  BY QuietSteps
  DEF Restore, Prepare, Rewrite, Finish, Quiet, UnmountOne, TryOpen, ConfigureLoop,
      WriteRaw, PrepareFormat, Mkfs, Detach, Unbind, CloseDevice, ReleaseMapping,
      UnbindMapping, CloseDrive
<1>2. QED BY <1>1 DEF SalvageTable, Reread

\* A step of the restore preserves the whole invariant.
LEMMA RestoreInv == ASSUME IInv, Restore PROVE IInv'
<1>1. BlockTypeOK /\ LocalTypeOK
  BY TypeParts DEF IInv
<1>2. TypeOK'
  <2>1. BlockTypeOK' /\ LocalTypeOK'
    BY <1>1, RestoreBlockType, RestoreLocalType DEF IInv
  <2>2. QED BY <2>1 DEF TypeOK, LocalTypeOK
<1>3. NumberInv' /\ HeldInv' /\ ReturnInv' /\ PristineInv'
  BY <1>1, RestoreNumber, RestoreHeld, RestoreReturn, RestorePristine DEF IInv
<1>4. OnlySelectedDriveWritten' /\ StepInv' /\ AttemptInv' /\ MappingInv'
  BY <1>1, RestoreSelected, RestoreStep, RestoreAttempt, RestoreMapping DEF IInv
<1>5. ContentInv' /\ LocationInv' /\ RereadInv'
  BY <1>1, <1>4, RestoreContent, RestoreLocation, RestoreReread DEF IInv
<1>6. QED BY <1>2, <1>3, <1>4, <1>5 DEF IInv

----------------------------------------------------------------------------
\* The rest of the system.

\* It starts true.
LEMMA InitInv == Init => IInv
<1> SUFFICES ASSUME Init PROVE IInv
  OBVIOUS
<1>1. TypeOK
  BY InitType
<1>2. \A d \in Disk : Untouched(d)
  BY DEF Init, BlockInit, Untouched
<1>3. NumberInv
  BY DEF Init, BlockInit, NumberInv
<1>4. HeldInv /\ PristineInv /\ OnlySelectedDriveWritten
  BY <1>2 DEF Init, BlockInit, HeldInv, PristineInv, OnlySelectedDriveWritten,
              Holding, Verified
<1>5. ReturnInv /\ MappingInv
  BY DEF Init, BlockInit, ReturnInv, Returned, Unwinding, MappingInv
<1>6. StepInv
  BY <1>2 DEF Init, StepInv
<1>7. AttemptInv
  BY DEF Init, AttemptInv
<1>8. ContentInv /\ LocationInv /\ RereadInv
  BY DEF Init, BlockInit, ContentInv, LocationInv, RereadInv, Returned, Unwinding
<1>9. QED BY <1>1, <1>3, <1>4, <1>5, <1>6, <1>7, <1>8 DEF IInv

\* Somebody mounts what the loop node shows only where it is not claimed.
Mapping == loop /\ ~ loopClaim /\ ShowsFileSystem(claim) /\ loopMount'

\* No event writes to a drive, changes its safety or frees what is held.
LEMMA WorldEffect ==
  ASSUME BlockTypeOK, World
  PROVE  /\ UNCHANGED << media, safe, claim, loop, loopClaim >>
         /\ UNCHANGED loopMount \/ Mapping
         /\ \A d \in Disk : mounts'[d] \in SUBSET mounts[d] \/ claim # d
         /\ NumberInv /\ expected' = expected => NumberInv'
         /\ lastSeq <= lastSeq' /\ \A d \in Disk : seq'[d] \in {seq[d], lastSeq + 1}
         /\ \A d \in Disk : listed'[d] \in {listed[d], "none"} \/ listed'[d] = head[d]
<1>1. CASE MountLoop
  <2>1. UNCHANGED << plugVars, mounts, media, kernelVars, claim, loop, loopClaim >>
    BY <1>1 DEF MountLoop
  <2>2. Mapping
    BY <1>1 DEF MountLoop, Mapping
  <2>3. QED BY <2>1, <2>2 DEF NumberInv, BlockTypeOK
<1> SUFFICES ASSUME NEW e \in Disk,
                    \/ Unplug(e) \/ Plug(e) \/ MediaChange(e)
                    \/ \E m \in MountPoint : Mount(e, m)
                    \/ SettleNode(e) \/ BeginRescan(e) \/ EndRescan(e)
             PROVE  /\ UNCHANGED << media, safe, claim, loopVars >>
                    /\ \A d \in Disk : mounts'[d] \in SUBSET mounts[d] \/ claim # d
                    /\ NumberInv /\ expected' = expected => NumberInv'
                    /\ lastSeq <= lastSeq' /\ \A d \in Disk : seq'[d] \in {seq[d], lastSeq + 1}
                    /\ \A d \in Disk : listed'[d] \in {listed[d], "none"} \/ listed'[d] = head[d]
  BY <1>1 DEF World
<1> USE DEF Unplug, Plug, MediaChange, Mount, SettleNode, BeginRescan, EndRescan
<1>2. UNCHANGED << media, safe, claim, loopVars >>
  OBVIOUS
<1>3. \A d \in Disk : mounts'[d] \in SUBSET mounts[d] \/ claim # d
  BY DEF BlockTypeOK
<1>4. NumberInv /\ expected' = expected => NumberInv'
  BY DEF BlockTypeOK, NumberInv
<1>5. lastSeq <= lastSeq' /\ \A d \in Disk : seq'[d] \in {seq[d], lastSeq + 1}
  BY DEF BlockTypeOK
<1>6. \A d \in Disk : listed'[d] \in {listed[d], "none"} \/ listed'[d] = head[d]
  BY DEF BlockTypeOK, Scan
<1>7. QED BY <1>2, <1>3, <1>4, <1>5, <1>6

\* Every event, and every step of the user or of nobody, preserves IInv.
LEMMA OtherInv ==
  ASSUME IInv,
         (World /\ UNCHANGED << localVars, pc, cancel >>) \/ RequestCancel \/ UNCHANGED vars
  PROVE  IInv'
<1>1. CASE World /\ UNCHANGED << localVars, pc, cancel >>
  <2>1. TypeOK'
    <3>1. BlockTypeOK'
      BY <1>1, WorldType, TypeParts DEF IInv
    <3>2. LocalTypeOK'
      BY <1>1, TypeParts DEF IInv, LocalTypeOK
    <3>3. QED BY <3>1, <3>2 DEF TypeOK, LocalTypeOK
  <2>2. NumberInv' /\ HeldInv'
    BY <1>1, WorldEffect, TypeParts DEF IInv, NumberInv, HeldInv, BlockTypeOK
  <2>3. UNCHANGED << media, safe, claim, loop, loopClaim, localVars, pc, cancel >>
    BY <1>1, WorldEffect, TypeParts DEF IInv
  <2>4. ReturnInv' /\ PristineInv' /\ StepInv' /\ OnlySelectedDriveWritten'
    BY <2>3 DEF IInv, ReturnInv, PristineInv, StepInv, OnlySelectedDriveWritten,
                Untouched
  <2>5. AttemptInv' /\ MappingInv'
    <3>1. CASE UNCHANGED loopMount
      BY <2>3, <3>1 DEF IInv, AttemptInv, MappingInv
    <3>2. CASE Mapping
      <4>1. claim = Selected /\ pc \in Formatted \cup {"Mkfs"}
        BY <3>2 DEF Mapping, IInv, MappingInv
      <4>2. pc # "Mkfs"
        BY <3>2, <4>1 DEF Mapping, ShowsFileSystem, IInv, ContentInv, Formatted,
                          Returned, Unwinding
      <4>3. QED BY <2>3, <3>2, <4>1, <4>2 DEF Mapping, IInv, AttemptInv, MappingInv
    <3>3. QED BY <1>1, <3>1, <3>2, WorldEffect, TypeParts DEF IInv
  <2>6. ContentInv'
    BY <2>3 DEF IInv, ContentInv
  <2>7. LocationInv'
    <3>1. newSeq <= lastSeq => newSeq <= lastSeq' /\ newSeq # lastSeq + 1
      BY <1>1, WorldEffect, TypeParts, <2>1 DEF IInv, LocalTypeOK, BlockTypeOK, TypeOK
    <3>2. \A d \in Disk : seq'[d] \in {seq[d], lastSeq + 1}
      BY <1>1, WorldEffect, TypeParts DEF IInv
    <3>3. QED BY <2>3, <3>1, <3>2 DEF IInv, LocationInv
  <2>8. RereadInv'
    BY <1>1, <2>3, WorldEffect DEF IInv, TypeOK, ContentInv, RereadInv
  <2>9. QED BY <2>1, <2>2, <2>4, <2>5, <2>6, <2>7, <2>8 DEF IInv
<1>2. CASE RequestCancel \/ UNCHANGED vars
  <2>1. UNCHANGED << blockVars, localVars, pc >> /\ cancel' \in BOOLEAN /\ (cancel => cancel')
    BY <1>2 DEF RequestCancel, vars, IInv, TypeOK
  <2>2. TypeOK'
    BY <2>1 DEF IInv, TypeOK, BlockTypeOK
  <2>3. NumberInv' /\ HeldInv' /\ AttemptInv' /\ MappingInv'
    BY <2>1 DEF IInv, NumberInv, HeldInv, AttemptInv, MappingInv
  <2>4. ReturnInv' /\ PristineInv' /\ StepInv' /\ OnlySelectedDriveWritten'
    BY <2>1 DEF IInv, ReturnInv, PristineInv, StepInv, OnlySelectedDriveWritten,
                Untouched
  <2>5. ContentInv' /\ LocationInv' /\ RereadInv'
    BY <2>1 DEF IInv, ContentInv, LocationInv, RereadInv
  <2>6. QED BY <2>2, <2>3, <2>4, <2>5 DEF IInv
<1>3. QED BY <1>1, <1>2

\* IInv is inductive.
LEMMA Inductive == Spec => []IInv
<1>1. IInv /\ [Next]_vars => IInv'
  BY RestoreInv, OtherInv DEF Next
<1>2. QED BY InitInv, <1>1, PTL DEF Spec

----------------------------------------------------------------------------
\* Type correctness of the whole restore, whatever happens to the drives.
THEOREM TypeCorrect == Spec => []TypeOK
  BY Inductive, PTL DEF IInv

\* Only the selected, checked instance is ever written.
THEOREM OnlySelected == Spec => []OnlySelectedDriveWritten
  BY Inductive, PTL DEF IInv

\* "Cancelled" is never said of a drive that was written to.
THEOREM CancelledUntouched == Spec => []CancelledMeansUntouched
<1>1. IInv => CancelledMeansUntouched
  BY BoundaryIsFive DEF IInv, CancelledMeansUntouched, ReturnInv, TypeOK, Returned, Unwinding
<1>2. QED BY <1>1, Inductive, PTL

\* The user is shown the first writing step before anything is written.
THEOREM Announced == Spec => []AnnouncedBeforeWritten
<1>1. IInv => AnnouncedBeforeWritten
  BY BoundaryIsFive DEF IInv, AnnouncedBeforeWritten, StepInv, TypeOK
<1>2. QED BY <1>1, Inductive, PTL

\* A success is the whole restore of the selected drive.
THEOREM Succeeded == Spec => []SucceededMeansRestored
<1>1. verdict = "succeeded" /\ IInv => ok
  BY DEF IInv, ReturnInv
<1>2. IInv => SucceededMeansRestored
  BY <1>1, PlanLength DEF IInv, SucceededMeansRestored, StepInv, ContentInv,
                          LocationInv
<1>3. QED BY <1>2, Inductive, PTL

\* A mapped drive is claimed and has nothing mounted.
THEOREM MappedHeld == Spec => []MappedDriveIsHeld
<1>1. IInv => MappedDriveIsHeld
  BY SelectedAssumption DEF IInv, MappedDriveIsHeld, MappingInv, HeldInv
<1>2. QED BY <1>1, Inductive, PTL

\* A failed format step leaves no old partitions in the kernel, unless the
\* re-read failed too.
THEOREM FailedReread == Spec => []FailedFormatRereads
<1>1. IInv => FailedFormatRereads
  BY DEF IInv, FailedFormatRereads, ReturnInv, RereadInv, Returned, Unwinding
<1>2. QED BY <1>1, Inductive, PTL

----------------------------------------------------------------------------
\* What single steps never do.

\* No sector changes under a mounted file system or without the claim.
THEOREM NoLiveWrite == Spec => NoWriteUnderMount
<1> DEFINE Step == \A d \in Disk :
       << head'[d], tail'[d], fs'[d] >> # << head[d], tail[d], fs[d] >>
         => claim = d /\ mounts[d] = {}
<1>1. IInv /\ [Next]_vars => Step
  <2> SUFFICES ASSUME IInv, [Next]_vars PROVE Step
    OBVIOUS
  <2>1. CASE Restore
    <3>1. BlockTypeOK /\ HeldInv
      BY DEF IInv, TypeOK
    <3>2. QED BY <2>1, <3>1, WritesAreHeld DEF Step
  <2>2. CASE World
    <3>1. UNCHANGED media
      BY <2>2, WorldEffect DEF IInv, TypeOK
    <3>2. QED BY <3>1 DEF media
  <2>3. CASE RequestCancel \/ UNCHANGED vars
    BY <2>3 DEF RequestCancel, vars, blockVars, media
  <2>4. QED BY <2>1, <2>2, <2>3 DEF Next
<1>2. QED BY <1>1, Inductive, PTL DEF NoWriteUnderMount, Spec

\* What the restore does once somebody has mounted what the loop node shows.
LEMMA MappedWrites ==
  ASSUME BlockTypeOK, MappingInv, ContentInv, Restore, loopMount
  PROVE  /\ UNCHANGED << head, tail >>
         /\ \A d \in Disk : fs'[d] # fs[d] => fs[d] = "cached"
<1>1. pc \in Formatted /\ loop
  BY DEF MappingInv
<1>2. UNCHANGED media \/ Detach
  <2>1. ~ WriteRaw /\ ~ Mkfs
    BY <1>1 DEF WriteRaw, ClearHead, ClearTail, WriteTable, WriteBackup, Mkfs, Formatted,
                Returned, Unwinding
  <2>2. QED
    BY <2>1, QuietSteps
    DEF Restore, Prepare, Rewrite, Finish, Quiet, UnmountOne, TryOpen, ConfigureLoop,
        PrepareFormat, Unbind, SalvageTable, Reread, CloseDevice, ReleaseMapping,
        UnbindMapping, CloseDrive
<1>3. CASE Detach
  <2>1. fs[claim] = "cached" /\ claim \in Disk
    BY <1>1, <1>3 DEF Detach, MappingInv, ContentInv
  <2>2. \A d \in Disk : d # claim => fs'[d] = fs[d]
    BY <1>3, <2>1 DEF Detach, BlockTypeOK
  <2>3. QED BY <1>3, <2>1, <2>2 DEF Detach
<1>4. QED BY <1>2, <1>3

\* Nothing but what the formatter left in its cache reaches the drive under a
\* file system that somebody has mounted from the loop node.
THEOREM NoMappedWrite == Spec => NoWriteUnderMapping
<1> DEFINE Step == loopMount =>
       /\ UNCHANGED << head, tail >>
       /\ \A d \in Disk : fs'[d] # fs[d] => fs[d] = "cached"
<1>1. IInv /\ [Next]_vars => Step
  <2> SUFFICES ASSUME IInv, [Next]_vars, loopMount PROVE Step
    OBVIOUS
  <2>1. CASE Restore
    BY <2>1, MappedWrites DEF IInv, TypeOK
  <2>2. CASE ~ Restore
    <3>1. UNCHANGED media
      BY <2>2, WorldEffect DEF Next, IInv, TypeOK, RequestCancel, vars
    <3>2. QED BY <3>1
  <2>3. QED BY <2>1, <2>2
<1>2. QED BY <1>1, Inductive, PTL DEF NoWriteUnderMapping, Spec

\* Only unplugging takes a mount the system needs away.
THEOREM ProtectedStay == Spec => ProtectedStayMounted
<1> DEFINE Step == \A d \in Disk :
       (mounts[d] \ mounts'[d]) \cap Protected # {} => presence'[d] = "gone"
<1>1. IInv /\ [Next]_vars => Step
  <2> SUFFICES ASSUME IInv, [Next]_vars PROVE Step
    OBVIOUS
  <2>1. BlockTypeOK
    BY DEF IInv, TypeOK
  <2>2. CASE UnmountOne
    BY <2>1, <2>2 DEF UnmountOne, MayUnmount, BlockTypeOK
  <2>3. CASE World
    <3>0. CASE MountLoop
      BY <3>0 DEF MountLoop
    <3> SUFFICES ASSUME NEW d \in Disk,
                        \/ Unplug(d) \/ Plug(d) \/ MediaChange(d)
                        \/ \E m \in MountPoint : Mount(d, m)
                        \/ SettleNode(d) \/ BeginRescan(d) \/ EndRescan(d)
                 PROVE  Step
      BY <2>3, <3>0 DEF World
    <3>2. CASE Unplug(d)
      BY <2>1, <3>2 DEF Unplug, BlockTypeOK
    <3>3. CASE \E m \in MountPoint : Mount(d, m)
      BY <2>1, <3>3 DEF Mount, BlockTypeOK
    <3>4. CASE Plug(d) \/ MediaChange(d) \/ SettleNode(d) \/ BeginRescan(d) \/ EndRescan(d)
      BY <3>4 DEF Plug, MediaChange, SettleNode, BeginRescan, EndRescan
    <3>5. QED BY <3>2, <3>3, <3>4
  <2>4. CASE (Restore /\ ~ UnmountOne) \/ RequestCancel \/ UNCHANGED vars
    <3>1. UNCHANGED mounts
      BY <2>4, MountsKept DEF RequestCancel, vars, blockVars
    <3>2. QED BY <3>1
  <2>5. QED BY <2>2, <2>3, <2>4 DEF Next
<1>2. QED BY <1>1, Inductive, PTL DEF ProtectedStayMounted, Spec

\* The kernel reads the new table only when the restore has nothing mapped over it.
THEOREM RereadUnmapped == Spec => RereadOnlyUnmapped
<1> DEFINE Step == \A d \in Disk : listed'[d] # listed[d] /\ listed'[d] = "new"
                     => loop' = loopMount' /\ fs[d] # "cached"
<1>1. IInv /\ [Next]_vars => Step
  <2> SUFFICES ASSUME IInv, [Next]_vars, NEW d \in Disk,
                      listed'[d] # listed[d], listed'[d] = "new"
               PROVE  loop' = loopMount' /\ fs[d] # "cached"
    OBVIOUS
  <2>1. BlockTypeOK
    BY DEF IInv, TypeOK
  <2>2. CASE Restore
    <3>1. pc \in {"SalvageTable", "Reread"} /\ UNCHANGED loopVars
      BY <2>2, ListedByReread
    <3>2. loop = loopMount
      BY <2>1, <3>1 DEF IInv, MappingInv, Mapped, BlockTypeOK
    <3>3. QED BY <3>1, <3>2 DEF IInv, ContentInv
  <2>3. CASE World
    <3>1. head[d] = "new" /\ claim # d /\ UNCHANGED << loop, loopMount >>
      BY <2>1, <2>3 DEF World, MountLoop, Unplug, Plug, MediaChange, Mount, SettleNode,
                        BeginRescan, EndRescan, Scan, BlockTypeOK
    <3>2. d = Selected
      BY <3>1 DEF IInv, OnlySelectedDriveWritten, Untouched
    <3>3. ~ loop /\ ~ loopMount
      BY <3>1, <3>2 DEF IInv, MappingInv
    <3>4. pc # "Detach"
      BY <3>1, <3>2 DEF IInv, HeldInv, Verified, Holding
    <3>5. QED BY <2>1, <3>1, <3>3, <3>4 DEF IInv, ContentInv, BlockTypeOK
  <2>4. CASE RequestCancel \/ UNCHANGED vars
    BY <2>4 DEF RequestCancel, vars, blockVars, kernelVars
  <2>5. QED BY <2>2, <2>3, <2>4 DEF Next
<1>2. QED BY <1>1, Inductive, PTL DEF RereadOnlyUnmapped, Spec

----------------------------------------------------------------------------
\* The restore implements the contract: every step is a step of RestoreContract
\* or leaves all it speaks of as it was.

\* It starts with an untouched drive, of which nothing was said.
LEMMA InitContract == Init => Contract!Init
<1> SUFFICES ASSUME Init PROVE Contract!Init
  OBVIOUS
<1>1. Untouched(Selected)
  BY SelectedAssumption DEF Init, BlockInit, Untouched
<1>2. ~ (shown >= Boundary)
  BY BoundaryIsFive DEF Init
<1>3. cancel = FALSE /\ verdict = "none"
  BY DEF Init
<1>4. QED BY <1>1, <1>2, <1>3 DEF Contract!Init

\* Locations of the writes.
Writing == {"ClearHead", "ClearTail", "WriteTable", "WriteBackup", "Mkfs", "Detach"}

\* A step that writes does nothing else the contract sees, and leaves a drive
\* that was written to.
LEMMA WriteStep ==
  ASSUME BlockTypeOK, HeldInv, ContentInv, Restore, ~ UNCHANGED media
  PROVE  /\ pc \in Writing
         /\ UNCHANGED << style, cancel, verdict >>
         /\ ~ Untouched(Selected)'
<1>1. WriteRaw \/ Mkfs \/ Detach
  BY QuietSteps
  DEF Restore, Prepare, Rewrite, Finish, Quiet, UnmountOne, TryOpen, ConfigureLoop,
      PrepareFormat, Unbind, SalvageTable, Reread, CloseDevice, ReleaseMapping,
      UnbindMapping, CloseDrive
<1>2. CASE WriteRaw
  <2>1. claim = Selected
    BY <1>2 DEF WriteRaw, ClearHead, ClearTail, WriteTable, WriteBackup, HeldInv,
                Verified, Holding
  <2>2. \/ head' \in {[head EXCEPT ![claim] = v] : v \in {"zero", "torn", "new"}}
        \/ tail' \in {[tail EXCEPT ![claim] = v] : v \in {"zero", "torn", "new"}}
    BY <1>2 DEF WriteRaw, ClearHead, ClearTail, WriteTable, WriteBackup, Overwrite,
                media
  <2>3. ~ Untouched(Selected)'
    BY <2>1, <2>2, SelectedAssumption DEF Untouched, BlockTypeOK
  <2>4. QED
    BY <1>2, <2>3
    DEF WriteRaw, ClearHead, ClearTail, WriteTable, WriteBackup, Writing, Overwrite,
        Continue, FailWithError, returnVars, requestVars
<1>3. CASE Mkfs \/ Detach
  <2>1. head[Selected] = "new" /\ UNCHANGED head
    BY <1>3 DEF Mkfs, Detach, ContentInv
  <2>2. QED
    BY <1>3, <2>1
    DEF Mkfs, Detach, Writing, Untouched, Continue, FailFormat, returnVars, requestVars
<1>4. QED BY <1>1, <1>2, <1>3

\* The verdict is the last step's.
LEMMA JudgeGivesVerdict ==
  ASSUME Restore, ~ Judge
  PROVE  UNCHANGED << style, cancel, verdict >> /\ pc # "Done"
  BY DEF Restore, Prepare, Rewrite, Finish, CheckRequest, VerifyDisk, IdentifyDevice,
         CheckCancel, Checkpoint, StartUnmount, UnmountOne, EndUnmount, TryOpen,
         VerifyHeld, ConfigureLoop, AnnounceClear, WriteRaw, ClearHead, ClearTail,
         WriteTable, WriteBackup, Overwrite, FlushTable, PrepareFormat, Mkfs, Detach,
         Unbind, ReleaseMapping, UnbindMapping, SalvageTable, Reread, ReadSequence,
         CloseDevice, WaitPartition, AcceptPartition, CloseDrive, Continue, FailWithError, FailFormat, localVars, requestVars, returnVars

\* Every step of the restore is a step of the contract.
LEMMA RestoreContractStep ==
  ASSUME IInv, IInv', Restore
  PROVE  [Contract!Next]_Contract!contractVars
<1>1. CASE ~ UNCHANGED media
  <2>1. /\ pc \in Writing
        /\ UNCHANGED << style, cancel, verdict >>
        /\ ~ Untouched(Selected)'
    BY <1>1, WriteStep DEF IInv, TypeOK
  <2>2. verdict = "none" /\ done >= 5 /\ shown = done
    BY <2>1 DEF IInv, ReturnInv, StepInv, Writing
  <2>3. shown >= Boundary /\ (shown >= Boundary)'
    BY <2>2, BoundaryIsFive, StepCount, TypeParts DEF IInv, LocalTypeOK
  <2>4. Contract!Write
    BY <2>1, <2>2, <2>3 DEF Contract!Write
  <2>5. QED BY <2>4 DEF Contract!Next
<1>2. CASE UNCHANGED media /\ ~ Judge
  <2>1. UNCHANGED << style, cancel, verdict >> /\ pc # "Done"
    BY <1>2, QuietSteps, JudgeGivesVerdict
  <2>2. verdict = "none"
    BY <2>1 DEF IInv, ReturnInv
  <2>3. UNCHANGED << Untouched(Selected), Restored >>
    BY <1>2, <2>1 DEF Untouched, Restored, media
  <2>4. shown' >= shown /\ shown \in Nat /\ shown' \in Nat
    BY StepCount, TypeParts DEF IInv, LocalTypeOK
  <2>5. CASE (shown >= 5) = (shown' >= 5)
    BY <2>1, <2>3, <2>5, BoundaryIsFive DEF Contract!contractVars
  <2>6. CASE ~ (shown >= 5) /\ shown' >= 5
    <3>1. Contract!Announce
      BY <2>1, <2>2, <2>3, <2>6, BoundaryIsFive DEF Contract!Announce
    <3>2. QED BY <3>1 DEF Contract!Next
  <2>7. QED BY <2>4, <2>5, <2>6
<1>3. CASE Judge
  <2>1. /\ pc = "Judge" /\ verdict = "none" /\ verdict' = Verdict
        /\ UNCHANGED << media, style, shown, cancel >>
    BY <1>3 DEF Judge, IInv, ReturnInv, blockVars, progressVars, requestVars, media
  <2>2. UNCHANGED << Untouched(Selected), Restored, shown >= Boundary >>
    BY <2>1, BoundaryIsFive DEF Untouched, Restored, media
  <2>3. CASE ok
    <3>1. Restored /\ ~ Untouched(Selected)
      BY <2>3 DEF IInv, ContentInv, StepInv, Restored, Untouched
    <3>2. Contract!Succeed
      BY <2>1, <2>2, <2>3, <3>1 DEF Contract!Succeed, Verdict
    <3>3. QED BY <3>2 DEF Contract!Next
  <2>4. CASE ~ ok /\ ~ error /\ cancel
    <3>1. Untouched(Selected) /\ done <= 4 /\ shown = done
      BY <2>1, <2>4, SelectedAssumption DEF IInv, ReturnInv, Returned, Unwinding, StepInv
    <3>2. ~ (shown >= Boundary)
      BY <3>1, BoundaryIsFive, TypeParts DEF IInv, LocalTypeOK
    <3>3. Contract!Cancel
      BY <2>1, <2>2, <2>4, <3>1, <3>2 DEF Contract!Cancel, Verdict
    <3>4. QED BY <3>3 DEF Contract!Next
  <2>5. CASE ~ ok /\ (error \/ ~ cancel)
    <3>1. Contract!Fail
      BY <2>1, <2>2, <2>5 DEF Contract!Fail, Verdict
    <3>2. QED BY <3>1 DEF Contract!Next
  <2>6. QED BY <2>3, <2>4, <2>5
<1>4. QED BY <1>1, <1>2, <1>3

\* What happens to drives is nothing the contract speaks of; asking to stop is.
LEMMA OtherContractStep ==
  ASSUME IInv,
         (World /\ UNCHANGED << localVars, pc, cancel >>) \/ RequestCancel \/ UNCHANGED vars
  PROVE  [Contract!Next]_Contract!contractVars
<1>1. UNCHANGED << media, style, shown, verdict >>
  BY WorldEffect
  DEF IInv, TypeOK, RequestCancel, vars, blockVars, localVars, requestVars, returnVars,
      progressVars
<1>2. UNCHANGED << Untouched(Selected), Restored, shown >= Boundary >>
  BY <1>1, BoundaryIsFive DEF Untouched, Restored, media
<1>3. CASE RequestCancel
  <2>1. Contract!Ask
    BY <1>1, <1>2, <1>3 DEF RequestCancel, Contract!Ask
  <2>2. QED BY <2>1 DEF Contract!Next
<1>4. CASE UNCHANGED cancel
  BY <1>1, <1>2, <1>4 DEF Contract!contractVars
<1>5. QED BY <1>3, <1>4 DEF vars

\* performLinuxRestore keeps the promises of DiskService::restore.
THEOREM Implements == Spec => ImplementsContract
<1>1. IInv /\ IInv' /\ [Next]_vars => [Contract!Next]_Contract!contractVars
  BY RestoreContractStep, OtherContractStep DEF Next
<1>2. QED
  BY InitContract, <1>1, Inductive, PTL DEF Spec, ImplementsContract, Contract!Spec
=============================================================================
