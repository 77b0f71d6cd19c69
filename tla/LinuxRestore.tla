---------------------------- MODULE LinuxRestore ----------------------------
(***************************************************************************)
(* The privileged restore: performLinuxRestore with everything it calls    *)
(* that changes state (src/linux/linux_restore.cpp, block_device.cpp), run *)
(* against the drive, mounts and device nodes of BlockLayer, which change  *)
(* between any two of its steps.                                           *)
(*                                                                         *)
(* The function returns ok, and an error text that is empty or not; its    *)
(* callers (helper/main.cpp, platform/restore_worker.cpp) read "not ok, no *)
(* error, and cancelled" as a cancellation.  Nothing else tells an         *)
(* untouched drive from a half-written one.                                *)
(***************************************************************************)
EXTENDS BlockLayer, RestorePlan

CONSTANTS
  Styles,           \* partition styles: a subset of {"gpt", "mbr"}
  FormatCommands,   \* command lines a formatter may have: a subset of {1, 2}
  OpenAttempts      \* tries of the exclusive open

ASSUME OpenAssumption == OpenAttempts \in Nat \ {0}
ASSUME StyleAssumption == Styles \subseteq {"gpt", "mbr"} /\ FormatCommands \subseteq {1, 2}

VARIABLES
  pc,         \* where performLinuxRestore is
  done,       \* RestoreStepCounter: planned steps reported in order
  shown,      \* steps the user has been shown
  style,      \* request.style
  commands,   \* formatter command lines not yet tried
  sequences,  \* does this kernel report disk sequence numbers?
  expected,   \* disk.deviceSequence, 0 if unknown
  newSeq,     \* the sequence read after the re-read
  todo,       \* mounts unmountDisk still has to release
  attempt,    \* failed tries of the exclusive open
  located,    \* the drive whose partition is the reported location
  gaveUp,     \* the re-read after a failed format failed too, and was logged
  cancel,     \* the user has asked to stop
  ok, error,  \* what performLinuxRestore returns
  verdict     \* what its caller makes of that

progressVars == << done, shown >>
requestVars == << style, sequences >>
returnVars == << ok, error, verdict >>
localVars == << progressVars, requestVars, returnVars, commands, expected, newSeq,
                todo, attempt, located, gaveUp >>
vars == << blockVars, localVars, pc, cancel >>

Locations ==
  { "Start", "VerifyDisk", "Identify", "BeforeUnmount", "Unmount", "Unmounting",
    "TryOpen", "VerifyOpen", "AfterOpen", "Configure", "BeforeWriting",
    "VerifyLast", "Announce", "ClearHead", "ClearTail", "WriteTable",
    "WriteBackup", "FlushTable", "PrepareFormat", "Mkfs", "Detach", "Unbind",
    "Salvage", "SalvageUnbind", "SalvageTable", "Reread", "ReadSequence", "Close",
    "WaitPartition", "AcceptPartition", "Unwind", "UnwindUnbind", "CloseDrive",
    "Judge", "Done" }

TypeOK ==
  /\ BlockTypeOK
  /\ pc \in Locations
  /\ done \in 0 .. Len(linuxRestorePlan)
  /\ shown \in 0 .. Len(linuxRestorePlan)
  /\ style \in Styles
  /\ commands \in {1, 2}
  /\ sequences \in BOOLEAN
  /\ expected \in Nat
  /\ newSeq \in Nat
  /\ todo \subseteq MountPoint
  /\ attempt \in 0 .. OpenAttempts
  /\ located \in Disk \cup {NoDisk}
  /\ gaveUp \in BOOLEAN
  /\ cancel \in BOOLEAN
  /\ ok \in BOOLEAN
  /\ error \in BOOLEAN
  /\ verdict \in {"none", "succeeded", "failed", "cancelled"}

Init ==
  /\ BlockInit
  /\ pc = "Start"
  /\ done = 0
  /\ shown = 0
  /\ style \in Styles
  /\ commands \in FormatCommands
  /\ sequences \in BOOLEAN
  /\ expected = 0
  /\ newSeq = 0
  /\ todo = {}
  /\ attempt = 0
  /\ located = NoDisk
  /\ gaveUp = FALSE
  /\ cancel = FALSE
  /\ ok = FALSE
  /\ error = FALSE
  /\ verdict = "none"

----------------------------------------------------------------------------
\* Helpers.

\* reportPlannedStep: shown whatever the counter says of its order.
Report(step) ==
  /\ done' = advance(linuxRestorePlan, done, step)
  /\ shown' = shownStep(linuxRestorePlan, shown)

\* Return false with an error text; the destructors run from Unwind on.
FailWithError ==
  /\ pc' = "Unwind"
  /\ error' = TRUE
  /\ UNCHANGED << ok, verdict >>

Continue(next) == pc' = next /\ UNCHANGED returnVars

\* Disk facts the request and the drive under this name share; the request's
\* sequence is 1, the number Selected was enumerated with.
SameTarget(d) == sequences => seq[d] = 1

\* isSafeRestoreTarget, of the facts sysfs and mountinfo give at this moment.
SafeTarget(d) == safe[d] /\ mounts[d] \cap Protected = {}

IdentityWithoutSequence(d) == Present(d) /\ name = d /\ safe[d]

\* BlockDevice::verifyIdentity on a descriptor of d.
Identity(d) ==
  /\ sequences
  /\ expected # 0
  /\ Present(d)
  /\ seq[d] = expected
  /\ name = d
  /\ safe[d]

----------------------------------------------------------------------------
\* Before anything is written.

CheckRequest ==
  /\ pc = "Start"
  /\ \/ safe[Selected] /\ Continue("VerifyDisk")
     \/ FailWithError   \* unsafe by the scan's facts, or no mkfs installed
  /\ UNCHANGED << blockVars, progressVars, requestVars, commands, expected, newSeq,
                  todo, attempt, located, gaveUp, cancel >>

\* The last disjunct is also a drive the layout or file system does not fit.
VerifyDisk ==
  /\ pc = "VerifyDisk"
  /\ Report("VerifyDisk")
  /\ \/ /\ name # NoDisk
        /\ SameTarget(name)
        /\ SafeTarget(name)
        /\ expected' = IF sequences THEN seq[name] ELSE 0
        /\ Continue("Identify")
     \/ FailWithError /\ UNCHANGED expected
  /\ UNCHANGED << blockVars, requestVars, commands, newSeq, todo, attempt, located,
                  gaveUp, cancel >>

IdentifyDevice ==
  /\ pc = "Identify"
  /\ Report("IdentifyDevice")
  /\ IF name # NoDisk /\ Identity(name) THEN Continue("BeforeUnmount") ELSE FailWithError
  /\ UNCHANGED << blockVars, requestVars, commands, expected, newSeq, todo, attempt,
                  located, gaveUp, cancel >>

\* The three places where a request to stop is honoured, and what follows each.
Checkpoint == [BeforeUnmount |-> "Unmount",
               AfterOpen     |-> "Configure",
               BeforeWriting |-> "VerifyLast"]

CheckCancel ==
  /\ pc \in DOMAIN Checkpoint
  /\ pc' = IF cancel THEN "Unwind" ELSE Checkpoint[pc]
  /\ UNCHANGED << blockVars, localVars, cancel >>

\* unmountDisk, first part: the mounts of whatever has the name now.
StartUnmount ==
  /\ pc = "Unmount"
  /\ IF attempt = 0 THEN Report("Unmount") ELSE UNCHANGED progressVars
  /\ todo' = IF name = NoDisk THEN {} ELSE mounts[name]
  /\ Continue("Unmounting")
  /\ UNCHANGED << blockVars, requestVars, commands, expected, newSeq, attempt,
                  located, gaveUp, cancel >>

\* The live mount table is asked again: the guard ran against a snapshot.
MayUnmount(m) == m \notin Protected

\* unmountDisk, one mount, longest path first.  It acts on the path, whatever
\* is mounted there by now; a path already free is skipped.
UnmountOne ==
  /\ pc = "Unmounting"
  /\ \E m \in todo :
       /\ \A other \in todo : other <= m
       /\ \/ /\ ~ MayUnmount(m)
             /\ FailWithError
             /\ UNCHANGED << mounts, todo >>
          \/ /\ MayUnmount(m)
             /\ mounts' = [d \in Disk |-> mounts[d] \ {m}]
             /\ todo' = todo \ {m}
             /\ Continue("Unmounting")
          \/ /\ MayUnmount(m)
             /\ \E d \in Disk : m \in mounts[d]   \* busy
             /\ FailWithError
             /\ UNCHANGED << mounts, todo >>
  /\ UNCHANGED << plugVars, media, kernelVars, claim, loopVars, events, progressVars,
                  requestVars, commands, expected, newSeq, attempt, located, gaveUp,
                  cancel >>

EndUnmount ==
  /\ pc = "Unmounting"
  /\ todo = {}
  /\ IF attempt = 0 THEN Report("OpenExclusive") ELSE UNCHANGED progressVars
  /\ Continue("TryOpen")
  /\ UNCHANGED << blockVars, requestVars, commands, expected, newSeq, todo, attempt,
                  located, gaveUp, cancel >>

OpensShared(d) == Present(d)

\* O_EXCL: refused while a partition of the drive is mounted.
OpensExclusively(d) == Present(d) /\ mounts[d] = {}

MayTryAgain == attempt + 1 < OpenAttempts

UncountedTry == attempt

CountedTry == attempt + 1

\* A failed open leaves the caller's error alone: only the last one is kept.
TryOpen ==
  /\ pc = "TryOpen"
  /\ \/ /\ OpensExclusively(name)
        /\ claim' = name
        /\ Continue("VerifyOpen")
        /\ UNCHANGED attempt
     \/ /\ attempt' = CountedTry
        /\ IF MayTryAgain THEN Continue("Unmount") ELSE FailWithError
        /\ UNCHANGED claim
  /\ UNCHANGED << plugVars, mounts, media, kernelVars, loopVars, events, progressVars,
                  requestVars, commands, expected, newSeq, todo, located, gaveUp,
                  cancel >>

\* The same question right after the open and right before the first write.
VerifyHeld ==
  /\ pc \in {"VerifyOpen", "VerifyLast"}
  /\ IF Identity(claim)
     THEN Continue(IF pc = "VerifyOpen" THEN "AfterOpen" ELSE "Announce")
     ELSE FailWithError
  /\ UNCHANGED << blockVars, progressVars, requestVars, commands, expected, newSeq,
                  todo, attempt, located, gaveUp, cancel >>

BindUnclaimed == loop' = TRUE /\ UNCHANGED << loopClaim, loopMount >>

\* The loop node is opened O_EXCL first, then bound to the drive's descriptor.
Bind == loop' = TRUE /\ loopClaim' = TRUE /\ UNCHANGED loopMount

ConfigureLoop ==
  /\ pc = "Configure"
  /\ \/ Present(claim) /\ Bind /\ Continue("BeforeWriting")
     \/ UNCHANGED loopVars /\ FailWithError
  /\ UNCHANGED << plugVars, mounts, media, kernelVars, claim, events, progressVars,
                  requestVars, commands, expected, newSeq, todo, attempt, located,
                  gaveUp, cancel >>

----------------------------------------------------------------------------
\* Writing.  From here on a request to stop is not looked at.

AnnounceClear ==
  /\ pc = "Announce"
  /\ Report("ClearSignatures")
  /\ Continue("ClearHead")
  /\ UNCHANGED << blockVars, requestVars, commands, expected, newSeq, todo, attempt,
                  located, gaveUp, cancel >>

\* A run of pwrites over one area: all of it, or an error after some of it.
Overwrite(area, areaAfter, value, next) ==
  \/ /\ Present(claim)
     /\ areaAfter = [area EXCEPT ![claim] = value]
     /\ Continue(next)
  \/ /\ areaAfter \in {area} \cup
           (IF Present(claim) THEN {[area EXCEPT ![claim] = "torn"]} ELSE {})
     /\ FailWithError

ClearHead ==
  /\ pc = "ClearHead"
  /\ Overwrite(head, head', "zero", "ClearTail")
  /\ UNCHANGED << tail, progressVars >>

ClearTail ==
  /\ pc = "ClearTail"
  /\ Overwrite(tail, tail', "zero", "WriteTable")
  /\ UNCHANGED << head, progressVars >>

WriteTable ==
  /\ pc = "WriteTable"
  /\ Report("WritePartitionTable")
  /\ Overwrite(head, head', "new", IF style = "gpt" THEN "WriteBackup" ELSE "FlushTable")
  /\ UNCHANGED tail

WriteBackup ==
  /\ pc = "WriteBackup"
  /\ Overwrite(tail, tail', "new", "FlushTable")
  /\ UNCHANGED << head, progressVars >>

WriteRaw ==
  /\ ClearHead \/ ClearTail \/ WriteTable \/ WriteBackup
  /\ UNCHANGED << plugVars, mounts, fs, kernelVars, claim, loopVars, events,
                  requestVars, commands, expected, newSeq, todo, attempt, located,
                  gaveUp, cancel >>

FlushTable ==
  /\ pc = "FlushTable"
  /\ \/ Present(claim) /\ Continue("PrepareFormat")
     \/ FailWithError
  /\ UNCHANGED << blockVars, progressVars, requestVars, commands, expected, newSeq,
                  todo, attempt, located, gaveUp, cancel >>

----------------------------------------------------------------------------
\* formatAndRereadPartitionTable.

\* A failure inside the format step leaves an error text and goes on to Salvage.
FailFormat ==
  /\ pc' = "Salvage"
  /\ error' = TRUE
  /\ UNCHANGED << ok, verdict >>

\* prepareForFormatting: drop the mapping's stale cache, let mkfs have the node.
PrepareFormat ==
  /\ pc = "PrepareFormat"
  /\ Report("Format")
  /\ \/ loopClaim' = FALSE /\ Continue("Mkfs")
     \/ UNCHANGED loopClaim /\ FailFormat
  /\ UNCHANGED << plugVars, mounts, media, kernelVars, claim, loop, loopMount, events,
                  requestVars, commands, expected, newSeq, todo, attempt, located,
                  gaveUp, cancel >>

\* formatLinuxPartition: the next command line only after an unknown option;
\* every other failure, and the 15-minute limit, ends it.
Mkfs ==
  /\ pc = "Mkfs"
  /\ \/ /\ Present(claim)
        /\ fs' = [fs EXCEPT ![claim] = "cached"]
        /\ Continue("Detach")
        /\ UNCHANGED commands
     \/ /\ commands > 1
        /\ commands' = commands - 1
        /\ Continue("Mkfs")
        /\ UNCHANGED fs
     \/ /\ fs' \in {fs, [fs EXCEPT ![claim] = "torn"]}
        /\ FailFormat
        /\ UNCHANGED commands
  /\ UNCHANGED << plugVars, mounts, head, tail, kernelVars, claim, loopVars, events,
                  progressVars, requestVars, expected, newSeq, todo, attempt, located,
                  gaveUp, cancel >>

CloseWithoutSync(f) == f

\* What fsync on the mapping makes of the formatter's output.
SyncedFs(f) == IF f = "cached" THEN "new" ELSE f

\* LoopDevice::detach, first half: sync the mapping, then give its claim up.  In
\* the format step the claim is mostly gone by now, in a return it may be held.
Release == loopClaim' = FALSE /\ UNCHANGED << loop, loopMount >>

Detach ==
  /\ pc = "Detach"
  /\ Release
  /\ \/ /\ Present(claim)
        /\ fs' = [fs EXCEPT ![claim] = SyncedFs(@)]
        /\ Continue("Unbind")
     \/ /\ fs' = [fs EXCEPT ![claim] = "torn"]
        /\ pc' = "Unbind"
        /\ error' = TRUE
        /\ UNCHANGED << ok, verdict >>
  /\ UNCHANGED << plugVars, mounts, head, tail, kernelVars, claim, events,
                  progressVars, requestVars, commands, expected, newSeq, todo, attempt,
                  located, gaveUp, cancel >>

\* Second half: LOOP_CLR_FD and the close, after which the node clears itself
\* even if LOOP_CLR_FD failed - but not before its last user is gone.
Unbound == loop' = loopMount /\ UNCHANGED << loopClaim, loopMount >>

Unbind ==
  /\ pc = "Unbind"
  /\ Unbound
  /\ \/ ~ error /\ Continue("Reread")
     \/ pc' = "SalvageTable" /\ error' = TRUE /\ UNCHANGED << ok, verdict >>
  /\ UNCHANGED << plugVars, mounts, media, kernelVars, claim, events, progressVars,
                  requestVars, commands, expected, newSeq, todo, attempt, located,
                  gaveUp, cancel >>

\* The detach after a formatter that failed, and the one in the destructor.
ReleaseMapping ==
  /\ pc \in {"Salvage", "Unwind"}
  /\ IF loop
     THEN /\ Release
          /\ Continue(IF pc = "Salvage" THEN "SalvageUnbind" ELSE "UnwindUnbind")
     ELSE /\ UNCHANGED loopVars
          /\ Continue(IF pc = "Salvage" THEN "SalvageTable" ELSE "CloseDrive")
  /\ UNCHANGED << plugVars, mounts, media, kernelVars, claim, events, progressVars,
                  requestVars, commands, expected, newSeq, todo, attempt, located,
                  gaveUp, cancel >>

UnbindMapping ==
  /\ pc \in {"SalvageUnbind", "UnwindUnbind"}
  /\ Unbound
  /\ Continue(IF pc = "SalvageUnbind" THEN "SalvageTable" ELSE "CloseDrive")
  /\ UNCHANGED << plugVars, mounts, media, kernelVars, claim, events, progressVars,
                  requestVars, commands, expected, newSeq, todo, attempt, located,
                  gaveUp, cancel >>

WithoutReread == UNCHANGED << listed, gaveUp >>

\* The table is on the drive: the kernel must not keep the old partitions.  A
\* failed re-read is only logged.
RereadIfPossible ==
  \/ Present(claim) /\ listed' = [listed EXCEPT ![claim] = Scan(claim)] /\ UNCHANGED gaveUp
  \/ UNCHANGED listed /\ gaveUp' = TRUE

SalvageTable ==
  /\ pc = "SalvageTable"
  /\ RereadIfPossible
  /\ Continue("Unwind")
  /\ UNCHANGED << plugVars, mounts, media, partNode, rescan, claim, loopVars, events,
                  progressVars, requestVars, commands, expected, newSeq, todo, attempt,
                  located, cancel >>

Reread ==
  /\ pc = "Reread"
  /\ Report("RereadPartitionTable")
  /\ \/ /\ Present(claim)
        /\ listed' = [listed EXCEPT ![claim] = Scan(claim)]
        /\ Continue("ReadSequence")
     \/ UNCHANGED listed /\ FailWithError
  /\ UNCHANGED << plugVars, mounts, media, partNode, rescan, claim, loopVars, events,
                  requestVars, commands, expected, newSeq, todo, attempt, located,
                  gaveUp, cancel >>

\* The number under which the kernel has just read the new table.
ReadSequence ==
  /\ pc = "ReadSequence"
  /\ \/ newSeq' = seq[claim] /\ Continue("Close")
     \/ UNCHANGED newSeq /\ FailWithError
  /\ UNCHANGED << blockVars, progressVars, requestVars, commands, expected, todo,
                  attempt, located, gaveUp, cancel >>

----------------------------------------------------------------------------
\* The new partition, and the return.

\* BlockDevice::close.  A loop device that somebody still uses keeps the file
\* open, and with it the claim.
Closed ==
  IF loop \/ claim = NoDisk THEN UNCHANGED << claim, rescan >>
  ELSE claim' = NoDisk /\ rescan' = claim

CloseDevice ==
  /\ pc = "Close"
  /\ Closed
  /\ Report("WaitForPartition")
  /\ Continue("WaitPartition")
  /\ UNCHANGED << plugVars, mounts, media, listed, partNode, loopVars, events,
                  requestVars, commands, expected, newSeq, todo, attempt, located,
                  gaveUp, cancel >>

NodeExists == name # NoDisk /\ partNode[name] # "none"

\* Polls for the node, for 30 seconds.
WaitPartition ==
  /\ pc = "WaitPartition"
  /\ IF NodeExists THEN Continue("AcceptPartition") ELSE FailWithError
  /\ UNCHANGED << blockVars, progressVars, requestVars, commands, expected, newSeq,
                  todo, attempt, located, gaveUp, cancel >>

BelongsByName(d) == listed[d] # "none"

\* verifyPartitionOf: sysfs lists a partition 1 under this name, and the node
\* is on the instance that was written.
Belongs(d) == listed[d] # "none" /\ seq[d] = newSeq

\* A node left over from the old table may carry the new partition's device
\* number or another one.
AcceptPartition ==
  /\ pc = "AcceptPartition"
  /\ \/ /\ NodeExists
        /\ Belongs(name)
        /\ located' = name
        /\ Report("Complete")
        /\ pc' = "Unwind"
        /\ ok' = TRUE
        /\ UNCHANGED << error, verdict >>
     \/ /\ NodeExists /\ Belongs(name) => partNode[name] # listed[name]
        /\ FailWithError
        /\ UNCHANGED << located, progressVars >>
  /\ UNCHANGED << blockVars, requestVars, commands, expected, newSeq, todo, attempt,
                  gaveUp, cancel >>

\* The destructor of the drive's descriptor, after that of the mapping.
CloseDrive ==
  /\ pc = "CloseDrive"
  /\ Closed
  /\ pc' = "Judge"
  /\ UNCHANGED << plugVars, mounts, media, listed, partNode, loopVars, events,
                  localVars, cancel >>

Verdict ==
  IF ok THEN "succeeded" ELSE IF cancel /\ ~ error THEN "cancelled" ELSE "failed"

Judge ==
  /\ pc = "Judge"
  /\ verdict' = Verdict
  /\ pc' = "Done"
  /\ UNCHANGED << blockVars, progressVars, requestVars, ok, error, commands, expected,
                  newSeq, todo, attempt, located, gaveUp, cancel >>

----------------------------------------------------------------------------
RequestCancel ==
  /\ ~ cancel
  /\ verdict = "none"
  /\ cancel' = TRUE
  /\ UNCHANGED << blockVars, localVars, pc >>

Prepare == \/ CheckRequest \/ VerifyDisk \/ IdentifyDevice \/ CheckCancel
           \/ StartUnmount \/ UnmountOne \/ EndUnmount \/ TryOpen \/ VerifyHeld
           \/ ConfigureLoop

Rewrite == \/ AnnounceClear \/ WriteRaw \/ FlushTable \/ PrepareFormat \/ Mkfs
           \/ Detach \/ Unbind \/ SalvageTable \/ Reread \/ ReadSequence

Finish == \/ CloseDevice \/ WaitPartition \/ AcceptPartition
          \/ ReleaseMapping \/ UnbindMapping \/ CloseDrive \/ Judge

Restore == Prepare \/ Rewrite \/ Finish

Next == Restore \/ RequestCancel \/ (World /\ UNCHANGED << localVars, pc, cancel >>)

Spec == Init /\ [][Next]_vars

\* The restore runs on one thread and every call it waits in has a time limit.
FairSpec == Spec /\ WF_vars(Restore)
=============================================================================
