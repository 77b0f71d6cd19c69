------------------------- MODULE LinuxRestoreSafety -------------------------
(***************************************************************************)
(* What the Linux restore must never do, must always do, and promises to   *)
(* its callers.                                                            *)
(***************************************************************************)
EXTENDS LinuxRestore

Boundary == firstDestructiveStepOf(linuxRestorePlan)

\* Whatever is unplugged, plugged in or renamed meanwhile, only the instance
\* the user selected is ever written, only if it passed the safety check, and
\* only where the kernel can tell instances apart (verifyIdentity before the
\* first write; every later write goes through the descriptor it checked).
OnlySelectedDriveWritten ==
  \A d \in Disk : ~ Untouched(d) => d = Selected /\ safe[d] /\ sequences

\* No sector of a drive changes while one of its file systems is mounted, or
\* without the exclusive claim on it: "reaching the write means nothing is
\* live underneath it" (SECURITY.md), automounters included.
NoWriteUnderMount ==
  [][\A d \in Disk :
       << head'[d], tail'[d], fs'[d] >> # << head[d], tail[d], fs[d] >>
         => claim = d /\ mounts[d] = {}]_vars

\* "Cancelled" is said only of a restore that was asked to stop, and of drives
\* nothing was written to: every failure after the first write has to leave
\* an error text, or the callers take it for a cancellation.
CancelledMeansUntouched ==
  verdict = "cancelled" =>
    cancel /\ done < Boundary /\ \A d \in Disk : Untouched(d)

\* Before a drive changes, the step from which the window forbids unplugging
\* and cancelling has been shown (RestoreReporter::step, the plan's boundary).
AnnouncedBeforeWritten ==
  (\E d \in Disk : ~ Untouched(d)) => shown >= Boundary

\* A location is reported only if it lies on the selected instance, whose
\* table and synced file system are both there, after every planned step.
SucceededMeansRestored ==
  verdict = "succeeded" =>
    /\ located = Selected
    /\ head[Selected] = "new"
    /\ tail[Selected] = IF style = "gpt" THEN "new" ELSE "zero"
    /\ fs[Selected] = "new"
    /\ done = Len(linuxRestorePlan) /\ shown = done

\* The formatter's loop node shows the drive's old file system to everybody.
\* What the claim on the node is for (LoopDevice::configure, linux_restore.cpp):
\* once somebody has mounted what the node shows, the restore changes nothing
\* under that mount but what the formatter left to be synced.  A restore that
\* gives up releases the claim with the mapping still bound and the old file
\* system in it; it must not write after that.
NoWriteUnderMapping ==
  [][loopMount =>
       /\ UNCHANGED << head, tail >>
       /\ \A d \in Disk : fs'[d] # fs[d] => fs[d] = "cached"]_vars

\* As long as the mapping exists, the selected drive is held and unmounted.
MappedDriveIsHeld == loop => claim = Selected /\ mounts[claim] = {}

\* The kernel learns of the new partition only after the restore's mapping over
\* it is gone, unless somebody mounted that, and after the formatter's output is
\* synced or given up.
RereadOnlyUnmapped ==
  [][\A d \in Disk : listed'[d] # listed[d] /\ listed'[d] = "new"
       => loop' = loopMount' /\ fs[d] # "cached"]_vars

\* A restore that failed in its format step does not leave the kernel with the
\* old partitions over the new table, unless re-reading failed as well.
FailedFormatRereads ==
  verdict = "failed" /\ done = 7 => gaveUp \/ listed[Selected] # "old"

\* A mount the running system needs disappears only with its drive: unmountDisk
\* asks the live table, the safety check having seen an older one.
ProtectedStayMounted ==
  [][\A d \in Disk : (mounts[d] \ mounts'[d]) \cap Protected # {}
       => presence'[d] = "gone"]_vars

\* A restore ends, with a verdict: retries, waits and the formatter's tries are
\* all limited.
EndsWithVerdict == <>(verdict # "none")

\* A finished drive, still under its name and number, whose new node udev has
\* made, is not reported as failed.  The code does not ensure it: it looks at
\* the sysfs entry once, as soon as a node exists, and udev may be re-reading
\* the table at that moment (docs/TODO.md).
FinishedDriveIsAccepted ==
  [][pc = "AcceptPartition" /\ pc' = "Unwind" /\ name = Selected
       /\ seq[Selected] = newSeq /\ partNode[Selected] = "new" => ok']_vars

----------------------------------------------------------------------------
\* The contract of a restore, of the selected drive.

Restored ==
  /\ head[Selected] = "new"
  /\ tail[Selected] = IF style = "gpt" THEN "new" ELSE "zero"
  /\ fs[Selected] = "new"

Contract == INSTANCE RestoreContract WITH
  drive     <- IF Untouched(Selected) THEN "untouched"
               ELSE IF Restored THEN "restored" ELSE "changed",
  announced <- shown >= Boundary,
  asked     <- cancel,
  verdict   <- verdict

\* performLinuxRestore implements the contract of DiskService::restore.
ImplementsContract == Contract!Spec
=============================================================================
