---------------------------- MODULE RestorePlan ----------------------------
(***************************************************************************)
(* The step plans a restore announces, and the boundary between the steps  *)
(* during which unplugging the drive is harmless and those during which it *)
(* is not (src/core/restore_message.{h,cpp}).                              *)
(*                                                                         *)
(* The window numbers the steps, disables its cancel button and words its  *)
(* stall warning from this plan, in another process than the one writing,  *)
(* so everything it tells the user about safety rests on                   *)
(* FirstDestructiveStepOf and on the order in which a backend advances.    *)
(***************************************************************************)
EXTENDS Integers, Sequences

linuxRestorePlan ==
  << "VerifyDisk", "IdentifyDevice", "Unmount", "OpenExclusive",
     "ClearSignatures", "WritePartitionTable", "Format",
     "RereadPartitionTable", "WaitForPartition", "Complete" >>

windowsRestorePlan ==
  << "VerifyDisk", "OpenDrive", "RefreshMetadata", "DetachDriveLetters",
     "DeletePartitions", "LockDrive", "ClearSignatures", "ResetToRaw",
     "CreatePartition", "WaitForVolume", "RefreshNewVolume",
     "AssignDriveLetter", "Format", "Complete" >>

\* The steps that alter what is stored on the drive; the switch over the enum.
changesDiskContents(step) ==
  step \in { "DeletePartitions", "ClearSignatures", "ResetToRaw",
             "WritePartitionTable", "CreatePartition", "Format" }

\* 1-based position of the first writing step, one past the end if none writes.
firstDestructiveStepOf(plan) ==
  CHOOSE i \in 1 .. Len(plan) + 1 :
    /\ i <= Len(plan) => changesDiskContents(plan[i])
    /\ \A j \in 1 .. i - 1 : ~ changesDiskContents(plan[j])

\* RestoreStepCounter: `done` steps are behind; a step out of plan order is
\* reported to the user all the same, but does not advance the counter.
advance(plan, done, step) ==
  IF done < Len(plan) /\ plan[done + 1] = step THEN done + 1 ELSE done

\* What the reporters show (HelperReporter::step, RestoreWorker::step): one
\* more call, saturating at the length of the plan.
shownStep(plan, shown) ==
  IF shown < Len(plan) THEN shown + 1 ELSE Len(plan)
=============================================================================
