--------------------------- MODULE WindowsRestore ---------------------------
(***************************************************************************)
(* The restore on Windows: WindowsDiskService::restore with everything it  *)
(* calls that changes state (src/win/windows_disk_service.cpp,             *)
(* raw_disk.cpp, volume_manager.cpp, wmi.cpp).                             *)
(*                                                                         *)
(* Raw writes go through one handle, which stays bound to the stick it was *)
(* opened on.  Everything else - deleting the partitions, finding the new  *)
(* volume - asks Windows by disk number, and the number is whoever's       *)
(* `holder` says at that moment.  Windows may also queue the work as a     *)
(* storage job, which outlives a restore that stopped waiting for it.      *)
(***************************************************************************)
EXTENDS RestorePlan

CONSTANTS
  Stick, NoStick,
  Selected,           \* the stick the user chose; it has the number at first
  Alike,              \* pairs of sticks that two scans do not tell apart: same
                      \* size, no identifier that both report and that differs
  AlikeRaw,           \* pairs that verifyIdentity does not tell apart: same size,
                      \* a serial number missing or contained in the other
  Superfloppy,        \* sticks whose volume starts at sector 0
  InitialVolumes,     \* what volumes a stick may have at first
  ReusesHeldNumber,   \* may Windows give the number away while a handle to its
                      \* unplugged holder is still open?
  NotReadyRetries,    \* MaxNotReadyRetries, 10 in the code
  MaxEvents           \* bound: sticks unplugged or plugged in

OldVolume == {"lettered", "letterless", "protected", "freed"}
Volume == OldVolume \cup {"new"}

ASSUME StickAssumption ==
  /\ Selected \in Stick
  /\ Alike \subseteq SUBSET Stick /\ AlikeRaw \subseteq SUBSET Stick
  /\ NoStick \notin Stick
  /\ InitialVolumes \subseteq SUBSET {"lettered", "letterless", "protected"}
ASSUME LimitAssumption ==
  ReusesHeldNumber \in BOOLEAN /\ NotReadyRetries \in Nat /\ MaxEvents \in Nat

VARIABLES
  holder,          \* the stick that has the disk number, or NoStick
  content,         \* what is on each stick
  volumes,         \* the volumes Windows shows of each stick while it holds the number
  events,          \* sticks unplugged or plugged in so far
  job, jobWork, jobOn,   \* the storage job Windows queued last, and its stick
  pc,              \* where restore is
  adopted,         \* `disk`: the stick whose facts it holds, at first the chosen
                   \* one's and then those that VerifyDisk has read
  handle, held,    \* RawDisk: the state of its handle, the stick it was opened on
  listed, todo,    \* a list made by number: of which stick, and what is left of it
  retries,         \* m_notReadyRetries
  written,         \* m_writeAccepted
  found, foundKind,      \* the volume that waitForVolumeOnDisk returned
  done, shown,     \* RestoreStepCounter, and the steps the user was shown
  cancel,          \* the user has asked to stop
  ok, error,       \* what restore returns: the bool, and whether there is a text
  verdict          \* what RestoreWorker makes of that

stickVars == << holder, content, volumes, events >>
jobVars == << job, jobWork, jobOn >>
handleVars == << adopted, handle, held >>
listVars == << listed, todo >>
writeVars == << retries, written >>
foundVars == << found, foundKind >>
progressVars == << done, shown >>
returnVars == << ok, error, verdict >>
vars == << stickVars, jobVars, pc, handleVars, listVars, writeVars, foundVars,
           progressVars, cancel, returnVars >>

Content ==
  { "old", "emptied", "empty", "wiped", "partitioned", "formatted" }

Locations ==
  { "Start", "VerifyDisk", "OpenDrive", "VerifyOpened", "BeforeRefresh", "Refresh",
    "Dismount", "Detaching", "RemoveLetter", "BeforeDeleting", "VerifyBeforeDeleting",
    "DeletePartitions", "Deleting", "WaitDelete", "ReplaceLayout", "AwaitLeave",
    "Lock", "VerifyLocked", "AnnounceClear", "ClearHead", "NotReady",
    "ClearTail", "ResetToRaw", "CreatePartition", "SetLayout", "WaitForVolume", "FindVolume",
    "RefreshNew", "ConfirmLetter", "AssignLetter", "AnnounceFormat",
    "ConfirmFormat", "CheckBelongs", "CallFormat", "WaitFormat", "CheckFormat",
    "Complete", "Judge", "Done" }

TypeOK ==
  /\ holder \in Stick \cup {NoStick}
  /\ content \in [Stick -> Content]
  /\ volumes \in [Stick -> SUBSET Volume]
  /\ events \in Nat
  /\ job \in {"none", "running", "succeeded", "failed"}
  /\ jobWork \in {"delete", "format"}
  /\ jobOn \in Stick \cup {NoStick}
  /\ pc \in Locations
  /\ adopted \in Stick
  /\ handle \in {"closed", "live", "dead"}
  /\ held \in Stick \cup {NoStick}
  /\ listed \in Stick \cup {NoStick}
  /\ todo \subseteq Volume
  /\ retries \in 0 .. NotReadyRetries
  /\ written \in BOOLEAN
  /\ found \in Stick \cup {NoStick}
  /\ foundKind \in Volume \cup {"none"}
  /\ done \in 0 .. Len(windowsRestorePlan)
  /\ shown \in 0 .. Len(windowsRestorePlan)
  /\ cancel \in BOOLEAN
  /\ ok \in BOOLEAN
  /\ error \in BOOLEAN
  /\ verdict \in {"none", "succeeded", "failed", "cancelled"}

Init ==
  /\ holder = Selected
  /\ content = [s \in Stick |-> "old"]
  /\ volumes \in [Stick -> InitialVolumes]
  /\ events = 0
  /\ job = "none" /\ jobWork = "delete" /\ jobOn = NoStick
  /\ pc = "Start"
  /\ adopted = Selected
  /\ handle = "closed" /\ held = NoStick
  /\ listed = NoStick /\ todo = {}
  /\ retries = 0 /\ written = FALSE
  /\ found = NoStick /\ foundKind = "none"
  /\ done = 0 /\ shown = 0
  /\ cancel = FALSE
  /\ ok = FALSE /\ error = FALSE
  /\ verdict = "none"

----------------------------------------------------------------------------
\* Windows and the user, between any two steps.

Unplug ==
  /\ holder # NoStick
  /\ events < MaxEvents
  /\ holder' = NoStick
  /\ events' = events + 1
  /\ handle' = IF handle = "live" THEN "dead" ELSE handle
  /\ UNCHANGED << content, volumes, jobVars, pc, adopted, held, listVars, writeVars,
                  foundVars, progressVars, cancel, returnVars >>

\* A stick plugged in gets the number when that is free.
TakeNumber(s) ==
  /\ holder = NoStick
  /\ ReusesHeldNumber \/ handle = "closed"
  /\ events < MaxEvents
  /\ holder' = s
  /\ events' = events + 1
  /\ UNCHANGED << content, volumes, jobVars, pc, handleVars, listVars, writeVars,
                  foundVars, progressVars, cancel, returnVars >>

\* Windows removes a volume some time after its partition has left the layout.
VolumeLeaves(s) ==
  /\ content[s] # "old"
  /\ \E v \in volumes[s] \cap OldVolume :
       volumes' = [volumes EXCEPT ![s] = @ \ {v}]
  /\ UNCHANGED << holder, content, events, jobVars, pc, handleVars, listVars,
                  writeVars, foundVars, progressVars, cancel, returnVars >>

VolumeArrives(s) ==
  /\ holder = s
  /\ content[s] \in {"partitioned", "formatted"}
  /\ "new" \notin volumes[s]
  /\ volumes' = [volumes EXCEPT ![s] = @ \cup {"new"}]
  /\ UNCHANGED << holder, content, events, jobVars, pc, handleVars, listVars,
                  writeVars, foundVars, progressVars, cancel, returnVars >>

\* What a storage call does to its stick.  The call names the partition or the
\* volume itself, not the number; Windows formats a volume its layout still has.
Works(work, s) ==
  /\ holder = s
  /\ work = "format" => /\ foundKind \in volumes[s]
                        /\ foundKind = "new" \/ content[s] = "old"
  /\ content' = [content EXCEPT ![s] = IF work = "delete" THEN "emptied" ELSE "formatted"]

MayHaveWorked(work, s) == Works(work, s) \/ UNCHANGED content

\* A queued job ends, whoever still waits for it; one that ends badly may have
\* done its work.
JobEnds ==
  /\ job = "running"
  /\ \/ Works(jobWork, jobOn) /\ job' = "succeeded"
     \/ MayHaveWorked(jobWork, jobOn) /\ job' = "failed"
  /\ UNCHANGED << holder, volumes, events, jobWork, jobOn, pc, handleVars, listVars,
                  writeVars, foundVars, progressVars, cancel, returnVars >>

AskToCancel ==
  /\ verdict = "none"
  /\ ~ cancel
  /\ cancel' = TRUE
  /\ UNCHANGED << stickVars, jobVars, pc, handleVars, listVars, writeVars, foundVars,
                  progressVars, returnVars >>

----------------------------------------------------------------------------
\* Helpers.

\* beginStep: shown whatever the counter says of its order.
Report(step) ==
  /\ done' = advance(windowsRestorePlan, done, step)
  /\ shown' = shownStep(windowsRestorePlan, shown)

Continue(next) == pc' = next /\ UNCHANGED returnVars

\* Return false with an error text.
FailWithError ==
  /\ pc' = "Judge"
  /\ error' = TRUE
  /\ UNCHANGED << ok, verdict >>

\* isSafeRestoreTarget, of the letters Windows shows of the disk.
SafeTarget(s) == "protected" \notin volumes[s]

\* bothKnownAndDifferent of nothing: a missing fact is no difference, so that a
\* chain of such comparisons may lead from a stick to one that differs from it.
LooksLike(pairs, s, other) == s = other \/ {s, other} \in pairs

\* RawDisk::verifyIdentity: the handle answers only while its stick is plugged in,
\* and its answers are compared with what VerifyDisk has read.
Identity == handle = "live" /\ LooksLike(AlikeRaw, adopted, held)

----------------------------------------------------------------------------
\* Before anything is written.

CheckRequest ==
  /\ pc = "Start"
  /\ \/ SafeTarget(Selected) /\ Continue("VerifyDisk")
     \/ FailWithError   \* unsafe by the scan's facts, or the layout does not fit
  /\ UNCHANGED << stickVars, jobVars, handleVars, listVars, writeVars, foundVars,
                  progressVars, cancel >>

\* diskByNumber and the checks on what it returns, which replaces the request's
\* facts: "disk = currentDisk".
VerifyDisk ==
  /\ pc = "VerifyDisk"
  /\ Report("VerifyDisk")
  /\ \/ /\ holder # NoStick
        /\ LooksLike(Alike, Selected, holder)
        /\ SafeTarget(holder)
        /\ adopted' = holder
        /\ Continue("OpenDrive")
     \/ FailWithError /\ UNCHANGED adopted
  /\ UNCHANGED << stickVars, jobVars, handle, held, listVars, writeVars, foundVars,
                  cancel >>

OpenDrive ==
  /\ pc = "OpenDrive"
  /\ Report("OpenDrive")
  /\ \/ /\ holder # NoStick
        /\ held' = holder
        /\ handle' = "live"
        /\ Continue("VerifyOpened")
     \/ FailWithError /\ UNCHANGED << handle, held >>
  /\ UNCHANGED << stickVars, jobVars, adopted, listVars, writeVars, foundVars, cancel >>

NeverAskedAgain == TRUE

\* confirmStillSelected: the same question, worded for a rewritten disk.
StillSelected == Identity

\* Every question to the handle, and what follows it.
AfterVerify ==
  [VerifyOpened         |-> "BeforeRefresh",
   VerifyBeforeDeleting |-> "DeletePartitions",
   VerifyLocked         |-> "AnnounceClear",
   ConfirmLetter        |-> "AssignLetter",
   ConfirmFormat        |-> "CheckBelongs"]

VerifyHeld ==
  /\ pc \in DOMAIN AfterVerify
  /\ \/ /\ IF pc \in {"ConfirmLetter", "ConfirmFormat"} THEN StillSelected ELSE Identity
        /\ Continue(AfterVerify[pc])
     \/ FailWithError
  /\ UNCHANGED << stickVars, jobVars, handleVars, listVars, writeVars, foundVars,
                  progressVars, cancel >>

CheckpointUnverified == [BeforeRefresh  |-> "Refresh",
                         BeforeDeleting |-> "DeletePartitions"]

\* The two places where a request to stop is honoured, and what follows each.
Checkpoint == [BeforeRefresh  |-> "Refresh",
               BeforeDeleting |-> "VerifyBeforeDeleting"]

CheckCancel ==
  /\ pc \in DOMAIN Checkpoint
  /\ Continue(IF cancel THEN "Judge" ELSE Checkpoint[pc])
  /\ UNCHANGED << stickVars, jobVars, handleVars, listVars, writeVars, foundVars,
                  progressVars, cancel >>

\* MSFT_Disk.Refresh, at once or as a job; it changes nothing on the stick.
RefreshMetadata ==
  /\ pc = "Refresh"
  /\ Report("RefreshMetadata")
  /\ (holder # NoStick /\ Continue("Dismount")) \/ FailWithError
  /\ UNCHANGED << stickVars, jobVars, handleVars, listVars, writeVars, foundVars, cancel >>

\* dismountUnletteredVolumesOnDisk, then the list of letters on the number; a
\* busy volume fails the step.
DismountUnlettered ==
  /\ pc = "Dismount"
  /\ Report("DetachDriveLetters")
  /\ \/ /\ listed' = holder
        /\ todo' = IF holder = NoStick THEN {}
                   ELSE volumes[holder] \cap {"lettered", "protected"}
        /\ Continue("Detaching")
     \/ FailWithError /\ UNCHANGED listVars
  /\ UNCHANGED << stickVars, jobVars, handleVars, writeVars, foundVars, cancel >>

\* removeMountPointsForDisk asks the guard again, letter by letter.
MayDetach(v) == v # "protected"

\* The letter names a volume of whoever has the number now, listed or not.
NamesVolumeHere(v) == holder # NoStick /\ v \in volumes[holder]

\* One letter: the volume it names by now is opened, asked for its disk's number
\* - its identity is nobody's question here - locked and dismounted.
DetachOne ==
  /\ pc = "Detaching"
  /\ \/ /\ \E v \in todo : /\ ~ MayDetach(v) \/ ~ NamesVolumeHere(v)
                          /\ todo' = todo \ {v}
        /\ Continue("Detaching")
     \/ /\ \E v \in todo : MayDetach(v) /\ NamesVolumeHere(v)
        /\ UNCHANGED todo
        /\ Continue("RemoveLetter")
     \/ /\ \E v \in todo : MayDetach(v)
        /\ UNCHANGED todo
        /\ FailWithError
  /\ UNCHANGED << stickVars, jobVars, handleVars, listed, writeVars, foundVars,
                  progressVars, cancel >>

\* DeleteVolumeMountPoint goes by the letter once more; one that is gone already
\* is no failure.
RemoveLetter ==
  /\ pc = "RemoveLetter"
  /\ \E v \in todo :
       /\ MayDetach(v)
       /\ todo' = todo \ {v}
       /\ \/ /\ NamesVolumeHere(v)
             /\ volumes' = [volumes EXCEPT ![holder] = (@ \ {v}) \cup {"freed"}]
             /\ Continue("Detaching")
          \/ ~ NamesVolumeHere(v) /\ UNCHANGED volumes /\ Continue("Detaching")
          \/ FailWithError /\ UNCHANGED volumes
  /\ UNCHANGED << holder, content, events, jobVars, handleVars, listed, writeVars,
                  foundVars, progressVars, cancel >>

EndDetach ==
  /\ pc = "Detaching"
  /\ todo = {}
  /\ Continue("BeforeDeleting")
  /\ UNCHANGED << stickVars, jobVars, handleVars, listVars, writeVars, foundVars,
                  progressVars, cancel >>

----------------------------------------------------------------------------
\* Storage calls: WmiConnection::callMethodAndWait.

\* The call returns at once, queues a job, or fails - its reply may have been
\* lost after either.
StorageCall(work, s, next, waiting) ==
  \/ /\ Works(work, s)
     /\ Continue(next)
     /\ UNCHANGED jobVars
  \/ /\ job' = "running" /\ jobWork' = work /\ jobOn' = s
     /\ Continue(waiting)
     /\ UNCHANGED content
  \/ /\ FailWithError
     /\ \/ MayHaveWorked(work, s) /\ UNCHANGED jobVars
        \/ job' = "running" /\ jobWork' = work /\ jobOn' = s /\ UNCHANGED content

JobAbandoned == TRUE

\* Only a completed job with error code 0 counts.
JobConfirmed == job = "succeeded"

AfterJob == [WaitDelete |-> "Deleting", WaitFormat |-> "CheckFormat"]

\* waitForStorageJob: a job that ended badly, that vanished, or that outlasts
\* the timeout fails the restore; in the last two cases it may still be running.
WaitForJob ==
  /\ pc \in DOMAIN AfterJob
  /\ (JobConfirmed /\ Continue(AfterJob[pc])) \/ FailWithError
  /\ UNCHANGED << stickVars, jobVars, handleVars, listVars, writeVars, foundVars,
                  progressVars, cancel >>

----------------------------------------------------------------------------
\* Writing.  From here on a request to stop is not looked at.

\* deletePartitionsForDisk: the partitions of whatever has the number now; the
\* one at the very start of a disk is left out.  No partitions is no failure.
DeletePartitions ==
  /\ pc = "DeletePartitions"
  /\ Report("DeletePartitions")
  /\ \/ /\ listed' = holder
        /\ todo' = IF holder = NoStick \/ holder \in Superfloppy THEN {}
                   ELSE volumes[holder] \cap OldVolume
        /\ Continue("Deleting")
     \/ FailWithError /\ UNCHANGED listVars
  /\ UNCHANGED << stickVars, jobVars, handleVars, writeVars, foundVars, cancel >>

DeleteOne ==
  /\ pc = "Deleting"
  /\ \E v \in todo : todo' = todo \ {v}
  /\ StorageCall("delete", listed, "Deleting", "WaitDelete")
  /\ UNCHANGED << holder, volumes, events, handleVars, listed, writeVars, foundVars,
                  progressVars, cancel >>

EndDelete ==
  /\ pc = "Deleting"
  /\ todo = {}
  /\ Continue("ReplaceLayout")
  /\ UNCHANGED << stickVars, jobVars, handleVars, listVars, writeVars, foundVars,
                  progressVars, cancel >>

RawFails == FailWithError

\* A request through the handle: done, or failed with or without effect.
RawWrite(value, next) ==
  /\ \/ /\ handle = "live"
        /\ content' = [content EXCEPT ![held] = value]
        /\ Continue(next)
     \/ /\ RawFails
        /\ \/ UNCHANGED content
           \/ handle = "live" /\ content' = [content EXCEPT ![held] = value]
  /\ UNCHANGED << holder, volumes, events, jobVars, handleVars, listVars, foundVars,
                  cancel >>

\* replaceLayoutWithEmptyGpt, part of the deletion's step: it fails too when
\* Windows still lists a partition after twenty looks.
ReplaceLayout ==
  /\ pc = "ReplaceLayout"
  /\ RawWrite("empty", "AwaitLeave")
  /\ UNCHANGED << writeVars, progressVars >>

\* waitForVolumesToLeaveDisk: at the timeout the restore goes on all the same.
AwaitOldVolumes ==
  /\ pc = "AwaitLeave"
  /\ Continue("Lock")
  /\ UNCHANGED << stickVars, jobVars, handleVars, listVars, writeVars, foundVars,
                  progressVars, cancel >>

\* The lock and the extended I/O are asked for, and done without when refused.
LockDrive ==
  /\ pc = "Lock"
  /\ Report("LockDrive")
  /\ Continue("VerifyLocked")
  /\ UNCHANGED << stickVars, jobVars, handleVars, listVars, writeVars, foundVars, cancel >>

AnnounceClear ==
  /\ pc = "AnnounceClear"
  /\ Report("ClearSignatures")
  /\ Continue("ClearHead")
  /\ UNCHANGED << stickVars, jobVars, handleVars, listVars, writeVars, foundVars, cancel >>

\* Only until a write has landed can "not ready" be a volume on its way out.
MayRetry == ~ written /\ retries < NotReadyRetries

UncountedRetry == retries

CountedRetry == retries + 1

\* writeZeros over the head of the disk, then over its tail.
ClearHead ==
  /\ pc = "ClearHead"
  /\ \/ RawWrite("wiped", "ClearTail") /\ written' = (pc' = "ClearTail") /\ UNCHANGED retries
     \/ /\ MayRetry
        /\ retries' = CountedRetry
        /\ Continue("NotReady")
        /\ UNCHANGED << stickVars, jobVars, handleVars, listVars, written, foundVars,
                        cancel >>
  /\ UNCHANGED progressVars

\* Half a second, and a seek back to where the write was refused.
SeekBack ==
  /\ pc = "NotReady"
  /\ Continue("ClearHead") \/ FailWithError
  /\ UNCHANGED << stickVars, jobVars, handleVars, listVars, writeVars, foundVars,
                  progressVars, cancel >>

ClearTail ==
  /\ pc = "ClearTail"
  /\ RawWrite("wiped", "ResetToRaw")
  /\ UNCHANGED << writeVars, progressVars >>

ResetToRaw ==
  /\ pc = "ResetToRaw"
  /\ Report("ResetToRaw")
  /\ RawWrite("wiped", "CreatePartition")
  /\ UNCHANGED writeVars

\* createSinglePartition, GPT or MBR: an empty table, then its one entry.
CreatePartition ==
  /\ pc = "CreatePartition"
  /\ Report("CreatePartition")
  /\ RawWrite("empty", "SetLayout")
  /\ UNCHANGED writeVars

SetLayout ==
  /\ pc = "SetLayout"
  /\ RawWrite("partitioned", "WaitForVolume")
  /\ UNCHANGED << writeVars, progressVars >>

----------------------------------------------------------------------------
\* The new volume.

WaitForVolume ==
  /\ pc = "WaitForVolume"
  /\ Report("WaitForVolume")
  /\ Continue("FindVolume")
  /\ UNCHANGED << stickVars, jobVars, handleVars, listVars, writeVars, foundVars, cancel >>

\* findVolumeNameForDisk: any volume on the number, a leftover one included.
FindVolume ==
  /\ pc = "FindVolume"
  /\ \/ /\ holder # NoStick
        /\ found' = holder
        /\ foundKind' \in volumes[holder]
        /\ Continue("RefreshNew")
     \/ FailWithError /\ UNCHANGED foundVars   \* none within NewVolumeTimeoutMs
  /\ UNCHANGED << stickVars, jobVars, handleVars, listVars, writeVars, progressVars,
                  cancel >>

\* volumePathBelongsToDisk.
Belongs == holder = found /\ foundKind \in volumes[found]

RefreshNewVolume ==
  /\ pc = "RefreshNew"
  /\ Report("RefreshNewVolume")
  /\ (Belongs /\ Continue("ConfirmLetter")) \/ FailWithError
  /\ UNCHANGED << stickVars, jobVars, handleVars, listVars, writeVars, foundVars, cancel >>

\* mountVolume; which letter it is makes no difference here.
AssignDriveLetter ==
  /\ pc = "AssignLetter"
  /\ Report("AssignDriveLetter")
  /\ Continue("AnnounceFormat") \/ FailWithError
  /\ UNCHANGED << stickVars, jobVars, handleVars, listVars, writeVars, foundVars, cancel >>

AnnounceFormat ==
  /\ pc = "AnnounceFormat"
  /\ Report("Format")
  /\ Continue("ConfirmFormat")
  /\ UNCHANGED << stickVars, jobVars, handleVars, listVars, writeVars, foundVars, cancel >>

\* formatVolume asks once more, then searches MSFT_Volume for the name.
CheckBelongs ==
  /\ pc = "CheckBelongs"
  /\ (Belongs /\ Continue("CallFormat")) \/ FailWithError
  /\ UNCHANGED << stickVars, jobVars, handleVars, listVars, writeVars, foundVars,
                  progressVars, cancel >>

CallFormat ==
  /\ pc = "CallFormat"
  /\ \/ StorageCall("format", found, "CheckFormat", "WaitFormat")
     \/ FailWithError /\ UNCHANGED << content, jobVars >>
  /\ UNCHANGED << holder, volumes, events, handleVars, listVars, writeVars, foundVars,
                  progressVars, cancel >>

\* The file system served at the drive root, not the method's return value.
CheckFormat ==
  /\ pc = "CheckFormat"
  /\ \/ Belongs /\ content[found] = "formatted" /\ Continue("Complete")
     \/ FailWithError
  /\ UNCHANGED << stickVars, jobVars, handleVars, listVars, writeVars, foundVars,
                  progressVars, cancel >>

Complete ==
  /\ pc = "Complete"
  /\ Report("Complete")
  /\ ok' = TRUE
  /\ pc' = "Judge"
  /\ UNCHANGED << stickVars, jobVars, handleVars, listVars, writeVars, foundVars,
                  cancel, error, verdict >>

\* RawDisk's destructor closes the handle; RestoreWorker reads the result.
Judge ==
  /\ pc = "Judge"
  /\ pc' = "Done"
  /\ handle' = "closed"
  /\ verdict' = IF ok THEN "succeeded"
                ELSE IF cancel /\ ~ error THEN "cancelled" ELSE "failed"
  /\ UNCHANGED << stickVars, jobVars, adopted, held, listVars, writeVars, foundVars,
                  progressVars, cancel, ok, error >>

Environment ==
  \/ Unplug
  \/ \E s \in Stick : TakeNumber(s) \/ VolumeLeaves(s) \/ VolumeArrives(s)
  \/ JobEnds
  \/ AskToCancel

Step ==
  \/ CheckRequest \/ VerifyDisk \/ OpenDrive \/ VerifyHeld \/ CheckCancel
  \/ RefreshMetadata \/ DismountUnlettered \/ DetachOne \/ RemoveLetter \/ EndDetach
  \/ DeletePartitions \/ DeleteOne \/ EndDelete \/ WaitForJob
  \/ ReplaceLayout \/ AwaitOldVolumes \/ LockDrive \/ AnnounceClear
  \/ ClearHead \/ SeekBack \/ ClearTail \/ ResetToRaw \/ CreatePartition \/ SetLayout
  \/ WaitForVolume \/ FindVolume \/ RefreshNewVolume \/ AssignDriveLetter
  \/ AnnounceFormat \/ CheckBelongs \/ CallFormat \/ CheckFormat
  \/ Complete \/ Judge

Next == Environment \/ Step

Spec == Init /\ [][Next]_vars

\* The worker thread keeps running, and every wait in it has a time limit.
FairSpec == Spec /\ WF_vars(Step)
=============================================================================
