------------------------ MODULE WindowsRestoreProofs ------------------------
(***************************************************************************)
(* What holds of the Windows restore for any number of sticks,             *)
(* disturbances and retries, and for either way Windows treats the number  *)
(* of an unplugged stick.  IInv is the inductive invariant: what each      *)
(* location of WindowsDiskService::restore may rely on.                    *)
(***************************************************************************)
EXTENDS WindowsRestoreSafety, TLAPS

Returned == {"Judge", "Done"}

BeforeOpen == {"Start", "VerifyDisk", "OpenDrive"}

\* Locations after a first look through the handle.
Verified == Locations \ (BeforeOpen \cup Returned \cup {"VerifyOpened"})

\* Locations between the discovery of the new volume and the end.
WithVolume ==
  { "RefreshNew", "ConfirmLetter", "AssignLetter", "AnnounceFormat", "ConfirmFormat",
    "CheckBelongs", "CallFormat", "WaitFormat", "CheckFormat", "Complete" }

\* ... and those after the handle was asked about it.
Confirmed == WithVolume \ {"RefreshNew", "ConfirmLetter"}

\* How many steps have been reported at each location, until restore returns.
DoneAt ==
  [Start |-> 0, VerifyDisk |-> 0, OpenDrive |-> 1, VerifyOpened |-> 2,
   BeforeRefresh |-> 2, Refresh |-> 2, Dismount |-> 3, Detaching |-> 4,
   RemoveLetter |-> 4, BeforeDeleting |-> 4, VerifyBeforeDeleting |-> 4, DeletePartitions |-> 4,
   Deleting |-> 5, WaitDelete |-> 5, ReplaceLayout |-> 5, AwaitLeave |-> 5,
   Lock |-> 5, VerifyLocked |-> 6, AnnounceClear |-> 6, ClearHead |-> 7,
   NotReady |-> 7, ClearTail |-> 7, ResetToRaw |-> 7, CreatePartition |-> 8,
   SetLayout |-> 9, WaitForVolume |-> 9, FindVolume |-> 10, RefreshNew |-> 10,
   ConfirmLetter |-> 11, AssignLetter |-> 11, AnnounceFormat |-> 12,
   ConfirmFormat |-> 13, CheckBelongs |-> 13, CallFormat |-> 13,
   WaitFormat |-> 13, CheckFormat |-> 13, Complete |-> 13]

\* The steps reported so far: every one in the plan's order, so that what the
\* user is shown is what the counter counts.
StepInv ==
  /\ shown = done
  /\ pc \notin Returned => done = DoneAt[pc]
  /\ ok => done = 14

\* A handle that answers is the handle of the stick that has the number.
HandleInv ==
  /\ handle = "live" => holder = held /\ held \in Stick
  /\ pc \in BeforeOpen => handle = "closed"
  /\ pc \notin BeforeOpen \cup Returned => held \in Stick /\ handle # "closed"
  /\ pc \in Verified => LooksLike(AlikeRaw, adopted, held)

\* The volume found by number is the opened stick's, as long as the handle lives
\* and for good once it has been asked.
FoundInv ==
  /\ pc \in WithVolume => found \in Stick
  /\ pc \in WithVolume /\ handle = "live" => found = held
  /\ pc \in Confirmed => found = held

\* Lists and jobs are about a stick.
ListInv == todo # {} => listed \in Stick

JobInv ==
  /\ job = "running" => \/ pc \in {"WaitDelete", "WaitFormat"}
                        \/ pc \in Returned /\ error
  /\ job = "running" => jobOn \in Stick
  /\ job = "running" /\ jobWork = "format" => jobOn = held
  /\ job # "none" => done >= 5

\* The return values: an error text wherever something may have been written.
ReturnInv ==
  /\ ok => pc \in Returned /\ ~ error
  /\ error => pc \in Returned
  /\ (verdict # "none") = (pc = "Done")
  /\ pc \in Returned /\ ~ ok /\ ~ error => cancel /\ done <= 4
  /\ verdict = "cancelled" => ~ ok /\ ~ error
  /\ verdict = "succeeded" => ok

\* What the sticks hold.
ContentInv ==
  /\ done <= 4 => \A s \in Stick : content[s] = "old"
  /\ pc = "Complete" \/ ok
       => /\ held \in Stick /\ LooksLike(AlikeRaw, adopted, held)
          /\ found = held /\ content[held] = "formatted"

\* Locations between the first letter that may be taken off and the question to
\* the handle that comes before the deletion.
Detaching ==
  { "Detaching", "RemoveLetter", "BeforeDeleting", "VerifyBeforeDeleting" }

\* Letters are taken off a stick that was not opened only after the opened one
\* was unplugged, and that handle will not answer the question.
FreedInv ==
  /\ pc \in BeforeOpen => held = NoStick
  /\ held = NoStick => \A s \in Stick : "freed" \notin volumes[s]
  /\ (\E s \in Stick \ {held} : "freed" \in volumes[s])
       => handle # "live" /\ done <= 4 /\ pc \in Detaching \cup Returned

\* Locations that are reached only through a handle that answered after the
\* deletion.
PastDeletion ==
  { "AwaitLeave", "Lock", "VerifyLocked", "AnnounceClear", "ClearHead", "NotReady",
    "ClearTail", "ResetToRaw", "CreatePartition", "SetLayout", "WaitForVolume",
    "FindVolume" } \cup WithVolume

\* As long as the handle answers, and after it has, no other stick was touched.
OthersInv ==
  /\ handle = "live" \/ pc \in PastDeletion \/ ok
       => \A s \in Stick : s # held => content[s] = "old"
  /\ handle = "live" /\ pc \in {"Deleting", "WaitDelete"} /\ todo # {} => listed = held
  /\ (handle = "live" \/ pc \in PastDeletion) /\ job = "running" => jobOn = held

IInv ==
  /\ TypeOK
  /\ StepInv
  /\ HandleInv
  /\ FoundInv
  /\ ListInv
  /\ JobInv
  /\ ReturnInv
  /\ ContentInv
  /\ FreedInv
  /\ OthersInv
  /\ FormatsOnlyTheOpened

----------------------------------------------------------------------------
\* The plan as numbers.

\* Fourteen steps are planned.
LEMMA PlanLength == Len(windowsRestorePlan) = 14
  BY DEF windowsRestorePlan

\* The fifth, the deletion, is the first that changes the stick.
LEMMA BoundaryIsFive == Boundary = 5
<1> DEFINE First(i) ==
      /\ i <= 14 => changesDiskContents(windowsRestorePlan[i])
      /\ \A j \in 1 .. i - 1 : ~ changesDiskContents(windowsRestorePlan[j])
<1>1. /\ ~ changesDiskContents(windowsRestorePlan[1])
      /\ ~ changesDiskContents(windowsRestorePlan[2])
      /\ ~ changesDiskContents(windowsRestorePlan[3])
      /\ ~ changesDiskContents(windowsRestorePlan[4])
      /\ changesDiskContents(windowsRestorePlan[5])
  BY DEF changesDiskContents, windowsRestorePlan
<1>2. First(5)
  <2>1. \A j \in 1 .. 4 : j = 1 \/ j = 2 \/ j = 3 \/ j = 4
    OBVIOUS
  <2>2. QED BY <1>1, <2>1
<1>3. \A i \in 1 .. 15 : First(i) => i = 5
  <2> SUFFICES ASSUME NEW i \in 1 .. 15, First(i) PROVE i = 5
    OBVIOUS
  <2>1. ~ (i > 5)
    BY <1>1
  <2>2. i < 5 => i = 1 \/ i = 2 \/ i = 3 \/ i = 4
    OBVIOUS
  <2>3. QED BY <1>1, <2>1, <2>2
<1>4. Boundary = CHOOSE i \in 1 .. 15 : First(i)
  BY PlanLength DEF Boundary, firstDestructiveStepOf
<1>5. QED BY <1>2, <1>3, <1>4

\* A report moves the shown counter by one until the plan is over, and the
\* counter with it when it is the next one of the plan.
LEMMA ReportEffect ==
  ASSUME done \in 0 .. 14, shown = done, NEW step, Report(step)
  PROVE  /\ done' \in 0 .. 14 /\ done' >= done /\ done' <= done + 1
         /\ shown' \in 0 .. 14 /\ shown' >= shown
         /\ shown < 14 => shown' = shown + 1
         /\ done < 14 /\ windowsRestorePlan[done + 1] = step => done' = done + 1
  BY PlanLength DEF Report, advance, shownStep

\* Which step is the next one.
LEMMA PlanOrder ==
  /\ windowsRestorePlan[1] = "VerifyDisk" /\ windowsRestorePlan[2] = "OpenDrive"
  /\ windowsRestorePlan[3] = "RefreshMetadata"
  /\ windowsRestorePlan[4] = "DetachDriveLetters"
  /\ windowsRestorePlan[5] = "DeletePartitions" /\ windowsRestorePlan[6] = "LockDrive"
  /\ windowsRestorePlan[7] = "ClearSignatures" /\ windowsRestorePlan[8] = "ResetToRaw"
  /\ windowsRestorePlan[9] = "CreatePartition" /\ windowsRestorePlan[10] = "WaitForVolume"
  /\ windowsRestorePlan[11] = "RefreshNewVolume"
  /\ windowsRestorePlan[12] = "AssignDriveLetter"
  /\ windowsRestorePlan[13] = "Format" /\ windowsRestorePlan[14] = "Complete"
  BY DEF windowsRestorePlan

----------------------------------------------------------------------------
USE StickAssumption, LimitAssumption, PlanLength

\* Names for the tuples of variables are looked through everywhere.
USE DEF stickVars, jobVars, handleVars, listVars, writeVars, foundVars, progressVars,
        returnVars

\* A restore starts in the invariant.
LEMMA InitInv == Init => IInv
<1> SUFFICES ASSUME Init PROVE IInv
  OBVIOUS
<1>1. volumes \in [Stick -> SUBSET Volume]
  <2>1. InitialVolumes \subseteq SUBSET Volume
    BY DEF Volume, OldVolume
  <2>2. QED BY <2>1 DEF Init
<1>2. ok \in BOOLEAN /\ error \in BOOLEAN /\ cancel \in BOOLEAN /\ written \in BOOLEAN
  BY Zenon DEF Init
<1>3. TypeOK
  BY <1>1, <1>2 DEF Init, TypeOK, Content, Locations
<1>4. StepInv /\ HandleInv /\ FoundInv /\ ListInv
  BY DEF Init, StepInv, DoneAt, Returned, HandleInv, BeforeOpen, Verified, FoundInv,
         WithVolume, Confirmed, ListInv
<1>5. JobInv /\ ReturnInv /\ ContentInv /\ OthersInv /\ FormatsOnlyTheOpened
  BY DEF Init, JobInv, ReturnInv, Returned, ContentInv, FormatsOnlyTheOpened, OthersInv,
         PastDeletion, WithVolume
<1>6. FreedInv
  <2>1. \A s \in Stick : "freed" \notin volumes[s]
    BY DEF Init
  <2>2. QED BY <2>1 DEF Init, FreedInv
<1>7. QED BY <1>3, <1>4, <1>5, <1>6 DEF IInv

\* Windows, and the user who plugs sticks in and out, preserve it.
LEMMA EnvironmentInv == ASSUME IInv, Environment PROVE IInv'
<1> USE DEF IInv
<1>1. CASE Unplug
  <2>1. TypeOK'
    BY <1>1 DEF Unplug, TypeOK
  <2>2. HandleInv' /\ FoundInv'
    BY <1>1 DEF Unplug, HandleInv, FoundInv
  <2>3. StepInv' /\ ListInv' /\ JobInv' /\ ReturnInv' /\ ContentInv' /\ OthersInv'
       /\ FormatsOnlyTheOpened'
    BY <1>1 DEF Unplug, StepInv, ListInv, JobInv, ReturnInv, ContentInv, OthersInv,
                FormatsOnlyTheOpened
  <2>4. FreedInv'
    BY <1>1 DEF Unplug, FreedInv
  <2>5. QED BY <2>1, <2>2, <2>3, <2>4
<1>2. CASE \E s \in Stick : TakeNumber(s)
  <2>1. TypeOK'
    BY <1>2 DEF TakeNumber, TypeOK
  <2>2. HandleInv' /\ FoundInv'
    BY <1>2 DEF TakeNumber, HandleInv, FoundInv, TypeOK
  <2>3. StepInv' /\ ListInv' /\ JobInv' /\ ReturnInv' /\ ContentInv' /\ OthersInv'
       /\ FormatsOnlyTheOpened'
    BY <1>2 DEF TakeNumber, StepInv, ListInv, JobInv, ReturnInv, ContentInv, OthersInv,
                FormatsOnlyTheOpened
  <2>4. FreedInv'
    BY <1>2 DEF TakeNumber, FreedInv
  <2>5. QED BY <2>1, <2>2, <2>3, <2>4
<1>3. CASE \E s \in Stick : VolumeLeaves(s) \/ VolumeArrives(s)
  <2>1. TypeOK'
    BY <1>3 DEF VolumeLeaves, VolumeArrives, TypeOK, Volume
  <2>2. HandleInv' /\ FoundInv' /\ StepInv' /\ ListInv'
    BY <1>3 DEF VolumeLeaves, VolumeArrives, HandleInv, FoundInv, StepInv, ListInv
  <2>3. JobInv' /\ ReturnInv' /\ ContentInv' /\ OthersInv'
       /\ FormatsOnlyTheOpened'
    BY <1>3, <2>1 DEF VolumeLeaves, VolumeArrives, JobInv, ReturnInv, ContentInv,
                      OthersInv, FormatsOnlyTheOpened
  <2>4. FreedInv'
    <3>1. \A s \in Stick : "freed" \in volumes'[s] => "freed" \in volumes[s]
      BY <1>3 DEF VolumeLeaves, VolumeArrives, TypeOK
    <3>2. UNCHANGED << pc, held, handle, done >>
      BY <1>3 DEF VolumeLeaves, VolumeArrives
    <3>3. QED BY <3>1, <3>2 DEF FreedInv
  <2>5. QED BY <2>1, <2>2, <2>3, <2>4
<1>4. CASE JobEnds
  <2>1. /\ content' \in [Stick -> Content]
        /\ \A s \in Stick : content'[s] # content[s] =>
             s = jobOn /\ content'[s] = IF jobWork = "delete" THEN "emptied" ELSE "formatted"
    BY <1>4 DEF JobEnds, MayHaveWorked, Works, TypeOK, Content
  <2>2. TypeOK'
    BY <1>4, <2>1 DEF JobEnds, TypeOK
  <2>3. HandleInv' /\ FoundInv' /\ StepInv' /\ ListInv' /\ JobInv' /\ ReturnInv'
    BY <1>4 DEF JobEnds, HandleInv, FoundInv, StepInv, ListInv, JobInv, ReturnInv
  <2>4. ContentInv'
    BY <1>4 DEF JobEnds, ContentInv, JobInv, ReturnInv, Returned, TypeOK
  <2>5. FormatsOnlyTheOpened'
    BY <1>4, <2>1 DEF JobEnds, FormatsOnlyTheOpened, JobInv, TypeOK
  <2>6. OthersInv'
    BY <1>4, <2>1 DEF JobEnds, OthersInv, JobInv, ReturnInv, Returned, PastDeletion,
                      WithVolume
  <2>7. FreedInv'
    BY <1>4 DEF JobEnds, FreedInv
  <2>8. QED BY <2>2, <2>3, <2>4, <2>5, <2>6, <2>7
<1>5. CASE AskToCancel
  <2>1. cancel' \in BOOLEAN /\ (cancel => cancel')
    BY <1>5 DEF AskToCancel
  <2>2. TypeOK' /\ HandleInv' /\ FoundInv' /\ StepInv' /\ ListInv'
    BY <1>5, <2>1 DEF AskToCancel, TypeOK, HandleInv, FoundInv, StepInv, ListInv
  <2>3. JobInv' /\ ReturnInv' /\ ContentInv' /\ FreedInv' /\ OthersInv'
       /\ FormatsOnlyTheOpened'
    BY <1>5, <2>1 DEF AskToCancel, JobInv, ReturnInv, ContentInv, FreedInv, OthersInv,
                      FormatsOnlyTheOpened
  <2>4. QED BY <2>2, <2>3
<1>6. QED BY <1>1, <1>2, <1>3, <1>4, <1>5 DEF Environment

----------------------------------------------------------------------------
\* The restore's own steps.

\* Locations from which a stick is written to.
RawWriting ==
  { "ReplaceLayout", "ClearHead", "ClearTail", "ResetToRaw", "CreatePartition",
    "SetLayout" }

\* Until the invariant is assembled, the steps of the restore are looked into.
USE DEF Step, CheckRequest, VerifyDisk, OpenDrive, VerifyHeld, CheckCancel,
    RefreshMetadata, DismountUnlettered, DetachOne, RemoveLetter, EndDetach, DeletePartitions,
    DeleteOne, EndDelete, WaitForJob, ReplaceLayout, AwaitOldVolumes, LockDrive,
    AnnounceClear, ClearHead, SeekBack, ClearTail, ResetToRaw, CreatePartition,
    SetLayout, WaitForVolume, FindVolume, RefreshNewVolume, AssignDriveLetter,
    AnnounceFormat, CheckBelongs, CallFormat, CheckFormat, Complete, Judge

\* A step writes to the stick of the deletion's list, or to the opened one.
LEMMA WriteEffect ==
  ASSUME IInv, Step
  PROVE  /\ content' \in [Stick -> Content]
         /\ \A s \in Stick : content'[s] # content[s] =>
              \/ pc = "Deleting" /\ todo # {} /\ s = listed /\ content'[s] = "emptied"
              \/ /\ s = held
                 /\ \/ pc \in RawWriting
                    \/ pc = "CallFormat" /\ content'[s] = "formatted"
                 /\ content'[s] # "old"
<1>1. content \in [Stick -> Content]
  BY DEF IInv, TypeOK
<1>2. CASE UNCHANGED content
  BY <1>1, <1>2
<1>3. CASE DeleteOne
  BY <1>1, <1>3 DEF StorageCall, MayHaveWorked, Works, Content
<1>4. CASE CallFormat
  <2>1. found = held
    BY <1>4 DEF IInv, FoundInv, Confirmed, WithVolume
  <2>2. QED BY <1>1, <1>4, <2>1 DEF StorageCall, MayHaveWorked, Works, Content
<1>5. CASE ReplaceLayout \/ ClearHead \/ ClearTail \/ ResetToRaw \/ CreatePartition \/ SetLayout
  <2>1. pc \in RawWriting
    BY <1>5 DEF RawWriting
  <2>2. \/ UNCHANGED content
        \/ \E v \in {"empty", "wiped", "partitioned"} : content' = [content EXCEPT ![held] = v]
    BY <1>5 DEF RawWrite
  <2>3. CASE UNCHANGED content
    BY <1>1, <2>3
  <2>4. ASSUME NEW v \in {"empty", "wiped", "partitioned"}, content' = [content EXCEPT ![held] = v]
        PROVE  /\ content' \in [Stick -> Content]
               /\ \A s \in Stick : content'[s] # content[s] => s = held /\ content'[s] = v
    BY <1>1, <2>4 DEF Content
  <2>5. QED BY <2>1, <2>2, <2>3, <2>4
<1>6. QED
  BY <1>2, <1>3, <1>4, <1>5

\* Only a letter that is removed changes the volumes of a stick, the holder's.
LEMMA VolumeEffect ==
  ASSUME IInv, Step
  PROVE  /\ volumes' \in [Stick -> SUBSET Volume]
         /\ ~ RemoveLetter => UNCHANGED volumes
         /\ \A s \in Stick : volumes'[s] # volumes[s] => s = holder
<1>1. volumes \in [Stick -> SUBSET Volume]
  BY DEF IInv, TypeOK
<1>2. ~ RemoveLetter => UNCHANGED volumes
  BY DEF RawWrite
<1>3. CASE RemoveLetter
  BY <1>1, <1>2, <1>3 DEF Volume, OldVolume, NamesVolumeHere
<1>4. QED BY <1>1, <1>2, <1>3

\* The counters stay in range and move by at most one.
LEMMA StepCount ==
  ASSUME IInv, Step
  PROVE  /\ done' \in 0 .. 14 /\ done' >= done /\ done' <= done + 1
         /\ shown' \in 0 .. 14 /\ shown' >= shown
         /\ done \in Nat /\ done' \in Nat
<1>1. UNCHANGED progressVars \/ \E step : Report(step)
  OBVIOUS
<1>2. QED BY <1>1, ReportEffect DEF IInv, TypeOK, StepInv

\* Where a step can lead.
LEMMA StepTarget ==
  ASSUME IInv, Step
  PROVE  /\ pc' \in Locations
         /\ pc # "Done"
         /\ pc' = "Done" <=> Judge
         /\ pc # "Judge" /\ pc' \in Returned => pc' = "Judge"
  BY DEF IInv, TypeOK, Locations, Continue, FailWithError, AfterVerify, Checkpoint,
         AfterJob, StorageCall, RawWrite, RawFails, Returned

\* Steps keep everything well typed.
LEMMA StepType == ASSUME IInv, Step PROVE TypeOK'
<1> USE DEF IInv, TypeOK
<1>1. content' \in [Stick -> Content] /\ volumes' \in [Stick -> SUBSET Volume]
  BY WriteEffect, VolumeEffect
<1>2. pc' \in Locations /\ done' \in 0 .. 14 /\ shown' \in 0 .. 14
  BY StepTarget, StepCount
<1>3. holder' \in Stick \cup {NoStick} /\ events' \in Nat /\ cancel' \in BOOLEAN
  BY DEF RawWrite
<1>4. /\ job' \in {"none", "running", "succeeded", "failed"}
      /\ jobWork' \in {"delete", "format"}
      /\ jobOn' \in Stick \cup {NoStick}
  BY DEF RawWrite, StorageCall
<1>5. /\ handle' \in {"closed", "live", "dead"}
      /\ held' \in Stick \cup {NoStick}
      /\ adopted' \in Stick
      /\ listed' \in Stick \cup {NoStick}
      /\ todo' \subseteq Volume
  <2>1. CASE OpenDrive
    BY <2>1
  <2>2. CASE DismountUnlettered \/ DeletePartitions
    BY <2>2 DEF Volume, OldVolume
  <2>3. CASE DetachOne \/ RemoveLetter \/ DeleteOne
    BY <2>3
  <2>4. CASE \/ CheckRequest \/ VerifyDisk \/ VerifyHeld \/ CheckCancel \/ RefreshMetadata
             \/ EndDetach \/ EndDelete \/ WaitForJob \/ AwaitOldVolumes \/ LockDrive
             \/ AnnounceClear
    BY <2>4
  <2>5. CASE \/ WaitForVolume \/ FindVolume \/ RefreshNewVolume \/ AssignDriveLetter
             \/ AnnounceFormat \/ CheckBelongs \/ CallFormat \/ CheckFormat \/ Complete
             \/ Judge
    BY <2>5
  <2>6. CASE \/ ReplaceLayout \/ ClearHead \/ SeekBack \/ ClearTail \/ ResetToRaw
             \/ CreatePartition \/ SetLayout
    BY <2>6 DEF RawWrite
  <2>7. QED BY <2>1, <2>2, <2>3, <2>4, <2>5, <2>6
<1>6. retries' \in 0 .. NotReadyRetries
  BY DEF RawWrite, MayRetry, CountedRetry
<1>7. found' \in Stick \cup {NoStick} /\ foundKind' \in Volume \cup {"none"}
  BY DEF RawWrite
<1>8. /\ ok' \in BOOLEAN /\ error' \in BOOLEAN /\ written' \in BOOLEAN
      /\ verdict' \in {"none", "succeeded", "failed", "cancelled"}
  <2>1. ok' = ok \/ ok' = TRUE
    BY DEF RawWrite, RawFails, StorageCall, Continue, FailWithError
  <2>2. error' = error \/ error' = TRUE
    BY DEF RawWrite, RawFails, StorageCall, Continue, FailWithError
  <2>3. written' = written \/ written' = TRUE \/ written' = FALSE
    BY DEF RawWrite
  <2>4. verdict' \in {verdict, "succeeded", "failed", "cancelled"}
    BY DEF RawWrite, RawFails, StorageCall, Continue, FailWithError
  <2>5. QED BY <2>1, <2>2, <2>3, <2>4
<1>9. QED BY <1>1, <1>2, <1>3, <1>4, <1>5, <1>6, <1>7, <1>8

\* Every step that reports, reports the next one of the plan.
LEMMA StepStep == ASSUME IInv, Step PROVE StepInv'
<1> USE DEF IInv, StepInv
<1>1. done \in 0 .. 14 /\ shown = done /\ (pc \notin Returned => done = DoneAt[pc])
  BY DEF TypeOK
<1>2. ok' = ok \/ Complete
  BY DEF Continue, FailWithError, StorageCall, RawWrite, RawFails
<1>3. CASE UNCHANGED progressVars
  <2>1. ~ Complete
    <3>1. Complete => done = 13 /\ Report("Complete")
      BY <1>1 DEF Returned, DoneAt
    <3>2. QED BY <1>1, <1>3, <3>1, ReportEffect
  <2>2. pc' \notin Returned => done = DoneAt[pc']
    BY <1>1, <1>3
    DEF Continue, FailWithError, AfterVerify, Checkpoint, AfterJob, StorageCall, RawWrite,
        RawFails, Returned, DoneAt, Report, advance, shownStep
  <2>3. QED BY <1>1, <1>2, <1>3, <2>1, <2>2
<1>4. CASE ~ UNCHANGED progressVars
  <2>1. pc \notin Returned /\ Report(windowsRestorePlan[done + 1])
    BY <1>1, <1>4, PlanOrder DEF DoneAt, Returned
  <2>2. done' = done + 1 /\ shown' = shown + 1
    <3>1. done < 14
      BY <1>1, <2>1 DEF TypeOK, DoneAt, Locations, Returned
    <3>2. QED BY <1>1, <2>1, <3>1, ReportEffect
  <2>3. pc' \notin Returned => done' = DoneAt[pc']
    BY <1>1, <1>4, <2>2
    DEF Continue, FailWithError, AfterVerify, Checkpoint, AfterJob, StorageCall, RawWrite,
        RawFails, Returned, DoneAt
  <2>4. ok' => done' = 14
    <3>1. ~ ok
      BY <2>1 DEF ReturnInv
    <3>2. Complete => done = 13
      BY <1>1 DEF DoneAt, Returned
    <3>3. CASE ~ Complete
      BY <1>2, <3>1, <3>3
    <3>4. CASE Complete
      BY <1>1, <2>2, <3>2, <3>4
    <3>5. QED BY <3>3, <3>4
  <2>5. QED BY <1>1, <2>2, <2>3, <2>4
<1>5. QED BY <1>3, <1>4

\* What a step can do to the handle, and where it needs it.
LEMMA StepHandle == ASSUME IInv, Step PROVE HandleInv' /\ FoundInv'
<1> USE DEF IInv, HandleInv, FoundInv
<1>1. TypeOK /\ UNCHANGED holder
  BY DEF RawWrite
<1>2. CASE OpenDrive
  BY <1>1, <1>2 DEF TypeOK, Continue, FailWithError, BeforeOpen, Returned, Verified,
                    WithVolume, Confirmed
<1>3. CASE Judge
  BY <1>1, <1>3 DEF BeforeOpen, Returned, Verified, WithVolume, Confirmed
<1>4. CASE VerifyDisk
  <2>1. pc' \in BeforeOpen \cup Returned /\ UNCHANGED << handle, held, foundVars >>
    BY <1>4 DEF Continue, FailWithError, BeforeOpen, Returned
  <2>2. QED BY <1>1, <1>4, <2>1 DEF BeforeOpen, Returned, Verified, WithVolume, Confirmed
<1>5. CASE ~ OpenDrive /\ ~ Judge /\ ~ VerifyDisk
  <2>1. UNCHANGED handleVars
    BY <1>5 DEF RawWrite
  <2>2. /\ pc' \in BeforeOpen => pc \in BeforeOpen
        /\ pc' \notin BeforeOpen \cup Returned => pc \notin BeforeOpen \cup Returned
    BY <1>5 DEF Continue, FailWithError, AfterVerify, Checkpoint, AfterJob, StorageCall,
                RawWrite, RawFails, Returned, BeforeOpen
  <2>3. pc' \in Verified => pc \in Verified \/ (pc = "VerifyOpened" /\ VerifyHeld)
    BY <1>5 DEF TypeOK, Continue, FailWithError, AfterVerify, Checkpoint, AfterJob,
                StorageCall, RawWrite, RawFails, Returned, BeforeOpen, Verified, Locations
  <2>4. pc = "VerifyOpened" /\ VerifyHeld /\ pc' \notin Returned
          => LooksLike(AlikeRaw, adopted, held)
    BY DEF Identity, FailWithError, Returned
  <2>5. HandleInv'
    BY <1>1, <2>1, <2>2, <2>3, <2>4 DEF Verified
  <2>6. CASE FindVolume
    <3>1. \/ pc' = "RefreshNew" /\ found' = holder /\ holder \in Stick
          \/ pc' \in Returned
      BY <1>1, <2>6 DEF TypeOK, Continue, FailWithError, Returned
    <3>2. FoundInv'
      BY <2>1, <3>1 DEF WithVolume, Confirmed, Returned
    <3>3. QED BY <2>5, <3>2
  <2>7. CASE ~ FindVolume
    <3>1. UNCHANGED foundVars
      BY <1>5, <2>7 DEF RawWrite
    <3>2. pc' \in WithVolume => pc \in WithVolume
      BY <1>5, <2>7 DEF Continue, FailWithError, AfterVerify, Checkpoint, AfterJob,
                        StorageCall, RawWrite, RawFails, Returned, WithVolume
    <3>3. pc' \in Confirmed => pc \in Confirmed \/ (pc = "ConfirmLetter" /\ VerifyHeld)
      BY <1>5, <2>7 DEF Continue, FailWithError, AfterVerify, Checkpoint, AfterJob,
                        StorageCall, RawWrite, RawFails, Returned, WithVolume, Confirmed
    <3>4. pc = "ConfirmLetter" /\ VerifyHeld /\ pc' \notin Returned => handle = "live"
      BY DEF StillSelected, Identity, FailWithError, Returned
    <3>5. Confirmed \subseteq WithVolume /\ WithVolume \cap Returned = {}
      BY DEF Confirmed, WithVolume, Returned
    <3>6. FoundInv'
      BY <2>1, <3>1, <3>2, <3>3, <3>4, <3>5 DEF WithVolume
    <3>7. QED BY <2>5, <3>6
  <2>8. QED BY <2>5, <2>6, <2>7
<1>6. QED BY <1>2, <1>3, <1>4, <1>5

\* Lists are made of the number's holder.
LEMMA StepList == ASSUME IInv, Step PROVE ListInv'
<1> USE DEF IInv, ListInv
<1>1. CASE DismountUnlettered \/ DeletePartitions
  BY <1>1 DEF TypeOK, Continue, FailWithError
<1>2. CASE ~ DismountUnlettered /\ ~ DeletePartitions
  <2>1. UNCHANGED listed /\ (todo' # {} => todo # {})
    BY <1>2 DEF RawWrite
  <2>2. QED BY <2>1
<1>3. QED BY <1>1, <1>2

\* A stick that was not opened loses its letters only while the opened one is
\* gone, and with it the answer that the deletion asks for.
LEMMA StepFreed == ASSUME IInv, Step PROVE FreedInv'
<1> USE DEF IInv, FreedInv
<1>1. volumes \in [Stick -> SUBSET Volume] /\ held \in Stick \cup {NoStick} /\ done \in Nat
  BY StepCount DEF TypeOK
<1>2. CASE OpenDrive
  <2>1. held = NoStick /\ UNCHANGED volumes
    BY <1>2 DEF BeforeOpen
  <2>2. (\A s \in Stick : "freed" \notin volumes'[s])
    BY <2>1
  <2>3. pc' \notin BeforeOpen
    BY <1>2 DEF Continue, FailWithError, BeforeOpen
  <2>4. QED BY <2>2, <2>3
<1>3. CASE RemoveLetter
  <2>1. /\ UNCHANGED << held, handle, done >> /\ held # NoStick /\ done = 4
        /\ pc' \in Detaching \cup Returned /\ pc' \notin BeforeOpen
    BY <1>1, <1>3 DEF HandleInv, BeforeOpen, Returned, StepInv, DoneAt, Continue,
                      FailWithError, Detaching
  <2>2. CASE handle = "live"
    <3>1. \A s \in Stick \ {held} : volumes'[s] = volumes[s]
      BY <2>2, VolumeEffect DEF HandleInv
    <3>2. QED BY <2>1, <2>2, <3>1
  <2>3. CASE handle # "live"
    BY <2>1, <2>3
  <2>4. QED BY <2>2, <2>3
<1>4. CASE ~ OpenDrive /\ ~ RemoveLetter
  <2>1. UNCHANGED << volumes, held >> /\ (handle' = "live" => handle = "live")
    BY <1>4, VolumeEffect DEF RawWrite
  <2>2. pc' \in BeforeOpen => pc \in BeforeOpen
    BY <1>4 DEF Continue, FailWithError, AfterVerify, Checkpoint, AfterJob, StorageCall,
                RawWrite, RawFails, BeforeOpen
  <2>3. pc \in Detaching \cup Returned => UNCHANGED done
    BY DEF Detaching, Returned, AfterVerify, Checkpoint, AfterJob
  <2>4. pc \in Detaching \cup Returned /\ handle # "live" => pc' \in Detaching \cup Returned
    BY <1>4 DEF Detaching, Returned, AfterVerify, Checkpoint, AfterJob, Continue,
                FailWithError, Identity
  <2>5. QED BY <2>1, <2>2, <2>3, <2>4
<1>5. QED BY <1>2, <1>3, <1>4

\* A storage call leaves a job of its own kind and stick, or none that runs.
LEMMA StepJob == ASSUME IInv, Step PROVE JobInv'
<1> USE DEF IInv, JobInv
<1>1. done \in Nat /\ done' \in Nat /\ done' >= done
  BY Zenon, StepCount
<1>2. CASE DeleteOne
  <2>1. job # "running" /\ done = 5 /\ listed \in Stick
    BY <1>2 DEF ListInv, StepInv, DoneAt, Returned
  <2>2. QED BY <1>1, <1>2, <2>1 DEF StorageCall, Continue, FailWithError, Returned
<1>3. CASE CallFormat
  <2>1. job # "running" /\ done = 13 /\ found = held /\ held \in Stick
    BY <1>3 DEF HandleInv, FoundInv, WithVolume, Confirmed, StepInv, DoneAt, Returned,
                BeforeOpen
  <2>2. QED BY <1>1, <1>3, <2>1 DEF StorageCall, Continue, FailWithError, Returned
<1>4. CASE ~ DeleteOne /\ ~ CallFormat
  <2>1. UNCHANGED jobVars
    BY <1>4 DEF RawWrite
  <2>2. ASSUME job = "running"
        PROVE  /\ UNCHANGED held
               /\ \/ pc' \in {"WaitDelete", "WaitFormat"}
                  \/ pc' \in Returned /\ error'
    BY <2>2 DEF Returned, AfterVerify, Checkpoint, AfterJob, JobConfirmed,
                FailWithError, RawWrite
  <2>3. QED BY <1>1, <2>1, <2>2
<1>5. QED BY <1>2, <1>3, <1>4

\* Restore returns with an error text once something may have been written.
LEMMA StepReturn == ASSUME IInv, Step PROVE ReturnInv'
<1> USE DEF IInv, ReturnInv
<1>1. CASE Judge
  BY <1>1 DEF Returned
<1>2. CASE Complete
  BY <1>2 DEF Returned
<1>3. CASE CheckCancel
  <2>1. done <= 4 /\ UNCHANGED done
    BY <1>3 DEF Checkpoint, StepInv, DoneAt, Returned
  <2>2. QED BY <1>3, <2>1 DEF Checkpoint, Continue, Returned
<1>4. CASE ~ Judge /\ ~ Complete /\ ~ CheckCancel
  <2>1. \/ pc' \notin Returned /\ UNCHANGED returnVars
        \/ FailWithError
    BY <1>4 DEF Continue, AfterVerify, AfterJob, StorageCall, RawWrite, RawFails, Returned
  <2>2. pc \notin Returned
    BY <1>4 DEF Returned, AfterVerify, AfterJob
  <2>3. QED BY <2>1, <2>2, StepTarget DEF FailWithError, Returned
<1>5. QED BY <1>1, <1>2, <1>3, <1>4

\* What the sticks hold.
LEMMA StepContent == ASSUME IInv, Step PROVE ContentInv' /\ FormatsOnlyTheOpened'
<1> USE DEF IInv
<1>1. done \in Nat /\ done' \in Nat /\ done' >= done
  BY Zenon, StepCount
<1>2. \A s \in Stick : content'[s] # content[s] => done >= 5
  <2>1. pc = "Deleting" \/ pc \in RawWriting \/ pc = "CallFormat" => done >= 5
    BY DEF StepInv, DoneAt, Returned, RawWriting
  <2>2. QED BY <2>1, WriteEffect
<1>3. done' <= 4 => \A s \in Stick : content'[s] = "old"
  BY <1>1, <1>2 DEF ContentInv
<1>4. pc' = "Complete" \/ ok'
        => /\ held' \in Stick /\ LooksLike(AlikeRaw, adopted', held')
           /\ found' = held' /\ content'[held'] = "formatted"
  <2>1. CASE CheckFormat
    <3>1. /\ found = held /\ held \in Stick /\ LooksLike(AlikeRaw, adopted, held)
          /\ ~ ok
      BY <2>1 DEF FoundInv, HandleInv, WithVolume, Confirmed, Verified, Locations,
                  BeforeOpen, Returned, ReturnInv
    <3>2. QED BY <2>1, <3>1 DEF Continue, FailWithError
  <2>2. CASE Complete
    BY <2>2 DEF ContentInv
  <2>3. CASE ~ CheckFormat /\ ~ Complete
    <3>1. pc' # "Complete"
      BY <2>3 DEF Continue, FailWithError, AfterVerify, Checkpoint, AfterJob, StorageCall,
                  RawWrite, RawFails
    <3>2. ok' = ok
      BY <2>3 DEF Continue, FailWithError, StorageCall, RawWrite, RawFails
    <3>3. ok => Judge
      BY DEF ReturnInv, Returned, AfterVerify, Checkpoint, AfterJob
    <3>4. QED BY <3>1, <3>2, <3>3 DEF ContentInv
  <2>4. QED BY <2>1, <2>2, <2>3
<1>5. FormatsOnlyTheOpened'
  <2>1. CASE OpenDrive
    <3>1. done <= 4 /\ UNCHANGED content
      BY <2>1 DEF StepInv, DoneAt, Returned
    <3>2. QED BY <3>1 DEF ContentInv, FormatsOnlyTheOpened
  <2>2. CASE ~ OpenDrive
    <3>1. UNCHANGED held
      BY <2>2 DEF RawWrite
    <3>2. QED BY <3>1, WriteEffect DEF FormatsOnlyTheOpened
  <2>3. QED BY <2>1, <2>2
<1>6. QED BY <1>3, <1>4, <1>5 DEF ContentInv

\* No stick but the opened one is written to while the handle answers.
LEMMA StepOthers == ASSUME IInv, Step PROVE OthersInv'
<1> USE DEF IInv, OthersInv
<1>1. CASE OpenDrive
  <2>1. done <= 4 /\ UNCHANGED << content, jobVars >> /\ ~ ok' /\ pc' \notin PastDeletion
    BY <1>1 DEF StepInv, DoneAt, Returned, ReturnInv, Continue, FailWithError,
                PastDeletion, WithVolume
  <2>2. \A s \in Stick : content[s] = "old"
    BY <2>1 DEF ContentInv
  <2>3. job # "running" /\ pc' \notin {"Deleting", "WaitDelete"}
    BY <1>1, <2>1 DEF JobInv, Continue, FailWithError, Returned
  <2>4. QED BY <2>1, <2>2, <2>3
<1>2. CASE DeletePartitions
  <2>1. UNCHANGED << content, jobVars, handleVars, ok >> /\ pc' \notin PastDeletion
    BY <1>2 DEF Continue, FailWithError, PastDeletion, WithVolume
  <2>2. pc' = "Deleting" => listed' = holder
    BY <1>2 DEF Continue, FailWithError
  <2>3. pc' # "WaitDelete"
    BY <1>2 DEF Continue, FailWithError
  <2>4. QED BY <2>1, <2>2, <2>3 DEF HandleInv
<1>3. CASE DeleteOne
  <2>1. UNCHANGED << handleVars, ok, listed >> /\ pc' \notin PastDeletion /\ ~ ok
    BY <1>3 DEF StorageCall, Continue, FailWithError, PastDeletion, WithVolume, ReturnInv,
                Returned
  <2>2. todo # {} /\ (job' = "running" => jobOn' = listed)
    BY <1>3 DEF StorageCall, JobInv, Returned
  <2>3. handle = "live" => \A s \in Stick : s # held => content'[s] = "old"
    BY <1>3, <2>2, WriteEffect DEF RawWriting
  <2>4. QED BY <1>3, <2>1, <2>2, <2>3
<1>4. CASE CallFormat
  <2>1. found = held /\ ~ ok /\ UNCHANGED << handleVars, ok >> /\ pc \in PastDeletion
    BY <1>4 DEF FoundInv, Confirmed, WithVolume, StorageCall, Continue, FailWithError,
                PastDeletion, ReturnInv, Returned
  <2>2. \A s \in Stick : s # held => content'[s] = "old"
    BY <1>4, <2>1, WriteEffect
  <2>3. job' = "running" => jobOn' = held
    BY <1>4, <2>1 DEF StorageCall, JobInv, Returned
  <2>4. pc' \notin {"Deleting", "WaitDelete"}
    BY <1>4 DEF StorageCall, Continue, FailWithError
  <2>5. QED BY <2>1, <2>2, <2>3, <2>4
<1>5. CASE ~ OpenDrive /\ ~ DeletePartitions /\ ~ DeleteOne /\ ~ CallFormat
  <2>1. UNCHANGED << jobVars, held >> /\ (handle' = "live" => handle = "live")
    BY <1>5 DEF RawWrite
  <2>2. \A s \in Stick : s # held => content'[s] = content[s]
    BY <1>5, WriteEffect
  <2>3. \/ pc' \in PastDeletion => pc \in PastDeletion
        \/ pc = "ReplaceLayout" /\ handle = "live"
    BY <1>5 DEF Continue, FailWithError, AfterVerify, Checkpoint, AfterJob, RawWrite,
                RawFails, PastDeletion, WithVolume
  <2>4. ok' => ok \/ pc \in PastDeletion
    BY <1>5 DEF Continue, FailWithError, RawWrite, RawFails, PastDeletion, WithVolume
  <2>5. pc' \in {"Deleting", "WaitDelete"} /\ todo' # {}
          => pc \in {"Deleting", "WaitDelete"} /\ todo # {} /\ UNCHANGED listed
    BY <1>5 DEF Continue, FailWithError, AfterVerify, Checkpoint, AfterJob, RawWrite,
                RawFails
  <2>6. QED BY <2>1, <2>2, <2>3, <2>4, <2>5
<1>6. QED BY <1>1, <1>2, <1>3, <1>4, <1>5

\* IInv is inductive.
LEMMA Inductive == Spec => []IInv
<1>1. ASSUME IInv, [Next]_vars PROVE IInv'
  <2>1. CASE Step
    BY <1>1, <2>1, StepType, StepStep, StepHandle, StepList, StepJob, StepReturn,
       StepContent, StepFreed, StepOthers DEF IInv
  <2>2. CASE UNCHANGED vars
    BY <1>1, <2>2 DEF vars, IInv, TypeOK, StepInv, HandleInv, FoundInv, ListInv, JobInv,
                      ReturnInv, ContentInv, FreedInv, OthersInv,
                      FormatsOnlyTheOpened
  <2>3. QED BY <1>1, <2>1, <2>2, EnvironmentInv DEF Next
<1>2. QED BY InitInv, <1>1, PTL DEF Spec

----------------------------------------------------------------------------
\* What follows from it.

\* Type correctness, whatever happens to the sticks.
THEOREM WindowsTypeCorrect == Spec => []TypeOK
  BY Inductive, PTL DEF IInv

\* Only the stick whose handle was verified is partitioned or formatted, even
\* where Windows gives its number away.
THEOREM OpenedOnly == Spec => []FormatsOnlyTheOpened
  BY Inductive, PTL DEF IInv

\* "Cancelled" is never said of a stick that was written to or still will be.
THEOREM WindowsCancelled == Spec => []CancelledMeansUntouched
<1>1. ASSUME IInv, verdict = "cancelled"
      PROVE  cancel /\ Erased = {} /\ job = "none"
  <2>1. pc = "Done" /\ ~ ok /\ ~ error
    BY <1>1 DEF IInv, ReturnInv
  <2>2. cancel /\ done <= 4
    BY <1>1, <2>1 DEF IInv, ReturnInv, Returned
  <2>3. QED BY <1>1, <2>2 DEF IInv, ContentInv, JobInv, Erased, TypeOK
<1>2. QED BY <1>1, Inductive, PTL DEF CancelledMeansUntouched

\* The user is shown the deletion before anything is written or queued.
THEOREM WindowsAnnounced == Spec => []AnnouncedBeforeWritten
<1>1. IInv => AnnouncedBeforeWritten
  BY BoundaryIsFive DEF IInv, AnnouncedBeforeWritten, StepInv, ContentInv, JobInv, Erased,
                        TypeOK
<1>2. QED BY <1>1, Inductive, PTL

\* A success is the whole restore of the opened stick, and no job is left.
THEOREM WindowsSucceeded == Spec => []SucceededMeansRestored
<1>1. ASSUME IInv, verdict = "succeeded"
      PROVE  /\ LooksLike(AlikeRaw, adopted, held) /\ found = held
             /\ content[held] = "formatted"
             /\ job # "running"
             /\ done = Len(windowsRestorePlan) /\ shown = done
  <2>1. ok /\ ~ error /\ pc = "Done"
    BY <1>1 DEF IInv, ReturnInv
  <2>2. QED BY <1>1, <2>1 DEF IInv, ContentInv, JobInv, StepInv
<1>2. QED BY <1>1, Inductive, PTL DEF SucceededMeansRestored

\* A letter taken off a stick that was not opened is the end of the restore:
\* the deletion asks the handle first, and it will not answer.
THEOREM WindowsWrongLetters == Spec => []WrongLettersEndIt
<1>1. IInv => WrongLettersEndIt
  <2> SUFFICES ASSUME IInv, NEW s \in Stick \ {held}, "freed" \in volumes[s]
               PROVE  Erased = {} /\ job = "none"
    BY DEF WrongLettersEndIt
  <2>1. done <= 4
    BY DEF IInv, FreedInv
  <2>2. QED BY <2>1 DEF IInv, ContentInv, JobInv, Erased, TypeOK
<1>2. QED BY <1>1, Inductive, PTL

----------------------------------------------------------------------------
\* The restore implements the contract.

\* It starts with untouched sticks, of which nothing was said.
LEMMA InitContract == Init => Contract!Init
<1> SUFFICES ASSUME Init PROVE Contract!Init
  OBVIOUS
<1>1. Erased = {} /\ ~ (shown >= Boundary)
  BY BoundaryIsFive DEF Init, Erased
<1>2. cancel = FALSE /\ verdict = "none"
  BY DEF Init
<1>3. QED BY <1>1, <1>2 DEF Contract!Init

\* A step that changes a stick is a write, announced, and none after a verdict
\* but "failed".
LEMMA WriteIsContract ==
  ASSUME IInv, IInv', Step \/ JobEnds, content' # content
  PROVE  Contract!Write
<1>1. content \in [Stick -> Content] /\ content' \in [Stick -> Content]
  BY DEF IInv, TypeOK
<1>2. PICK s \in Stick : content'[s] # content[s]
  BY <1>1
<1>3. /\ verdict \in {"none", "failed"} /\ UNCHANGED << cancel, verdict >>
      /\ content'[s] # "old" /\ done >= 5
  <2>1. CASE Step
    <3>1. \/ pc = "Deleting" /\ content'[s] = "emptied"
          \/ pc \in RawWriting \cup {"CallFormat"} /\ content'[s] # "old"
      BY <1>2, <2>1, WriteEffect
    <3>2. pc # "Judge" /\ verdict = "none" /\ done >= 5
      BY <3>1 DEF IInv, ReturnInv, StepInv, DoneAt, RawWriting, Returned
    <3>3. UNCHANGED << cancel, verdict >>
      BY <2>1, <3>2 DEF Continue, FailWithError, StorageCall, RawWrite, RawFails
    <3>4. QED BY <3>1, <3>2, <3>3
  <2>2. CASE JobEnds
    <3>1. job = "running" /\ UNCHANGED << cancel, verdict >>
      BY <2>2 DEF JobEnds
    <3>2. content'[s] # "old"
      BY <1>1, <1>2, <2>2 DEF JobEnds, MayHaveWorked, Works
    <3>3. done >= 5 /\ verdict \notin {"succeeded", "cancelled"}
      BY <3>1 DEF IInv, JobInv, ReturnInv, Returned
    <3>4. QED BY <3>1, <3>2, <3>3 DEF IInv, TypeOK
  <2>3. QED BY <2>1, <2>2
<1>4. Erased' # {}
  BY <1>3 DEF Erased
<1>5. shown >= 5 /\ shown' >= shown /\ shown \in Nat /\ shown' \in Nat
  <2>1. CASE Step
    BY <1>3, <2>1, StepCount DEF IInv, StepInv
  <2>2. CASE JobEnds
    BY <1>3, <2>2 DEF JobEnds, IInv, StepInv, TypeOK
  <2>3. QED BY <2>1, <2>2
<1>6. (shown >= Boundary) /\ (shown >= Boundary)'
  BY <1>5, BoundaryIsFive
<1>7. QED BY <1>3, <1>4, <1>6 DEF Contract!Write

\* Every other step of the restore announces, judges, or is none of the
\* contract's business.
LEMMA StepIsContract ==
  ASSUME IInv, IInv', Step, UNCHANGED content
  PROVE  [Contract!Next]_Contract!contractVars
<1>1. UNCHANGED Erased
  BY DEF Erased
<1>2. shown \in Nat /\ shown' \in Nat /\ shown' >= shown
  BY StepCount DEF IInv, StepInv
<1>3. CASE ~ Judge
  <2>1. UNCHANGED << cancel, verdict >> /\ verdict = "none"
    <3>1. UNCHANGED verdict
      BY <1>3 DEF Continue, FailWithError, StorageCall, RawWrite, RawFails
    <3>2. UNCHANGED cancel
      BY <1>3 DEF RawWrite
    <3>3. verdict = "none"
      BY <1>3, StepTarget DEF IInv, ReturnInv
    <3>4. QED BY <3>1, <3>2, <3>3
  <2>2. CASE (shown >= 5) = (shown' >= 5)
    BY <1>1, <2>1, <2>2, BoundaryIsFive DEF Contract!contractVars
  <2>3. CASE ~ (shown >= 5) /\ shown' >= 5
    <3>1. Contract!Announce
      BY <1>1, <2>1, <2>3, BoundaryIsFive DEF Contract!Announce
    <3>2. QED BY <3>1 DEF Contract!Next
  <2>4. QED BY <1>2, <2>2, <2>3
<1>4. CASE Judge
  <2>1. /\ pc = "Judge" /\ verdict = "none" /\ UNCHANGED << cancel, shown >>
        /\ verdict' = IF ok THEN "succeeded"
                      ELSE IF cancel /\ ~ error THEN "cancelled" ELSE "failed"
    BY <1>4 DEF IInv, ReturnInv
  <2>2. UNCHANGED (shown >= Boundary)
    BY <2>1
  <2>3. CASE ok
    <3>1. content[held] = "formatted" /\ held \in Stick
      BY <2>3 DEF IInv, ContentInv
    <3>2. Erased # {} /\ \A s \in Erased : content[s] = "formatted"
      BY <2>3, <3>1 DEF IInv, OthersInv, Erased
    <3>3. Contract!Succeed
      BY <1>1, <2>1, <2>2, <2>3, <3>2 DEF Contract!Succeed
    <3>4. QED BY <3>3 DEF Contract!Next
  <2>4. CASE ~ ok /\ ~ error /\ cancel
    <3>1. Erased = {} /\ ~ (shown >= Boundary)
      BY <2>1, <2>4, BoundaryIsFive
      DEF IInv, ReturnInv, Returned, ContentInv, Erased, StepInv, TypeOK
    <3>2. Contract!Cancel
      BY <1>1, <2>1, <2>2, <2>4, <3>1 DEF Contract!Cancel
    <3>3. QED BY <3>2 DEF Contract!Next
  <2>5. CASE ~ ok /\ (error \/ ~ cancel)
    <3>1. Contract!Fail
      BY <1>1, <2>1, <2>2, <2>5 DEF Contract!Fail
    <3>2. QED BY <3>1 DEF Contract!Next
  <2>6. QED BY <2>3, <2>4, <2>5
<1>5. QED BY <1>3, <1>4

\* Of the rest, only the request to stop is the contract's business.
LEMMA OtherIsContract ==
  ASSUME IInv, Environment \/ UNCHANGED vars, ~ JobEnds
  PROVE  [Contract!Next]_Contract!contractVars
<1>1. UNCHANGED << content, shown, verdict >>
  BY DEF Environment, Unplug, TakeNumber, VolumeLeaves, VolumeArrives, AskToCancel, vars
<1>2. CASE AskToCancel
  <2>1. Contract!Ask
    BY <1>1, <1>2 DEF AskToCancel, Contract!Ask, Erased
  <2>2. QED BY <2>1 DEF Contract!Next
<1>3. CASE ~ AskToCancel
  <2>1. UNCHANGED cancel
    BY <1>3 DEF Environment, Unplug, TakeNumber, VolumeLeaves, VolumeArrives, vars
  <2>2. QED BY <1>1, <2>1 DEF Contract!contractVars, Erased
<1>4. QED BY <1>2, <1>3

\* WindowsDiskService::restore keeps the promises of DiskService::restore, a
\* storage job that outlives it included.
THEOREM WindowsImplements == Spec => ImplementsContract
<1> HIDE DEF Step
<1>1. ASSUME IInv, IInv', [Next]_vars
      PROVE  [Contract!Next]_Contract!contractVars
  <2>1. CASE (Step \/ JobEnds) /\ content' # content
    BY <1>1, <2>1, WriteIsContract DEF Contract!Next
  <2>2. CASE Step /\ UNCHANGED content
    BY <1>1, <2>2, StepIsContract
  <2>3. CASE JobEnds /\ UNCHANGED content
    BY <2>3 DEF JobEnds, Contract!contractVars, Erased
  <2>4. CASE (Environment \/ UNCHANGED vars) /\ ~ JobEnds
    BY <1>1, <2>4, OtherIsContract
  <2>5. QED BY <1>1, <2>1, <2>2, <2>3, <2>4 DEF Next
<1>2. QED BY InitContract, <1>1, Inductive, PTL DEF Spec, ImplementsContract, Contract!Spec
=============================================================================
