--------------------------- MODULE RestoreWindow ---------------------------
(***************************************************************************)
(* The window that runs restores (src/gui/main_window.cpp) and the dialog  *)
(* of one attempt (src/gui/restore_dialog.cpp), against the two threads    *)
(* they start: the scan, which reads the drives through m_service, and the *)
(* restore worker, which erases one through the same m_service.            *)
(*                                                                         *)
(* Both threads answer by signals that wait in the window's event queue.   *)
(* Everything the window says and allows, whether cancelling is still      *)
(* possible, whether the disk has been changed, whether it may close, is   *)
(* decided from the signals handled so far, while the worker goes on.      *)
(*                                                                         *)
(* What the worker does to the drive is the contract of a restore.         *)
(***************************************************************************)
EXTENDS Naturals, Sequences

CONSTANTS
  Scans,             \* the results a scan may bring: [guard, error, disks]
  Choices,           \* what the style and file system boxes can select
  Fits,              \* the pairs << drive, choice >> that can be formatted
  Steps,             \* the length of the restore plan
  FirstDestructive,  \* 1-based: the first step of it that writes
  MaxRestores        \* bound: restores confirmed in one session of the window

ASSUME PlanAssumption ==
  /\ Steps \in Nat
  /\ FirstDestructive \in 1 .. Steps

ASSUME MaxRestoresAssumption == MaxRestores \in Nat

ASSUME ScansAssumption ==
  \A s \in Scans :
    /\ s.error \in BOOLEAN
    /\ s.disks \in Seq({s.disks[i] : i \in DOMAIN s.disks})

VARIABLES
  \* the main window
  guard, scanError, disks,  \* m_guard, m_scanError, m_disks: the last scan applied
  row,                      \* the selected row of the list, 0 for none
  choice,
  scanning, running,        \* m_scanning, m_restoreRunning
  restoreStep, stallShown,  \* m_restoreStep, m_stallNoticeShown
  silence,                  \* m_restoreActivity: 0, past 15 s, past 60 s
  box,                      \* the message box that refuses to close
  window,
  \* the restore dialog
  visible, stage, request, dialogStep, cancelling, notice, outcome,
  \* the threads, and the queue of signals to the window
  scanThread, thread, restores, workerStep, queue,
  \* the restore, under the contract; asked is the worker's m_cancelRequested
  drive, announced, asked, result

listVars == << guard, scanError, disks, row >>
scanVars == << scanning, scanThread >>
stallVars == << stallShown, silence >>
windowVars == << choice, running, restoreStep, box, window >>
dialogVars == << visible, stage, request, dialogStep, cancelling, notice, outcome >>
workerVars == << thread, restores, workerStep >>
restoreVars == << drive, announced, asked, result >>
vars == << listVars, scanVars, stallVars, windowVars, dialogVars, workerVars, queue,
           restoreVars >>

Restore == INSTANCE RestoreContract WITH verdict <- result

Init ==
  /\ guard = "nothing" /\ scanError = FALSE /\ disks = << >> /\ row = 0
  /\ choice \in Choices
  /\ scanning = TRUE /\ scanThread = "reading"
  /\ running = FALSE /\ restoreStep = 0
  /\ stallShown = FALSE /\ silence = 0
  /\ box = "none" /\ window = "open"
  /\ visible = FALSE /\ stage = "Finished" /\ request = [guard |-> "nothing"]
  /\ dialogStep = 0 /\ cancelling = FALSE /\ notice = "none" /\ outcome = "none"
  /\ thread = "none" /\ restores = 0 /\ workerStep = 0
  /\ queue = << >>
  /\ Restore!Init

----------------------------------------------------------------------------
\* The main window.

\* The message box is modal to the application, the restore dialog to the window.
BoxFree == window = "open" /\ box = "none"

BlockedByBoxOnly == BoxFree

WindowFree == BoxFree /\ ~ visible

selectedDisk == disks[row]

isSafeRestoreTarget(disk, protected) == disk # protected

CanRestore(disk) ==
  /\ isSafeRestoreTarget(disk, guard)
  /\ << disk, choice >> \in Fits

\* The button is recomputed whenever anything it depends on changes.
RestoreEnabled ==
  /\ ~ running /\ ~ scanning /\ ~ scanError
  /\ row # 0
  /\ CanRestore(selectedDisk)

Select ==
  /\ WindowFree
  /\ ~ scanning /\ ~ running
  /\ row' \in 1 .. Len(disks)
  /\ UNCHANGED << guard, scanError, disks, scanVars, stallVars, windowVars, dialogVars,
                  workerVars, queue, restoreVars >>

Choose ==
  /\ WindowFree
  /\ ~ scanning /\ ~ running /\ ~ scanError
  /\ row # 0
  /\ choice' \in Choices
  /\ UNCHANGED << listVars, scanVars, stallVars, running, restoreStep, box, window,
                  dialogVars, workerVars, queue, restoreVars >>

\* refreshDisks, given what m_restoreRunning is when it is called.
refreshDisks(restoring) ==
  IF restoring \/ scanning
    THEN UNCHANGED scanVars
    ELSE scanning' = TRUE /\ scanThread' = "reading"

\* The button and the F5 shortcut.
Refresh ==
  /\ WindowFree
  /\ ~ scanning /\ ~ running
  /\ refreshDisks(running)
  /\ UNCHANGED << listVars, stallVars, windowVars, dialogVars, workerVars, queue,
                  restoreVars >>

ScanReads ==
  /\ scanThread = "reading"
  /\ scanThread' = "read"
  /\ queue' = Append(queue, [kind |-> "scanned"])
  /\ UNCHANGED << scanning, listVars, stallVars, windowVars, dialogVars, workerVars,
                  restoreVars >>

\* The list, the error and the guard are replaced together, row 0 is selected.
applyScan ==
  \E scan \in Scans :
    /\ guard' = scan.guard
    /\ scanError' = scan.error
    /\ disks' = scan.disks
    /\ row' = IF scan.disks = << >> THEN 0 ELSE 1

\* The dialog freezes the request: the drive, what to make of it, the guard.
startRestore ==
  /\ WindowFree
  /\ RestoreEnabled
  /\ request' = [disk |-> selectedDisk, choice |-> choice, guard |-> guard]
  /\ visible' = TRUE
  /\ stage' = "Confirmation"
  /\ dialogStep' = 0 /\ cancelling' = FALSE /\ notice' = "none" /\ outcome' = "none"
  /\ UNCHANGED << listVars, scanVars, stallVars, windowVars, workerVars, queue,
                  restoreVars >>

\* RestoreDialog::done before the confirmation, or after the outcome.
Dismiss ==
  /\ BoxFree
  /\ visible
  /\ stage # "Running"
  /\ visible' = FALSE
  /\ stage' = "Finished"
  /\ UNCHANGED << request, dialogStep, cancelling, notice, outcome, listVars, scanVars,
                  stallVars, windowVars, workerVars, queue, restoreVars >>

\* confirmRestore and, called by its signal, beginRestore: setRunning(true), a
\* worker of its own on a thread of its own.
Confirm ==
  /\ BoxFree
  /\ visible
  /\ stage = "Confirmation"
  /\ ~ running
  /\ restores < MaxRestores
  /\ stage' = "Running"
  /\ notice' = "keepConnected"
  /\ running' = TRUE
  /\ restoreStep' = 0
  /\ stallShown' = FALSE /\ silence' = 0
  /\ thread' = "restoring"
  /\ restores' = restores + 1
  /\ workerStep' = 0
  /\ drive' = "untouched" /\ announced' = FALSE /\ asked' = FALSE /\ result' = "none"
  /\ UNCHANGED << listVars, scanVars, choice, box, window, visible, request, dialogStep,
                  cancelling, outcome, queue >>

\* RestoreDialog::setCancelling.
setCancelling ==
  IF stage = "Running" /\ dialogStep < FirstDestructive /\ ~ cancelling
    THEN cancelling' = TRUE /\ notice' = "stopping"
    ELSE UNCHANGED << cancelling, notice >>

\* The cancel button, which both the step shown and a first request disable.
cancelRestore ==
  /\ BoxFree
  /\ visible
  /\ stage = "Running"
  /\ ~ cancelling /\ dialogStep < FirstDestructive
  /\ running
  /\ restoreStep < FirstDestructive
  /\ Restore!Ask
  /\ setCancelling
  /\ UNCHANGED << listVars, scanVars, stallVars, windowVars, visible, stage, request,
                  dialogStep, outcome, workerVars, queue >>

----------------------------------------------------------------------------
\* The stall watch, once a second while a restore runs.

FallSilent ==
  /\ running
  /\ silence < 2
  /\ silence' = silence + 1
  /\ UNCHANGED << stallShown, listVars, scanVars, windowVars, dialogVars, workerVars,
                  queue, restoreVars >>

\* RestoreDialog::setNotice: the sentence about a pending cancellation stays.
setNotice(text) ==
  notice' = IF stage = "Running" /\ ~ cancelling THEN text ELSE notice

\* After a minute the notice says whether the disk has been changed.
explainStall ==
  setNotice(IF restoreStep < FirstDestructive THEN "unchanged" ELSE "beingRewritten")

onStallTick ==
  /\ window = "open"
  /\ running
  /\ restoreStep # 0
  /\ \/ silence = 0 /\ stallShown /\ stallShown' = FALSE /\ setNotice("respondingAgain")
     \/ silence = 1 /\ stallShown' = TRUE /\ setNotice("noResponse")
     \/ silence = 2 /\ stallShown' = TRUE /\ explainStall
  /\ UNCHANGED << silence, listVars, scanVars, windowVars, visible, stage, request,
                  dialogStep, cancelling, outcome, workerVars, queue, restoreVars >>

----------------------------------------------------------------------------
\* The restore worker, on its own thread.

Post(signals) == queue' = queue \o signals

guiVars == << listVars, scanVars, stallVars, windowVars, dialogVars >>

Signal(kind) == [kind |-> kind, restore |-> restores, step |-> workerStep']

\* RestoreWorker::step: the step that writes first is the contract's boundary.
WorkerReports ==
  /\ thread = "restoring"
  /\ result = "none"
  /\ workerStep < Steps
  /\ workerStep' = workerStep + 1
  /\ Post(<< Signal("progress") >>)
  /\ IF workerStep' = FirstDestructive THEN Restore!Announce ELSE UNCHANGED restoreVars
  /\ UNCHANGED << guiVars, thread, restores >>

\* A detail line: all the window makes of it is that the device is not silent.
WorkerTalks ==
  /\ thread = "restoring"
  /\ result = "none"
  /\ silence > 0
  /\ \A i \in DOMAIN queue : queue[i].kind # "detail"
  /\ UNCHANGED workerStep
  /\ Post(<< Signal("detail") >>)
  /\ UNCHANGED << guiVars, thread, restores, restoreVars >>

\* A failed restore may leave a formatter behind that still writes.
WorkerWrites ==
  /\ UNCHANGED << guiVars, workerVars, queue >>
  /\ restores > 0
  /\ Restore!Write

QuitOnly == << Signal("quit") >>

\* RestoreWorker::run ends: its verdict goes to the window, and then, connected
\* after it, to the thread as a quit, through the same queue.
VerdictSignals == << Signal("judged"), Signal("quit") >>

WorkerEnds ==
  /\ thread = "restoring"
  /\ result = "none"
  /\ UNCHANGED << guiVars, restores, workerStep >>
  /\ \/ workerStep = Steps /\ Restore!Succeed
     \/ Restore!Cancel
     \/ Restore!Fail
  /\ thread' = "idle"
  /\ Post(VerdictSignals)

ThreadEnds ==
  /\ thread = "quitting"
  /\ thread' = "none"
  /\ UNCHANGED << guiVars, restores, workerStep, queue, restoreVars >>

----------------------------------------------------------------------------
\* The event loop: one signal at a time, in the order they were posted.  It also
\* turns inside the message box and while a closing window waits.

setProgressUnlessCancelling(step) ==
  IF stage = "Running" /\ step = dialogStep + 1 /\ ~ cancelling
    THEN /\ dialogStep' = step
         /\ notice' = IF step >= FirstDestructive THEN "rewriting" ELSE "keepConnected"
    ELSE UNCHANGED << dialogStep, notice >>

\* RestoreDialog::setProgress: only the next step of the plan is shown.
setProgress(step) ==
  IF stage = "Running" /\ step = dialogStep + 1
    THEN /\ dialogStep' = step
         /\ notice' = IF step >= FirstDestructive THEN "rewriting"
                      ELSE IF cancelling THEN notice ELSE "keepConnected"
    ELSE UNCHANGED << dialogStep, notice >>

onRestoreProgress(signal) ==
  /\ signal.kind = "progress"
  /\ restoreStep' = signal.step
  /\ silence' = 0
  /\ stallShown' = FALSE
  /\ setProgress(signal.step)
  /\ UNCHANGED << listVars, scanVars, choice, running, box, window, visible, stage,
                  request, cancelling, outcome, thread >>

noteRestoreActivity(signal) ==
  /\ signal.kind = "detail"
  /\ silence' = 0
  /\ UNCHANGED << listVars, scanVars, stallShown, windowVars, dialogVars, thread >>

\* "No error" taken for a cancellation whether or not one was asked for.
finishWithoutFailure ==
  IF stage = "Running"
    THEN /\ stage' = "Finished"
         /\ outcome' = IF result = "succeeded" THEN "complete" ELSE "cancelled"
         /\ notice' = outcome'
    ELSE UNCHANGED << stage, outcome, notice >>

\* RestoreDialog::finish.
finish ==
  IF stage = "Running"
    THEN /\ stage' = "Finished"
         /\ outcome' = CASE result = "succeeded" -> "complete"
                         [] result = "cancelled" -> "cancelled"
                         [] OTHER -> "error"
         /\ notice' = outcome'
    ELSE UNCHANGED << stage, outcome, notice >>

\* onRestoreFailed, onRestoreCancelled, onRestoreFinished: the dialog keeps the
\* outcome, setRunning(false), and a fresh scan.
onRestoreJudged(signal) ==
  /\ signal.kind = "judged"
  /\ finish
  /\ running' = FALSE
  /\ refreshDisks(FALSE)
  /\ UNCHANGED << listVars, stallVars, choice, restoreStep, box, window, visible, request,
                  dialogStep, cancelling, thread >>

\* QThread::quit of that restore's thread.
onQuit(signal) ==
  /\ signal.kind = "quit"
  /\ thread' = IF signal.restore = restores /\ thread = "idle" THEN "quitting" ELSE thread
  /\ UNCHANGED << listVars, scanVars, stallVars, windowVars, dialogVars >>

onScanFinished(signal) ==
  /\ signal.kind = "scanned"
  /\ scanning' = FALSE
  /\ scanThread' = "none"
  /\ applyScan
  /\ UNCHANGED << stallVars, windowVars, dialogVars, thread >>

HandleSignal ==
  /\ window # "closed"
  /\ queue # << >>
  /\ queue' = Tail(queue)
  /\ \/ onRestoreProgress(Head(queue))
     \/ noteRestoreActivity(Head(queue))
     \/ onRestoreJudged(Head(queue))
     \/ onQuit(Head(queue))
     \/ onScanFinished(Head(queue))
  /\ UNCHANGED << restores, workerStep, restoreVars >>

----------------------------------------------------------------------------
\* Closing: by the user, or by the end of the desktop session, which no modal
\* dialog stops.

ThreadRunning == thread # "none"

RefusesToClose == running /\ ThreadRunning

\* closeEvent refuses, with a message by the last step handled.
CloseRefused ==
  /\ BoxFree
  /\ RefusesToClose
  /\ box' = IF restoreStep >= FirstDestructive THEN "writing" ELSE "unchanged"
  /\ UNCHANGED << listVars, scanVars, stallVars, choice, running, restoreStep, window,
                  dialogVars, workerVars, queue, restoreVars >>

DismissBox ==
  /\ box # "none"
  /\ box' = "none"
  /\ UNCHANGED << listVars, scanVars, stallVars, choice, running, restoreStep, window,
                  dialogVars, workerVars, queue, restoreVars >>

\* Otherwise waitForRestoreThread, without user input, for 5 s at most.
Close ==
  /\ BoxFree
  /\ ~ RefusesToClose
  /\ window' = "closing"
  /\ UNCHANGED << listVars, scanVars, stallVars, choice, running, restoreStep, box,
                  dialogVars, workerVars, queue, restoreVars >>

DestroyWithoutWaiting ==
  /\ window = "closing"
  /\ window' = "closed"
  /\ visible' = FALSE
  /\ queue' = << >>
  /\ UNCHANGED << listVars, scanVars, stallVars, choice, running, restoreStep, box, stage,
                  request, dialogStep, cancelling, notice, outcome, workerVars,
                  restoreVars >>

\* The event loop has ended; the destructor waits for the scan thread, and the
\* signals still queued are dropped.
Destroy ==
  /\ window = "closing"
  /\ scanThread # "reading"
  /\ window' = "closed"
  /\ visible' = FALSE
  /\ queue' = << >>
  /\ UNCHANGED << listVars, scanVars, stallVars, choice, running, restoreStep, box, stage,
                  request, dialogStep, cancelling, notice, outcome, workerVars,
                  restoreVars >>

----------------------------------------------------------------------------
User ==
  \/ Select \/ Choose \/ Refresh \/ startRestore \/ Dismiss \/ Confirm \/ cancelRestore
  \/ CloseRefused \/ DismissBox \/ Close

Threads ==
  \/ ScanReads \/ WorkerReports \/ WorkerTalks \/ WorkerWrites \/ WorkerEnds \/ ThreadEnds

Next == User \/ FallSilent \/ onStallTick \/ Threads \/ HandleSignal \/ Destroy

Spec == Init /\ [][Next]_vars

\* A scan returns, a restore comes to a verdict (EndsWithVerdict of the platform
\* modules), and the event loop turns.  The user owes nobody a click.
FairSpec ==
  /\ Spec
  /\ WF_vars(ScanReads) /\ WF_vars(WorkerEnds) /\ WF_vars(ThreadEnds)
  /\ WF_vars(HandleSignal)
=============================================================================
