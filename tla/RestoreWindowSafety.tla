------------------------ MODULE RestoreWindowSafety ------------------------
(***************************************************************************)
(* What the window and the restore dialog owe their user.                  *)
(***************************************************************************)
EXTENDS RestoreWindow

\* The scan and the restore never use m_service at the same time, although
\* beginRestore does not ask whether a scan runs: startRestore does, and a dialog
\* that waits for its confirmation keeps the window from starting one.
OneUserOfTheService ==
  ~ (scanThread # "none" /\ thread = "restoring")

\* From the question to the verdict, the drive, the file system and the guard of
\* the frozen request are those of the list the window still shows: no scan
\* replaces the facts the user confirmed by (startRestore, beginRestore).
RequestStillListed ==
  stage # "Finished" =>
    /\ request.guard = guard
    /\ \E i \in DOMAIN disks : disks[i] = request.disk
    /\ isSafeRestoreTarget(request.disk, guard)
    /\ << request.disk, request.choice >> \in Fits

\* The window takes itself to be restoring exactly until it has handled the
\* verdict, and until then the thread runs: closing cannot slip in between the
\* end of the worker and its last signal (closeEvent).
RunningUntilTold ==
  /\ running <=> stage = "Running"
  /\ running => ThreadRunning
  /\ running /\ thread # "restoring" =>
       \E i \in DOMAIN queue : queue[i].kind = "judged"

\* Closing is refused exactly while it has to be.  Once the window closes, no
\* restore is under way and each one confirmed has had its outcome shown; once it
\* is destroyed, no thread reads through m_service (closeEvent, ~MainWindow).
ClosedInPeace ==
  /\ RunningUntilTold
  /\ window # "open" => thread # "restoring" /\ stage # "Running"
  /\ window = "closed" => scanThread # "reading"

\* The dialog's outcome is that of this drive: "complete" a restored one,
\* "cancelled" one that was not touched, and only after the user asked
\* (RestoreWorker::run, onRestoreFinished, onRestoreCancelled).
OutcomeIsTrue ==
  stage = "Finished" /\ result # "none" /\ visible =>
    /\ outcome = "complete" => drive = "restored"
    /\ outcome = "cancelled" => drive = "untouched" /\ asked

\* No signal of one restore is left in the queue when the next one starts, so
\* onRestoreProgress, which does not know whose signal it handles, never counts
\* the steps of another; only the quit may follow a verdict.
NoStaleSignal ==
  \A i \in DOMAIN queue : queue[i].kind # "scanned" =>
    /\ queue[i].restore = restores
    /\ queue[i].kind # "quit" => running

Pending == {i \in DOMAIN queue : queue[i].kind = "progress"}

\* The dialog refuses no progress: it shows the step the window decides by, and
\* still queued are exactly the steps from there to the worker's, in their order.
StepsFollow ==
  running =>
    /\ dialogStep = restoreStep
    /\ {queue[i].step : i \in Pending} = restoreStep + 1 .. workerStep
    /\ \A i, j \in Pending : i < j => queue[i].step < queue[j].step

\* A dialog that says "stopping" has a worker that was asked to, and while that
\* is pending neither the stall watch nor a later step replaces the sentence.
CancelSentenceStays ==
  stage = "Running" /\ cancelling =>
    /\ asked
    /\ dialogStep < FirstDestructive => notice = "stopping"

\* Once the user has been shown a writing step, nothing says that the disk has
\* not been changed, and nothing offers to cancel.
NoFalseComfort ==
  stage = "Running" /\ dialogStep >= FirstDestructive =>
    /\ announced
    /\ notice \notin {"unchanged", "keepConnected"}

\* What the dialog shows of a running restore is that restore's, and keeps up: its
\* own signals only, the worker's step but for the signals not yet handled, the
\* pending cancellation, and no comfort once a writing step was shown.
DialogFollows ==
  /\ NoStaleSignal
  /\ StepsFollow
  /\ CancelSentenceStays
  /\ NoFalseComfort

\* Each restore that is begun comes to an outcome the user can read, and each scan
\* to a list, or ends with the window.
OutcomeShown ==
  /\ running ~> ~ running /\ outcome # "none"
  /\ scanning ~> ~ scanning \/ window = "closed"
=============================================================================
