------------------------ MODULE RestoreWindowProofs -------------------------
(***************************************************************************)
(* What holds of the window for any scan results, any plan and any number  *)
(* of restores.  IInv is the inductive invariant; its heart is QueueInv,   *)
(* what the event queue may hold in each state of the window.              *)
(***************************************************************************)
EXTENDS RestoreWindowSafety, SequenceTheorems, TLAPS

\* What may be posted to the window's event loop (Signal, ScanReads).
Signals ==
  {[kind |-> "scanned"]} \cup
  [kind : {"progress", "detail", "judged", "quit"}, restore : Nat, step : Nat]

Flags ==
  /\ scanError \in BOOLEAN /\ scanning \in BOOLEAN /\ running \in BOOLEAN
  /\ stallShown \in BOOLEAN /\ visible \in BOOLEAN /\ cancelling \in BOOLEAN
  /\ announced \in BOOLEAN /\ asked \in BOOLEAN

Data ==
  /\ restoreStep \in Nat /\ dialogStep \in Nat
  /\ workerStep \in 0 .. Steps
  /\ silence \in 0 .. 2
  /\ box \in {"none", "writing", "unchanged"}
  /\ window \in {"open", "closing", "closed"}
  /\ stage \in {"Confirmation", "Running", "Finished"}
  /\ outcome \in {"none", "complete", "cancelled", "error"}
  /\ scanThread \in {"none", "reading", "read"}
  /\ thread \in {"none", "restoring", "idle", "quitting"}
  /\ restores \in Nat
  /\ drive \in {"untouched", "changed", "restored"}
  /\ result \in {"none", "succeeded", "failed", "cancelled"}

Listed ==
  /\ disks \in Seq({disks[i] : i \in DOMAIN disks})
  /\ row \in 0 .. Len(disks)

TypeOK == Flags /\ Data /\ Listed /\ queue \in Seq(Signals)

\* What the event queue may hold.
QueueInv ==
  /\ running => \A i \in DOMAIN queue :
       /\ queue[i].kind # "scanned"
       /\ queue[i].restore = restores
  /\ running /\ thread = "restoring" =>
       \A i \in DOMAIN queue : queue[i].kind \in {"progress", "detail"}
  /\ running /\ thread = "idle" =>
       /\ Len(queue) >= 2
       /\ queue[Len(queue) - 1].kind = "judged"
       /\ queue[Len(queue)].kind = "quit"
       /\ \A i \in 1 .. Len(queue) - 2 : queue[i].kind \in {"progress", "detail"}
  /\ ~ running =>
       \A i \in DOMAIN queue :
         \/ /\ queue[i].kind = "scanned"
            /\ scanThread = "read"
            /\ i = Len(queue)
         \/ /\ queue[i].kind = "quit"
            /\ queue[i].restore = restores
            /\ scanning
  /\ window = "closed" => queue = << >>

\* The scan thread, and who may use the service.
ThreadInv ==
  /\ scanning <=> scanThread # "none"
  /\ window = "closed" => scanThread # "reading"
  /\ running => thread \in {"restoring", "idle"}
  /\ ~ running => thread # "restoring"
  /\ thread = "restoring" <=> running /\ result = "none"

\* The dialog and the window it belongs to.
DialogInv ==
  /\ running <=> stage = "Running"
  /\ stage # "Finished" => ~ scanning
  /\ stage # "Finished" /\ window # "closed" => visible
  /\ window # "open" => ~ running
  /\ stage = "Confirmation" => ~ cancelling /\ dialogStep = 0

\* What the worker has said, done and been asked.
WorkerInv ==
  /\ running => (announced <=> workerStep >= FirstDestructive)
  /\ running => restoreStep <= workerStep
  /\ result = "succeeded" => drive = "restored"
  /\ result = "cancelled" => drive = "untouched" /\ asked
  /\ stage = "Finished" /\ visible =>
       /\ outcome = "complete" => result = "succeeded"
       /\ outcome = "cancelled" => result = "cancelled"

\* The invariant: everything above, and what the runs check of it.
IInv ==
  /\ TypeOK
  /\ QueueInv
  /\ ThreadInv
  /\ DialogInv
  /\ WorkerInv
  /\ RequestStillListed
  /\ StepsFollow
  /\ CancelSentenceStays
  /\ NoFalseComfort

----------------------------------------------------------------------------
\* Names for the tuples of variables, and the contract's steps, are looked through
\* everywhere.
USE DEF listVars, scanVars, stallVars, windowVars, dialogVars, workerVars, restoreVars,
        guiVars, Restore!contractVars, Restore!Init, Restore!Ask,
        Restore!Announce, Restore!Write, Restore!Succeed, Restore!Cancel, Restore!Fail
USE PlanAssumption

\* The members and widget states that are true or false stay so.
LEMMA FlagStep == ASSUME Flags, [Next]_vars PROVE Flags'
<1> USE DEF Flags
<1>1. CASE Select \/ Choose \/ Refresh \/ startRestore \/ Dismiss \/ Confirm
  BY <1>1, Zenon DEF Select, Choose, Refresh, startRestore, Dismiss, Confirm, refreshDisks
<1>2. CASE cancelRestore \/ CloseRefused \/ DismissBox \/ Close
  BY <1>2, Zenon DEF cancelRestore, setCancelling, CloseRefused, DismissBox, Close
<1>3. CASE FallSilent \/ onStallTick
  BY <1>3, Zenon DEF FallSilent, onStallTick
<1>4. CASE ScanReads \/ WorkerTalks \/ ThreadEnds
  BY <1>4, Zenon DEF ScanReads, WorkerTalks, ThreadEnds
<1>9. CASE WorkerReports
  <2>1. /\ UNCHANGED << scanError, scanning, running, stallShown >>
        /\ UNCHANGED << visible, cancelling, asked >>
        /\ announced' = TRUE \/ UNCHANGED announced
    BY <1>9, Zenon DEF WorkerReports
  <2> QED BY <2>1, Zenon
<1>5. CASE WorkerWrites \/ WorkerEnds
  BY <1>5, Zenon DEF WorkerWrites, WorkerEnds
<1>6. CASE HandleSignal
  <2>1. ASSUME NEW s, onScanFinished(s) PROVE scanError' \in BOOLEAN
    BY <2>1, ScansAssumption, Zenon DEF onScanFinished, applyScan
  <2> QED BY <1>6, <2>1, Zenon DEF HandleSignal, onRestoreProgress, noteRestoreActivity, onRestoreJudged,
                     onQuit, onScanFinished, refreshDisks
<1>7. CASE Destroy
  BY <1>7, Zenon DEF Destroy
<1>8. CASE UNCHANGED vars
  BY <1>8, Zenon DEF vars
<1> QED BY <1>1, <1>2, <1>3, <1>4, <1>5, <1>6, <1>7, <1>8, <1>9 DEF Next, User, Threads

----------------------------------------------------------------------------
\* The queue after a signal is handled: what follows it moves up.
LEMMA Handled ==
  ASSUME queue \in Seq(Signals), queue # << >>
  PROVE  /\ Head(queue) = queue[1] /\ Head(queue) \in Signals
         /\ Tail(queue) \in Seq(Signals)
         /\ Len(queue) \in Nat \ {0} /\ Len(Tail(queue)) = Len(queue) - 1
         /\ DOMAIN queue = 1 .. Len(queue) /\ DOMAIN Tail(queue) = 1 .. Len(queue) - 1
         /\ \A i \in 1 .. Len(queue) - 1 : Tail(queue)[i] = queue[i + 1]
<1>1. /\ Head(queue) \in Signals /\ Tail(queue) \in Seq(Signals)
      /\ Len(Tail(queue)) = Len(queue) - 1
      /\ \A i \in 1 .. Len(Tail(queue)) : Tail(queue)[i] = queue[i + 1]
  BY HeadTailProperties
<1>2. Len(queue) \in Nat \ {0} /\ Head(queue) = queue[1]
  BY EmptySeq
<1>3. DOMAIN queue = 1 .. Len(queue) /\ DOMAIN Tail(queue) = 1 .. Len(Tail(queue))
  BY <1>1
<1> QED BY <1>1, <1>2, <1>3

\* ... and after some are posted: they come last.
LEMMA Posted ==
  ASSUME queue \in Seq(Signals), NEW more \in Seq(Signals)
  PROVE  /\ queue \o more \in Seq(Signals)
         /\ Len(queue) \in Nat /\ Len(more) \in Nat
         /\ Len(queue \o more) = Len(queue) + Len(more)
         /\ DOMAIN queue = 1 .. Len(queue)
         /\ DOMAIN (queue \o more) = 1 .. Len(queue) + Len(more)
         /\ \A i \in 1 .. Len(queue) : (queue \o more)[i] = queue[i]
         /\ \A i \in 1 .. Len(more) : (queue \o more)[Len(queue) + i] = more[i]
<1>1. /\ queue \o more \in Seq(Signals)
      /\ Len(queue \o more) = Len(queue) + Len(more)
      /\ \A i \in 1 .. Len(queue) + Len(more) :
           (queue \o more)[i] = IF i <= Len(queue) THEN queue[i] ELSE more[i - Len(queue)]
  BY ConcatProperties
<1>2. Len(queue) \in Nat /\ Len(more) \in Nat
  OBVIOUS
<1>3. DOMAIN queue = 1 .. Len(queue) /\ DOMAIN (queue \o more) = 1 .. Len(queue \o more)
  BY <1>1
<1>4. ASSUME NEW i \in 1 .. Len(more) PROVE (queue \o more)[Len(queue) + i] = more[i]
  <2> DEFINE j == Len(queue) + i
  <2>1. j \in 1 .. Len(queue) + Len(more) /\ ~ (j <= Len(queue)) /\ j - Len(queue) = i
    BY <1>2
  <2> HIDE DEF j
  <2>2. (queue \o more)[j] = more[j - Len(queue)]
    BY <1>1, <2>1
  <2> QED BY <2>1, <2>2 DEF j
<1> QED BY <1>1, <1>2, <1>3, <1>4

\* What the window can be handling, and in which state.
LEMMA Handling ==
  ASSUME IInv, HandleSignal
  PROVE  /\ queue # << >> /\ window # "closed"
         /\ queue' = Tail(queue)
         /\ \/ /\ onRestoreProgress(queue[1]) \/ noteRestoreActivity(queue[1])
               /\ running /\ queue[1].restore = restores
            \/ /\ onRestoreJudged(queue[1])
               /\ running /\ thread = "idle" /\ result # "none"
               /\ Len(queue) = 2
            \/ /\ onQuit(queue[1])
               /\ ~ running /\ scanning
            \/ /\ onScanFinished(queue[1])
               /\ ~ running /\ scanning /\ scanThread = "read"
               /\ Len(queue) = 1
<1> USE DEF IInv, QueueInv, ThreadInv
<1>1. /\ queue # << >> /\ queue' = Tail(queue) /\ window # "closed"
      /\ \/ onRestoreProgress(Head(queue)) \/ noteRestoreActivity(Head(queue))
         \/ onRestoreJudged(Head(queue)) \/ onQuit(Head(queue)) \/ onScanFinished(Head(queue))
  BY DEF HandleSignal
<1>2. queue \in Seq(Signals)
  BY DEF TypeOK
<1>3. Head(queue) = queue[1] /\ Len(queue) \in Nat \ {0} /\ DOMAIN queue = 1 .. Len(queue)
  BY <1>1, <1>2, Handled
<1>4. 1 \in DOMAIN queue
  BY <1>3
<1>5. CASE queue[1].kind \in {"progress", "detail"}
  <2>1. running /\ queue[1].restore = restores
    BY <1>4, <1>5
  <2> QED BY <1>1, <1>3, <1>5, <2>1 DEF onRestoreJudged, onQuit, onScanFinished
<1>6. CASE queue[1].kind = "judged"
  <2>1. running
    BY <1>4, <1>6
  <2>2. thread = "idle"
    BY <1>4, <1>6, <2>1
  <2>3. Len(queue) = 2
    BY <1>3, <1>6, <2>1, <2>2
  <2>4. onRestoreJudged(queue[1])
    BY <1>1, <1>3, <1>6
    DEF onRestoreProgress, noteRestoreActivity, onQuit, onScanFinished
  <2> QED BY <1>1, <2>1, <2>2, <2>3, <2>4
<1>7. CASE queue[1].kind = "quit"
  <2>1. ~ running
    BY <1>3, <1>4, <1>7
  <2>2. scanning
    BY <1>4, <1>7, <2>1
  <2> QED BY <1>1, <1>3, <1>7, <2>1, <2>2
          DEF onRestoreProgress, noteRestoreActivity, onRestoreJudged, onScanFinished
<1>8. CASE queue[1].kind = "scanned"
  <2>1. ~ running
    BY <1>4, <1>8
  <2>2. scanThread = "read" /\ Len(queue) = 1
    BY <1>4, <1>8, <2>1
  <2> QED BY <1>1, <1>3, <1>8, <2>1, <2>2
          DEF onRestoreProgress, noteRestoreActivity, onRestoreJudged, onQuit
<1> QED BY <1>1, <1>3, <1>5, <1>6, <1>7, <1>8
        DEF onRestoreProgress, noteRestoreActivity, onRestoreJudged, onQuit, onScanFinished

----------------------------------------------------------------------------
\* One lemma for each part of IInv, the actions that can disturb it first.

\* The list is a scan's, and the selected row is one of it.
LEMMA ListStep == ASSUME IInv, [Next]_vars PROVE Listed'
<1>1. CASE Select
  <2>1. UNCHANGED disks /\ row' \in 0 .. Len(disks)
    BY <1>1 DEF Select, IInv, TypeOK, Listed
  <2> QED BY <2>1 DEF IInv, TypeOK, Listed
<1>2. CASE HandleSignal /\ onScanFinished(queue[1])
  <2>1. PICK scan \in Scans :
          disks' = scan.disks /\ row' = IF scan.disks = << >> THEN 0 ELSE 1
    BY <1>2 DEF onScanFinished, applyScan
  <2>2. scan.disks \in Seq({scan.disks[i] : i \in DOMAIN scan.disks})
    BY ScansAssumption
  <2>3. Len(scan.disks) \in Nat /\ (scan.disks # << >> => Len(scan.disks) # 0)
    BY <2>2, EmptySeq
  <2>4. row' \in 0 .. Len(scan.disks)
    BY <2>1, <2>3
  <2> QED BY <2>1, <2>2, <2>4 DEF Listed
<1>3. CASE ~ Select /\ ~ (HandleSignal /\ onScanFinished(queue[1]))
  <2>1. UNCHANGED << disks, row >>
    <3>1. CASE HandleSignal
      BY <1>3, <3>1, Handling DEF onRestoreProgress, noteRestoreActivity, onRestoreJudged, onQuit
    <3>2. CASE ~ HandleSignal
      BY <1>3, <3>2
      DEF Next, User, Threads, Choose, Refresh, startRestore, Dismiss, Confirm, cancelRestore,
          CloseRefused, DismissBox, Close, FallSilent, onStallTick, ScanReads, WorkerReports,
          WorkerTalks, WorkerWrites, WorkerEnds, ThreadEnds, Destroy, vars
    <3> QED BY <3>1, <3>2
  <2> QED BY <2>1 DEF IInv, TypeOK, Listed
<1> QED BY <1>1, <1>2, <1>3

\* What Post is given by the worker is a signal.
LEMMA SignalTyped ==
  ASSUME NEW kind \in {"progress", "detail", "judged", "quit"}, restores \in Nat, workerStep' \in Nat
  PROVE  Signal(kind) \in Signals
  BY DEF Signal, Signals

\* A restore's end posts its verdict and its thread's end, after all it said before.
LEMMA VerdictPosted ==
  ASSUME queue \in Seq(Signals), restores \in Nat, workerStep' \in Nat, WorkerEnds
  PROVE  /\ queue' \in Seq(Signals)
         /\ Len(queue') = Len(queue) + 2 /\ DOMAIN queue' = 1 .. Len(queue) + 2
         /\ \A i \in 1 .. Len(queue) : queue'[i] = queue[i]
         /\ queue'[Len(queue) + 1] = Signal("judged")
         /\ queue'[Len(queue) + 2] = Signal("quit")
<1>1. queue' = queue \o VerdictSignals
  BY DEF WorkerEnds, Post
<1>2. Signal("judged") \in Signals /\ Signal("quit") \in Signals
  BY SignalTyped
<1>3. /\ VerdictSignals \in Seq(Signals) /\ Len(VerdictSignals) = 2
      /\ VerdictSignals[1] = Signal("judged") /\ VerdictSignals[2] = Signal("quit")
  BY <1>2 DEF VerdictSignals
<1> DEFINE more == VerdictSignals
<1>4. more \in Seq(Signals) /\ Len(more) = 2 /\ queue' = queue \o more
      /\ more[1] = Signal("judged") /\ more[2] = Signal("quit")
  BY <1>1, <1>3
<1> HIDE DEF more
<1>5. /\ queue \o more \in Seq(Signals)
      /\ Len(queue \o more) = Len(queue) + Len(more)
      /\ DOMAIN (queue \o more) = 1 .. Len(queue) + Len(more)
      /\ \A i \in 1 .. Len(queue) : (queue \o more)[i] = queue[i]
      /\ \A i \in 1 .. Len(more) : (queue \o more)[Len(queue) + i] = more[i]
  BY <1>4, Posted
<1>6. 1 \in 1 .. Len(more) /\ 2 \in 1 .. Len(more)
  BY <1>4
<1> QED BY <1>4, <1>5, <1>6

\* The event loop holds signals: they are posted at its end and taken from its front.
LEMMA QueueTyped == ASSUME IInv, workerStep' \in Nat, [Next]_vars PROVE queue' \in Seq(Signals)
<1>0. queue \in Seq(Signals) /\ restores \in Nat
  BY DEF IInv, TypeOK, Data
<1>1. CASE ScanReads
  <2>1. [kind |-> "scanned"] \in Signals
    BY DEF Signals
  <2>2. queue' = Append(queue, [kind |-> "scanned"])
    BY <1>1 DEF ScanReads
  <2> QED BY <1>0, <2>1, <2>2, AppendProperties
<1>2. CASE WorkerReports \/ WorkerTalks
  <2>1. PICK kind \in {"progress", "detail"} : queue' = queue \o << Signal(kind) >>
    BY <1>2 DEF WorkerReports, WorkerTalks, Post
  <2>2. << Signal(kind) >> \in Seq(Signals)
    BY <1>0, SignalTyped
  <2> QED BY <1>0, <2>1, <2>2, Posted
<1>3. CASE WorkerEnds
  BY <1>0, <1>3, VerdictPosted
<1>4. CASE HandleSignal
  BY <1>0, <1>4, Handling, Handled
<1>5. CASE Destroy
  <2>1. queue' = << >>
    BY <1>5 DEF Destroy
  <2> QED BY <2>1, EmptySeq
<1>6. CASE ~ (ScanReads \/ WorkerReports \/ WorkerTalks \/ WorkerEnds \/ HandleSignal \/ Destroy)
  <2>1. UNCHANGED queue
    BY <1>6 DEF Next, User, Threads, Select, Choose, Refresh, startRestore, Dismiss, Confirm,
                cancelRestore, CloseRefused, DismissBox, Close, FallSilent, onStallTick,
                WorkerWrites, ThreadEnds, vars
  <2> QED BY <1>0, <2>1
<1> QED BY <1>1, <1>2, <1>3, <1>4, <1>5, <1>6

\* The counters, stages and outcomes keep their ranges.
LEMMA DataStep == ASSUME IInv, [Next]_vars PROVE Data'
<1>0. Data /\ queue \in Seq(Signals)
  BY DEF IInv, TypeOK
<1> USE <1>0 DEF Data
<1>1. CASE Select \/ Choose \/ Refresh \/ startRestore
  BY <1>1 DEF Select, Choose, Refresh, startRestore, refreshDisks
<1>2. CASE Dismiss \/ Confirm
  BY <1>2 DEF Dismiss, Confirm
<1>3. CASE cancelRestore \/ CloseRefused \/ DismissBox \/ Close
  BY <1>3 DEF cancelRestore, setCancelling, CloseRefused, DismissBox, Close
<1>4. CASE FallSilent
  BY <1>4 DEF FallSilent
<1>5. CASE onStallTick
  BY <1>5 DEF onStallTick
<1>6. CASE ScanReads \/ WorkerTalks \/ ThreadEnds
  BY <1>6 DEF ScanReads, WorkerTalks, ThreadEnds
<1>7. CASE WorkerReports
  BY <1>7 DEF WorkerReports
<1>8. CASE WorkerEnds
  BY <1>8 DEF WorkerEnds
<1>9. CASE WorkerWrites
  BY <1>9 DEF WorkerWrites
<1>10. CASE HandleSignal
  <2>1. queue[1] \in Signals
    BY <1>10, Handling, Handled
  <2>2. UNCHANGED << restores, workerStep, drive, result, box, window >>
    BY <1>10, Handling DEF HandleSignal, onRestoreProgress, noteRestoreActivity,
                          onRestoreJudged, onQuit, onScanFinished
  <2>3. CASE onRestoreProgress(queue[1])
    <3>1. queue[1].step \in Nat
      BY <2>1, <2>3 DEF Signals, onRestoreProgress
    <3> QED BY <2>2, <2>3, <3>1 DEF onRestoreProgress, setProgress
  <2>4. CASE noteRestoreActivity(queue[1])
    BY <2>2, <2>4 DEF noteRestoreActivity
  <2>5. CASE onRestoreJudged(queue[1])
    BY <2>2, <2>5 DEF onRestoreJudged, finish, refreshDisks
  <2>6. CASE onQuit(queue[1]) \/ onScanFinished(queue[1])
    BY <2>2, <2>6 DEF onQuit, onScanFinished
  <2> QED BY <1>10, <2>3, <2>4, <2>5, <2>6, Handling
<1>11. CASE Destroy
  BY <1>11 DEF Destroy
<1>12. CASE UNCHANGED vars
  BY <1>12 DEF vars
<1> QED BY <1>1, <1>2, <1>3, <1>4, <1>5, <1>6, <1>7, <1>8, <1>9, <1>10, <1>11, <1>12
        DEF Next, User, Threads

\* The scan thread lives exactly while the window scans; the restore thread restores
\* exactly while a restore runs unjudged; the dialog runs while the window does.
LEMMA ThreadStep == ASSUME IInv, [Next]_vars PROVE ThreadInv' /\ DialogInv'
<1> USE DEF IInv, TypeOK, Flags, ThreadInv, DialogInv
<1>1. CASE Select \/ Choose \/ Dismiss
  BY <1>1 DEF Select, Choose, Dismiss, WindowFree, BoxFree
<1>2. CASE Refresh
  BY <1>2 DEF Refresh, WindowFree, BoxFree, refreshDisks, Data
<1>3. CASE startRestore
  BY <1>3 DEF startRestore, WindowFree, BoxFree, RestoreEnabled
<1>4. CASE Confirm
  BY <1>4 DEF Confirm, BoxFree
<1>5. CASE cancelRestore
  BY <1>5 DEF cancelRestore, setCancelling
<1>6. CASE CloseRefused \/ DismissBox \/ FallSilent \/ onStallTick
  BY <1>6 DEF CloseRefused, DismissBox, FallSilent, onStallTick
<1>7. CASE Close
  BY <1>7 DEF Close, RefusesToClose, ThreadRunning, BoxFree
<1>8. CASE ScanReads
  BY <1>8 DEF ScanReads
<1>9. CASE WorkerReports \/ WorkerTalks
  BY <1>9 DEF WorkerReports, WorkerTalks
<1>10. CASE WorkerWrites \/ ThreadEnds
  BY <1>10 DEF WorkerWrites, ThreadEnds
<1>11. CASE WorkerEnds
  BY <1>11 DEF WorkerEnds
<1>12. CASE HandleSignal
  <2>1. UNCHANGED << result, window >>
    BY <1>12, Handling DEF HandleSignal, onRestoreProgress, noteRestoreActivity,
                          onRestoreJudged, onQuit, onScanFinished
  <2>2. CASE running /\ onRestoreProgress(queue[1])
    BY <2>1, <2>2 DEF onRestoreProgress, setProgress
  <2>3. CASE running /\ noteRestoreActivity(queue[1])
    BY <2>1, <2>3 DEF noteRestoreActivity
  <2>4. CASE running /\ thread = "idle" /\ result # "none" /\ onRestoreJudged(queue[1])
    BY <1>12, <2>1, <2>4, Handling DEF onRestoreJudged, finish, refreshDisks
  <2>5. CASE ~ running /\ scanning /\ onQuit(queue[1])
    BY <2>1, <2>5 DEF onQuit
  <2>6. CASE ~ running /\ scanning /\ onScanFinished(queue[1])
    BY <2>1, <2>6 DEF onScanFinished
  <2> QED BY <1>12, <2>2, <2>3, <2>4, <2>5, <2>6, Handling
<1>13. CASE Destroy
  BY <1>13 DEF Destroy
<1>14. CASE UNCHANGED vars
  BY <1>14 DEF vars
<1> QED BY <1>1, <1>2, <1>3, <1>4, <1>5, <1>6, <1>7, <1>8, <1>9, <1>10, <1>11, <1>12,
           <1>13, <1>14 DEF Next, User, Threads

\* Between a scan and the next restore nothing is queued.
LEMMA NothingQueued ==
  ASSUME IInv, ~ running, ~ scanning
  PROVE  queue = << >>
<1>1. queue \in Seq(Signals) /\ DOMAIN queue = 1 .. Len(queue) /\ Len(queue) \in Nat
  BY DEF IInv, TypeOK
<1>2. 1 \notin DOMAIN queue
  BY DEF IInv, QueueInv, ThreadInv
<1>3. Len(queue) = 0
  BY <1>1, <1>2
<1> QED BY <1>1, <1>3, EmptySeq

\* Who may post in which state, and that a verdict is the last the worker posts but
\* its thread's end.
LEMMA QueueStep == ASSUME IInv, ThreadInv', DialogInv', [Next]_vars PROVE QueueInv'
<1>0. queue \in Seq(Signals) /\ DOMAIN queue = 1 .. Len(queue) /\ Len(queue) \in Nat
  BY DEF IInv, TypeOK
<1> USE DEF IInv, QueueInv, ThreadInv, DialogInv
<1>1. CASE Confirm
  <2>1. ~ running /\ ~ scanning
    BY <1>1 DEF Confirm
  <2>2. queue = << >>
    BY <2>1, NothingQueued
  <2>3. queue' = << >> /\ thread' = "restoring"
    BY <1>1, <2>2 DEF Confirm
  <2> QED BY <2>3
<1>2. CASE ScanReads
  <2>1. ~ running /\ scanThread = "reading" /\ window # "closed" /\ scanning
    BY <1>2 DEF ScanReads
  <2>2. /\ UNCHANGED << running, window, scanning, restores >> /\ scanThread' = "read"
        /\ queue' = Append(queue, [kind |-> "scanned"])
    BY <1>2 DEF ScanReads
  <2>3. [kind |-> "scanned"] \in Signals
    BY DEF Signals
  <2>4. /\ Len(queue') = Len(queue) + 1
        /\ DOMAIN queue' = 1 .. Len(queue) + 1
        /\ \A i \in 1 .. Len(queue) : queue'[i] = queue[i]
        /\ queue'[Len(queue) + 1].kind = "scanned"
    <3>1. queue' \in Seq(Signals) /\ Len(queue') = Len(queue) + 1
      BY <1>0, <2>2, <2>3, AppendProperties
    <3>2. /\ \A i \in 1 .. Len(queue) : queue'[i] = queue[i]
          /\ queue'[Len(queue) + 1] = [kind |-> "scanned"]
      BY <1>0, <2>2, <2>3, AppendProperties
    <3> QED BY <3>1, <3>2
  <2>5. \A i \in DOMAIN queue : queue[i].kind = "quit" /\ queue[i].restore = restores
    BY <2>1
  <2>6. ASSUME NEW i \in DOMAIN queue'
        PROVE  \/ queue'[i].kind = "scanned" /\ i = Len(queue')
               \/ queue'[i].kind = "quit" /\ queue'[i].restore = restores
    <3>1. CASE i = Len(queue) + 1
      BY <2>4, <3>1
    <3>2. CASE i # Len(queue) + 1
      BY <1>0, <2>4, <2>5, <3>2
    <3> QED BY <3>1, <3>2
  <2>7. ~ running' /\ window' # "closed" /\ scanning' /\ restores' = restores
    BY <2>1, <2>2
  <2> QED BY <2>2, <2>6, <2>7
<1>3. CASE WorkerReports \/ WorkerTalks
  <2>1. running /\ thread = "restoring" /\ window # "closed"
    BY <1>3 DEF WorkerReports, WorkerTalks
  <2>2. UNCHANGED << running, thread, window, restores >>
    BY <1>3 DEF WorkerReports, WorkerTalks
  <2>3. PICK kind \in {"progress", "detail"} : queue' = queue \o << Signal(kind) >>
    BY <1>3 DEF WorkerReports, WorkerTalks, Post
  <2>4. << Signal(kind) >> \in Seq(Signals) /\ Len(<< Signal(kind) >>) = 1
    <3>1. restores \in Nat /\ workerStep' \in Nat
      BY <1>3, DataStep DEF TypeOK, Data
    <3> QED BY <3>1, SignalTyped
  <2>5. /\ DOMAIN queue' = 1 .. Len(queue) + 1
        /\ \A i \in 1 .. Len(queue) : queue'[i] = queue[i]
        /\ queue'[Len(queue) + 1] = Signal(kind)
    BY <1>0, <2>3, <2>4, Posted
  <2>6. Signal(kind).kind = kind /\ Signal(kind).restore = restores
    BY DEF Signal
  <2> QED BY <1>0, <2>1, <2>2, <2>5, <2>6
<1>4. CASE WorkerEnds
  <2>1. running /\ thread = "restoring" /\ window # "closed"
    BY <1>4 DEF WorkerEnds
  <2>2. UNCHANGED << running, window, restores >> /\ thread' = "idle"
    BY <1>4 DEF WorkerEnds
  <2>3. restores \in Nat /\ workerStep' \in Nat
    BY <1>4, DataStep DEF TypeOK, Data
  <2>4. /\ Len(queue') = Len(queue) + 2 /\ DOMAIN queue' = 1 .. Len(queue) + 2
        /\ \A i \in 1 .. Len(queue) : queue'[i] = queue[i]
        /\ queue'[Len(queue) + 1] = Signal("judged")
        /\ queue'[Len(queue) + 2] = Signal("quit")
    BY <1>0, <1>4, <2>3, VerdictPosted
  <2>5. \A kind : Signal(kind).kind = kind /\ Signal(kind).restore = restores
    BY DEF Signal
  <2> QED BY <1>0, <2>1, <2>2, <2>4, <2>5
<1>5. CASE HandleSignal
  <2>1. /\ queue' = Tail(queue) /\ Len(queue) \in Nat \ {0}
        /\ Len(queue') = Len(queue) - 1 /\ DOMAIN queue' = 1 .. Len(queue) - 1
        /\ \A i \in 1 .. Len(queue) - 1 : queue'[i] = queue[i + 1]
    BY <1>0, <1>5, Handling, Handled
  <2>2. UNCHANGED << window, restores >> /\ window # "closed"
    BY <1>5, Handling DEF HandleSignal, onRestoreProgress, noteRestoreActivity,
                          onRestoreJudged, onQuit, onScanFinished
  <2>3. CASE running /\ (onRestoreProgress(queue[1]) \/ noteRestoreActivity(queue[1]))
    <3>1. UNCHANGED << running, thread >> /\ queue[1].kind \in {"progress", "detail"}
      BY <2>3 DEF onRestoreProgress, noteRestoreActivity
    <3>2. \A i \in DOMAIN queue' : i + 1 \in DOMAIN queue /\ queue'[i] = queue[i + 1]
      BY <1>0, <2>1
    <3>3. CASE thread = "restoring"
      BY <2>2, <2>3, <3>1, <3>2, <3>3
    <3>4. CASE thread = "idle"
      <4>1. Len(queue) # 2
        BY <2>3, <3>1, <3>4
      <4>2. Len(queue') >= 2
        BY <2>1, <2>3, <3>4, <4>1
      <4>3. queue'[Len(queue')] = queue[Len(queue)] /\ queue'[Len(queue') - 1] = queue[Len(queue) - 1]
        BY <2>1, <4>2
      <4>4. \A i \in 1 .. Len(queue') - 2 : queue'[i].kind \in {"progress", "detail"}
        BY <2>1, <2>3, <3>4
      <4> QED BY <2>2, <2>3, <3>1, <3>2, <3>4, <4>2, <4>3, <4>4
    <3> QED BY <2>3, <3>3, <3>4
  <2>4. CASE running /\ thread = "idle" /\ Len(queue) = 2 /\ onRestoreJudged(queue[1])
    <3>1. ~ running' /\ scanning'
      BY <2>4 DEF onRestoreJudged, refreshDisks
    <3>2. queue[2].kind = "quit" /\ queue[2].restore = restores
      BY <1>0, <2>4
    <3>3. DOMAIN queue' = 1 .. 1 /\ queue'[1] = queue[2]
      BY <2>1, <2>4
    <3> QED BY <2>2, <3>1, <3>2, <3>3
  <2>5. CASE ~ running /\ scanning /\ onQuit(queue[1])
    <3>1. UNCHANGED << running, scanning, scanThread >>
      BY <2>5 DEF onQuit
    <3>2. \A i \in DOMAIN queue' : i + 1 \in DOMAIN queue /\ queue'[i] = queue[i + 1]
      BY <1>0, <2>1
    <3>3. \A i \in DOMAIN queue' : i + 1 = Len(queue) => i = Len(queue')
      BY <2>1
    <3> QED BY <2>2, <2>5, <3>1, <3>2, <3>3
  <2>6. CASE ~ running /\ Len(queue) = 1 /\ onScanFinished(queue[1])
    <3>1. UNCHANGED running
      BY <2>6 DEF onScanFinished
    <3>2. DOMAIN queue' = {}
      BY <2>1, <2>6
    <3> QED BY <2>2, <2>6, <3>1, <3>2
  <2> QED BY <1>5, <2>3, <2>4, <2>5, <2>6, Handling
<1>6. CASE Destroy
  <2>1. ~ running' /\ queue' = << >>
    BY <1>6 DEF Destroy
  <2> QED BY <2>1
<1>7. CASE Refresh
  <2>1. /\ UNCHANGED << queue, window, restores, running >>
        /\ ~ running /\ ~ scanning
    BY <1>7 DEF Refresh
  <2> QED BY <2>1
<1>8. CASE ThreadEnds
  <2>1. UNCHANGED << queue, window, restores, running, scanning, scanThread >> /\ ~ running
    BY <1>8 DEF ThreadEnds
  <2> QED BY <2>1
<1>9. CASE \/ Select \/ Choose \/ startRestore \/ Dismiss \/ cancelRestore \/ CloseRefused
           \/ DismissBox \/ Close \/ FallSilent \/ onStallTick \/ WorkerWrites
           \/ UNCHANGED vars
  <2>1. /\ UNCHANGED << queue, restores, thread, scanning, scanThread >> /\ UNCHANGED running
        /\ window' = "closed" => window = "closed"
    BY <1>9 DEF Select, Choose, startRestore, Dismiss, cancelRestore, CloseRefused,
                DismissBox, Close, FallSilent, onStallTick, WorkerWrites, vars
  <2> QED BY <2>1
<1> QED BY <1>1, <1>2, <1>3, <1>4, <1>5, <1>6, <1>7, <1>8, <1>9 DEF Next, User, Threads

\* The first report in the queue is the one after the step the window decides by.
LEMMA NextReport ==
  ASSUME IInv, HandleSignal, running, onRestoreProgress(queue[1])
  PROVE  /\ 1 \in Pending
         /\ queue[1].step = restoreStep + 1 /\ restoreStep + 1 <= workerStep
         /\ dialogStep = restoreStep
<1>1. /\ restoreStep \in Nat /\ workerStep \in Nat
      /\ 1 \in DOMAIN queue /\ \A i \in DOMAIN queue : i = 1 \/ 1 < i
  <2>1. queue \in Seq(Signals)
    BY DEF IInv, TypeOK
  <2>2. Len(queue) \in Nat \ {0} /\ DOMAIN queue = 1 .. Len(queue)
    BY <2>1, Handling, Handled
  <2> QED BY <2>2 DEF IInv, TypeOK, Data
<1>2. /\ dialogStep = restoreStep
      /\ {queue[i].step : i \in Pending} = restoreStep + 1 .. workerStep
      /\ \A i, j \in Pending : i < j => queue[i].step < queue[j].step
  BY DEF IInv, StepsFollow
<1>3. 1 \in Pending
  BY <1>1 DEF Pending, onRestoreProgress
<1>4. queue[1].step \in restoreStep + 1 .. workerStep
  BY <1>2, <1>3
<1>5. PICK i \in Pending : queue[i].step = restoreStep + 1
  <2>1. restoreStep + 1 \in restoreStep + 1 .. workerStep
    BY <1>1, <1>4
  <2> QED BY <1>2, <2>1
<1>6. queue[1].step = restoreStep + 1
  <2>1. CASE i = 1
    BY <1>5, <2>1
  <2>2. CASE i # 1
    <3>1. 1 < i
      BY <1>1, <2>2 DEF Pending
    <3>2. queue[1].step < queue[i].step
      BY <1>2, <1>3, <3>1
    <3> QED BY <1>1, <1>4, <1>5, <3>2
  <2> QED BY <2>1, <2>2
<1> QED BY <1>1, <1>2, <1>3, <1>4, <1>6

\* What the worker announced, wrote and was asked agrees with what it reports.
LEMMA WorkerStep == ASSUME IInv, [Next]_vars PROVE WorkerInv'
<1> USE DEF IInv, TypeOK, Flags, Data, ThreadInv, DialogInv, WorkerInv
<1>1. CASE Select \/ Choose \/ Refresh \/ CloseRefused \/ DismissBox \/ Close \/ FallSilent
  BY <1>1 DEF Select, Choose, Refresh, refreshDisks, CloseRefused, DismissBox, Close, FallSilent
<1>2. CASE startRestore \/ Dismiss
  BY <1>2 DEF startRestore, Dismiss
<1>3. CASE Confirm
  BY <1>3 DEF Confirm
<1>4. CASE cancelRestore
  BY <1>4 DEF cancelRestore, setCancelling
<1>5. CASE onStallTick
  BY <1>5 DEF onStallTick
<1>6. CASE ScanReads \/ WorkerTalks \/ ThreadEnds
  BY <1>6 DEF ScanReads, WorkerTalks, ThreadEnds
<1>7. CASE WorkerReports
  <2>1. /\ UNCHANGED << running, restoreStep, drive, asked, result, stage, visible, outcome >>
        /\ workerStep' = workerStep + 1
        /\ IF workerStep' = FirstDestructive THEN announced' = TRUE ELSE UNCHANGED announced
    BY <1>7 DEF WorkerReports
  <2> QED BY <2>1
<1>8. CASE WorkerWrites
  BY <1>8 DEF WorkerWrites
<1>9. CASE WorkerEnds
  BY <1>9 DEF WorkerEnds
<1>10. CASE HandleSignal
  <2>1. UNCHANGED << workerStep, drive, announced, asked, result >>
    BY <1>10 DEF HandleSignal
  <2>2. CASE running /\ onRestoreProgress(queue[1])
    <3>1. restoreStep' <= workerStep
      BY <1>10, <2>2, NextReport DEF onRestoreProgress
    <3> QED BY <2>1, <2>2, <3>1 DEF onRestoreProgress
  <2>3. CASE running /\ noteRestoreActivity(queue[1])
    BY <2>1, <2>3 DEF noteRestoreActivity
  <2>4. CASE running /\ result # "none" /\ onRestoreJudged(queue[1])
    BY <2>1, <2>4 DEF onRestoreJudged, finish
  <2>5. CASE ~ running /\ onQuit(queue[1])
    BY <2>1, <2>5 DEF onQuit
  <2>6. CASE ~ running /\ onScanFinished(queue[1])
    BY <2>1, <2>6 DEF onScanFinished
  <2> QED BY <1>10, <2>2, <2>3, <2>4, <2>5, <2>6, Handling
<1>11. CASE Destroy
  BY <1>11 DEF Destroy
<1>12. CASE UNCHANGED vars
  BY <1>12 DEF vars
<1> QED BY <1>1, <1>2, <1>3, <1>4, <1>5, <1>6, <1>7, <1>8, <1>9, <1>10, <1>11, <1>12
        DEF Next, User, Threads

\* While a dialog asks or runs, no scan result can arrive, so the list stays.
LEMMA RequestStep == ASSUME IInv, [Next]_vars PROVE RequestStillListed'
<1> USE DEF IInv, ThreadInv, DialogInv
<1>1. CASE startRestore
  <2>1. row \in DOMAIN disks /\ request' = [disk |-> disks[row], choice |-> choice, guard |-> guard]
    BY <1>1 DEF startRestore, RestoreEnabled, selectedDisk, TypeOK, Listed
  <2>2. isSafeRestoreTarget(disks[row], guard) /\ << disks[row], choice >> \in Fits
    BY <1>1 DEF startRestore, RestoreEnabled, CanRestore, selectedDisk
  <2>3. UNCHANGED << guard, disks >>
    BY <1>1 DEF startRestore
  <2> QED BY <2>1, <2>2, <2>3 DEF RequestStillListed
<1>2. CASE HandleSignal
  <2>1. CASE onScanFinished(queue[1])
    <3>1. scanning /\ UNCHANGED stage
      BY <1>2, <2>1, Handling DEF onRestoreProgress, noteRestoreActivity, onRestoreJudged, onQuit, onScanFinished
    <3> QED BY <3>1 DEF RequestStillListed
  <2>2. CASE ~ onScanFinished(queue[1])
    <3>1. UNCHANGED << guard, disks, request >> /\ (stage' # "Finished" => stage # "Finished")
      BY <1>2, <2>2, Handling DEF onRestoreProgress, noteRestoreActivity, onRestoreJudged, onQuit, finish
    <3> QED BY <3>1 DEF RequestStillListed
  <2> QED BY <2>1, <2>2
<1>3. CASE ~ startRestore /\ ~ HandleSignal
  <2>1. UNCHANGED << guard, disks, request >> /\ (stage' # "Finished" => stage # "Finished")
    BY <1>3
    DEF Next, User, Threads, Select, Choose, Refresh, Dismiss, Confirm, cancelRestore,
        CloseRefused, DismissBox, Close, FallSilent, onStallTick, ScanReads, WorkerReports,
        WorkerTalks, WorkerWrites, WorkerEnds, ThreadEnds, Destroy, vars
  <2> QED BY <2>1 DEF RequestStillListed
<1> QED BY <1>1, <1>2, <1>3

\* The steps still queued are those from the shown one to the worker's: a report
\* adds the next, handling the first takes it away.
LEMMA FollowStep == ASSUME IInv, [Next]_vars PROVE StepsFollow'
<1>0. /\ queue \in Seq(Signals) /\ DOMAIN queue = 1 .. Len(queue) /\ Len(queue) \in Nat
      /\ restoreStep \in Nat /\ workerStep \in Nat /\ dialogStep \in Nat
  BY DEF IInv, TypeOK, Data
<1> USE DEF IInv, ThreadInv, DialogInv
<1>1. CASE Confirm
  <2>1. ~ running /\ ~ scanning
    BY <1>1 DEF Confirm
  <2>2. queue = << >>
    BY <2>1, NothingQueued
  <2>3. queue' = << >> /\ restoreStep' = 0 /\ workerStep' = 0 /\ dialogStep' = 0
    BY <1>1, <2>2 DEF Confirm
  <2>4. Pending' = {}
    BY <2>3 DEF Pending
  <2>5. (restoreStep + 1 .. workerStep)' = {}
    BY <2>3
  <2> QED BY <2>3, <2>4, <2>5 DEF StepsFollow
<1>2. CASE WorkerReports \/ WorkerTalks
  <2>1. /\ running /\ UNCHANGED << running, restoreStep, dialogStep, restores >>
    BY <1>2 DEF WorkerReports, WorkerTalks
  <2>2. PICK kind \in {"progress", "detail"} :
          /\ queue' = queue \o << Signal(kind) >>
          /\ workerStep' = IF kind = "progress" THEN workerStep + 1 ELSE workerStep
    BY <1>2 DEF WorkerReports, WorkerTalks, Post
  <2>3. << Signal(kind) >> \in Seq(Signals) /\ Len(<< Signal(kind) >>) = 1
    <3>1. restores \in Nat /\ workerStep' \in Nat
      BY <1>2, DataStep DEF TypeOK, Data
    <3> QED BY <3>1, SignalTyped
  <2> DEFINE last == Len(queue) + 1
  <2>4. /\ DOMAIN queue' = 1 .. last
        /\ \A i \in 1 .. Len(queue) : queue'[i] = queue[i]
        /\ queue'[last] = Signal(kind)
    BY <1>0, <2>2, <2>3, Posted
  <2>5. Signal(kind).kind = kind /\ Signal(kind).step = workerStep'
    BY DEF Signal
  <2>6. /\ dialogStep = restoreStep
        /\ {queue[i].step : i \in Pending} = restoreStep + 1 .. workerStep
        /\ \A i, j \in Pending : i < j => queue[i].step < queue[j].step
    BY <2>1 DEF StepsFollow
  <2>7. CASE kind = "detail"
    <3>1. Pending' = Pending
      BY <1>0, <2>4, <2>5, <2>7 DEF Pending
    <3>2. \A i \in Pending : queue'[i] = queue[i]
      BY <1>0, <2>4 DEF Pending
    <3>3. workerStep' = workerStep
      BY <2>2, <2>7
    <3> QED BY <2>1, <2>6, <3>1, <3>2, <3>3 DEF StepsFollow
  <2>8. CASE kind = "progress"
    <3>1. Pending' = Pending \cup {last} /\ last \notin Pending
      BY <1>0, <2>4, <2>5, <2>8 DEF Pending
    <3>2. /\ \A i \in Pending : queue'[i] = queue[i] /\ i < last
          /\ queue'[last].step = workerStep + 1
      BY <1>0, <2>2, <2>4, <2>5, <2>8 DEF Pending
    <3>3. workerStep' = workerStep + 1
      BY <2>2, <2>8
    <3>4. restoreStep <= workerStep
      BY <2>1 DEF WorkerInv
    <3>5. {queue'[i].step : i \in Pending'} = restoreStep + 1 .. workerStep + 1
      <4>1. {queue'[i].step : i \in Pending'} = {queue[i].step : i \in Pending} \cup {workerStep + 1}
        BY <3>1, <3>2
      <4>2. (restoreStep + 1 .. workerStep) \cup {workerStep + 1} = restoreStep + 1 .. workerStep + 1
        BY <1>0, <3>4
      <4> QED BY <2>6, <4>1, <4>2
    <3>6. ASSUME NEW i \in Pending', NEW j \in Pending', i < j
          PROVE  queue'[i].step < queue'[j].step
      <4>1. i \in Pending
        BY <1>0, <3>1, <3>2, <3>6 DEF Pending
      <4>2. queue[i].step \in restoreStep + 1 .. workerStep
        BY <2>6, <4>1
      <4> QED BY <1>0, <2>6, <3>1, <3>2, <3>6, <4>1, <4>2
    <3> QED BY <2>1, <2>6, <3>3, <3>5, <3>6 DEF StepsFollow
  <2> QED BY <2>7, <2>8
<1>3. CASE HandleSignal
  <2>1. /\ queue' = Tail(queue) /\ Len(queue) \in Nat \ {0}
        /\ DOMAIN queue' = 1 .. Len(queue) - 1
        /\ \A i \in 1 .. Len(queue) - 1 : queue'[i] = queue[i + 1]
    BY <1>0, <1>3, Handling, Handled
  <2>2. UNCHANGED workerStep
    BY <1>3 DEF HandleSignal
  <2>3. running =>
          /\ dialogStep = restoreStep
          /\ {queue[i].step : i \in Pending} = restoreStep + 1 .. workerStep
          /\ \A i, j \in Pending : i < j => queue[i].step < queue[j].step
    BY DEF StepsFollow
  <2>4. \A i \in Pending' : i \in Nat \ {0} /\ i + 1 \in Pending /\ queue'[i] = queue[i + 1]
    BY <1>0, <2>1 DEF Pending
  <2>5. \A i \in Pending : i \in Nat /\ (i = 1 \/ (i - 1 \in Pending' /\ queue'[i - 1] = queue[i]))
    BY <1>0, <2>1 DEF Pending
  <2>6. running => \A i \in Pending' : \A j \in Pending' : i < j => queue'[i].step < queue'[j].step
    BY <2>3, <2>4
  <2>7. CASE running /\ noteRestoreActivity(queue[1])
    <3>1. 1 \notin Pending /\ UNCHANGED << dialogStep, restoreStep >> /\ UNCHANGED running
      BY <2>7 DEF noteRestoreActivity, Pending
    <3>2. {queue'[i].step : i \in Pending'} = {queue[i].step : i \in Pending}
      BY <2>4, <2>5, <3>1
    <3> QED BY <2>2, <2>3, <2>6, <2>7, <3>1, <3>2 DEF StepsFollow
  <2>8. CASE running /\ onRestoreProgress(queue[1])
    <3>1. 1 \in Pending /\ queue[1].step = restoreStep + 1
      BY <1>3, <2>8, NextReport
    <3>2. /\ restoreStep' = restoreStep + 1 /\ dialogStep' = restoreStep + 1
          /\ UNCHANGED running
      BY <2>3, <2>8, <3>1 DEF onRestoreProgress, setProgress
    <3>3. {queue'[n].step : n \in Pending'} = restoreStep + 2 .. workerStep
      <4>1. ASSUME NEW n \in Pending' PROVE queue'[n].step \in restoreStep + 2 .. workerStep
        <5>1. n + 1 \in Pending /\ queue'[n] = queue[n + 1] /\ 1 < n + 1
          BY <2>4, <4>1
        <5>2. queue[n + 1].step \in restoreStep + 1 .. workerStep /\ queue[1].step < queue[n + 1].step
          BY <2>3, <2>8, <3>1, <5>1
        <5> QED BY <1>0, <3>1, <5>1, <5>2
      <4>2. ASSUME NEW m \in restoreStep + 2 .. workerStep
            PROVE  \E n \in Pending' : queue'[n].step = m
        <5>1. m \in restoreStep + 1 .. workerStep /\ m # restoreStep + 1
          BY <1>0
        <5>2. PICK n \in Pending : queue[n].step = m
          BY <2>3, <2>8, <5>1
        <5>3. n # 1
          BY <3>1, <5>1, <5>2
        <5> QED BY <2>5, <5>2, <5>3
      <4> QED BY <4>1, <4>2
    <3>4. (restoreStep + 1 .. workerStep)' = restoreStep + 2 .. workerStep
      BY <1>0, <2>2, <3>2
    <3> QED BY <2>6, <2>8, <3>2, <3>3, <3>4 DEF StepsFollow
  <2>9. CASE ~ running'
    BY <2>9 DEF StepsFollow
  <2> QED BY <1>3, <2>7, <2>8, <2>9, Handling
          DEF onRestoreJudged, onQuit, onScanFinished
<1>4. CASE ScanReads \/ WorkerEnds
  <2>1. running' => running /\ WorkerEnds
    BY <1>4 DEF ScanReads, WorkerEnds
  <2>2. CASE WorkerEnds /\ running
    <3>1. UNCHANGED << restoreStep, dialogStep, workerStep >> /\ UNCHANGED running
      BY <2>2 DEF WorkerEnds
    <3>2. restores \in Nat /\ workerStep' \in Nat
      BY <1>0, <3>1 DEF TypeOK, Data
    <3>3. /\ DOMAIN queue' = 1 .. Len(queue) + 2
          /\ \A i \in 1 .. Len(queue) : queue'[i] = queue[i]
          /\ queue'[Len(queue) + 1] = Signal("judged")
          /\ queue'[Len(queue) + 2] = Signal("quit")
      BY <1>0, <2>2, <3>2, VerdictPosted
    <3>4. Signal("judged").kind # "progress" /\ Signal("quit").kind # "progress"
      BY DEF Signal
    <3>5. ASSUME NEW i \in DOMAIN queue', i \notin DOMAIN queue PROVE queue'[i].kind # "progress"
      <4>1. i = Len(queue) + 1 \/ i = Len(queue) + 2
        BY <1>0, <3>3, <3>5
      <4> QED BY <3>3, <3>4, <4>1
    <3>6. Pending' = Pending /\ \A i \in Pending : queue'[i] = queue[i]
      BY <1>0, <3>3, <3>5 DEF Pending
    <3> QED BY <2>2, <3>1, <3>6 DEF StepsFollow
  <2> QED BY <1>4, <2>1, <2>2 DEF StepsFollow
<1>5. CASE startRestore \/ Destroy
  <2>1. ~ running'
    BY <1>5 DEF startRestore, RestoreEnabled, Destroy
  <2> QED BY <2>1 DEF StepsFollow
<1>6. CASE \/ Select \/ Choose \/ Refresh \/ Dismiss \/ cancelRestore \/ CloseRefused
           \/ DismissBox \/ Close \/ FallSilent \/ onStallTick \/ WorkerWrites \/ ThreadEnds
           \/ UNCHANGED vars
  <2>1. UNCHANGED << queue, restoreStep, dialogStep, workerStep >> /\ UNCHANGED running
    BY <1>6 DEF Select, Choose, Refresh, Dismiss, cancelRestore, CloseRefused,
                DismissBox, Close, FallSilent, onStallTick, WorkerWrites, ThreadEnds, vars
  <2>2. UNCHANGED Pending
    BY <2>1 DEF Pending
  <2> QED BY <2>1, <2>2 DEF StepsFollow
<1> QED BY <1>1, <1>2, <1>3, <1>4, <1>5, <1>6 DEF Next, User, Threads

\* A pending cancellation was asked for and keeps its sentence; a writing step shown
\* was announced, and nothing comforts after it.
LEMMA SentenceStep ==
  ASSUME IInv, StepsFollow', WorkerInv', DialogInv', [Next]_vars
  PROVE  CancelSentenceStays' /\ NoFalseComfort'
<1>0. restoreStep \in Nat /\ workerStep \in Nat /\ dialogStep \in Nat /\ cancelling \in BOOLEAN
  BY DEF IInv, TypeOK, Data, Flags
<1>1. (stage = "Running" /\ dialogStep >= FirstDestructive => announced)'
  <2> SUFFICES ASSUME running', dialogStep' >= FirstDestructive PROVE announced'
    BY DEF DialogInv
  <2>1. dialogStep' = restoreStep' /\ restoreStep' <= workerStep'
    BY DEF StepsFollow, WorkerInv
  <2>2. restoreStep' \in Nat /\ workerStep' \in Nat
    BY DataStep DEF Data
  <2> QED BY <2>1, <2>2 DEF WorkerInv
<1> DEFINE Kept ==
      /\ UNCHANGED << dialogStep, notice >> /\ UNCHANGED cancelling
      /\ stage' = "Running" => stage = "Running" /\ (asked => asked')
      Sentence ==
      stage = "Running" =>
        /\ cancelling => asked /\ (dialogStep < FirstDestructive => notice = "stopping")
        /\ dialogStep >= FirstDestructive => notice \notin {"unchanged", "keepConnected"}
<1>2. Sentence
  BY DEF IInv, CancelSentenceStays, NoFalseComfort
<1>3. ASSUME Kept PROVE Sentence'
  BY <1>2, <1>3
<1>4. CASE Confirm
  <2>1. ~ cancelling' /\ dialogStep' = 0
    BY <1>0, <1>4 DEF Confirm, IInv, DialogInv
  <2>2. ~ (dialogStep' >= FirstDestructive)
    BY <2>1
  <2> QED BY <1>1, <2>1, <2>2 DEF CancelSentenceStays, NoFalseComfort
<1>5. CASE cancelRestore
  <2>1. asked' /\ cancelling' /\ notice' = "stopping" /\ UNCHANGED << dialogStep, stage >>
    BY <1>5 DEF cancelRestore, setCancelling
  <2> QED BY <1>1, <2>1 DEF CancelSentenceStays, NoFalseComfort
<1>6. CASE onStallTick
  <2>1. /\ UNCHANGED << dialogStep, stage, asked >> /\ UNCHANGED cancelling
        /\ running
        /\ \E text \in {"respondingAgain", "noResponse",
                        IF restoreStep < FirstDestructive THEN "unchanged" ELSE "beingRewritten"} :
             setNotice(text)
    BY <1>6 DEF onStallTick, explainStall
  <2>2. dialogStep = restoreStep
    BY <2>1 DEF IInv, StepsFollow
  <2>3. dialogStep >= FirstDestructive => ~ (restoreStep < FirstDestructive)
    BY <1>0, <2>2
  <2>4. Sentence'
    BY <1>2, <2>1, <2>3 DEF setNotice
  <2> QED BY <1>1, <2>4 DEF CancelSentenceStays, NoFalseComfort
<1>7. CASE HandleSignal
  <2>1. CASE onRestoreProgress(queue[1])
    <3>1. UNCHANGED << stage, asked >> /\ UNCHANGED cancelling
      BY <1>7, <2>1 DEF HandleSignal, onRestoreProgress
    <3>2. \/ UNCHANGED << dialogStep, notice >>
          \/ /\ stage = "Running" /\ dialogStep' = dialogStep + 1
             /\ notice' = IF dialogStep' >= FirstDestructive THEN "rewriting"
                          ELSE IF cancelling THEN notice ELSE "keepConnected"
      BY <2>1 DEF onRestoreProgress, setProgress
    <3>3. Sentence'
      BY <1>0, <1>2, <3>1, <3>2
    <3> QED BY <1>1, <3>3 DEF CancelSentenceStays, NoFalseComfort
  <2>2. CASE onRestoreJudged(queue[1])
    <3>1. stage' # "Running"
      BY <2>2 DEF onRestoreJudged, finish
    <3> QED BY <3>1 DEF CancelSentenceStays, NoFalseComfort
  <2>3. CASE noteRestoreActivity(queue[1]) \/ onQuit(queue[1]) \/ onScanFinished(queue[1])
    <3>1. Kept
      BY <1>7, <2>3 DEF HandleSignal, noteRestoreActivity, onQuit, onScanFinished
    <3> QED BY <1>1, <1>3, <3>1 DEF CancelSentenceStays, NoFalseComfort
  <2> QED BY <1>7, <2>1, <2>2, <2>3, Handling
<1>8. CASE startRestore
  <2>1. stage' # "Running"
    BY <1>8 DEF startRestore
  <2> QED BY <2>1 DEF CancelSentenceStays, NoFalseComfort
<1>9. CASE \/ Select \/ Choose \/ Refresh \/ Dismiss \/ CloseRefused \/ DismissBox \/ Close
           \/ FallSilent \/ ScanReads \/ WorkerReports \/ WorkerTalks \/ WorkerWrites
           \/ WorkerEnds \/ ThreadEnds \/ Destroy \/ UNCHANGED vars
  <2>1. Kept
    BY <1>9 DEF Select, Choose, Refresh, Dismiss, CloseRefused, DismissBox, Close, FallSilent,
                ScanReads, WorkerReports, WorkerTalks, WorkerWrites, WorkerEnds, ThreadEnds,
                Destroy, vars
  <2> QED BY <1>1, <1>3, <2>1 DEF CancelSentenceStays, NoFalseComfort
<1> QED BY <1>4, <1>5, <1>6, <1>7, <1>8, <1>9 DEF Next, User, Threads

----------------------------------------------------------------------------
\* The constructed window meets the invariant ...
LEMMA InitInv == Init => IInv
<1> SUFFICES ASSUME Init PROVE IInv
  OBVIOUS
<1>1. Flags
  BY Zenon DEF Init, Flags
<1>2. Data
  BY DEF Init, Data
<1>3. Listed /\ queue \in Seq(Signals)
  <2>1. \A S : << >> \in Seq(S) /\ Len(<< >>) = 0
    BY EmptySeq
  <2>2. disks = << >> /\ row = 0 /\ queue = << >>
    BY DEF Init
  <2> QED BY <2>1, <2>2 DEF Listed
<1>4. QueueInv /\ ThreadInv /\ DialogInv
  BY DEF Init, QueueInv, ThreadInv, DialogInv
<1>5. WorkerInv /\ RequestStillListed /\ StepsFollow /\ CancelSentenceStays /\ NoFalseComfort
  BY DEF Init, WorkerInv, RequestStillListed, StepsFollow, CancelSentenceStays, NoFalseComfort
<1> QED BY <1>1, <1>2, <1>3, <1>4, <1>5 DEF IInv, TypeOK

\* ... and every step keeps it.
LEMMA NextInv == ASSUME IInv, [Next]_vars PROVE IInv'
<1>1. Flags' /\ Data' /\ Listed'
  BY FlagStep, DataStep, ListStep DEF IInv, TypeOK
<1>2. queue' \in Seq(Signals)
  BY <1>1, QueueTyped DEF Data
<1>3. ThreadInv' /\ DialogInv'
  BY ThreadStep
<1>4. QueueInv'
  BY <1>3, QueueStep
<1>5. WorkerInv' /\ RequestStillListed' /\ StepsFollow'
  BY WorkerStep, RequestStep, FollowStep
<1>6. CancelSentenceStays' /\ NoFalseComfort'
  BY <1>3, <1>5, SentenceStep
<1> QED BY <1>1, <1>2, <1>3, <1>4, <1>5, <1>6 DEF IInv, TypeOK

\* IInv is inductive.
LEMMA Inductive == Spec => []IInv
  BY InitInv, NextInv, PTL DEF Spec

----------------------------------------------------------------------------
\* The service has one user: while a restore runs no scan does, though beginRestore
\* never asks (m_scanning, startRestore).
THEOREM OneUserAlways == Spec => []OneUserOfTheService
<1>1. IInv => OneUserOfTheService
  BY DEF IInv, ThreadInv, DialogInv, OneUserOfTheService
<1> QED BY <1>1, Inductive, PTL

\* What the user confirms, and what is being restored, is on the list the window
\* shows, fits, and is not what that list's guard protects (startRestore).
THEOREM RequestAlwaysListed == Spec => []RequestStillListed
<1>1. IInv => RequestStillListed
  BY DEF IInv
<1> QED BY <1>1, Inductive, PTL

\* The window runs a restore exactly until it has handled its verdict, so it closes
\* neither under a restore nor before its outcome was shown (closeEvent).
THEOREM AlwaysClosedInPeace == Spec => []ClosedInPeace
<1>1. IInv => ClosedInPeace
  <2> SUFFICES ASSUME IInv PROVE ClosedInPeace
    OBVIOUS
  <2> USE DEF IInv, ThreadInv, DialogInv
  <2>1. running /\ thread # "restoring" => \E i \in DOMAIN queue : queue[i].kind = "judged"
    <3> SUFFICES ASSUME running, thread # "restoring"
                 PROVE  \E i \in DOMAIN queue : queue[i].kind = "judged"
      OBVIOUS
    <3>1. queue \in Seq(Signals) /\ Len(queue) \in Nat /\ DOMAIN queue = 1 .. Len(queue)
      BY DEF TypeOK
    <3>2. thread = "idle"
      OBVIOUS
    <3>3. Len(queue) >= 2 /\ queue[Len(queue) - 1].kind = "judged"
      BY <3>2 DEF QueueInv
    <3>4. Len(queue) - 1 \in DOMAIN queue
      BY <3>1, <3>3
    <3> QED BY <3>3, <3>4
  <2>2. RunningUntilTold
    BY <2>1 DEF RunningUntilTold, ThreadRunning
  <2> QED BY <2>2 DEF ClosedInPeace
<1> QED BY <1>1, Inductive, PTL

\* The outcome a dialog shows is that of its drive (RestoreDialog::finish).
THEOREM OutcomeAlwaysTrue == Spec => []OutcomeIsTrue
<1>1. IInv => OutcomeIsTrue
  BY DEF IInv, WorkerInv, OutcomeIsTrue
<1> QED BY <1>1, Inductive, PTL

\* The dialog of a running restore handles that restore's signals only, keeps up
\* with the worker, keeps the pending cancellation, and gives no comfort once a
\* writing step was shown (onRestoreProgress, setProgress, setNotice).
THEOREM DialogAlwaysFollows == Spec => []DialogFollows
<1>1. IInv => DialogFollows
  <2> SUFFICES ASSUME IInv PROVE DialogFollows
    OBVIOUS
  <2>1. NoStaleSignal
    BY DEF IInv, QueueInv, NoStaleSignal
  <2> QED BY <2>1 DEF IInv, DialogFollows
<1> QED BY <1>1, Inductive, PTL

\* What the window decides by moves from one step of the plan to the next, with what
\* the dialog shows; only the next restore takes it back (onRestoreProgress).
THEOREM StepsShownInOrder ==
  Spec => [][restoreStep' # restoreStep =>
               \/ /\ running /\ running'
                  /\ restoreStep' = restoreStep + 1 /\ dialogStep' = restoreStep'
               \/ ~ running /\ running' /\ restoreStep' = 0]_vars
<1> DEFINE Moves ==
      restoreStep' # restoreStep =>
        \/ running /\ running' /\ restoreStep' = restoreStep + 1 /\ dialogStep' = restoreStep'
        \/ ~ running /\ running' /\ restoreStep' = 0
<1>1. ASSUME IInv, Next PROVE Moves
  <2>1. CASE Confirm
    BY <2>1 DEF Confirm
  <2>2. CASE HandleSignal
    <3>1. CASE running /\ onRestoreProgress(queue[1])
      <4>1. queue[1].step = restoreStep + 1 /\ dialogStep = restoreStep /\ stage = "Running"
        BY <1>1, <2>2, <3>1, NextReport DEF IInv, DialogInv
      <4> QED BY <3>1, <4>1 DEF onRestoreProgress, setProgress
    <3>2. CASE ~ onRestoreProgress(queue[1])
      BY <1>1, <2>2, <3>2, Handling
      DEF noteRestoreActivity, onRestoreJudged, onQuit, onScanFinished
    <3> QED BY <1>1, <2>2, <3>1, <3>2, Handling DEF onRestoreJudged, onQuit, onScanFinished
  <2>3. CASE ~ Confirm /\ ~ HandleSignal
    BY <1>1, <2>3
    DEF Next, User, Threads, Select, Choose, Refresh, startRestore, Dismiss, cancelRestore,
        CloseRefused, DismissBox, Close, FallSilent, onStallTick, ScanReads, WorkerReports,
        WorkerTalks, WorkerWrites, WorkerEnds, ThreadEnds, Destroy
  <2> QED BY <2>1, <2>2, <2>3
<1>2. IInv /\ [Next]_vars => [Moves]_vars
  BY <1>1
<1> QED BY <1>2, Inductive, PTL DEF Spec
=============================================================================
