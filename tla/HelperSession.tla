--------------------------- MODULE HelperSession ---------------------------
(***************************************************************************)
(* A restore as the unprivileged window runs it: runHelperRestore, which   *)
(* starts the root helper through pkexec, reads its lines from one pipe,   *)
(* writes the cancel token to another, and has only those lines and an     *)
(* exit status to judge the drive by (src/linux/helper_client.cpp,         *)
(* src/helper/main.cpp, judgeHelperRun, RestoreWorker::run).               *)
(*                                                                         *)
(* What the helper does to the drive is the contract of a restore, with    *)
(* the token as the request to stop.  What the window tells its user has   *)
(* to be that contract again, over the whole session.                      *)
(***************************************************************************)
EXTENDS Naturals, Sequences

\* The version lines the binary that pkexec runs may write, in order.  The
\* installed helper writes one good line.  Another build, put in its place after
\* the probe, writes a bad one, or several; a stranger writes none.
CONSTANT Builds

ASSUME BuildsAssumption == Builds \subseteq Seq({"good", "bad"})

VARIABLES
  client,             \* where runHelperRestore is
  sawVersion,         \* its locals
  versionAccepted,
  tokens,             \* cancel tokens written to the helper's input
  killRequested,
  location,           \* a result line was read
  boundaryShown,      \* the first writing step has reached the window
  cancel,             \* RestoreWorker's flag: the user has asked to stop
  verdict,            \* what the worker tells the window
  process,            \* pkexec, then the helper it executes
  exitCode,
  stage,              \* where the helper's main is
  announcing,         \* the version lines it has still to write
  pipe,               \* lines written and not yet read
  drive, announced,   \* what the helper's restore did: RestoreContract
  result

versionVars == << sawVersion, versionAccepted >>
readVars == << versionVars, location, boundaryShown >>
driveVars == << drive, announced, result >>
helperVars == << stage, announcing, driveVars >>
processVars == << process, exitCode >>
vars == << client, readVars, tokens, killRequested, cancel, verdict, processVars,
           helperVars, pipe >>

ExitCodes == {0, 1, 2, 3, 126, 127}

TypeOK ==
  /\ client \in {"Probe", "Loop", "Drain", "Over", "Dead"}
  /\ sawVersion \in BOOLEAN /\ versionAccepted \in BOOLEAN
  /\ tokens \in 0 .. 1
  /\ killRequested \in BOOLEAN
  /\ location \in BOOLEAN /\ boundaryShown \in BOOLEAN
  /\ cancel \in BOOLEAN
  /\ verdict \in {"none", "succeeded", "failed", "cancelled"}
  /\ process \in {"none", "asking", "helper", "exited", "crashed"}
  /\ exitCode \in ExitCodes
  /\ stage \in {"Announce", "Check", "Restore", "Report"}
  /\ announcing \in Seq({"good", "bad"})
  /\ pipe \in Seq({"good", "bad", "step", "result", "torn"})
  /\ drive \in {"untouched", "changed", "restored"}
  /\ announced \in BOOLEAN
  /\ result \in {"none", "succeeded", "failed", "cancelled"}

Init ==
  /\ client = "Probe"
  /\ sawVersion = FALSE /\ versionAccepted = FALSE
  /\ tokens = 0
  /\ killRequested = FALSE
  /\ location = FALSE /\ boundaryShown = FALSE
  /\ cancel = FALSE
  /\ verdict = "none"
  /\ process = "none"
  /\ exitCode = 0
  /\ stage = "Announce"
  /\ announcing \in Builds
  /\ pipe = << >>
  /\ drive = "untouched" /\ announced = FALSE /\ result = "none"

Ended == process \in {"exited", "crashed"}

----------------------------------------------------------------------------
\* The client.

\* The early returns, and the probe of the installed binary: any failure ends it.
Probe ==
  /\ client = "Probe"
  /\ \/ /\ client' = "Loop"
        /\ process' = "asking"
        /\ UNCHANGED verdict
     \/ /\ client' = "Over"
        /\ verdict' = "failed"
        /\ UNCHANGED process
  /\ UNCHANGED << readVars, tokens, killRequested, cancel, exitCode, helperVars, pipe >>

\* A second call writes nothing.
AskHelperToStop == tokens' = 1

AcceptsLastAnnouncement(line) == line = "good"

\* A second announcement is a malfunction, and must not undo a refusal.
Accepts(line) == ~ sawVersion /\ line = "good"

ReadVersion(line) ==
  /\ line \in {"good", "bad"}
  /\ versionAccepted' = Accepts(line)
  /\ sawVersion' = TRUE
  /\ IF Accepts(line) THEN UNCHANGED tokens ELSE AskHelperToStop
  /\ UNCHANGED << location, boundaryShown >>

ReadStep(line) ==
  /\ line = "step"
  /\ boundaryShown' = TRUE
  /\ UNCHANGED << versionVars, location, tokens >>

ReadResult(line) ==
  /\ line = "result"
  /\ location' = TRUE
  /\ UNCHANGED << versionVars, boundaryShown, tokens >>

\* The start of a line a dying helper did not finish, kept until the end:
\* unknown, a path cut short, or a version without the plan.
ReadTorn(line) ==
  /\ line = "torn"
  /\ client = "Drain"
  /\ \/ UNCHANGED << readVars, tokens >>
     \/ location' = TRUE /\ UNCHANGED << versionVars, boundaryShown, tokens >>
     \/ /\ versionAccepted' = FALSE
        /\ sawVersion' = TRUE
        /\ AskHelperToStop
        /\ UNCHANGED << location, boundaryShown >>

ReadLine ==
  /\ client \in {"Loop", "Drain"}
  /\ pipe # << >>
  /\ \/ ReadVersion(Head(pipe))
     \/ ReadStep(Head(pipe))
     \/ ReadResult(Head(pipe))
     \/ ReadTorn(Head(pipe))
  /\ pipe' = Tail(pipe)
  /\ UNCHANGED << client, killRequested, cancel, verdict, processVars, helperVars >>

KillNothing == UNCHANGED processVars

\* process.kill() reaches pkexec while it asks; a root helper is out of reach,
\* and the call fails without a word.
KillPkexec ==
  /\ process' = IF process = "asking" THEN "crashed" ELSE process
  /\ UNCHANGED exitCode

\* After each read, if the user has asked: the token, or before any version
\* line the kill, once.
CheckCancel ==
  /\ client = "Loop"
  /\ cancel
  /\ tokens = 0
  /\ \/ /\ sawVersion
        /\ AskHelperToStop
        /\ UNCHANGED << killRequested, processVars >>
     \/ /\ ~ sawVersion
        /\ ~ killRequested
        /\ killRequested' = TRUE
        /\ KillPkexec
        /\ UNCHANGED tokens
  /\ UNCHANGED << client, readVars, cancel, verdict, helperVars, pipe >>

\* The loop ends with the process; what it left in the pipe is still read.
EndLoop ==
  /\ client = "Loop"
  /\ Ended
  /\ client' = "Drain"
  /\ UNCHANGED << readVars, tokens, killRequested, cancel, verdict, processVars,
                  helperVars, pipe >>

judgeByKill ==
  IF killRequested /\ (process = "crashed" \/ exitCode = 126) THEN "cancelled"
  ELSE IF process = "crashed" \/ ~ versionAccepted THEN "failed"
  ELSE IF exitCode = 3 THEN "cancelled"
  ELSE IF exitCode = 0 /\ location THEN "succeeded" ELSE "failed"

\* The order of the questions is the source's; the texts of the failures are not.
judgeHelperRun ==
  IF killRequested /\ ~ sawVersion /\ (process = "crashed" \/ exitCode = 126)
    THEN "cancelled"
  ELSE IF process = "crashed" THEN "failed"
  ELSE IF sawVersion /\ ~ versionAccepted THEN "failed"
  ELSE IF ~ sawVersion THEN "failed"
  ELSE IF exitCode = 3 THEN "cancelled"
  ELSE IF exitCode # 0 THEN "failed"
  ELSE IF ~ location THEN "failed"
  ELSE "succeeded"

JudgeAtOnce == Ended

ReadEverything == pipe = << >>

\* The verdict, and RestoreWorker::run's reading of it: "no error" is a
\* cancellation only if the user asked for one.
Judge ==
  /\ client = "Drain"
  /\ ReadEverything
  /\ verdict' = IF judgeHelperRun = "cancelled" /\ ~ cancel THEN "failed"
                ELSE judgeHelperRun
  /\ client' = "Over"
  /\ UNCHANGED << readVars, tokens, killRequested, cancel, processVars, helperVars,
                  pipe >>

----------------------------------------------------------------------------
\* The user, and the end of the window.

RequestCancel ==
  /\ verdict = "none"
  /\ cancel' = TRUE
  /\ UNCHANGED << client, readVars, tokens, killRequested, verdict, processVars,
                  helperVars, pipe >>

\* The window crashes or is killed: nobody reads the pipe any more, and the
\* helper's input ends after what was written to it.
WindowDies ==
  /\ client \notin {"Over", "Dead"}
  /\ client' = "Dead"
  /\ pipe' = << >>
  /\ UNCHANGED << readVars, tokens, killRequested, cancel, verdict, processVars,
                  helperVars >>

Authenticate ==
  /\ process = "asking"
  /\ process' = "helper"
  /\ UNCHANGED << client, readVars, tokens, killRequested, cancel, verdict, exitCode,
                  helperVars, pipe >>

Exit(code) == process' = "exited" /\ exitCode' = code

\* The dialog was dismissed or refused (126), or pkexec could not run it (127).
NotAuthorised ==
  /\ process = "asking"
  /\ Exit(126) \/ Exit(127)
  /\ UNCHANGED << client, readVars, tokens, killRequested, cancel, verdict, helperVars,
                  pipe >>

----------------------------------------------------------------------------
\* The helper.  A line written to a window that is gone is lost; SIGPIPE is
\* caught.

Send(line) == pipe' = IF client = "Dead" THEN pipe ELSE Append(pipe, line)

clientVars == << client, readVars, tokens, killRequested, cancel, verdict >>

\* announceVersion, before any work.
Announce ==
  /\ process = "helper"
  /\ stage = "Announce"
  /\ announcing # << >>
  /\ Send(Head(announcing))
  /\ announcing' = Tail(announcing)
  /\ stage' = "Check"
  /\ UNCHANGED << clientVars, processVars, driveVars >>

\* A build that announces itself again.
AnnounceAgain ==
  /\ process = "helper"
  /\ stage \in {"Check", "Restore"}
  /\ announcing # << >>
  /\ Send(Head(announcing))
  /\ announcing' = Tail(announcing)
  /\ UNCHANGED << clientVars, processVars, stage, driveVars >>

\* A stranger in the helper's place that ends without a word.
EndSilently ==
  /\ process = "helper"
  /\ stage = "Announce"
  /\ announcing = << >>
  /\ \E code \in 0 .. 3 : Exit(code)
  /\ UNCHANGED << clientVars, helperVars, pipe >>

\* Root, arguments (2); the drive found again, safe and the same one (1).
Check ==
  /\ process = "helper"
  /\ stage = "Check"
  /\ \/ stage' = "Restore" /\ UNCHANGED processVars
     \/ (Exit(1) \/ Exit(2)) /\ UNCHANGED stage
  /\ UNCHANGED << clientVars, announcing, driveVars, pipe >>

CancelledByHangup == tokens > 0 \/ client = "Dead"

\* HelperReporter::cancelRequested: end of input is not a request.
CancelRequested == tokens > 0

Restore == INSTANCE RestoreContract WITH
  asked <- CancelRequested, verdict <- result

\* The first writing step is reported before anything is written.
AnnounceWriting ==
  /\ process = "helper"
  /\ stage = "Restore"
  /\ ~ announced
  /\ UNCHANGED << clientVars, processVars, stage, announcing >>
  /\ Restore!Announce
  /\ Send("step")

\* Also what a formatter still writes that a dead helper has left behind.
WriteDrive ==
  /\ UNCHANGED << clientVars, processVars, stage, announcing, pipe >>
  /\ Restore!Write

EndRestore ==
  /\ process = "helper"
  /\ stage = "Restore"
  /\ UNCHANGED << clientVars, processVars, announcing, pipe >>
  /\ Restore!Succeed \/ Restore!Cancel \/ Restore!Fail
  /\ stage' = "Report"

\* The end of main: the exit code, and the result line before it.
Report ==
  /\ process = "helper"
  /\ stage = "Report"
  /\ \/ result = "succeeded" /\ Send("result") /\ Exit(0)
     \/ result = "cancelled" /\ Exit(3) /\ UNCHANGED pipe
     \/ result = "failed" /\ Exit(1) /\ UNCHANGED pipe
  /\ UNCHANGED << clientVars, helperVars >>

\* Killed, or out of memory, perhaps in the middle of a line.
Crash ==
  /\ process = "helper"
  /\ process' = "crashed"
  /\ UNCHANGED pipe \/ Send("torn")
  /\ UNCHANGED << clientVars, exitCode, helperVars >>

----------------------------------------------------------------------------
Client == Probe \/ ReadLine \/ EndLoop \/ Judge

HelperEnds == Announce \/ EndSilently \/ Check \/ EndRestore \/ Report

Next ==
  \/ Client \/ CheckCancel
  \/ RequestCancel \/ WindowDies \/ Authenticate \/ NotAuthorised
  \/ HelperEnds \/ AnnounceAgain \/ AnnounceWriting \/ WriteDrive \/ Crash

Spec == Init /\ [][Next]_vars

\* The client polls every 200 ms, and the helper's restore ends by itself
\* (EndsWithVerdict of LinuxRestoreSafety).  The user owes nobody an answer.
FairSpec ==
  Spec /\ WF_vars(Client) /\ WF_vars(CheckCancel) /\ WF_vars(HelperEnds)
=============================================================================
