-------------------------- MODULE RestoreContract --------------------------
(***************************************************************************)
(* What a restore promises, whatever platform performs it: the contract of *)
(* DiskService::restore and RestoreReporter (src/platform/disk_service.h). *)
(*                                                                         *)
(*   - the drive changes only after the user was told that it would;       *)
(*   - stopping is honoured only before that, and only when asked for;     *)
(*   - "cancelled" is said of an untouched drive, "succeeded" of a         *)
(*     restored one;                                                       *)
(*   - after either of those verdicts nothing is written any more.  A      *)
(*     failed restore does not promise that: it may leave a formatter      *)
(*     behind that nobody waits for.                                       *)
(*                                                                         *)
(* LinuxRestore implements it, and so does HelperSession, the restore as   *)
(* the unprivileged window sees it.                                        *)
(***************************************************************************)

VARIABLES
  drive,      \* what is on the selected drive
  announced,  \* the first step that changes the drive has been reported
  asked,      \* the user has asked to stop
  verdict     \* what the restore said of itself

contractVars == << drive, announced, asked, verdict >>

TypeOK ==
  /\ drive \in {"untouched", "changed", "restored"}
  /\ announced \in BOOLEAN
  /\ asked \in BOOLEAN
  /\ verdict \in {"none", "succeeded", "failed", "cancelled"}

Init ==
  /\ drive = "untouched"
  /\ announced = FALSE
  /\ asked = FALSE
  /\ verdict = "none"

Ask ==
  /\ asked' = TRUE
  /\ UNCHANGED << drive, announced, verdict >>

Announce ==
  /\ verdict = "none"
  /\ announced' = TRUE
  /\ UNCHANGED << drive, asked, verdict >>

\* One write to the drive: any of them may be the one that completes it.
Write ==
  /\ verdict \in {"none", "failed"}
  /\ announced
  /\ drive' \in {"changed", "restored"}
  /\ UNCHANGED << announced, asked, verdict >>

Succeed ==
  /\ verdict = "none"
  /\ drive = "restored"
  /\ verdict' = "succeeded"
  /\ UNCHANGED << drive, announced, asked >>

Cancel ==
  /\ verdict = "none"
  /\ asked
  /\ drive = "untouched"
  /\ ~ announced
  /\ verdict' = "cancelled"
  /\ UNCHANGED << drive, announced, asked >>

Fail ==
  /\ verdict = "none"
  /\ verdict' = "failed"
  /\ UNCHANGED << drive, announced, asked >>

Next == Ask \/ Announce \/ Write \/ Succeed \/ Cancel \/ Fail

Spec == Init /\ [][Next]_contractVars
=============================================================================
