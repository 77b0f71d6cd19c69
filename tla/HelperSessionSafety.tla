------------------------ MODULE HelperSessionSafety ------------------------
(***************************************************************************)
(* What the window may tell its user after a session with the root helper. *)
(***************************************************************************)
EXTENDS HelperSession

\* The session as a whole keeps the contract of DiskService::restore, with the
\* user's wish in the place of the token: "cancelled" is told only to a user
\* who asked, of a drive the helper has not touched and will not touch;
\* "succeeded" of a restored one.  In between lie two pipes, a kill that may or
\* may not have reached pkexec, and exit codes of three programs.
Session == INSTANCE RestoreContract WITH asked <- cancel

ImplementsContract == Session!Spec

\* A helper refused once is never believed again, whatever it announces later,
\* and however it ends (the second-announcement rule in consume(), and
\* judgeHelperRun's "no line from a mismatched helper can be trusted").
RefusedNeverBelieved ==
  [][sawVersion /\ ~ versionAccepted
       => ~ versionAccepted' /\ verdict' \in {"none", "failed"}]_vars

\* The window does not pronounce on a changed drive before it has shown the step
\* that changes it: it reads the pipe to the end after the process is gone.
WindowLearnsOfWriting ==
  verdict # "none" /\ drive # "untouched" => boundaryShown

\* The helper stops early only on somebody's word, the user's or a client's that
\* refuses it: the end of its input, when the window dies, is not a word.
StopsOnlyWhenAsked ==
  result = "cancelled" => cancel \/ (sawVersion /\ ~ versionAccepted)

\* Whoever asks to stop gets a verdict, even with the authentication dialog
\* open and nobody there to answer it.
CancelEnds == cancel ~> (verdict # "none" \/ client = "Dead")

\* "Stop now, before the disk is touched" (helper_client.cpp, on a refused
\* version).  The code does not ensure it: the helper does not wait for an
\* answer to its announcement, and may be past its last look at the token.
RefusedHelperTouchesNothing ==
  sawVersion /\ ~ versionAccepted => drive = "untouched"
=============================================================================
