------------------------ MODULE WindowsRestoreSafety ------------------------
(***************************************************************************)
(* What the Windows restore must never do, must always do, and promises to *)
(* its callers.                                                            *)
(***************************************************************************)
EXTENDS WindowsRestore

Boundary == firstDestructiveStepOf(windowsRestorePlan)

Erased == { s \in Stick : content[s] # "old" }

\* "The tool never writes to a disk that has not passed all of the following"
\* (SECURITY.md): whatever is unplugged and plugged in meanwhile, a stick is
\* first written to only if the handle's questions fit it, and the one that
\* VerifyDisk has read only if no protected letter is on it.  The deletion goes
\* by number, so this rests on Windows not giving the number away while the
\* handle is open.
OnlySelectedErased ==
  [][\A s \in Stick : content[s] = "old" /\ content'[s] # "old" =>
       /\ LooksLike(AlikeRaw, adopted, s)
       /\ s = adopted => SafeTarget(s)]_vars

\* Only the stick whose handle was verified is formatted or partitioned, even
\* when the number goes to another one in between: "a live handle that still
\* reports the number is what proves no other disk has been given it"
\* (SECURITY.md; confirmStillSelected).
FormatsOnlyTheOpened ==
  \A s \in Stick : content[s] \notin {"old", "emptied"} => s = held

\* The letters to detach are listed, looked up and removed by number and name
\* (removeMountPointsForDisk), so that a stick that has been given both loses its
\* letters unasked.  That is the end of it: once another stick than the opened one
\* has lost a letter, nothing is deleted or written, on any stick, ever after.
WrongLettersEndIt ==
  (\E s \in Stick \ {held} : "freed" \in volumes[s]) => Erased = {} /\ job = "none"

\* "Cancelled" is said only of a restore that was asked to stop, of sticks
\* nothing was written to and with no job left that would: every failure after
\* the first write has to leave an error text.
CancelledMeansUntouched ==
  verdict = "cancelled" => cancel /\ Erased = {} /\ job = "none"

\* Before a stick changes, and before a job is queued that will change it, the
\* step from which the window forbids unplugging and cancelling has been shown.
AnnouncedBeforeWritten ==
  Erased # {} \/ job # "none" => shown >= Boundary

\* "Succeeded" is said of the opened stick, formatted, after every planned
\* step, and when no storage job is left that could undo it.
SucceededMeansRestored ==
  verdict = "succeeded" =>
    /\ LooksLike(AlikeRaw, adopted, held) /\ found = held
    /\ content[held] = "formatted"
    /\ job # "running"
    /\ done = Len(windowsRestorePlan) /\ shown = done

\* A restore ends, with a verdict: retries, lists and waits are all limited.
EndsWithVerdict == <>(verdict # "none")

----------------------------------------------------------------------------
\* The contract of a restore, of all the sticks it could reach.

Contract == INSTANCE RestoreContract WITH
  drive     <- IF Erased = {} THEN "untouched"
               ELSE IF \A s \in Erased : content[s] = "formatted" THEN "restored"
               ELSE "changed",
  announced <- shown >= Boundary,
  asked     <- cancel,
  verdict   <- verdict

\* WindowsDiskService::restore implements the contract of DiskService::restore;
\* a storage job that outlives it writes only after "failed".
ImplementsContract == Contract!Spec
=============================================================================
