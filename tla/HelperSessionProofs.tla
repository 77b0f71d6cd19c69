------------------------ MODULE HelperSessionProofs ------------------------
(***************************************************************************)
(* The helper session keeps the contract of a restore, whatever binary the *)
(* helper has been replaced by, however its version lines, its death, the  *)
(* dialog and the user's request interleave.                               *)
(*                                                                         *)
(* The argument: no drive is written before a version line was, so as long *)
(* as the client has read to the end and seen none, a believed kill is     *)
(* right; and a result line or an exit code of 0 or 3 from an accepted     *)
(* helper says what its restore said.                                      *)
(***************************************************************************)
EXTENDS HelperSessionSafety, SequenceTheorems, TLAPS

InPipe(line) == \E i \in 1 .. Len(pipe) : pipe[i] = line

\* The client judges a process that has ended, once, after reading its pipe.
ClientInv ==
  /\ client = "Probe" => process = "none"
  /\ client = "Drain" => Ended
  /\ client = "Over" => (Ended \/ process = "none") /\ pipe = << >>
  /\ verdict # "none" => client = "Over"

\* The helper's restore runs after its announcement and its checks.
StageInv ==
  /\ process \in {"none", "asking"} => stage = "Announce"
  /\ stage \in {"Announce", "Check"} => drive = "untouched" /\ ~ announced /\ result = "none"
  /\ drive # "untouched" => announced
  /\ result = "cancelled" => drive = "untouched" /\ ~ announced
  /\ result = "succeeded" => drive = "restored"

\* Whoever has got past its announcement has been heard, or will be.
HeardInv ==
  /\ stage = "Announce" /\ process # "crashed" => pipe = << >> /\ ~ sawVersion
  /\ stage # "Announce" /\ client # "Dead" /\ ~ sawVersion
       => pipe # << >> /\ pipe[1] \in {"good", "bad"}

\* What the lines and the exit code are worth.
ReportInv ==
  /\ process # "crashed" => ~ InPipe("torn")
  /\ InPipe("result") => result = "succeeded"
  /\ location => result = "succeeded" \/ process = "crashed"
  /\ process = "exited" /\ exitCode = 3 => stage = "Announce" \/ result = "cancelled"

\* The first writing step is on its way to the window, or has arrived.
BoundaryInv ==
  announced /\ client # "Dead" => boundaryShown \/ InPipe("step")

\* Why a token was written, and why a helper stopped early.
TokenInv ==
  /\ tokens > 0 => cancel \/ (sawVersion /\ ~ versionAccepted)
  /\ result = "cancelled" => tokens > 0
  /\ versionAccepted => sawVersion

\* What a verdict was given on.
VerdictInv ==
  /\ verdict = "cancelled" => cancel /\ (stage = "Announce" \/ result = "cancelled")
  /\ verdict = "succeeded" => result = "succeeded"
  /\ verdict \in {"succeeded", "cancelled"} /\ sawVersion => versionAccepted

IInv ==
  /\ TypeOK /\ ClientInv /\ StageInv /\ HeardInv /\ ReportInv
  /\ BoundaryInv /\ TokenInv /\ VerdictInv

----------------------------------------------------------------------------
\* The pipe.

Line == {"good", "bad", "step", "result", "torn"}

\* Reading takes the first line and leaves the others.
LEMMA Reading ==
  ASSUME pipe \in Seq(Line), pipe # << >>, pipe' = Tail(pipe)
  PROVE  /\ pipe' \in Seq(Line)
         /\ Head(pipe) \in Line
         /\ Head(pipe) = pipe[1]
         /\ InPipe(Head(pipe))
         /\ \A l \in Line : InPipe(l)' => InPipe(l)
         /\ \A l \in Line : InPipe(l) => InPipe(l)' \/ l = Head(pipe)
<1>1. /\ Head(pipe) \in Line
      /\ Tail(pipe) \in Seq(Line)
      /\ Len(Tail(pipe)) = Len(pipe) - 1
      /\ \A i \in 1 .. Len(Tail(pipe)) : Tail(pipe)[i] = pipe[i + 1]
  BY HeadTailProperties
<1>2. Head(pipe) = pipe[1]
  OBVIOUS
<1>3. Len(pipe) \in Nat \ {0}
  BY EmptySeq
<1>4. InPipe(Head(pipe))
  BY <1>2, <1>3 DEF InPipe
<1>5. \A l \in Line : InPipe(l)' => InPipe(l)
  BY <1>1, <1>3 DEF InPipe
<1>6. ASSUME NEW l \in Line, InPipe(l), l # Head(pipe)
      PROVE  InPipe(l)'
  <2>1. PICK i \in 1 .. Len(pipe) : pipe[i] = l
    BY <1>6 DEF InPipe
  <2>2. i # 1
    BY <2>1, <1>2, <1>6
  <2>3. i - 1 \in 1 .. Len(Tail(pipe)) /\ (i - 1) + 1 = i
    BY <2>1, <2>2, <1>1, <1>3
  <2>4. Tail(pipe)[i - 1] = l
    BY <2>1, <2>3, <1>1
  <2>5. QED BY <2>3, <2>4 DEF InPipe
<1>7. QED BY <1>1, <1>2, <1>4, <1>5, <1>6

\* Sending adds a line behind the others, unless nobody reads.
LEMMA Sending ==
  ASSUME pipe \in Seq(Line), NEW line \in Line, Send(line)
  PROVE  /\ pipe' \in Seq(Line)
         /\ \A l \in Line : InPipe(l) => InPipe(l)'
         /\ \A l \in Line : InPipe(l)' => InPipe(l) \/ l = line
         /\ client # "Dead" => InPipe(line)'
         /\ pipe # << >> => pipe' # << >> /\ pipe'[1] = pipe[1]
         /\ client # "Dead" /\ pipe = << >> => pipe' # << >> /\ pipe'[1] = line
<1>1. CASE client = "Dead"
  BY <1>1 DEF Send, InPipe
<1>2. CASE client # "Dead"
  <2>1. pipe' = Append(pipe, line)
    BY <1>2 DEF Send
  <2>2. /\ Append(pipe, line) \in Seq(Line)
        /\ Append(pipe, line) # << >>
        /\ Len(Append(pipe, line)) = Len(pipe) + 1
        /\ \A i \in 1 .. Len(pipe) : Append(pipe, line)[i] = pipe[i]
        /\ Append(pipe, line)[Len(pipe) + 1] = line
    BY AppendProperties
  <2>3. Len(pipe) \in Nat
    BY LenProperties
  <2>4. pipe # << >> => Len(pipe) \in Nat \ {0}
    BY EmptySeq
  <2>5. pipe = << >> => Len(pipe) = 0
    OBVIOUS
  <2>6. \A l \in Line : InPipe(l) => InPipe(l)'
    BY <2>1, <2>2, <2>3 DEF InPipe
  <2>7. \A l \in Line : InPipe(l)' => InPipe(l) \/ l = line
    BY <2>1, <2>2, <2>3 DEF InPipe
  <2>8. InPipe(line)'
    BY <2>1, <2>2, <2>3 DEF InPipe
  <2>9. pipe # << >> => pipe'[1] = pipe[1]
    BY <2>1, <2>2, <2>4
  <2>10. pipe = << >> => pipe'[1] = line
    BY <2>1, <2>2, <2>5
  <2>11. QED BY <2>1, <2>2, <2>6, <2>7, <2>8, <2>9, <2>10
<1>3. QED BY <1>1, <1>2

\* What is not read or written stays.
LEMMA Unread == ASSUME UNCHANGED pipe PROVE \A l : InPipe(l)' <=> InPipe(l)
  BY DEF InPipe

\* Nothing is in an empty pipe.
LEMMA Emptied == ASSUME pipe' = << >> PROVE \A l : ~ InPipe(l)'
  BY DEF InPipe

----------------------------------------------------------------------------
\* The actions, by what they do to the pipe.

Sends == Announce \/ AnnounceAgain \/ AnnounceWriting \/ Report \/ Crash

Quiet == \/ Probe \/ EndLoop \/ Judge \/ CheckCancel \/ RequestCancel \/ Authenticate
         \/ NotAuthorised \/ EndSilently \/ Check \/ WriteDrive \/ EndRestore

USE DEF Ended, Line, Accepts, AskHelperToStop, KillPkexec, ReadEverything,
        judgeHelperRun, Exit, CancelRequested, ExitCodes,
        versionVars, readVars, driveVars, helperVars, processVars, clientVars, vars,
        Probe, EndLoop, Judge, CheckCancel, RequestCancel, WindowDies, Authenticate,
        NotAuthorised, EndSilently, Check, WriteDrive, EndRestore, AnnounceWriting,
        Announce, AnnounceAgain, Report, Crash, ReadLine, ReadVersion, ReadStep,
        ReadResult, ReadTorn,
        Restore!Announce, Restore!Write, Restore!Succeed, Restore!Cancel, Restore!Fail

\* Every step is one of these.
LEMMA NextCases ==
  ASSUME [Next]_vars
  PROVE  ReadLine \/ WindowDies \/ Sends \/ Quiet \/ UNCHANGED vars
  BY DEF Next, Client, HelperEnds, Sends, Quiet

\* Whatever leaves the pipe alone.
LEMMA QuietPipe == ASSUME Quiet \/ UNCHANGED vars PROVE UNCHANGED << pipe, sawVersion >>
  BY DEF Quiet

\* What each sender sends.
LEMMA Sent ==
  ASSUME Sends
  PROVE  \/ Announce /\ Send(Head(announcing))
         \/ AnnounceAgain /\ Send(Head(announcing))
         \/ AnnounceWriting /\ Send("step")
         \/ Report /\ (Send("result") \/ UNCHANGED pipe)
         \/ Crash /\ (Send("torn") \/ UNCHANGED pipe)
  BY DEF Sends

----------------------------------------------------------------------------
\* The invariant, part by part.

\* The two halves of the type invariant: SMT decides one, Zenon the other.
FlagTypes ==
  /\ sawVersion \in BOOLEAN /\ versionAccepted \in BOOLEAN
  /\ killRequested \in BOOLEAN
  /\ location \in BOOLEAN /\ boundaryShown \in BOOLEAN
  /\ cancel \in BOOLEAN
  /\ announced \in BOOLEAN

DataTypes ==
  /\ client \in {"Probe", "Loop", "Drain", "Over", "Dead"}
  /\ tokens \in 0 .. 1
  /\ verdict \in {"none", "succeeded", "failed", "cancelled"}
  /\ process \in {"none", "asking", "helper", "exited", "crashed"}
  /\ exitCode \in ExitCodes
  /\ stage \in {"Announce", "Check", "Restore", "Report"}
  /\ announcing \in Seq({"good", "bad"})
  /\ pipe \in Seq(Line)
  /\ drive \in {"untouched", "changed", "restored"}
  /\ result \in {"none", "succeeded", "failed", "cancelled"}

\* They make up the type invariant.
LEMMA TypeParts == TypeOK <=> FlagTypes /\ DataTypes
  BY ZenonT(60) DEF TypeOK, FlagTypes, DataTypes

\* A session starts with a drive nobody has touched and an empty pipe.
LEMMA InitInv == ASSUME Init PROVE IInv
<1>1. DataTypes
  BY BuildsAssumption, EmptySeq DEF Init, DataTypes
<1>2. FlagTypes
  BY Zenon DEF Init, FlagTypes
<1>3. \A l : ~ InPipe(l)
  BY DEF Init, InPipe
<1>4. QED
  BY <1>1, <1>2, <1>3, TypeParts
     DEF Init, IInv, ClientInv, StageInv, HeardInv, ReportInv, BoundaryInv, TokenInv,
         VerdictInv

\* No step assigns a flag anything but a truth value.
LEMMA FlagStep == ASSUME FlagTypes, [Next]_vars PROVE FlagTypes'
<1> USE DEF FlagTypes
<1>1. CASE ReadLine
  <2>1. (~ sawVersion /\ Head(pipe) = "good") \in BOOLEAN
    OBVIOUS
  <2>2. QED BY <1>1, <2>1, Zenon
<1>2. CASE WindowDies
  BY <1>2, Zenon
<1>3. CASE Sends
  BY <1>3, Zenon DEF Sends
<1>4. CASE Quiet
  <2>1. CASE Probe \/ EndLoop \/ Judge \/ CheckCancel \/ RequestCancel
    BY <2>1, Zenon
  <2>2. CASE Authenticate \/ NotAuthorised \/ EndSilently \/ Check \/ WriteDrive
    BY <2>2, Zenon
  <2>3. CASE EndRestore
    BY <2>3, Zenon
  <2>4. QED BY <1>4, <2>1, <2>2, <2>3, Zenon DEF Quiet
<1>5. CASE UNCHANGED vars
  BY <1>5, Zenon
<1>6. QED BY <1>1, <1>2, <1>3, <1>4, <1>5, NextCases

\* Reading and sending keep the types of what is read and sent.
LEMMA DataStep == ASSUME DataTypes, [Next]_vars PROVE DataTypes'
<1> USE DEF DataTypes
<1>1. CASE ReadLine
  <2>1. pipe' \in Seq(Line)
    BY <1>1, Reading
  <2>2. QED BY <1>1, <2>1
<1>2. CASE WindowDies
  BY <1>2, EmptySeq
<1>3. CASE Sends
  <2>1. CASE Announce \/ AnnounceAgain
    <3>1. Head(announcing) \in {"good", "bad"} /\ Tail(announcing) \in Seq({"good", "bad"})
      BY <2>1, HeadTailProperties
    <3>2. pipe' \in Seq(Line)
      BY <2>1, <3>1, Sending
    <3>3. announcing' \in Seq({"good", "bad"}) /\ stage' \in {"Check", "Restore"}
      BY <2>1, <3>1
    <3>4. UNCHANGED << clientVars, processVars, driveVars >>
      BY <2>1
    <3>5. QED BY <3>2, <3>3, <3>4
  <2>2. CASE AnnounceWriting \/ Report \/ Crash
    <3>1. pipe' \in Seq(Line)
      BY <2>2, Sending
    <3>2. QED BY <2>2, <3>1
  <2>3. QED BY <1>3, <2>1, <2>2 DEF Sends
<1>4. CASE Quiet \/ UNCHANGED vars
  BY <1>4 DEF Quiet
<1>5. QED BY <1>1, <1>2, <1>3, <1>4, NextCases

\* The client.
LEMMA ClientStep == ASSUME IInv, [Next]_vars PROVE ClientInv'
<1> USE DEF IInv, ClientInv, TypeOK
<1>1. CASE ReadLine \/ WindowDies
  BY <1>1
<1>2. CASE Sends
  BY <1>2 DEF Sends, Send
<1>3. CASE Quiet \/ UNCHANGED vars
  BY <1>3 DEF Quiet, StageInv, HeardInv
<1>4. QED BY <1>1, <1>2, <1>3, NextCases

\* The helper's restore.
LEMMA StageStep == ASSUME IInv, [Next]_vars PROVE StageInv'
<1> USE DEF IInv, StageInv, TypeOK
<1>1. CASE ReadLine \/ WindowDies
  BY <1>1
<1>2. CASE Sends
  BY <1>2 DEF Sends
<1>3. CASE Quiet \/ UNCHANGED vars
  BY <1>3 DEF Quiet, ClientInv
<1>4. QED BY <1>1, <1>2, <1>3, NextCases

\* The announcement is heard before anything that follows it.
LEMMA HeardStep == ASSUME IInv, [Next]_vars PROVE HeardInv'
<1>1. TypeOK /\ pipe \in Seq(Line) /\ announcing \in Seq({"good", "bad"})
  BY DEF IInv, TypeOK
<1> USE DEF HeardInv
<1>2. CASE ReadLine
  BY <1>1, <1>2, Reading DEF IInv
<1>3. CASE WindowDies
  BY <1>3 DEF IInv
<1>4. CASE Sends
  <2>1. CASE Announce \/ AnnounceAgain
    <3>1. Head(announcing) \in {"good", "bad"}
      BY <1>1, <2>1, HeadTailProperties
    <3>2. QED BY <1>1, <2>1, <3>1, Sending DEF IInv
  <2>2. CASE AnnounceWriting \/ Report
    BY <1>1, <2>2, Sending DEF IInv
  <2>3. CASE Crash
    BY <1>1, <2>3, Sending DEF IInv
  <2>4. QED BY <1>4, <2>1, <2>2, <2>3 DEF Sends
<1>5. CASE Quiet \/ UNCHANGED vars
  <2>1. UNCHANGED << pipe, sawVersion >>
    BY <1>5, QuietPipe
  <2>2. stage' = "Announce" => stage = "Announce"
    BY <1>5 DEF Quiet
  <2>3. stage' # "Announce" => stage # "Announce"
    BY <1>5 DEF Quiet
  <2>4. process = "crashed" => process' = "crashed"
    BY <1>5 DEF Quiet, IInv, ClientInv
  <2>5. client = "Dead" <=> client' = "Dead"
    BY <1>5 DEF Quiet
  <2>6. QED BY <2>1, <2>2, <2>3, <2>4, <2>5 DEF IInv
<1>6. QED BY <1>2, <1>3, <1>4, <1>5, NextCases

\* Lines and exit codes say what the restore said.
LEMMA ReportStep == ASSUME IInv, [Next]_vars PROVE ReportInv'
<1>1. TypeOK /\ pipe \in Seq(Line) /\ announcing \in Seq({"good", "bad"})
  BY DEF IInv, TypeOK
<1> USE DEF ReportInv
<1>2. CASE ReadLine
  BY <1>1, <1>2, Reading DEF IInv
<1>3. CASE WindowDies
  BY <1>3, Emptied DEF IInv
<1>4. CASE Sends
  <2>1. CASE Announce \/ AnnounceAgain
    <3>1. Head(announcing) \in {"good", "bad"}
      BY <1>1, <2>1, HeadTailProperties
    <3>2. QED BY <1>1, <2>1, <3>1, Sending DEF IInv
  <2>2. CASE AnnounceWriting
    BY <1>1, <2>2, Sending DEF IInv
  <2>3. CASE Report
    BY <1>1, <2>3, Sending, Unread DEF IInv
  <2>4. CASE Crash
    BY <1>1, <2>4, Sending, Unread DEF IInv
  <2>5. QED BY <1>4, <2>1, <2>2, <2>3, <2>4 DEF Sends
<1>5. CASE Quiet \/ UNCHANGED vars
  <2>1. \A l : InPipe(l)' <=> InPipe(l)
    BY <1>5, QuietPipe, Unread
  <2>2. process = "crashed" => process' = "crashed"
    BY <1>5 DEF Quiet, IInv, ClientInv
  <2>3. result = "succeeded" => result' = "succeeded"
    BY <1>5 DEF Quiet
  <2>4. UNCHANGED location
    BY <1>5 DEF Quiet
  <2>5. process' = "exited" /\ exitCode' = 3 => stage' = "Announce" \/ result' = "cancelled"
    BY <1>5 DEF Quiet, IInv, StageInv
  <2>6. QED BY <2>1, <2>2, <2>3, <2>4, <2>5 DEF IInv
<1>6. QED BY <1>2, <1>3, <1>4, <1>5, NextCases

\* The boundary step is not lost on the way.
LEMMA BoundaryStep == ASSUME IInv, [Next]_vars PROVE BoundaryInv'
<1>1. TypeOK /\ pipe \in Seq(Line) /\ announcing \in Seq({"good", "bad"})
  BY DEF IInv, TypeOK
<1> USE DEF BoundaryInv
<1>2. CASE ReadLine
  BY <1>1, <1>2, Reading DEF IInv
<1>3. CASE WindowDies
  BY <1>3
<1>4. CASE Sends
  <2>1. CASE Announce \/ AnnounceAgain
    <3>1. Head(announcing) \in {"good", "bad"}
      BY <1>1, <2>1, HeadTailProperties
    <3>2. QED BY <1>1, <2>1, <3>1, Sending DEF IInv
  <2>2. CASE AnnounceWriting
    BY <1>1, <2>2, Sending DEF IInv
  <2>3. CASE Report \/ Crash
    BY <1>1, <2>3, Sending, Unread DEF IInv
  <2>4. QED BY <1>4, <2>1, <2>2, <2>3 DEF Sends
<1>5. CASE Quiet \/ UNCHANGED vars
  <2>1. \A l : InPipe(l)' <=> InPipe(l)
    BY <1>5, QuietPipe, Unread
  <2>2. QED BY <1>5, <2>1 DEF Quiet, IInv
<1>6. QED BY <1>2, <1>3, <1>4, <1>5, NextCases

\* Tokens have their reasons.
LEMMA TokenStep == ASSUME IInv, [Next]_vars PROVE TokenInv'
<1> USE DEF TokenInv
<1>1. TypeOK
  BY DEF IInv
<1>2. CASE ReadLine
  BY <1>1, <1>2 DEF IInv, TypeOK
<1>3. CASE WindowDies
  BY <1>3 DEF IInv
<1>4. CASE Sends
  BY <1>4 DEF Sends, IInv
<1>5. CASE Quiet \/ UNCHANGED vars
  BY <1>1, <1>5 DEF Quiet, IInv, TypeOK
<1>6. QED BY <1>2, <1>3, <1>4, <1>5, NextCases

\* A verdict is right when it is given, and stays right.
LEMMA VerdictStep == ASSUME IInv, [Next]_vars PROVE VerdictInv'
<1> USE DEF VerdictInv
<1>1. CASE Judge
  <2>1. pipe = << >>
    BY <1>1
  <2>2. ~ sawVersion => stage = "Announce"
    BY <1>1, <2>1 DEF IInv, HeardInv
  <2>3. process = "exited" /\ exitCode = 3 => stage = "Announce" \/ result = "cancelled"
    BY DEF IInv, ReportInv
  <2>4. location /\ process # "crashed" => result = "succeeded"
    BY DEF IInv, ReportInv
  <2>5. process \in {"exited", "crashed"}
    BY <1>1 DEF IInv, ClientInv
  <2>6. QED BY <1>1, <2>2, <2>3, <2>4, <2>5
<1>2. CASE ~ Judge
  <2>1. CASE verdict' = "none"
    BY <2>1
  <2>2. CASE verdict' = "failed"
    BY <2>2
  <2>3. CASE UNCHANGED verdict /\ verdict # "none"
    <3>1. client = "Over" /\ process \in {"exited", "crashed", "none"}
      BY <2>3 DEF IInv, ClientInv
    <3>2. UNCHANGED << stage, cancel >> \/ RequestCancel
      BY <3>1, NextCases DEF Sends, Quiet
    <3>3. result' = result
      BY <3>1, NextCases DEF Sends, Quiet
    <3>4. UNCHANGED << sawVersion, versionAccepted >>
      BY <3>1, NextCases DEF Sends, Quiet
    <3>5. QED BY <2>3, <3>2, <3>3, <3>4 DEF IInv
  <2>4. QED BY <1>2, <2>1, <2>2, <2>3, NextCases DEF Sends, Quiet
<1>3. QED BY <1>1, <1>2

\* All parts together.
THEOREM Inductive == Spec => []IInv
<1>1. Init => IInv
  BY InitInv
<1>2. IInv /\ [Next]_vars => IInv'
  <2> SUFFICES ASSUME IInv, [Next]_vars PROVE IInv'
    OBVIOUS
  <2>1. TypeOK'
    <3>1. FlagTypes' /\ DataTypes'
      BY TypeParts, FlagStep, DataStep DEF IInv
    <3>2. QED BY <3>1, ZenonT(60) DEF TypeOK, FlagTypes, DataTypes
  <2>2. QED BY <2>1, ClientStep, StageStep, HeardStep, ReportStep, BoundaryStep,
               TokenStep, VerdictStep DEF IInv
<1>3. QED BY <1>1, <1>2, PTL DEF Spec

----------------------------------------------------------------------------
\* What follows.

\* Type correctness, for any set of builds.
THEOREM TypeCorrect == Spec => []TypeOK
  BY Inductive, PTL DEF IInv

\* The window has shown the writing step before it pronounces on the drive.
THEOREM WindowLearns == Spec => []WindowLearnsOfWriting
<1>1. IInv => WindowLearnsOfWriting
  <2> SUFFICES ASSUME IInv, verdict # "none", drive # "untouched"
               PROVE  boundaryShown
    BY DEF WindowLearnsOfWriting
  <2>1. client = "Over" /\ pipe = << >>
    BY DEF IInv, ClientInv
  <2>2. ~ InPipe("step")
    BY <2>1 DEF InPipe
  <2>3. announced
    BY DEF IInv, StageInv
  <2>4. QED BY <2>1, <2>2, <2>3 DEF IInv, BoundaryInv
<1>2. QED BY <1>1, Inductive, PTL

\* No helper stops because its window died.
THEOREM StopsWhenAsked == Spec => []StopsOnlyWhenAsked
<1>1. IInv => StopsOnlyWhenAsked
  BY DEF IInv, TokenInv, StopsOnlyWhenAsked
<1>2. QED BY <1>1, Inductive, PTL

\* A refusal is final.
THEOREM RefusalIsFinal == Spec => RefusedNeverBelieved
<1> DEFINE Step == sawVersion /\ ~ versionAccepted
                     => ~ versionAccepted' /\ verdict' \in {"none", "failed"}
<1>1. IInv /\ [Next]_vars => Step
  <2> SUFFICES ASSUME IInv, [Next]_vars, sawVersion, ~ versionAccepted
               PROVE  ~ versionAccepted' /\ verdict' \in {"none", "failed"}
    OBVIOUS
  <2>1. ~ versionAccepted'
    BY NextCases DEF Sends, Quiet
  <2>2. verdict \in {"none", "failed"}
    BY DEF IInv, TypeOK, VerdictInv
  <2>3. CASE Judge
    BY <2>1, <2>3
  <2>4. CASE ~ Judge
    BY <2>1, <2>2, <2>4, NextCases DEF Sends, Quiet
  <2>5. QED BY <2>3, <2>4
<1>2. QED BY <1>1, Inductive, PTL DEF RefusedNeverBelieved, Spec

\* The session implements the contract: what the window is told is true.
THEOREM Implements == Spec => ImplementsContract
<1> USE DEF Session!Init, Session!Next, Session!contractVars, Session!Ask,
            Session!Announce, Session!Write, Session!Succeed, Session!Cancel,
            Session!Fail
<1>1. Init => Session!Init
  BY DEF Init
<1>2. IInv /\ IInv' /\ [Next]_vars => [Session!Next]_(Session!contractVars)
  <2> SUFFICES ASSUME IInv, IInv', [Next]_vars
               PROVE  Session!Next \/ UNCHANGED << drive, announced, cancel, verdict >>
    OBVIOUS
  <2>1. CASE Judge
    BY <2>1 DEF IInv, ClientInv, StageInv, VerdictInv
  <2>2. CASE AnnounceWriting
    BY <2>2 DEF IInv, ClientInv
  <2>3. CASE WriteDrive
    BY <2>3 DEF IInv, ClientInv, StageInv, VerdictInv, TypeOK
  <2>4. CASE RequestCancel \/ Probe
    BY <2>4 DEF IInv, ClientInv
  <2>5. CASE EndRestore
    BY <2>5
  <2>6. CASE \/ ReadLine \/ WindowDies \/ Announce \/ AnnounceAgain \/ Report \/ Crash
             \/ EndLoop \/ CheckCancel \/ Authenticate \/ NotAuthorised \/ EndSilently
             \/ Check \/ UNCHANGED vars
    BY <2>6
  <2>7. QED
    <3> HIDE DEF Probe, EndLoop, Judge, CheckCancel, RequestCancel, WindowDies,
                Authenticate, NotAuthorised, EndSilently, Check, WriteDrive, EndRestore,
                ReadLine, Announce, AnnounceAgain, AnnounceWriting, Report, Crash,
                vars, Session!Next
    <3> QED BY <2>1, <2>2, <2>3, <2>4, <2>5, <2>6, NextCases, Zenon DEF Sends, Quiet
<1> HIDE DEF Session!Init, Session!Next, Session!contractVars, Session!Ask,
            Session!Announce, Session!Write, Session!Succeed, Session!Cancel,
            Session!Fail
<1>3. QED BY <1>1, <1>2, Inductive, PTL DEF Spec, ImplementsContract, Session!Spec
=============================================================================
