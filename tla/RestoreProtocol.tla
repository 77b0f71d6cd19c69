--------------------------- MODULE RestoreProtocol ---------------------------
(***************************************************************************)
(* The text between the root helper and the window: how messages become    *)
(* lines, lines a stream of characters in a pipe, and whatever arrives at  *)
(* a time becomes lines and messages again; and the one word that goes the *)
(* other way (src/core/restore_protocol.cpp, src/helper/main.cpp,          *)
(* src/linux/helper_client.cpp).                                           *)
(*                                                                         *)
(* What is said contains the output of formatters and paths chosen by      *)
(* others.  None of it may be read as a message that was never sent.       *)
(*                                                                         *)
(* A character is a string; a keyword, a number and the description of a   *)
(* plan count as one.  HelperSession goes on from here, with lines that    *)
(* are whole or torn.                                                      *)
(***************************************************************************)
EXTENDS Naturals, SequencesExt

CONSTANTS
  Texts,                    \* what the restore may have to say
  Locations,                \* where a volume may end up
  Numbers,                  \* of the steps, in order
  MaxProtocolTextLength,
  MaxBufferedBytes,
  PipeCapacity,
  RequestRead,              \* characters that cancelRequested reads at a time
  MaxReports                \* steps and details of one restore

Blank == "blank"
NewLine == "newline"
HighHalf == "high"          \* the halves of a character beyond the first plane
LowHalf == "low"
Replacement == "?"
Separators == {Blank, NewLine}

Token == << "can", "cel" >>

\* The longest line is a step's.
ASSUME ProtocolAssumption ==
  /\ MaxProtocolTextLength \in Nat /\ MaxBufferedBytes \in Nat
  /\ MaxProtocolTextLength + 6 <= MaxBufferedBytes
  /\ PipeCapacity \in Nat \ {0}
  /\ RequestRead \in Nat \ {0}
  /\ MaxReports \in Nat

VARIABLES
  \* The helper.
  stage,                    \* where its main is
  exitCode,
  step,                     \* m_step
  reports,                  \* steps and details so far
  outgoing,                 \* written, and not yet in the pipe
  request,                  \* m_request
  cancelled,                \* m_cancelled
  said,                     \* the messages, as they should arrive
  \* The pipes.
  pipe,
  input,
  \* The client.
  client,
  buffer,
  asked,                    \* cancelTokenWritten
  heard,                    \* what consume has made of the lines
  verdict

helperVars == << stage, exitCode, step, reports, outgoing, said >>
requestVars == << request, cancelled >>
clientVars == << client, buffer, asked, heard, verdict >>
vars == << helperVars, requestVars, pipe, input, clientVars >>

Message(kind, number, text) == [kind |-> kind, number |-> number, text |-> text]

\* What the client makes of the messages.
Known(messages, accepted, displayFailure, location) ==
  [messages |-> messages, accepted |-> accepted,
   displayFailure |-> displayFailure, location |-> location]

Init ==
  /\ stage = "Announce" /\ exitCode = 0
  /\ step = 0 /\ reports = 0
  /\ outgoing = << >> /\ said = << >>
  /\ request = << >> /\ cancelled = FALSE
  /\ pipe = << >> /\ input = << >>
  /\ client = "Loop" /\ buffer = << >> /\ asked = FALSE
  /\ heard = Known(<< >>, FALSE, << >>, << >>)
  /\ verdict = "none"

----------------------------------------------------------------------------
\* From a message to characters.

\* What sanitizeProtocolText's loop keeps: the text so far, whether a blank is due,
\* and whether there is no room any more.
Kept(text, pendingSpace, full) == [text |-> text, pendingSpace |-> pendingSpace, full |-> full]

\* One character in this loop.
Taken(state, character) ==
  LET space == IF state.pendingSpace THEN << Blank >> ELSE << >>
      longer == state.text \o space \o << character >>
  IN  CASE state.full -> state
        [] ~ state.full /\ character \in Separators ->
             Kept(state.text, state.text # << >>, FALSE)
        [] OTHER ->
             IF Len(longer) > MaxProtocolTextLength
             THEN Kept(state.text, state.pendingSpace, TRUE)
             ELSE Kept(longer, FALSE, FALSE)

Loop(text) ==
  LET after[i \in 0 .. Len(text)] ==
        IF i = 0 THEN Kept(<< >>, FALSE, FALSE)
        ELSE LET before == after[i - 1] IN Taken(before, text[i])
  IN  after[Len(text)].text

ChopLast(text, character) ==
  IF text # << >> /\ Last(text) = character THEN Front(text) ELSE text

sanitizeKeepingHalves(text) == Loop(text)

sanitizeProtocolText(text) == ChopLast(ChopLast(Loop(text), HighHalf), Blank)

encodeVersionLine == << "version", Blank, "5", Blank, "plan" >>

encodeStepLine(number, text) ==
  << "step", Blank, number, "/", Last(Numbers), Blank >> \o sanitizeProtocolText(text)

encodeDetailLine(text) == << "detail", Blank >> \o sanitizeProtocolText(text)

encodeFailureLine(text) == << "failure", Blank >> \o sanitizeProtocolText(text)

encodeResultLine(location) == << "result", Blank >> \o sanitizeProtocolText(location)

\* No half of a character without the other.
Paired(text) ==
  \A i \in DOMAIN text :
    /\ text[i] = HighHalf => i < Len(text) /\ text[i + 1] = LowHalf
    /\ text[i] = LowHalf => i > 1 /\ text[i - 1] = HighHalf

\* Half a character that lost the other half is no character in UTF-8.
Coded(text) ==
  [i \in DOMAIN text |->
     IF \/ text[i] = HighHalf /\ ~ (i < Len(text) /\ text[i + 1] = LowHalf)
        \/ text[i] = LowHalf /\ ~ (i > 1 /\ text[i - 1] = HighHalf)
     THEN Replacement ELSE text[i]]

CutAt(character, before) ==
  IF character = NewLine
  THEN [lines |-> Append(before.lines, before.rest), rest |-> << >>]
  ELSE [lines |-> before.lines, rest |-> Append(before.rest, character)]

\* The parts of a text that end in a line break, without it, and what is left,
\* up to each of its characters.
Cut(text) ==
  LET upTo[i \in 0 .. Len(text)] ==
        IF i = 0 THEN [lines |-> << >>, rest |-> << >>]
        ELSE LET before == upTo[i - 1] IN CutAt(text[i], before)
  IN  upTo

LinesOf(text) == Cut(text)[Len(text)].lines

Unfinished(text) == Cut(text)[Len(text)].rest

\* Those that are not empty.
NonEmpty(texts) ==
  LET upTo[k \in 0 .. Len(texts)] ==
        IF k = 0 THEN << >>
        ELSE IF texts[k] = << >> THEN upTo[k - 1] ELSE Append(upTo[k - 1], texts[k])
  IN  upTo[Len(texts)]

----------------------------------------------------------------------------
\* What should arrive: the words of a text with one blank between them, as many
\* characters as fit, and no half of one.

Extended(words, text, i) ==
  IF text[i] \in Separators THEN words
  ELSE IF words # << >> /\ text[i - 1] \in Separators THEN words \o << Blank, text[i] >>
  ELSE Append(words, text[i])

\* The words of a text up to each of its characters.
Words(text) ==
  LET upTo[i \in 0 .. Len(text)] ==
        IF i = 0 THEN << >> ELSE Extended(upTo[i - 1], text, i)
  IN  upTo

TextMeant(text) ==
  LET words == Words(text)
      fitting == { i \in 0 .. Len(text) :
                     /\ Len(words[i]) <= MaxProtocolTextLength
                     /\ words[i] # << >> => Last(words[i]) # HighHalf }
  IN  words[Max(fitting)]

\* Texts come from UTF-8 and the program's own messages, a place is somewhere, and a
\* number is no character of a text.
ASSUME TextAssumption ==
  /\ \A text \in Texts \cup Locations : text \in Seq(STRING) /\ Paired(text)
  /\ \A location \in Locations : TextMeant(location) # << >>
  /\ Numbers \in Seq(STRING \ (Separators \cup {HighHalf, LowHalf}))
  /\ Numbers # << >>

\* mkfs tells several things at once: a detail each.
Pieces(text) == LinesOf(text \o << NewLine >>)

DetailsMeant(text) ==
  LET meant == NonEmpty([k \in DOMAIN Pieces(text) |-> TextMeant(Pieces(text)[k])])
  IN  [k \in DOMAIN meant |-> Message("Detail", "", meant[k])]

----------------------------------------------------------------------------
\* The helper.

\* writeLine: its caller waits until the pipe has taken it all.
WriteLines(lines, messages) ==
  /\ outgoing = << >>
  /\ outgoing' = FlattenSeq([k \in DOMAIN lines |-> Coded(lines[k]) \o << NewLine >>])
  /\ said' = said \o messages
  /\ UNCHANGED << requestVars, pipe, input, clientVars >>

\* main goes on when what it wrote has been taken.
GoOn ==
  /\ outgoing = << >>
  /\ \/ stage = "Announce" /\ stage' = "Restore"
     \/ stage = "Restore" /\ stage' = "Ending"
     \/ stage = "Ending" /\ stage' = "Exited"

AnnounceVersion ==
  /\ stage = "Announce"
  /\ GoOn
  /\ WriteLines(<< encodeVersionLine >>, << Message("Version", "5", << "plan" >>) >>)
  /\ UNCHANGED << exitCode, step, reports >>

Step(text) ==
  /\ stage = "Restore" /\ reports < MaxReports
  /\ step < Len(Numbers)
  /\ step' = step + 1
  /\ reports' = reports + 1
  /\ WriteLines(<< encodeStepLine(Numbers[step'], text) >>,
                << Message("Step", Numbers[step'], TextMeant(text)) >>)
  /\ UNCHANGED << stage, exitCode >>

Detail(text) ==
  /\ stage = "Restore" /\ reports < MaxReports
  /\ reports' = reports + 1
  /\ LET sanitized == NonEmpty([k \in DOMAIN Pieces(text) |->
                                  sanitizeProtocolText(Pieces(text)[k])])
     IN  WriteLines([k \in DOMAIN sanitized |-> encodeDetailLine(sanitized[k])],
                    DetailsMeant(text))
  /\ UNCHANGED << stage, exitCode, step >>

End(code) ==
  /\ stage = "Restore"
  /\ GoOn
  /\ exitCode' = code
  /\ UNCHANGED << step, reports >>

EndSucceeded(location) ==
  /\ End(0)
  /\ WriteLines(<< encodeResultLine(location) >>, << Message("Result", "", TextMeant(location)) >>)

\* The restore failed, or something asked it to stop while it had an error to tell.
EndFailed(text) ==
  /\ text # << >>
  /\ End(1)
  /\ WriteLines(<< encodeFailureLine(text) >>, << Message("Failure", "", TextMeant(text)) >>)

\* It has nothing to show in the window's language, or does not even begin: not
\* root, or arguments that do not parse, which only the standard error tells.
EndUnexplained ==
  /\ \/ End(1)
     \/ reports = 0 /\ request = << >> /\ End(2)
  /\ WriteLines(<< >>, << >>)

EndCancelled ==
  /\ cancelled
  /\ End(3)
  /\ WriteLines(<< >>, << >>)

\* The kernel takes as much as there is room for.
Flush ==
  /\ stage # "Crashed"
  /\ \E n \in 1 .. Len(outgoing) :
       /\ Len(pipe) + n <= PipeCapacity
       /\ pipe' = pipe \o SubSeq(outgoing, 1, n)
       /\ outgoing' = SubSeq(outgoing, n + 1, Len(outgoing))
  /\ UNCHANGED << stage, exitCode, step, reports, said, requestVars, input, clientVars >>

Exit ==
  /\ stage = "Ending"
  /\ GoOn
  /\ UNCHANGED << exitCode, step, reports, outgoing, said, requestVars, pipe, input, clientVars >>

\* What the pipe has not taken is lost, in the middle of a line or not.
Crash ==
  /\ stage \in {"Announce", "Restore", "Ending"}
  /\ stage' = "Crashed"
  /\ outgoing' = << >>
  /\ UNCHANGED << exitCode, step, reports, said, requestVars, pipe, input, clientVars >>

ContainsToken(text) ==
  \E i \in Len(Token) .. Len(text) : SubSeq(text, i - Len(Token) + 1, i) = Token

RememberLast(part) == part

Remember(part) == request \o part

\* cancelRequested, between two steps: one read of what has arrived.
PollRequest ==
  /\ stage = "Restore" /\ outgoing = << >>
  /\ ~ cancelled
  /\ \E n \in 1 .. Len(input) :
       /\ n <= RequestRead
       /\ request' = Remember(SubSeq(input, 1, n))
       /\ input' = SubSeq(input, n + 1, Len(input))
  /\ cancelled' = ContainsToken(request')
  /\ UNCHANGED << helperVars, pipe, clientVars >>

Helper ==
  \/ AnnounceVersion
  \/ \E text \in Texts : Step(text) \/ Detail(text) \/ EndFailed(text)
  \/ \E location \in Locations : EndSucceeded(location)
  \/ EndUnexplained \/ EndCancelled
  \/ Flush \/ Exit

----------------------------------------------------------------------------
\* The client.

Trimmed(text) ==
  LET letters == { i \in DOMAIN text : text[i] \notin Separators }
  IN  IF letters = {} THEN << >> ELSE SubSeq(text, Min(letters), Max(letters))

Blanks(text) == { i \in DOMAIN text : text[i] = Blank }

BeforeBlank(text) ==
  IF Blanks(text) = {} THEN text ELSE SubSeq(text, 1, Min(Blanks(text)) - 1)

AfterBlank(text) ==
  IF Blanks(text) = {} THEN << >> ELSE SubSeq(text, Min(Blanks(text)) + 1, Len(text))

Unknown(line) == Message("Unknown", "", line)

\* An announcement says which protocol, and then the plan, or not all of it.
ParseVersion(fields) ==
  IF BeforeBlank(fields) # << "5" >> THEN Unknown(fields)
  ELSE Message("Version", "5", AfterBlank(fields))

ParseStep(remainder) ==
  LET counts == BeforeBlank(remainder)
  IN  IF Len(counts) = 3 /\ counts[2] = "/" /\ {counts[1], counts[3]} \subseteq Range(Numbers)
      THEN Message("Step", counts[1], AfterBlank(remainder))
      ELSE Unknown(remainder)

parseProtocolLine(line) ==
  LET trimmed == Trimmed(line)
      keyword == BeforeBlank(trimmed)
      remainder == AfterBlank(trimmed)
  IN  CASE keyword = << "version" >> -> ParseVersion(remainder)
        [] keyword = << "step" >> -> ParseStep(remainder)
        [] keyword = << "detail" >> -> Message("Detail", "", remainder)
        [] keyword = << "failure" >> -> Message("Failure", "", remainder)
        [] keyword = << "result" >> -> Message("Result", "", remainder)
        [] OTHER -> Unknown(trimmed)

\* acceptHelperAnnouncement; a second announcement is refused, and none is made.
Accepts(message) == message.text = << "plan" >>

\* One line of consume; the first explanation of a failure is the one that counts.
Consume(state, line) ==
  LET message == parseProtocolLine(line)
      explains == message.kind = "Failure" /\ state.accepted /\ state.displayFailure = << >>
  IN  IF Trimmed(line) = << >> THEN state
      ELSE Known(Append(state.messages, message),
                 IF message.kind = "Version" THEN Accepts(message) ELSE state.accepted,
                 IF explains THEN message.text ELSE state.displayFailure,
                 IF message.kind = "Result" THEN message.text ELSE state.location)

\* consume: one line after the other.
Listen(state, lines) ==
  LET after[k \in 0 .. Len(lines)] ==
        IF k = 0 THEN state ELSE LET before == after[k - 1] IN Consume(before, lines[k])
  IN  after[Len(lines)]

\* takeCompleteLines: what makes no line within the limit is a line.
Flooded(text) == Len(Unfinished(text)) > MaxBufferedBytes

takeCompleteLines(text) ==
  LET lines == LinesOf(text) \o (IF Flooded(text) THEN << Unfinished(text) >> ELSE << >>)
  IN  [k \in DOMAIN lines |-> Coded(lines[k])]

ReadUnlessAsked(n) == ~ asked /\ n <= Len(pipe)

\* readAllStandardOutput returns what has arrived.
Arrived(n) == n <= Len(pipe)

KeepUnfinished(text) == IF Flooded(text) THEN << >> ELSE Unfinished(text)

TakeFromPipe(n) ==
  /\ client = "Loop"
  /\ Arrived(n)
  /\ pipe' = SubSeq(pipe, n + 1, Len(pipe))

Read ==
  /\ \E n \in 1 .. PipeCapacity :
       /\ TakeFromPipe(n)
       /\ LET text == buffer \o SubSeq(pipe, 1, n)
          IN  /\ heard' = Listen(heard, takeCompleteLines(text))
              /\ buffer' = KeepUnfinished(text)
  /\ UNCHANGED << helperVars, requestVars, input, client, asked, verdict >>

NotAskedYet == ~ asked

\* The user asks; the helper has announced itself.  The token is written once.
AskHelperToStop ==
  /\ client = "Loop" /\ NotAskedYet
  /\ heard.messages # << >>
  /\ asked' = TRUE
  /\ input' = input \o Token \o << NewLine >>
  /\ UNCHANGED << helperVars, requestVars, pipe, client, buffer, heard, verdict >>

judgeByExitCode(state) ==
  CASE exitCode = 3 -> "Cancelled"
    [] exitCode = 0 /\ state.location # << >> -> "Succeeded"
    [] OTHER -> "Failed"

judgeHelperRun(state) ==
  LET finished == stage # "Crashed" /\ state.accepted
  IN  CASE finished /\ exitCode = 3 -> "Cancelled"
        [] finished /\ exitCode = 0 /\ state.location # << >> -> "Succeeded"
        [] OTHER -> "Failed"

EndLoop ==
  /\ client = "Loop"
  /\ stage \in {"Exited", "Crashed"}
  /\ client' = "Over"

\* The process has ended: the rest of the pipe is read, and the line it may have
\* left unfinished.
Finish ==
  /\ EndLoop
  /\ LET text == buffer \o pipe
         lines == takeCompleteLines(text) \o << Coded(KeepUnfinished(text)) >>
     IN  heard' = Listen(heard, lines)
  /\ verdict' = judgeHelperRun(heard')
  /\ buffer' = << >> /\ pipe' = << >>
  /\ UNCHANGED << helperVars, requestVars, input, asked >>

Next == Helper \/ Crash \/ PollRequest \/ Read \/ AskHelperToStop \/ Finish

Spec == Init /\ [][Next]_vars

\* The restore comes to its end, and writes wait for nothing but the pipe; the
\* window's loop goes on.
FairSpec ==
  /\ Spec
  /\ WF_vars(Flush)
  /\ WF_stage(GoOn)
  /\ WF_pipe(\E n \in 1 .. PipeCapacity : TakeFromPipe(n))
  /\ WF_client(EndLoop)

----------------------------------------------------------------------------
\* Whatever is said and however it arrives, the window reads the messages that
\* were sent, in their order and with their words; only the last line of a helper
\* that died may be less than a message, and then it is none of another kind.
\* "A control character from mkfs output would otherwise split one line into two,
\* and the reader would parse the remainder as a message never sent."
ReceivedAreSent ==
  \/ IsPrefix(heard.messages, said) /\ (client = "Over" /\ stage = "Exited" => heard.messages = said)
  \/ /\ client = "Over" /\ stage = "Crashed"
     /\ Len(heard.messages) <= Len(said)
     /\ IsPrefix(Front(heard.messages), said)
     /\ Last(heard.messages).kind \in {"Unknown", said[Len(heard.messages)].kind}

\* The verdict and what goes with it are the helper's own: the location or the
\* explanation it sent last, or none if it sent none, and never the beginning of one.
VerdictAsSaid ==
  client = "Over" =>
    /\ verdict = "Succeeded" <=> stage = "Exited" /\ exitCode = 0
    /\ verdict = "Cancelled" <=> stage = "Exited" /\ exitCode = 3
    /\ verdict = "Succeeded" => Last(said) = Message("Result", "", heard.location)
    /\ stage = "Exited" /\ exitCode \in {1, 2} =>
         heard.displayFailure = IF Last(said).kind = "Failure" THEN Last(said).text ELSE << >>

\* However the word arrives, the helper has heard it when it has read all of it,
\* and never hears it before.
TokenIsHeard ==
  cancelled <=> asked /\ input \in { << >>, << NewLine >> }

\* The window's reading makes room for the helper to write, so that neither waits
\* for the other forever.
SessionEnds == <>(client = "Over")
=============================================================================
