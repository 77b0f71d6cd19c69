-------------------------- MODULE LinuxDriveProofs --------------------------
(***************************************************************************)
(* What a Linux restore takes for granted about its drive: that it is the  *)
(* one that was selected (SelectedDrive), and that the running system does *)
(* not live on it (SystemGuard, in the second half).                       *)
(*                                                                         *)
(* SelectedDrive, for any drives, exchanged as often as anyone likes.      *)
(*                                                                         *)
(* A size and a name are always known, so that comparing with the facts    *)
(* read last is comparing with those shown; the serial may be lost on the  *)
(* way.  What the name says belongs to the opened drive because a sequence *)
(* read after it is still that of the opened drive: nobody can have held   *)
(* the name in between.                                                    *)
(***************************************************************************)
EXTENDS SelectedDrive, SystemGuard, WellFoundedInduction, TLAPS

Judges == {"Helper", "Refresh", "Inspect", "Exclusive", "Written"}

\* What is never lost between the row and the descriptor.
Carried(facts) ==
  /\ facts.name = shown.name
  /\ facts.size = shown.size
  /\ facts.sectorSize = shown.sectorSize
  /\ shown.sequence # 0 => facts.sequence = shown.sequence

SelectionInv ==
  /\ read.name # Blank /\ shown.name # Blank
  /\ stage \in Judges => Carried(expected)
  /\ stage = "Helper" => expected = shown

AskedHandle ==
  stage \in {"Inspect", "Exclusive"} /\ part \in {"Name", "Serial", "Sequence", "Size", "Judge"}

HandleInv ==
  /\ opened.sequence <= sequence
  /\ opened.sequence = sequence /\ plugged # NoDrive => plugged = opened.drive
  /\ AskedHandle =>
       /\ counts
       /\ opened.sequence = expected.sequence /\ opened.sequence # 0
       /\ Size[opened.drive] = expected.size
       /\ SectorSize[opened.drive] = expected.sectorSize
  /\ AskedHandle /\ part \in {"Serial", "Sequence"} =>
       (opened.sequence = sequence /\ plugged # NoDrive => read.name = Name[opened.drive])
  /\ AskedHandle /\ part \in {"Size", "Judge"} =>
       (read.sequence = opened.sequence => read.name = Name[opened.drive])

Inv == TypeOK /\ SelectionInv /\ HandleInv /\ WrittenAsShown

\* The invariant holds before the first scan.
LEMMA InvInit == Init => Inv
<1> SUFFICES ASSUME Init PROVE Inv OBVIOUS
<1>1. Nothing \in Facts
  BY DriveAssumption DEF Nothing, Facts, Names, Serials, Sequences
<1>2. 1 \in 1 .. PlugLimit + 1 /\ 0 \in Sequences BY DriveAssumption DEF Sequences
<1>3. TypeOK BY <1>1, <1>2 DEF Init, TypeOK, Readers, AllLinks
<1>4. SelectionInv BY DriveAssumption DEF Init, SelectionInv, Nothing, Judges
<1>5. HandleInv BY DEF Init, HandleInv, AskedHandle
<1> QED BY <1>3, <1>4, <1>5 DEF Inv, Init, WrittenAsShown

\* The link that sorts first is one of those there are, if there are any.
LEMMA FirstLink ==
  ASSUME links \subseteq AllLinks
  PROVE  /\ links = {} => stableDeviceIdLink = Blank
         /\ links # {} =>
              /\ stableDeviceIdLink \in links
              /\ \A other \in links : Rank[stableDeviceIdLink] <= Rank[other]
<1>1. ASSUME links # {}
      PROVE  \E link \in links : \A other \in links : Rank[link] <= Rank[other]
  <2> DEFINE ranks == { Rank[link] : link \in links }
             less == OpToRel(<, Nat)
  <2>1. ranks \subseteq Nat /\ ranks # {} BY <1>1, DriveAssumption DEF AllLinks
  <2>2. \A one, another \in Nat : << one, another >> \in less <=> one < another
    BY DEF OpToRel
  <2>3. IsWellFoundedOn(less, Nat) BY NatLessThanWellFounded
  <2>4. PICK least \in ranks : \A rank \in ranks : ~ (<< rank, least >> \in less)
    <3> HIDE DEF ranks, less
    <3> QED BY <2>1, <2>3, WFMin, Zenon
  <2>5. \A rank \in ranks : least <= rank
    <3> HIDE DEF ranks, less
    <3> SUFFICES ASSUME NEW rank \in ranks PROVE least <= rank OBVIOUS
    <3>1. rank \in Nat /\ least \in Nat BY <2>1
    <3>2. ~ (rank < least) BY <3>1, <2>2, <2>4
    <3> QED BY <3>1, <3>2
  <2> QED BY <2>5
<1> QED BY <1>1 DEF stableDeviceIdLink

\* A fact that was read is one of the facts there are.
LEMMA ReadingTyped ==
  ASSUME TypeOK, ReadName \/ ReadSerial \/ ReadSequence \/ ReadSize
  PROVE  read' \in Facts
<1>1. CASE ReadName
  BY <1>1, DriveAssumption DEF TypeOK, ReadName, Facts, Nothing, Names, Serials, Sequences
<1>2. CASE ReadSerial
  <2>1. stableDeviceIdLink \in AllLinks \cup {Blank} BY FirstLink DEF TypeOK
  <2>2. read.name \in Names BY DEF TypeOK, Facts
  <2>3. serialFromUsbByIdLink(stableDeviceIdLink, read.name) \in Serials
    BY <2>1, <2>2 DEF serialFromUsbByIdLink, Serials
  <2> QED BY <1>2, <2>1, <2>3 DEF TypeOK, ReadSerial, Facts
<1>3. CASE ReadSequence
  BY <1>3, DriveAssumption DEF TypeOK, ReadSequence, Facts, Sequences
<1>4. CASE ReadSize
  BY <1>4, DriveAssumption DEF TypeOK, ReadSize, SectorSizeRead, Facts
<1> QED BY <1>1, <1>3, <1>4, <1>2

\* What the helper parses is what the row said: a size and a sector size of zero
\* are refused, a sequence of zero is none, and a blank text is left out.
LEMMA RoundTrip ==
  ASSUME NEW facts \in Facts, WellFormed(buildRestoreArguments(facts))
  PROVE  parseRestoreArguments(buildRestoreArguments(facts)) = facts
<1> DEFINE arguments == buildRestoreArguments(facts)
           given == { o \in Options : /\ o = "sequence" => facts.sequence # 0
                                      /\ o \in {"serial", "uniqueId", "name"} => facts[o] # Blank }
<1>1. arguments = [o \in given |-> facts[o]] BY DEF buildRestoreArguments
<1>2. DOMAIN arguments = given /\ \A o \in given : arguments[o] = facts[o]
  <2> HIDE DEF given, arguments
  <2> QED BY <1>1
<1> HIDE DEF arguments
<1>3. Given(arguments, "name", Blank) = facts.name BY <1>2 DEF Given, Options
<1>4. Given(arguments, "serial", Blank) = facts.serial BY <1>2 DEF Given, Options
<1>8. Given(arguments, "uniqueId", Blank) = facts.uniqueId BY <1>2 DEF Given, Options
<1>5. Given(arguments, "sequence", 0) = facts.sequence BY <1>2 DEF Given, Options
<1>6. Given(arguments, "size", 0) = facts.size BY <1>2 DEF Given, Options
<1>7. Given(arguments, "sectorSize", 0) = facts.sectorSize BY <1>2 DEF Given, Options
<1> QED BY <1>3, <1>4, <1>5, <1>6, <1>7, <1>8 DEF parseRestoreArguments, Facts, arguments

\* A drive that is the same as the expected one has what was carried so far.
LEMMA SameCarries ==
  ASSUME NEW facts, Carried(expected), shown.name # Blank, facts.name # Blank,
         Same(expected, facts)
  PROVE  Carried(facts)
BY DEF Carried, Same, KnownAndDifferent

\* No step of the port or of the restore leaves the invariant.
LEMMA InvStep == Inv /\ [Next]_vars => Inv'
<1> SUFFICES ASSUME Inv, [Next]_vars PROVE Inv'
  OBVIOUS
<1> USE DEF Inv
<1>1. CASE Unplug \/ Plug
  <2>1. TypeOK' BY <1>1, DriveAssumption DEF Unplug, Plug, TypeOK, systemVars
  <2>2. SelectionInv' BY <1>1 DEF Unplug, Plug, SelectionInv, Carried
  <2>3. HandleInv'
    BY <1>1 DEF Unplug, Plug, TypeOK, Sequences, HandleInv, AskedHandle, systemVars
  <2>4. WrittenAsShown' BY <1>1 DEF Unplug, Plug, WrittenAsShown, systemVars
  <2> QED BY <2>1, <2>2, <2>3, <2>4
<1>14. CASE AddLink \/ RemoveLink
  <2>1. links' \subseteq AllLinks
    BY <1>14 DEF AddLink, RemoveLink, TypeOK, AllLinks
  <2>2. UNCHANGED << plugged, sequence, systemVars, stage, part, read, shown, expected, opened >>
    BY <1>14 DEF AddLink, RemoveLink
  <2> QED
    BY <2>1, <2>2 DEF TypeOK, SelectionInv, Carried, HandleInv, AskedHandle, WrittenAsShown,
                      systemVars
<1>2. CASE Begin
  <2>1. TypeOK' BY <1>2 DEF Begin, Refuse, TypeOK, driveVars, systemVars
  <2>2. SelectionInv' BY <1>2 DEF Begin, Refuse, SelectionInv, Carried, Judges
  <2>3. HandleInv' BY <1>2 DEF Begin, Refuse, HandleInv, AskedHandle, driveVars, systemVars
  <2>4. WrittenAsShown' BY <1>2 DEF Begin, Refuse, WrittenAsShown
  <2> QED BY <2>1, <2>2, <2>3, <2>4
<1>3. CASE ReadName
  <2>1. TypeOK' BY <1>3, ReadingTyped DEF ReadName, TypeOK, driveVars, systemVars
  <2>2. read'.name # Blank /\ (plugged # NoDrive => read'.name = Name[plugged])
    BY <1>3, DriveAssumption DEF ReadName, Nothing, TypeOK
  <2>3. SelectionInv' BY <1>3, <2>2 DEF ReadName, SelectionInv, Carried
  <2>4. HandleInv' BY <1>3, <2>2 DEF ReadName, HandleInv, AskedHandle, driveVars, systemVars
  <2>5. WrittenAsShown' BY <1>3 DEF ReadName, WrittenAsShown, systemVars
  <2> QED BY <2>1, <2>3, <2>4, <2>5
<1>4. CASE ReadSerial
  <2>1. TypeOK' BY <1>4, ReadingTyped DEF ReadSerial, TypeOK, driveVars, systemVars
  <2>2. read'.name = read.name
    BY <1>4 DEF ReadSerial, TypeOK, Facts
  <2>3. SelectionInv' BY <1>4, <2>2 DEF ReadSerial, SelectionInv, Carried
  <2>4. HandleInv' BY <1>4, <2>2 DEF ReadSerial, HandleInv, AskedHandle, driveVars, systemVars
  <2>5. WrittenAsShown' BY <1>4 DEF ReadSerial, WrittenAsShown, systemVars
  <2> QED BY <2>1, <2>3, <2>4, <2>5
<1>5. CASE ReadSequence
  <2>1. TypeOK' BY <1>5, ReadingTyped DEF ReadSequence, TypeOK, driveVars, systemVars
  <2>2. /\ read'.name = read.name
        /\ read'.sequence # 0 => read'.sequence = sequence /\ plugged # NoDrive
    BY <1>5 DEF ReadSequence, TypeOK, Facts
  <2>3. SelectionInv' BY <1>5, <2>2 DEF ReadSequence, SelectionInv, Carried
  <2>4. HandleInv'
    BY <1>5, <2>2 DEF ReadSequence, HandleInv, AskedHandle, driveVars, systemVars
  <2>5. WrittenAsShown' BY <1>5 DEF ReadSequence, WrittenAsShown, systemVars
  <2> QED BY <2>1, <2>3, <2>4, <2>5
<1>6. CASE ReadSize
  <2>1. TypeOK' BY <1>6, ReadingTyped DEF ReadSize, TypeOK, driveVars, systemVars
  <2>2. read'.name = read.name /\ read'.sequence = read.sequence
    BY <1>6 DEF ReadSize, TypeOK, Facts
  <2>3. SelectionInv' BY <1>6, <2>2 DEF ReadSize, SelectionInv, Carried
  <2>4. HandleInv' BY <1>6, <2>2 DEF ReadSize, HandleInv, AskedHandle, driveVars, systemVars
  <2>5. WrittenAsShown' BY <1>6 DEF ReadSize, WrittenAsShown, systemVars
  <2> QED BY <2>1, <2>3, <2>4, <2>5
<1>7. CASE Select
  <2>1. \/ Refuse
        \/ shown' = read /\ stage' = "Refused" /\ UNCHANGED << part, read, expected, opened >>
        \/ shown' = read /\ LookAgain("Refresh", read)
        \/ shown' = read /\ LookAgain("Helper", read)
    BY <1>7, RoundTrip DEF Select, TypeOK
  <2>2. UNCHANGED << driveVars, systemVars >> /\ read' = read /\ opened' = opened
    BY <1>7, <2>1 DEF Select, Refuse, LookAgain
  <2>3. TypeOK'
    BY <2>1, <2>2 DEF Refuse, LookAgain, TypeOK, Readers, driveVars, systemVars
  <2>4. SelectionInv'
    BY <2>1, <2>2, <1>7 DEF Select, Refuse, LookAgain, SelectionInv, Carried, Judges
  <2>5. HandleInv'
    BY <2>1, <2>2 DEF Refuse, LookAgain, HandleInv, AskedHandle, driveVars, systemVars
  <2>6. WrittenAsShown' BY <2>1 DEF Refuse, LookAgain, WrittenAsShown
  <2> QED BY <2>3, <2>4, <2>5, <2>6
<1>8. CASE HelperJudges \/ RefreshJudges
  <2>1. /\ UNCHANGED << driveVars, systemVars >> /\ stage \in {"Helper", "Refresh"}
        /\ \/ Refuse
           \/ /\ Same(expected, read) /\ shown' = shown
              /\ LookAgain("Refresh", read) \/ LookAgain("Inspect", read)
    BY <1>8 DEF HelperJudges, RefreshJudges
  <2>2. TypeOK'
    BY <2>1 DEF Refuse, LookAgain, TypeOK, Readers, driveVars, systemVars
  <2>3. Same(expected, read) => Carried(read)
    BY <2>1, SameCarries DEF SelectionInv, Judges
  <2>4. SelectionInv'
    BY <2>1, <2>3 DEF Refuse, LookAgain, SelectionInv, Carried, Judges
  <2>5. HandleInv'
    BY <2>1 DEF Refuse, LookAgain, HandleInv, AskedHandle, driveVars, systemVars
  <2>6. WrittenAsShown' BY <2>1 DEF Refuse, LookAgain, WrittenAsShown
  <2> QED BY <2>2, <2>4, <2>5, <2>6
<1>9. CASE OpenDevice
  <2>1. TypeOK' BY <1>9, DriveAssumption DEF OpenDevice, Refuse, TypeOK, Readers, Sequences, driveVars, systemVars
  <2>2. SelectionInv' BY <1>9 DEF OpenDevice, Refuse, SelectionInv, Carried, Judges
  <2>3. HandleInv'
    BY <1>9 DEF OpenDevice, Refuse, HandleInv, AskedHandle, TypeOK, driveVars, systemVars
  <2>4. WrittenAsShown' BY <1>9 DEF OpenDevice, Refuse, WrittenAsShown
  <2> QED BY <2>1, <2>2, <2>3, <2>4
<1>10. CASE AskHandle
  <2>1. TypeOK' BY <1>10 DEF AskHandle, Refuse, TypeOK, driveVars, systemVars
  <2>2. SelectionInv' BY <1>10 DEF AskHandle, Refuse, SelectionInv, Carried, Judges
  <2>3. HandleInv'
    BY <1>10 DEF AskHandle, HandleAgrees, Refuse, HandleInv, AskedHandle, driveVars, systemVars
  <2>4. WrittenAsShown' BY <1>10 DEF AskHandle, Refuse, WrittenAsShown
  <2> QED BY <2>1, <2>2, <2>3, <2>4
<1>11. CASE InspectJudges
  <2>1. /\ UNCHANGED << driveVars, systemVars >> /\ stage = "Inspect"
        /\ \/ Refuse
           \/ shown' = shown /\ LookAgain("Exclusive", expected)
    BY <1>11 DEF InspectJudges
  <2>2. TypeOK' BY <2>1 DEF Refuse, LookAgain, TypeOK, Readers, driveVars, systemVars
  <2>3. SelectionInv' BY <2>1 DEF Refuse, LookAgain, SelectionInv, Carried, Judges
  <2>4. HandleInv'
    BY <2>1 DEF Refuse, LookAgain, HandleInv, AskedHandle, driveVars, systemVars
  <2>5. WrittenAsShown' BY <2>1 DEF Refuse, LookAgain, WrittenAsShown
  <2> QED BY <2>2, <2>3, <2>4, <2>5
<1>12. CASE ExclusiveJudges
  <2>1. /\ UNCHANGED << driveVars, systemVars >> /\ stage = "Exclusive" /\ part = "Judge"
        /\ \/ Refuse
           \/ /\ Same(expected, read)
              /\ stage' = "Written" /\ UNCHANGED << part, read, shown, expected, opened >>
    BY <1>12 DEF ExclusiveJudges
  <2>2. TypeOK' BY <2>1 DEF Refuse, TypeOK, driveVars, systemVars
  <2>3. SelectionInv' BY <2>1 DEF Refuse, SelectionInv, Carried, Judges
  <2>4. HandleInv' BY <2>1 DEF Refuse, HandleInv, AskedHandle, driveVars, systemVars
  <2>5. ASSUME Same(expected, read)
        PROVE  /\ counts
               /\ Name[opened.drive] = shown.name
               /\ Size[opened.drive] = shown.size
               /\ SectorSize[opened.drive] = shown.sectorSize
               /\ shown.sequence # 0 => opened.sequence = shown.sequence
    <3>1. Carried(expected) /\ Carried(read)
      BY <2>1, <2>5, SameCarries DEF SelectionInv, Judges
    <3>2. read.sequence = opened.sequence
      BY <2>1, <2>5 DEF HandleInv, AskedHandle, Same
    <3>3. read.name = Name[opened.drive]
      BY <2>1, <3>2 DEF HandleInv, AskedHandle
    <3> QED BY <2>1, <3>1, <3>3 DEF HandleInv, AskedHandle, Carried
  <2>6. WrittenAsShown' BY <2>1, <2>5 DEF Refuse, WrittenAsShown, systemVars
  <2> QED BY <2>2, <2>3, <2>4, <2>6
<1>13. CASE UNCHANGED vars
  BY <1>13 DEF vars, driveVars, systemVars, TypeOK, SelectionInv, Carried, HandleInv,
               AskedHandle, WrittenAsShown
<1> QED
  BY <1>1, <1>2, <1>3, <1>5, <1>6, <1>7, <1>8, <1>9, <1>10, <1>11, <1>12, <1>13, <1>14,
     <1>4
  DEF Next, Look

\* The invariant holds all the time.
LEMMA InvHolds == Spec => []Inv
BY InvInit, InvStep, PTL DEF Spec

----------------------------------------------------------------------------
\* Nobody has touched the drive.
Undisturbed == sequence = 1 /\ plugged # NoDrive

\* The facts are those of the drive, with a link that is there or none.
NameFits(facts) ==
  /\ facts.name = Name[plugged]
  /\ facts.uniqueId \in links \cup {Blank}
  /\ facts.serial = serialFromUsbByIdLink(facts.uniqueId, facts.name)

\* The link read last sorts no later than the one before.
NoLaterThan(earlier, facts) ==
  earlier.uniqueId # Blank =>
    facts.uniqueId # Blank /\ Rank[facts.uniqueId] <= Rank[earlier.uniqueId]

SequenceFits(facts) == facts.sequence = IF counts THEN 1 ELSE 0

SizeFits(facts) == facts.size = Size[plugged] /\ facts.sectorSize = SectorSize[plugged]

Fits(facts) == NameFits(facts) /\ SequenceFits(facts) /\ SizeFits(facts)

UndisturbedInv ==
  /\ stage \in {"Written", "Refused"} => part \in {"Open", "Begin", "Judge"}
  /\ Undisturbed =>
       /\ links \subseteq Links[plugged]
       /\ stage \in Judges /\ part \in {"Sequence", "Size", "Judge"} => NoLaterThan(expected, read)
       /\ part \in {"Serial", "Sequence", "Size", "Judge"} => NameFits(read)
       /\ part \in {"Size", "Judge"} => SequenceFits(read)
       /\ part = "Judge" => SizeFits(read)
       /\ stage \in {"Helper", "Refresh", "Inspect", "Exclusive"} => Fits(expected)
       /\ stage \in {"Inspect", "Exclusive"} /\ part # "Open" =>
            opened.drive = plugged /\ opened.sequence = 1
  /\ UndisturbedIsWritten

\* Two readings of one drive are the same drive, unless a link has overtaken another.
LEMMA FittingIsSame ==
  ASSUME TypeOK, Undisturbed, Fits(expected), Fits(read), NoLaterThan(expected, read)
  PROVE  Same(expected, read) \/ Overtaken
<1>1. CASE expected.uniqueId = read.uniqueId
  BY <1>1 DEF Fits, NameFits, SequenceFits, SizeFits, Same, KnownAndDifferent
<1>2. CASE expected.uniqueId = Blank
  <2>1. expected.serial = Blank BY <1>2 DEF Fits, NameFits, serialFromUsbByIdLink
  <2> QED
    BY <1>2, <2>1 DEF Fits, NameFits, SequenceFits, SizeFits, Same, KnownAndDifferent
<1>3. CASE expected.uniqueId # Blank /\ expected.uniqueId # read.uniqueId
  <2>1. /\ expected.uniqueId \in AllLinks /\ read.uniqueId \in AllLinks
        /\ read.uniqueId # Blank
        /\ Rank[read.uniqueId] <= Rank[expected.uniqueId]
    BY <1>3 DEF NoLaterThan, TypeOK, Facts
  <2>2. /\ Rank[read.uniqueId] \in Nat /\ Rank[expected.uniqueId] \in Nat
        /\ Rank[read.uniqueId] # Rank[expected.uniqueId]
    BY <1>3, <2>1, DriveAssumption DEF AllLinks
  <2> QED BY <1>3, <2>1, <2>2 DEF Overtaken
<1> QED BY <1>1, <1>2, <1>3

\* The arguments that a safe row makes are well formed.
LEMMA SafeIsWellFormed ==
  ASSUME NEW facts \in Facts, Safe(facts), facts.sectorSize # 0
  PROVE  WellFormed(buildRestoreArguments(facts))
<1> DEFINE arguments == buildRestoreArguments(facts)
           given == { o \in Options : /\ o = "sequence" => facts.sequence # 0
                                      /\ o \in {"serial", "uniqueId", "name"} => facts[o] # Blank }
<1>1. arguments = [o \in given |-> facts[o]] BY DEF buildRestoreArguments
<1>2. DOMAIN arguments = given /\ \A o \in given : arguments[o] = facts[o]
  <2> HIDE DEF given, arguments
  <2> QED BY <1>1
<1> HIDE DEF arguments
<1>3. facts.size # 0
  <2>1. facts.size >= SmallestSize BY DEF Safe
  <2>2. SmallestSize > 0 BY DriveAssumption
  <2>3. ~ (0 >= SmallestSize) BY DriveAssumption
  <2> QED BY <2>1, <2>3
<1> QED BY <1>2, <1>3 DEF WellFormed, Options, arguments

\* It holds before the first scan.
LEMMA UndisturbedInit == Init => UndisturbedInv
BY DEF Init, UndisturbedInv, UndisturbedIsWritten

\* Looking at an undisturbed drive finds it.
LEMMA UndisturbedStep == Inv /\ UndisturbedInv /\ [Next]_vars => UndisturbedInv'
<1> SUFFICES ASSUME Inv, UndisturbedInv, [Next]_vars, TypeOK PROVE UndisturbedInv'
  BY DEF Inv
<1>1. CASE Unplug \/ Plug
  <2>1. ~ Undisturbed' /\ (sequence' > 1 \/ plugged' = NoDrive)
    BY <1>1 DEF Unplug, Plug, Undisturbed, TypeOK
  <2>2. UNCHANGED << stage, part >> BY <1>1 DEF Unplug, Plug
  <2> QED BY <2>1, <2>2 DEF UndisturbedInv, UndisturbedIsWritten
<1>17. CASE AddLink
  <2>1. /\ UNCHANGED << plugged, sequence, systemVars, stage, part, read, shown, expected, opened >>
        /\ links \subseteq links' /\ links' \subseteq links \cup Links[plugged]
    BY <1>17 DEF AddLink
  <2> QED
    BY <2>1 DEF UndisturbedInv, UndisturbedIsWritten, Overtaken, Undisturbed, Fits,
         NameFits, SequenceFits, SizeFits, NoLaterThan, Judges, serialFromUsbByIdLink,
         systemVars
<1>18. CASE RemoveLink
  <2>1. ~ Undisturbed' /\ (sequence' > 1 \/ plugged' = NoDrive)
    BY <1>18 DEF RemoveLink, Undisturbed, TypeOK
  <2>2. UNCHANGED << stage, part >> BY <1>18 DEF RemoveLink
  <2> QED BY <2>1, <2>2 DEF UndisturbedInv, UndisturbedIsWritten
<1>2. CASE Begin
  BY <1>2 DEF Begin, Refuse, UndisturbedInv, UndisturbedIsWritten, Overtaken, Undisturbed,
       Fits, NameFits, SequenceFits, SizeFits, NoLaterThan, Judges, driveVars, systemVars
<1>3. CASE ReadName
  <2>1. plugged # NoDrive =>
          read'.name = Name[plugged] /\ read'.serial = Blank /\ read'.uniqueId = Blank
    BY <1>3 DEF ReadName, Nothing
  <2> QED
    BY <1>3, <2>1 DEF ReadName, serialFromUsbByIdLink, UndisturbedInv,
         UndisturbedIsWritten, Overtaken, Undisturbed, Fits, NameFits, SequenceFits,
         SizeFits, NoLaterThan, Judges, driveVars, systemVars
<1>4. CASE ReadSerial
  <2>1. /\ read'.name = read.name
        /\ read'.uniqueId = stableDeviceIdLink
        /\ read'.serial = serialFromUsbByIdLink(read'.uniqueId, read'.name)
    BY <1>4 DEF ReadSerial, TypeOK, Facts
  <2>2. stableDeviceIdLink \in links \cup {Blank} BY FirstLink DEF TypeOK
  <2>3. expected.uniqueId \in links =>
          stableDeviceIdLink # Blank /\ Rank[stableDeviceIdLink] <= Rank[expected.uniqueId]
    BY FirstLink, DriveAssumption DEF TypeOK, AllLinks
  <2> QED
    BY <1>4, <2>1, <2>2, <2>3 DEF ReadSerial, UndisturbedInv, UndisturbedIsWritten,
         Overtaken, Undisturbed, Fits, NameFits, SequenceFits, SizeFits, NoLaterThan,
         Judges, driveVars, systemVars
<1>5. CASE ReadSequence
  <2>1. /\ read'.name = read.name /\ read'.serial = read.serial /\ read'.uniqueId = read.uniqueId
        /\ Undisturbed => read'.sequence = IF counts THEN 1 ELSE 0
    BY <1>5 DEF ReadSequence, TypeOK, Facts, Undisturbed
  <2> QED
    BY <1>5, <2>1 DEF ReadSequence, UndisturbedInv, UndisturbedIsWritten, Overtaken,
         Undisturbed, Fits, NameFits, SequenceFits, SizeFits, NoLaterThan, Judges,
         driveVars, systemVars
<1>6. CASE ReadSize
  <2>1. /\ read'.name = read.name /\ read'.serial = read.serial /\ read'.uniqueId = read.uniqueId
        /\ read'.sequence = read.sequence
        /\ Undisturbed => read'.size = Size[plugged] /\ read'.sectorSize = SectorSize[plugged]
    BY <1>6 DEF ReadSize, SectorSizeRead, TypeOK, Facts, Undisturbed
  <2> QED
    BY <1>6, <2>1 DEF ReadSize, UndisturbedInv, UndisturbedIsWritten, Overtaken,
         Undisturbed, Fits, NameFits, SequenceFits, SizeFits, NoLaterThan, Judges,
         driveVars, systemVars
<1>7. ASSUME UNCHANGED << driveVars, systemVars >>, part = "Judge",
             Undisturbed => Overtaken \/ (Fits(read) /\ ~ Safe(read)), Refuse
      PROVE  UndisturbedInv'
  <2>1. Undisturbed =>
          \/ Overtaken
          \/ Size[plugged] < SmallestSize \/ SectorSize[plugged] \notin SupportedSectors
    <3>1. plugged # NoDrive => Size[plugged] \in Nat BY DriveAssumption DEF TypeOK
    <3>2. SmallestSize \in Nat BY DriveAssumption
    <3> QED BY <1>7, <3>1, <3>2 DEF Fits, SizeFits, Safe, Undisturbed
  <2>2. sequence # 1 => sequence > 1 BY DriveAssumption DEF TypeOK
  <2> QED
    BY <1>7, <2>1, <2>2 DEF Refuse, UndisturbedInv, UndisturbedIsWritten, Overtaken,
         Undisturbed, NameFits, SequenceFits, SizeFits, NoLaterThan, Judges, driveVars,
         systemVars
<1>8. ASSUME UNCHANGED << driveVars, systemVars >>, part = "Judge",
             NEW reader \in {"Helper", "Refresh", "Inspect", "Exclusive"}, NEW facts,
             LookAgain(reader, facts), Undisturbed => Fits(facts)
      PROVE  UndisturbedInv'
  BY <1>8 DEF LookAgain, UndisturbedInv, UndisturbedIsWritten, Overtaken, Undisturbed,
       Fits, NameFits, SequenceFits, SizeFits, NoLaterThan, Judges, driveVars, systemVars
<1>9. part = "Judge" /\ Undisturbed => Fits(read) BY DEF UndisturbedInv, Fits
<1>10. CASE Select
  <2>1. /\ UNCHANGED << driveVars, systemVars >> /\ part = "Judge"
        /\ \/ ~ Safe(read) /\ Refuse
           \/ LookAgain("Refresh", read)
           \/ LookAgain("Helper", read)
           \/ /\ Safe(read) /\ ~ WellFormed(buildRestoreArguments(read))
              /\ stage' = "Refused" /\ UNCHANGED << part, read, expected, opened >>
    BY <1>10, RoundTrip DEF Select, TypeOK
  <2>2. Safe(read) /\ Undisturbed => WellFormed(buildRestoreArguments(read))
    <3>1. Undisturbed => read.sectorSize # 0
      BY <1>9, <2>1, DriveAssumption DEF Fits, SizeFits, Undisturbed, TypeOK
    <3> QED BY <3>1, SafeIsWellFormed DEF TypeOK
  <2>3. CASE ~ Safe(read) /\ Refuse BY <1>7, <1>9, <2>1, <2>3
  <2>4. CASE LookAgain("Refresh", read) BY <1>8, <1>9, <2>1, <2>4
  <2>5. CASE LookAgain("Helper", read) BY <1>8, <1>9, <2>1, <2>5
  <2>6. CASE /\ ~ Undisturbed /\ stage' = "Refused"
             /\ UNCHANGED << part, read, expected, opened >>
    <3>1. sequence > 1 \/ plugged = NoDrive
      BY <2>6, DriveAssumption DEF Undisturbed, TypeOK
    <3> QED BY <2>1, <2>6, <3>1 DEF UndisturbedInv, UndisturbedIsWritten, Overtaken,
         Undisturbed, driveVars
  <2> QED BY <2>1, <2>2, <2>3, <2>4, <2>5, <2>6
<1>11. stage \in {"Helper", "Refresh", "Inspect", "Exclusive"} /\ part = "Judge" /\ Undisturbed
         => Same(expected, read) \/ Overtaken
  BY <1>9, FittingIsSame DEF UndisturbedInv, Judges
<1>12. CASE HelperJudges \/ RefreshJudges
  <2>1. /\ UNCHANGED << driveVars, systemVars >> /\ part = "Judge"
        /\ stage \in {"Helper", "Refresh"}
        /\ \/ ~ (Safe(read) /\ Same(expected, read)) /\ Refuse
           \/ LookAgain("Refresh", read)
           \/ LookAgain("Inspect", read)
    BY <1>12 DEF HelperJudges, RefreshJudges
  <2>2. CASE ~ (Safe(read) /\ Same(expected, read)) /\ Refuse
    BY <1>7, <1>9, <1>11, <2>1, <2>2
  <2>3. CASE LookAgain("Refresh", read) BY <1>8, <1>9, <2>1, <2>3
  <2>4. CASE LookAgain("Inspect", read) BY <1>8, <1>9, <2>1, <2>4
  <2> QED BY <2>1, <2>2, <2>3, <2>4
<1>13. CASE OpenDevice
  BY <1>13 DEF OpenDevice, Refuse, UndisturbedInv, UndisturbedIsWritten, Overtaken,
       Undisturbed, Fits, NameFits, SequenceFits, SizeFits, NoLaterThan, Judges,
       driveVars, systemVars
<1>14. CASE AskHandle
  <2>1. Undisturbed /\ counts => HandleAgrees
    BY <1>14 DEF AskHandle, HandleAgrees, StillThere, UndisturbedInv, Undisturbed, Fits,
                 SequenceFits, SizeFits
  <2>2. sequence # 1 => sequence > 1 BY DriveAssumption DEF TypeOK
  <2> QED
    BY <1>14, <2>1, <2>2 DEF AskHandle, Refuse, UndisturbedInv, UndisturbedIsWritten,
         Undisturbed, Fits, NameFits, SequenceFits, SizeFits, NoLaterThan, Judges,
         driveVars, systemVars
<1>15. CASE InspectJudges \/ ExclusiveJudges
  <2>1. /\ UNCHANGED << driveVars, systemVars >> /\ part = "Judge"
        /\ stage \in {"Inspect", "Exclusive"}
        /\ \/ ~ Same(expected, read) /\ Refuse
           \/ LookAgain("Exclusive", expected)
           \/ stage' = "Written" /\ UNCHANGED << part, read, shown, expected, opened >>
    BY <1>15 DEF InspectJudges, ExclusiveJudges
  <2>2. CASE ~ Same(expected, read) /\ Refuse BY <1>7, <1>11, <2>1, <2>2
  <2>3. CASE LookAgain("Exclusive", expected)
    <3>1. Undisturbed => Fits(expected) BY <2>1 DEF UndisturbedInv
    <3> QED BY <1>8, <2>1, <2>3, <3>1
  <2>4. CASE stage' = "Written" /\ UNCHANGED << part, read, shown, expected, opened >>
    BY <2>1, <2>4 DEF UndisturbedInv, UndisturbedIsWritten, Overtaken, Undisturbed,
         NameFits, SequenceFits, SizeFits, NoLaterThan, Judges, driveVars, systemVars
  <2> QED BY <2>1, <2>2, <2>3, <2>4
<1>16. CASE UNCHANGED vars
  BY <1>16 DEF vars, driveVars, systemVars, UndisturbedInv, UndisturbedIsWritten,
       Overtaken, Undisturbed, Fits, NameFits, SequenceFits, SizeFits
<1> QED
  BY <1>1, <1>2, <1>17, <1>18, <1>3, <1>5, <1>6, <1>10, <1>12, <1>13, <1>14, <1>15, <1>16,
     <1>4
  DEF Next, Look

----------------------------------------------------------------------------
\* Every fact read, shown or compared is one that some drive has, or none.
THEOREM SelectionTypeCorrect == Spec => []TypeOK
<1>1. Inv => TypeOK BY DEF Inv
<1> QED BY <1>1, InvHolds, PTL

\* However drives are exchanged between and within the readings: what the restore
\* writes has the name, the size and the sector size that the user confirmed, and
\* is the instance that the scan found, if the scan could tell.
THEOREM AlwaysWrittenAsShown == Spec => []WrittenAsShown
<1>1. Inv => WrittenAsShown BY DEF Inv
<1> QED BY <1>1, InvHolds, PTL

\* buildRestoreArguments and parseRestoreArguments lose nothing that
\* isSameRestoreTarget compares.
THEOREM ArgumentsAlwaysDecideAlike == Spec => []ArgumentsDecideAlike
<1>1. Inv => ArgumentsDecideAlike BY DEF Inv, SelectionInv, ArgumentsDecideAlike
<1> QED BY <1>1, InvHolds, PTL

\* A drive nobody touched is never refused for what its checks compare, unless udev
\* made the link that sorts first after another one had been read.
THEOREM UndisturbedAlwaysWritten == Spec => []UndisturbedIsWritten
<1>1. UndisturbedInv => UndisturbedIsWritten BY DEF UndisturbedInv
<1> QED BY <1>1, UndisturbedInit, UndisturbedStep, InvHolds, PTL DEF Spec

----------------------------------------------------------------------------
(***************************************************************************)
(* SystemGuard, for any possible mounts, any guarded paths, any number of  *)
(* changes by others and any number of open attempts.                      *)
(*                                                                         *)
(* The argument is about each mount's age.  A protected mount that was made *)
(* before the table was read is in what was read, and still in the table:   *)
(* neither the restore nor others take it away, whatever else they do.      *)
(***************************************************************************)

Phases ==
  { "ScanGuard", "ScanFacts", "HelperGuard", "HelperFacts", "Refresh", "ReadTable",
    "Unmount", "Open", "Opened", "Refused" }

GuardTypeInv ==
  /\ mounts \subseteq PossibleMounts
  /\ events \in Nat
  /\ mountedAt \in [PossibleMounts -> Nat]
  /\ phase \in Phases
  /\ guardAt \in Nat /\ guardAt <= events
  /\ factsAt \in Nat /\ factsAt <= events
  /\ tableAt \in Nat /\ tableAt <= events
  /\ attempts \in 0 .. OpenAttempts - 1

\* The guard knows the drive of every protected mount that is no younger and names
\* one; the facts were found safe, and so show no older one of the stick's.
CheckedInv ==
  /\ phase # "ScanGuard" =>
       \A m \in mounts : isProtectedMountPoint(m.at) /\ mountedAt[m] <= guardAt =>
         SourceDrive(m) \subseteq guard
  /\ Checked => Stick \notin guard
  /\ Checked =>
       \A m \in mounts : Owned(m) /\ mountedAt[m] <= factsAt => ~ isProtectedMountPoint(m.at)

\* unmountDisk knows of every mount of the stick that is left.
PendingInv ==
  phase = "Unmount" /\ tableAt = events => \A m \in mounts : Owned(m) => m \in pending

GuardInv == GuardTypeInv /\ CheckedInv /\ PendingInv /\ OwnNestingNeverBlocks

----------------------------------------------------------------------------
LEMMA GuardInitInv == GuardInit => GuardInv
<1> SUFFICES ASSUME GuardInit PROVE GuardInv OBVIOUS
<1>1. GuardTypeInv BY GuardAssumption, SMT DEF GuardInit, GuardTypeInv, Tables, Phases
<1>2. CheckedInv /\ PendingInv /\ OwnNestingNeverBlocks
  BY DEF GuardInit, CheckedInv, Checked, PendingInv, OwnNestingNeverBlocks
<1> QED BY <1>1, <1>2 DEF GuardInv

\* What others mount is younger than anything that was read; what they unmount says
\* nothing against what was read.
LEMMA OthersInv ==
  ASSUME GuardInv, Others
  PROVE  GuardInv'
<1>1. PICK m \in PossibleMounts : Mount(m) \/ Unmount(m) BY DEF Others
<1>2. /\ events' = events + 1
      /\ UNCHANGED restoreVars
      /\ \/ mounts' = mounts \cup {m} /\ mountedAt' = [mountedAt EXCEPT ![m] = events + 1]
         \/ mounts' = mounts \ {m} /\ mountedAt' = mountedAt
  BY <1>1 DEF Mount, Unmount
<1>3. GuardTypeInv' /\ tableAt' # events'
  BY <1>2, SMT DEF GuardInv, GuardTypeInv, restoreVars
<1>4. \A n \in mounts' :
        \/ n \in mounts /\ mountedAt'[n] = mountedAt[n]
        \/ ~ (mountedAt'[n] <= guardAt) /\ ~ (mountedAt'[n] <= factsAt)
  BY <1>2, SMT DEF GuardInv, GuardTypeInv
<1>5. CheckedInv'
  BY <1>2, <1>4 DEF GuardInv, CheckedInv, Checked, restoreVars, Owned, SourceDrive,
                    isProtectedMountPoint
<1>6. PendingInv' /\ OwnNestingNeverBlocks'
  BY <1>3 DEF PendingInv, OwnNestingNeverBlocks
<1> QED BY <1>3, <1>5, <1>6 DEF GuardInv

----------------------------------------------------------------------------
\* One lemma for each thing the restore does.

LEMMA ReadGuardInv ==
  ASSUME GuardInv, ReadGuard
  PROVE  GuardInv'
<1> USE DEF ReadGuard, GuardInv
<1>1. GuardTypeInv' BY DEF GuardTypeInv, Phases, tableVars
<1>2. \A m \in mounts : isProtectedMountPoint(m.at) => SourceDrive(m) \subseteq guard'
  BY DEF linuxRestoreGuard
<1>3. CheckedInv' BY <1>2 DEF CheckedInv, Checked, tableVars, SourceDrive, isProtectedMountPoint
<1>4. PendingInv' /\ OwnNestingNeverBlocks' BY DEF PendingInv, OwnNestingNeverBlocks
<1> QED BY <1>1, <1>3, <1>4

LEMMA ReadFactsInv ==
  ASSUME GuardInv, ReadFacts
  PROVE  GuardInv'
<1> USE DEF ReadFacts, GuardInv
<1>1. /\ UNCHANGED << tableVars, guard, guardAt, pending, tableAt, attempts >>
      /\ factsAt' \in {factsAt, events} /\ phase # "ScanGuard"
  OBVIOUS
<1>2. GuardTypeInv' BY <1>1, SMT DEF GuardTypeInv, Phases, tableVars, RefuseStick
<1>3. CheckedInv'
  <2>1. CASE SafeByMounts /\ phase' # "Refused"
    <3>1. Stick \notin guard' BY <1>1, <2>1 DEF SafeByMounts
    <3>2. \A m \in mounts' : Owned(m) => ~ isProtectedMountPoint(m.at)
      BY <1>1, <2>1 DEF SafeByMounts, tableVars
    <3> QED
      BY <1>1, <3>1, <3>2 DEF CheckedInv, Owned, SourceDrive, isProtectedMountPoint, tableVars
  <2>2. CASE phase' = "Refused"
    BY <1>1, <2>2 DEF CheckedInv, Checked, SourceDrive, isProtectedMountPoint, tableVars
  <2> QED BY <2>1, <2>2 DEF RefuseStick
<1>4. PendingInv' BY DEF PendingInv, RefuseStick
<1>5. OwnNestingNeverBlocks' BY DEF OwnNestingNeverBlocks, RefuseStick
<1> QED BY <1>2, <1>3, <1>4, <1>5

LEMMA ReadTableInv ==
  ASSUME GuardInv, ReadTable
  PROVE  GuardInv'
<1> USE DEF ReadTable, GuardInv
<1>1. GuardTypeInv' BY DEF GuardTypeInv, Phases, tableVars
<1>2. CheckedInv'
  BY DEF CheckedInv, Checked, tableVars, Owned, SourceDrive, isProtectedMountPoint
<1>3. PendingInv' /\ OwnNestingNeverBlocks'
  BY DEF PendingInv, OwnNestingNeverBlocks, Owned, tableVars
<1> QED BY <1>1, <1>2, <1>3

\* What is taken from the list is taken from the table.
LEMMA UnmountOneInv ==
  ASSUME GuardInv, NEW m \in pending, UnmountOne(m)
  PROVE  GuardInv'
<1> DEFINE there == { n \in mounts : n.at = m.at }
           nested == \E n \in mounts : Beneath(n.at, m.at)
<1> USE DEF GuardInv
<1>1. /\ UNCHANGED << mountedAt, events, guard, guardAt, factsAt, tableAt, attempts >>
      /\ phase = "Unmount" /\ IsNext(m)
      /\ \/ phase' = "Refused" /\ reason' \in {"protected", "in use"}
            /\ UNCHANGED << mounts, pending >>
         \/ phase' = "Refused" /\ nested /\ UNCHANGED << mounts, pending >>
         \/ /\ mounts' = mounts \ there
            /\ pending' = pending \ {m}
            /\ UNCHANGED << phase, reason >>
  BY DEF UnmountOne, RefuseStick
<1>2. GuardTypeInv' BY <1>1 DEF GuardTypeInv, Phases
<1>3. mounts' \subseteq mounts BY <1>1
<1>4. CheckedInv'
  BY <1>1, <1>3 DEF CheckedInv, Checked, Owned, SourceDrive, isProtectedMountPoint
<1>5. PendingInv' BY <1>1 DEF PendingInv, Owned
<1>6. OwnNestingNeverBlocks'
  <2> SUFFICES ASSUME phase' = "Refused", reason' = "nested", tableAt' = events'
               PROVE  (\E p \in pending, n \in mounts : Beneath(n.at, p.at) /\ ~ Owned(n))'
    BY DEF OwnNestingNeverBlocks
  <2>1. nested /\ mounts' = mounts /\ pending' = pending BY <1>1
  <2>2. PICK n \in mounts : Beneath(n.at, m.at) BY <2>1
  <2>3. n \notin pending BY <1>1, <2>2 DEF IsNext
  <2>4. ~ Owned(n) BY <1>1, <2>3 DEF PendingInv
  <2> QED BY <2>1, <2>2, <2>4 DEF Owned, Beneath
<1> QED BY <1>2, <1>4, <1>5, <1>6

LEMMA EndUnmountInv ==
  ASSUME GuardInv, EndUnmount
  PROVE  GuardInv'
<1> USE DEF EndUnmount, GuardInv
<1>1. GuardTypeInv' BY DEF GuardTypeInv, Phases, tableVars
<1>2. CheckedInv'
  BY DEF CheckedInv, Checked, tableVars, Owned, SourceDrive, isProtectedMountPoint
<1>3. PendingInv' /\ OwnNestingNeverBlocks' BY DEF PendingInv, OwnNestingNeverBlocks
<1> QED BY <1>1, <1>2, <1>3

LEMMA OpenStickInv ==
  ASSUME GuardInv, OpenStick
  PROVE  GuardInv'
<1> USE DEF OpenStick, GuardInv
<1>1. UNCHANGED << tableVars, guard, guardAt, factsAt, pending, tableAt >>
      /\ phase = "Open" /\ phase' \in {"Opened", "ReadTable", "Refused"}
  BY DEF RefuseStick
<1>2. attempts' \in 0 .. OpenAttempts - 1
  BY GuardAssumption, SMT DEF GuardTypeInv, MayTryAgain
<1>3. GuardTypeInv' BY <1>1, <1>2 DEF GuardTypeInv, Phases, tableVars
<1>4. CheckedInv'
  BY <1>1 DEF CheckedInv, Checked, tableVars, Owned, SourceDrive, isProtectedMountPoint
<1>5. PendingInv' /\ OwnNestingNeverBlocks'
  BY <1>1 DEF PendingInv, OwnNestingNeverBlocks, RefuseStick
<1> QED BY <1>3, <1>4, <1>5

\* GuardInv is inductive.
LEMMA GuardInductive == GuardSpec => []GuardInv
<1>1. GuardInv /\ [GuardNext]_guardVars => GuardInv'
  <2> SUFFICES ASSUME GuardInv, [GuardNext]_guardVars PROVE GuardInv' OBVIOUS
  <2>1. CASE Restore
    BY <2>1, ReadGuardInv, ReadFactsInv, ReadTableInv, UnmountOneInv, EndUnmountInv,
       OpenStickInv DEF Restore
  <2>2. CASE Others BY <2>2, OthersInv
  <2>3. CASE UNCHANGED guardVars
    <3>1. UNCHANGED << mounts, mountedAt, events, phase, guard, guardAt, factsAt, pending,
                       tableAt, attempts, reason >>
      BY <2>3 DEF guardVars, tableVars, restoreVars
    <3> QED BY <3>1 DEF GuardInv, GuardTypeInv, CheckedInv, Checked, PendingInv,
                        OwnNestingNeverBlocks, Owned, SourceDrive, isProtectedMountPoint
  <2> QED BY <2>1, <2>2, <2>3 DEF GuardNext
<1> QED BY <1>1, GuardInitInv, PTL DEF GuardSpec

----------------------------------------------------------------------------
\* A stick that holds the system has not passed the checks, whatever others mounted
\* and unmounted between their readings, unless the very mount is younger than the
\* reading that would have shown it, or behind the mapper (isSafeRestoreTarget,
\* linuxRestoreGuard).
THEOREM SystemStickAlwaysRefused == GuardSpec => []SystemStickIsRefused
<1>1. GuardInv => SystemStickIsRefused
  <2> SUFFICES ASSUME GuardInv, Checked, NEW m \in SystemMounts
               PROVE  /\ m.via = "pool" => mountedAt[m] > guardAt
                      /\ m.via = "partition" => mountedAt[m] > guardAt /\ mountedAt[m] > factsAt
    BY DEF SystemStickIsRefused
  <2>1. m \in mounts /\ m.drive = Stick /\ isProtectedMountPoint(m.at) BY DEF SystemMounts
  <2>2. mountedAt[m] \in Nat /\ guardAt \in Nat /\ factsAt \in Nat
    BY <2>1 DEF GuardInv, GuardTypeInv
  <2>3. ASSUME m.via \in {"partition", "pool"} PROVE ~ (mountedAt[m] <= guardAt)
    <3>1. Stick \in SourceDrive(m) BY <2>1, <2>3 DEF SourceDrive
    <3>2. phase # "ScanGuard" BY DEF Checked
    <3> QED BY <2>1, <3>1, <3>2 DEF GuardInv, CheckedInv
  <2>4. ASSUME m.via = "partition" PROVE ~ (mountedAt[m] <= factsAt)
    BY <2>1, <2>4 DEF GuardInv, CheckedInv, Owned
  <2>5. /\ m.via = "pool" => mountedAt[m] > guardAt
        /\ m.via = "partition" => mountedAt[m] > guardAt
    BY <2>2, <2>3
  <2>6. m.via = "partition" => mountedAt[m] > factsAt BY <2>2, <2>4
  <2> QED BY <2>5, <2>6
<1> QED BY <1>1, GuardInductive, PTL

\* If an unmount is refused for a mount beneath it, that one is not a mount of the
\* stick that the same reading of the table has shown (unmountDisk's order).
THEOREM NestingNeverBlocks == GuardSpec => []OwnNestingNeverBlocks
  BY GuardInductive, PTL DEF GuardInv

\* Whatever the restore unmounts, and others, the mounts the system needs stay.
THEOREM SystemStaysMounted ==
  GuardSpec => [][\A m \in mounts : isProtectedMountPoint(m.at) => m \in mounts']_guardVars
<1>1. ASSUME GuardNext
      PROVE  \A m \in mounts : isProtectedMountPoint(m.at) => m \in mounts'
  <2>1. CASE \E p \in pending : UnmountOne(p)
    <3>1. PICK p \in pending : UnmountOne(p) BY <2>1
    <3>2. \/ mounts' = mounts
          \/ MayUnmount(p.at) /\ mounts' = mounts \ { n \in mounts : n.at = p.at }
      BY <3>1 DEF UnmountOne
    <3> QED BY <3>2 DEF MayUnmount
  <2>2. CASE Others
    <3>1. PICK p \in PossibleMounts : Mount(p) \/ Unmount(p) BY <2>2 DEF Others
    <3> QED BY <3>1 DEF Mount, Unmount
  <2>3. CASE ReadGuard \/ ReadFacts \/ ReadTable \/ EndUnmount \/ OpenStick
    BY <2>3 DEF ReadGuard, ReadFacts, ReadTable, EndUnmount, OpenStick, tableVars
  <2> QED BY <1>1, <2>1, <2>2, <2>3 DEF GuardNext, Restore
<1> QED BY <1>1, PTL DEF GuardSpec
=============================================================================
