---------------------------- MODULE SelectedDrive ----------------------------
(***************************************************************************)
(* From the drive that the user was shown to the descriptor that a Linux   *)
(* restore writes through: the scan, the arguments that carry the          *)
(* selection to the root helper, and the four times its facts are read     *)
(* again (src/linux/linux_enumerate.cpp, src/core/restore_protocol.cpp,    *)
(* src/helper/main.cpp, src/linux/linux_restore.cpp,                       *)
(* src/linux/block_device.cpp, src/linux/sysfs.cpp, isSameRestoreTarget of *)
(* src/core/safety.cpp).                                                   *)
(*                                                                         *)
(* A drive has a name in /sys, and its facts are read one attribute after  *)
(* the other: what is read while one drive is replaced by another is half  *)
(* of each.  Every check compares with the facts read last, not with those *)
(* that were shown, and takes a fact that is missing for a match.  Unique  *)
(* ID and serial come from the links in /dev/disk/by-id, which udev makes  *)
(* one by one some time after the drive is there, and clears away some     *)
(* time after it has gone.                                                 *)
(*                                                                         *)
(* LinuxRestore goes on from here, with facts read in one step.            *)
(***************************************************************************)
EXTENDS Naturals, FiniteSets

CONSTANTS
  Drives,               \* what may be plugged in
  Name,                 \* [Drives -> texts]
  Links,                \* [Drives -> sets of links]
  Rank,                 \* [links -> numbers]: "usb-" first, then by name
  SerialIn,             \* [links \X names -> texts]; a serial may be Blank
  Size, SectorSize,     \* [Drives -> numbers]
  Blank,                \* an attribute that is not there
  AnyDisk,              \* "USB disk", for a drive without vendor and model
  DefaultSector,        \* 512, for a drive without a sector size
  SupportedSectors,
  SmallestSize,         \* MinimumRestoreTargetBytes
  NoDrive,
  PlugLimit             \* drives plugged in after the first

ASSUME DriveAssumption ==
  /\ NoDrive \notin Drives
  /\ \A d \in Drives :
       /\ Name[d] # Blank
       /\ Blank \notin Links[d]
       /\ \A link \in Links[d] : Rank[link] \in Nat
       /\ Size[d] \in Nat
       /\ SectorSize[d] \in Nat \ {0}
  /\ \A d, e \in Drives : \A one \in Links[d], another \in Links[e] :
       Rank[one] = Rank[another] => one = another
  /\ AnyDisk # Blank
  /\ DefaultSector \in Nat \ {0}
  /\ SmallestSize \in Nat \ {0}
  /\ PlugLimit \in Nat

VARIABLES
  plugged,              \* the drive that holds the device name
  sequence,             \* how many drives have held it
  links,                \* the links in /dev/disk/by-id that lead to that name
  counts,               \* the kernel is 5.15 or newer, and tells the sequence
  asRoot,               \* started with sudo: no helper
  stage,                \* who looks at the drive, or the end
  part,                 \* what is read next
  read,                 \* the facts read so far
  shown,                \* the facts of the selected row
  expected,             \* the facts to compare with
  opened                \* the drive and the sequence behind the descriptor

driveVars == << plugged, sequence, links >>
systemVars == << counts, asRoot >>
vars == << driveVars, systemVars, stage, part, read, shown, expected, opened >>

AllLinks == UNION { Links[d] : d \in Drives }

Names == { Name[d] : d \in Drives } \cup {AnyDisk}

Serials == { SerialIn[said] : said \in AllLinks \X Names } \cup {Blank}

Sequences == 0 .. PlugLimit + 1

Facts ==
  [name : Names, serial : Serials, uniqueId : AllLinks \cup {Blank},
   sequence : Sequences,
   size : { Size[d] : d \in Drives } \cup {0},
   sectorSize : { SectorSize[d] : d \in Drives } \cup {DefaultSector}]

\* Before the first attribute has been read.
Nothing ==
  [name |-> AnyDisk, serial |-> Blank, uniqueId |-> Blank, sequence |-> 0, size |-> 0,
   sectorSize |-> DefaultSector]

Readers == {"Scan", "Helper", "Refresh", "Inspect", "Exclusive"}

TypeOK ==
  /\ plugged \in Drives \cup {NoDrive}
  /\ sequence \in 1 .. PlugLimit + 1
  /\ links \subseteq AllLinks
  /\ counts \in BOOLEAN /\ asRoot \in BOOLEAN
  /\ stage \in Readers \cup {"Written", "Refused"}
  /\ part \in {"Open", "Begin", "Name", "Serial", "Sequence", "Size", "Judge"}
  /\ read \in Facts /\ shown \in Facts /\ expected \in Facts
  /\ opened \in [drive : Drives \cup {NoDrive}, sequence : Sequences]

Init ==
  /\ plugged \in Drives
  /\ sequence = 1
  /\ links \in SUBSET Links[plugged]
  /\ counts \in BOOLEAN /\ asRoot \in BOOLEAN
  /\ stage = "Scan" /\ part = "Begin"
  /\ read = Nothing /\ shown = Nothing /\ expected = Nothing
  /\ opened = [drive |-> NoDrive, sequence |-> 0]

----------------------------------------------------------------------------
\* The port.  Another drive gets the name of the one before.

Unplug ==
  /\ plugged # NoDrive
  /\ plugged' = NoDrive
  /\ UNCHANGED << sequence, links, systemVars, stage, part, read, shown, expected, opened >>

Plug ==
  /\ plugged = NoDrive
  /\ sequence <= PlugLimit
  /\ plugged' \in Drives
  /\ sequence' = sequence + 1
  /\ UNCHANGED << links, systemVars, stage, part, read, shown, expected, opened >>

\* udev tells of the drive that is there.
AddLink ==
  /\ plugged # NoDrive
  /\ \E link \in Links[plugged] \ links : links' = links \cup {link}
  /\ UNCHANGED << plugged, sequence, systemVars, stage, part, read, shown, expected, opened >>

\* udev clears up after one that has gone.
RemoveLink ==
  /\ plugged = NoDrive \/ sequence > 1
  /\ \E link \in links : links' = links \ {link}
  /\ UNCHANGED << plugged, sequence, systemVars, stage, part, read, shown, expected, opened >>

----------------------------------------------------------------------------
\* Reading: diskInfoWithMounts, in its order.

Refuse ==
  /\ stage' = "Refused"
  /\ UNCHANGED << part, read, shown, expected, opened >>

\* No directory under /sys/block: refreshUsbDisk refuses, and the scan lists nothing.
Begin ==
  /\ part = "Begin"
  /\ stage \in {"Scan", "Helper", "Refresh"}
  /\ IF plugged = NoDrive THEN Refuse
     ELSE part' = "Name" /\ UNCHANGED << stage, read, shown, expected, opened >>
  /\ UNCHANGED << driveVars, systemVars >>

ReadName ==
  /\ part = "Name"
  /\ read' = IF plugged = NoDrive THEN Nothing ELSE [Nothing EXCEPT !.name = Name[plugged]]
  /\ part' = "Serial"
  /\ UNCHANGED << driveVars, systemVars, stage, shown, expected, opened >>

\* The link that sorts first; any other is read only while that one is not there.
stableDeviceIdLink ==
  IF links = {} THEN Blank
  ELSE CHOOSE link \in links : \A other \in links : Rank[link] <= Rank[other]

\* No "usb-" link, no serial; nor is the last word of the product's name one.
serialFromUsbByIdLink(link, name) == IF link = Blank THEN Blank ELSE SerialIn[<< link, name >>]

ReadSerial ==
  /\ part = "Serial"
  /\ read' = [read EXCEPT !.uniqueId = stableDeviceIdLink,
                          !.serial = serialFromUsbByIdLink(stableDeviceIdLink, read.name)]
  /\ part' = "Sequence"
  /\ UNCHANGED << driveVars, systemVars, stage, shown, expected, opened >>

ReadSequence ==
  /\ part = "Sequence"
  /\ read' = [read EXCEPT !.sequence = IF plugged # NoDrive /\ counts THEN sequence ELSE 0]
  /\ part' = "Size"
  /\ UNCHANGED << driveVars, systemVars, stage, shown, expected, opened >>

\* A sector size that cannot be read is taken for 512.
SectorSizeRead == IF plugged = NoDrive THEN DefaultSector ELSE SectorSize[plugged]

ReadSize ==
  /\ part = "Size"
  /\ read' = [read EXCEPT !.size = IF plugged = NoDrive THEN 0 ELSE Size[plugged],
                          !.sectorSize = SectorSizeRead]
  /\ part' = "Judge"
  /\ UNCHANGED << driveVars, systemVars, stage, shown, expected, opened >>

----------------------------------------------------------------------------
\* Judging what was read.

\* isSafeRestoreTarget, as far as it depends on these facts.
Safe(facts) == facts.size >= SmallestSize /\ facts.sectorSize \in SupportedSectors

KnownAndDifferent(a, b) == a # Blank /\ b # Blank /\ a # b

SameToTheLetter(selected, current) == selected = current

\* isSameRestoreTarget: the device path is the same, since it is how drives are found.
Same(selected, current) ==
  /\ selected.size = current.size
  /\ selected.sequence # 0 => current.sequence = selected.sequence
  /\ selected.sectorSize = current.sectorSize
  /\ ~ KnownAndDifferent(selected.serial, current.serial)
  /\ ~ KnownAndDifferent(selected.uniqueId, current.uniqueId)
  /\ ~ KnownAndDifferent(selected.name, current.name)

LookAgain(reader, facts) ==
  /\ stage' = reader
  /\ part' = IF reader \in {"Inspect", "Exclusive"} THEN "Open" ELSE "Begin"
  /\ expected' = facts
  /\ UNCHANGED << read, opened >>

\* The options of the helper's command line that say what was selected.
Options == {"size", "sectorSize", "sequence", "serial", "uniqueId", "name"}

buildWithoutSequence(facts) ==
  [option \in { o \in Options \ {"sequence"} :
                   o \in {"serial", "uniqueId", "name"} => facts[o] # Blank } |-> facts[option]]

buildWithoutUniqueId(facts) ==
  [option \in { o \in Options \ {"uniqueId"} :
                   /\ o = "sequence" => facts.sequence # 0
                   /\ o \in {"serial", "name"} => facts[o] # Blank } |-> facts[option]]

buildRestoreArguments(facts) ==
  [option \in { o \in Options :
                   /\ o = "sequence" => facts.sequence # 0
                   /\ o \in {"serial", "uniqueId", "name"} => facts[o] # Blank } |-> facts[option]]

\* What the options must not lack or say for the helper to go on.
WellFormed(arguments) ==
  /\ {"size", "sectorSize"} \subseteq DOMAIN arguments
  /\ arguments["size"] # 0
  /\ arguments["sectorSize"] # 0
  /\ "sequence" \in DOMAIN arguments => arguments["sequence"] # 0

Given(arguments, option, default) ==
  IF option \in DOMAIN arguments THEN arguments[option] ELSE default

parseRestoreArguments(arguments) ==
  [name |-> Given(arguments, "name", Blank),
   serial |-> Given(arguments, "serial", Blank),
   uniqueId |-> Given(arguments, "uniqueId", Blank),
   sequence |-> Given(arguments, "sequence", 0),
   size |-> Given(arguments, "size", 0),
   sectorSize |-> Given(arguments, "sectorSize", 0)]

\* The row is shown; the user confirms it.  A helper reads it from its arguments.
Select ==
  /\ stage = "Scan" /\ part = "Judge"
  /\ IF ~ Safe(read) THEN Refuse
     ELSE /\ shown' = read
          /\ IF asRoot THEN LookAgain("Refresh", read)
             ELSE IF WellFormed(buildRestoreArguments(read))
             THEN LookAgain("Helper", parseRestoreArguments(buildRestoreArguments(read)))
             ELSE stage' = "Refused" /\ UNCHANGED << part, read, expected, opened >>
  /\ UNCHANGED << driveVars, systemVars >>

\* main of the helper, once the password was given.
HelperJudges ==
  /\ stage = "Helper" /\ part = "Judge"
  /\ IF Safe(read) /\ Same(expected, read)
     THEN LookAgain("Refresh", read) /\ UNCHANGED shown
     ELSE Refuse
  /\ UNCHANGED << driveVars, systemVars >>

\* The first step of performLinuxRestore; `disk = currentDisk`.
RefreshJudges ==
  /\ stage = "Refresh" /\ part = "Judge"
  /\ IF Safe(read) /\ Same(expected, read)
     THEN LookAgain("Inspect", read) /\ UNCHANGED shown
     ELSE Refuse
  /\ UNCHANGED << driveVars, systemVars >>

OpenDevice ==
  /\ part = "Open"
  /\ stage \in {"Inspect", "Exclusive"}
  /\ IF plugged = NoDrive THEN Refuse
     ELSE /\ opened' = [drive |-> plugged, sequence |-> sequence]
          /\ part' = "Begin"
          /\ UNCHANGED << stage, read, shown, expected >>
  /\ UNCHANGED << driveVars, systemVars >>

StillThere == plugged # NoDrive /\ opened.sequence = sequence

\* The first half of verifyIdentity asks the descriptor; a drive that is gone
\* has no size.
HandleAgrees ==
  /\ counts
  /\ expected.sequence # 0
  /\ opened.sequence = expected.sequence
  /\ StillThere
  /\ Size[opened.drive] = expected.size
  /\ SectorSize[opened.drive] = expected.sectorSize

AskHandle ==
  /\ part = "Begin"
  /\ stage \in {"Inspect", "Exclusive"}
  /\ IF HandleAgrees THEN part' = "Name" /\ UNCHANGED << stage, read, shown, expected, opened >>
     ELSE Refuse
  /\ UNCHANGED << driveVars, systemVars >>

\* The second half reads the facts by name once more.  The first descriptor is
\* closed, and the drive opened again to be written.
InspectJudges ==
  /\ stage = "Inspect" /\ part = "Judge"
  /\ IF Same(expected, read)
     THEN LookAgain("Exclusive", expected) /\ UNCHANGED shown
     ELSE Refuse
  /\ UNCHANGED << driveVars, systemVars >>

ExclusiveJudges ==
  /\ stage = "Exclusive" /\ part = "Judge"
  /\ IF Same(expected, read)
     THEN stage' = "Written" /\ UNCHANGED << part, read, shown, expected, opened >>
     ELSE Refuse
  /\ UNCHANGED << driveVars, systemVars >>

Look ==
  \/ Begin \/ ReadName \/ ReadSerial \/ ReadSequence \/ ReadSize
  \/ Select \/ HelperJudges \/ RefreshJudges
  \/ OpenDevice \/ AskHandle \/ InspectJudges \/ ExclusiveJudges

Next == Look \/ Unplug \/ Plug \/ AddLink \/ RemoveLink

Spec == Init /\ [][Next]_vars

----------------------------------------------------------------------------
\* Whatever was exchanged for what, and when: the drive that is written has the
\* name, the size and the sector size the user was shown, and it is the instance
\* that the scan found, if the scan could tell.  Nothing is written where
\* the kernel does not tell ("Linux restores need kernel 5.15 or newer").
WrittenAsShown ==
  stage = "Written" =>
    /\ counts
    /\ Name[opened.drive] = shown.name
    /\ Size[opened.drive] = shown.size
    /\ SectorSize[opened.drive] = shown.sectorSize
    /\ shown.sequence # 0 => opened.sequence = shown.sequence

\* The command line loses nothing that the comparison needs: the helper accepts a
\* drive exactly if a restore without a helper would ("omitting an unknown value
\* costs no more than not knowing it").
ArgumentsDecideAlike ==
  stage = "Helper" /\ part = "Judge" => (Same(expected, read) <=> Same(shown, read))

\* A link that sorts before the one that was compared was made after that was read.
Overtaken ==
  /\ expected.uniqueId # Blank /\ read.uniqueId # Blank
  /\ Rank[read.uniqueId] < Rank[expected.uniqueId]

\* A drive that was there from the start and that nobody touched is not refused for
\* what udev had not told at one time and told at another (bothKnownAndDifferent
\* takes what is missing for a match), with one exception: stableDeviceIdLink falls
\* back on another link while the one it prefers is missing, and isSameRestoreTarget
\* takes the two for two drives.
UndisturbedIsWritten ==
  stage = "Refused" =>
    \/ sequence > 1 \/ plugged = NoDrive
    \/ ~ counts
    \/ Size[plugged] < SmallestSize
    \/ SectorSize[plugged] \notin SupportedSectors
    \/ Overtaken
=============================================================================
