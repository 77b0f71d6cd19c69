--------------------------- MODULE SelectedDriveMC ---------------------------
\* Two sticks of one model and size, one with a second link; a larger disk of that
\* model behind a bridge, whose link is not a "usb-" one; a stick of their size
\* with another name and larger sectors, and no serial: its link ends with the word
\* that is its name; an empty card reader.
EXTENDS SelectedDrive

AllDrives == {"first", "second", "bridge", "other", "empty"}

DriveNames == [d \in AllDrives |-> IF d = "other" THEN "Stick" ELSE "Flash"]

DriveLinks ==
  [d \in AllDrives |->
     CASE d = "first" -> {"usb-1", "wwn-1"}
       [] d = "second" -> {"usb-2"}
       [] d = "bridge" -> {"ata-3"}
       [] d = "other" -> {"usb-Stick"}
       [] OTHER -> {}]

Sorted == << "usb-1", "usb-2", "usb-Stick", "ata-3", "wwn-1" >>

LinkRanks ==
  [link \in { Sorted[i] : i \in DOMAIN Sorted } |->
     CHOOSE i \in DOMAIN Sorted : Sorted[i] = link]

SerialsIn ==
  [link \in DOMAIN LinkRanks, name \in {"Stick", "Flash", "USB disk"} |->
     CASE link = "usb-1" -> "1"
       [] link = "usb-2" -> "2"
       [] link = "usb-Stick" /\ name # "Stick" -> "Stick"
       [] OTHER -> ""]

Sizes ==
  [d \in AllDrives |-> CASE d = "empty" -> 0 [] d = "bridge" -> 64 [] OTHER -> 32]

SectorSizes == [d \in AllDrives |-> IF d = "other" THEN 4096 ELSE 512]
=============================================================================
