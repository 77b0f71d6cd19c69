--------------------------- MODULE DiskImageSafety ---------------------------
(***************************************************************************)
(* What must be true of a disk whatever its size, and wherever a restore   *)
(* stops.                                                                  *)
(***************************************************************************)
EXTENDS DiskImage, Functions

\* Bytes of a range that have reached the disk.
Reached(range) ==
  CASE pc = range                  -> cursor
    [] pc = "Done"                 -> Bytes(range)
    [] pc \in {"Check", "Clear"}   -> 0
    [] OTHER                       -> IF Position(range) < Position(pc) THEN Bytes(range) ELSE 0

Written == { range \in Range(Order) : Reached(range) > 0 }

Overlap(a, aBytes, b, bBytes) == a < b + bBytes /\ b < a + aBytes

SectorsIn(offset, bytes) == offset \div sectorSize .. (offset + bytes) \div sectorSize - 1

LastSector == diskSize \div sectorSize - 1

\* A disk is refused before it is touched or not at all: once the user can no
\* longer cancel, no check of a size, an alignment or a range may fail, and no
\* write may miss the device - each of them would leave an erased stick behind.
NoLateRefusal == failure \notin {"late", "range"}

\* The layout and the write gate agree: a disk that is large enough for the one
\* is never refused by the other, or by the loop device ("Derived, not
\* hard-coded, so it agrees with the write gate"), and a disk too small is told
\* so instead of wrapping around to a huge partition.
GatesAgree ==
  failure = "refused" =>
    ~ (/\ IsLargeEnough(diskSize, sectorSize)
       /\ canCreatePartitionLayout(style, diskSize, sectorSize))

\* When the first sector of a new table is written, no structure of an old one
\* is left where a scanner looks: the first sectors, and the last, where a GPT
\* backup would bring the old partitions back ("4 MiB covers GPT, MBR and
\* hybrid-ISO signatures").  It must hold for sizes that are no whole number of
\* sectors too.
OldTablesGone ==
  "table" \in Written =>
    LET array == gptEntryArraySectors(sectorSize)
    IN /\ 0 .. 1 + array \subseteq SectorsIn(0, clear.bytes)
       /\ LastSector - array .. LastSector \subseteq SectorsIn(clear.tailOffset, clear.bytes)

\* Nothing written later damages a table: primary, backup and partition are
\* apart, and the backup header lies on the last sector of the device.
TablesStayIntact ==
  /\ \A a, b \in Written \ {"head", "tail"} :
       a # b => ~ Overlap(Offset(a), Reached(a), Offset(b), Reached(b))
  /\ "backup" \in Written /\ pc # "backup" =>
       Offset("backup") + Bytes("backup") = (LastSector + 1) * sectorSize

\* The sector the three bytes name.
LbaOf(chs) ==
  LET cylinder == chs[3] + 256 * (chs[2] \div 64)
  IN (cylinder * MbrHeads + chs[1]) * MbrSectorsPerTrack + (chs[2] % 64) - 1

\* The partition that the table describes is the range that is formatted: to
\* the sector, and without a number cut off at 32 bits; and where an MBR names
\* a cylinder, head and sector at all they are those of the same sector.
TableTellsTheTruth ==
  "data" \in Written =>
    LET entry == EntryOf(tableRequest)
        named == SectorsIn(layout.startOffset, layout.length)
    IN /\ entry.first .. entry.last = named
       /\ style = "mbr" =>
            /\ entry.chsFirst = << 254, 255, 255 >> \/ LbaOf(entry.chsFirst) = entry.first
            /\ entry.chsLast = << 254, 255, 255 >> \/ LbaOf(entry.chsLast) = entry.last
=============================================================================
