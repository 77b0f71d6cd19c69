------------------------------ MODULE DiskImage ------------------------------
(***************************************************************************)
(* What the raw writes of a Linux restore leave on a disk, sector by       *)
(* sector (src/linux/linux_restore.cpp over BlockDevice::writeAt and       *)
(* writeZeros, with the arithmetic of DiskGeometry).                       *)
(*                                                                         *)
(* The disk is not an array: a restore writes up to five ranges in a fixed *)
(* order, so what lies at a place is the last range that has reached it.   *)
(* LinuxRestore says who may write and when; this module says where.       *)
(***************************************************************************)
EXTENDS DiskGeometry, Sequences

CONSTANTS
  DiskSizes,        \* bytes; not necessarily a whole number of sectors
  ReportedSectors,  \* the sector sizes disks report, unsupported ones included
  WriteChunkBytes,  \* zeros are written in chunks, 4 MiB in the code
  ShortWrites       \* bound: in sectors, how much a call takes that does not take all

ASSUME ImageAssumption ==
  /\ DiskSizes \subseteq 0 .. Word - 1
  /\ ReportedSectors \subseteq Nat
  /\ ShortWrites \subseteq Nat \ {0}
  /\ WriteChunkBytes \in Nat /\ \A s \in SectorSizes : s <= WriteChunkBytes

VARIABLES
  diskSize, sectorSize, style,   \* what the restore is asked for
  pc,                            \* the range being written
  cursor,                        \* bytes of it that are on the disk
  failure                        \* why the restore has stopped

request == << diskSize, sectorSize, style >>
vars == << request, pc, cursor, failure >>

Ranges == {"head", "tail", "table", "backup", "data"}

Init ==
  /\ diskSize \in DiskSizes
  /\ sectorSize \in ReportedSectors
  /\ style \in {"gpt", "mbr"}
  /\ pc = "Check"
  /\ cursor = 0
  /\ failure = "none"

layout == calculateGptLayout(diskSize, sectorSize)

tableRequest ==
  [style |-> style, diskSize |-> diskSize, sectorSize |-> sectorSize, layout |-> layout]

clear == signatureClearRange(diskSize, sectorSize)

\* The ranges in the order they are written.
Order == IF style = "gpt" THEN << "head", "tail", "table", "backup", "data" >>
                          ELSE << "head", "tail", "table", "data" >>

Offset(range) ==
  CASE range = "tail"   -> clear.tailOffset
    [] range = "backup" -> gptBackupOffset(tableRequest)
    [] range = "data"   -> layout.startOffset
    [] OTHER            -> 0

Bytes(range) ==
  CASE range \in {"head", "tail"} -> clear.bytes
    [] range = "table"            -> IF style = "gpt" THEN primaryBytes(tableRequest)
                                                      ELSE sectorSize
    [] range = "backup"           -> backupBytes(tableRequest)
    [] OTHER                      -> layout.length

Position(range) == CHOOSE i \in DOMAIN Order : Order[i] = range

FollowedBy(range) ==
  IF Position(range) = Len(Order) THEN "Done" ELSE Order[Position(range) + 1]

TypeOK ==
  /\ diskSize \in DiskSizes
  /\ sectorSize \in ReportedSectors
  /\ style \in {"gpt", "mbr"}
  /\ pc \in {"Check", "Clear", "Done"} \cup Ranges
  /\ cursor \in Nat /\ cursor <= IF pc \in Ranges THEN Bytes(pc) ELSE 0
  /\ failure \in {"none", "refused", "late", "range", "device"}

Stop(why) ==
  /\ failure' = why
  /\ UNCHANGED << request, pc, cursor >>

----------------------------------------------------------------------------
\* Everything the restore asks of the numbers before it may erase: the target,
\* the layout, the write gate, and the range of the loop device.
CheckRequest ==
  /\ pc = "Check"
  /\ IF /\ IsLargeEnough(diskSize, sectorSize)
        /\ canCreatePartitionLayout(style, diskSize, sectorSize)
        /\ isWritablePartitionRequest(tableRequest)
        /\ isValidDeviceRange(diskSize, layout.startOffset, layout.length, sectorSize)
     THEN pc' = "Clear" /\ UNCHANGED << request, cursor, failure >>
     ELSE Stop("refused")

\* No cancelling any more; the two questions asked only now.
BeginClear ==
  /\ pc = "Clear"
  /\ IF /\ clear.bytes # 0
        /\ isAlignedZeroRange(0, clear.bytes, clear.sectorSize)
        /\ isAlignedZeroRange(clear.tailOffset, clear.bytes, clear.sectorSize)
     THEN pc' = "head" /\ UNCHANGED << request, cursor, failure >>
     ELSE Stop("late")

\* What one call asks for: what is left of a chunk of zeros, of a table or of
\* the volume.
Asked ==
  LET rest == Bytes(pc) - cursor
      chunk == RoundDown(WriteChunkBytes, sectorSize)
      ofChunk == chunk - (cursor % chunk)
  IN IF pc \in {"head", "tail"} /\ rest > ofChunk THEN ofChunk ELSE rest

\* A device takes whole sectors inside it and nothing else.
OnDevice(offset, bytes) ==
  /\ offset % sectorSize = 0 /\ bytes % sectorSize = 0
  /\ (offset + bytes) \div sectorSize <= diskSize \div sectorSize

\* writeAt goes on after a short write from where that one stopped.
Advanced(count) == cursor + count

WriteSome ==
  /\ pc \in Ranges
  /\ cursor < Bytes(pc)
  /\ IF OnDevice(Offset(pc) + cursor, Asked)
     THEN /\ \E count \in {Asked} \cup { n * sectorSize : n \in ShortWrites } :
               count <= Asked /\ cursor' = Advanced(count)
          /\ UNCHANGED << request, pc, failure >>
     ELSE Stop("range")

\* An error, or a device that takes nothing any more.
WriteFails ==
  /\ pc \in Ranges
  /\ cursor < Bytes(pc)
  /\ Stop("device")

EndRange ==
  /\ pc \in Ranges
  /\ cursor >= Bytes(pc)
  /\ pc' = FollowedBy(pc)
  /\ cursor' = 0
  /\ UNCHANGED << request, failure >>

Progress == CheckRequest \/ BeginClear \/ WriteSome \/ EndRange

Next == failure = "none" /\ (Progress \/ WriteFails)

Spec == Init /\ [][Next]_vars
=============================================================================
