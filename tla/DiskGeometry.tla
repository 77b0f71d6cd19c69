---------------------------- MODULE DiskGeometry ----------------------------
(***************************************************************************)
(* The arithmetic of a restore: where the partition and the tables go, what*)
(* is cleared first, and which ranges are refused (src/core/safety.cpp,    *)
(* src/core/partition_table.cpp).  All of it is pure.                      *)
(*                                                                         *)
(* Sizes and offsets are bytes in unsigned 64-bit words.  The one place    *)
(* that subtracts before it knows the result to be positive wraps around   *)
(* here as it would there (Minus); everything else stays far below a word. *)
(* Contents of the tables are reduced to the numbers that place something  *)
(* on the disk; checksums, identifiers and names are left out.             *)
(***************************************************************************)
EXTENDS Integers

CONSTANTS
  Word,                \* 2^64
  MiB,                 \* the alignment of a partition, 2^20
  SectorSizes,         \* the supported ones: 512, 1024, 2048, 4096
  DefaultSector,       \* 512, taken for any other
  EntryBytes,          \* GptEntryCount * GptEntrySize, 16 KiB
  SignatureClearBytes, \* 4 MiB
  MinimumRestoreTargetBytes,   \* 8 MiB
  MbrMaxSectors,       \* 2^32 - 1
  MbrHeads, MbrSectorsPerTrack \* 255 and 63

\* What the code's numbers satisfy: a table with its headers fits in front of
\* the first MiB boundary and into a quarter of the smallest disk.
ASSUME WordAssumption ==
  Word \in Nat /\ MbrMaxSectors \in Nat /\ MbrMaxSectors > 0
ASSUME SectorAssumption ==
  /\ DefaultSector \in SectorSizes
  /\ SectorSizes \subseteq Nat \ {0}
  /\ MiB \in Nat \ {0} /\ EntryBytes \in Nat \ {0}
  /\ \A s \in SectorSizes : MiB % s = 0 /\ EntryBytes + 3 * s <= MiB
ASSUME ClearAssumption ==
  /\ SignatureClearBytes \in Nat /\ MinimumRestoreTargetBytes \in Nat
  /\ \A s \in SectorSizes :
       /\ EntryBytes + 4 * s <= SignatureClearBytes
       /\ 4 * (EntryBytes + 4 * s) <= MinimumRestoreTargetBytes
ASSUME ChsAssumption == MbrHeads \in 1 .. 255 /\ MbrSectorsPerTrack \in 1 .. 63

Minus(a, b) == (a - b) % Word

RoundDown(a, unit) == (a \div unit) * unit

RoundUp(a, unit) == ((a + unit - 1) \div unit) * unit

isSupportedSectorSize(sectorSize) == sectorSize \in SectorSizes

\* Every caller that divides takes 512 for a size it does not know.
SectorOf(sectorSize) ==
  IF isSupportedSectorSize(sectorSize) THEN sectorSize ELSE DefaultSector

----------------------------------------------------------------------------
\* What is cleared: both ends, never more than a quarter of the disk each.

clearBytes(diskSize, sector) ==
  LET quarter == diskSize \div 4
  IN RoundDown(IF quarter < SignatureClearBytes THEN quarter ELSE SignatureClearBytes,
               sector)

TailOffset(diskSize, bytes, sector) ==
  IF bytes > 0 THEN RoundDown(diskSize - bytes, sector) ELSE 0

\* A plausible slip: the disk's size cut down to whole sectors once too often.
signatureClearRangeShortOfTheEnd(diskSize, sectorSize) ==
  LET sector == SectorOf(sectorSize)
      bytes == clearBytes(diskSize, sector)
  IN [sectorSize |-> sector,
      bytes      |-> bytes,
      tailOffset |-> TailOffset(diskSize - 1, bytes, sector)]

signatureClearRange(diskSize, sectorSize) ==
  LET sector == SectorOf(sectorSize)
      bytes == clearBytes(diskSize, sector)
  IN [sectorSize |-> sector,
      bytes      |-> bytes,
      tailOffset |-> TailOffset(diskSize, bytes, sector)]

isAlignedZeroRange(offset, bytes, sectorSize) ==
  offset % SectorOf(sectorSize) = 0 /\ bytes % SectorOf(sectorSize) = 0

----------------------------------------------------------------------------
\* Where the partition goes.

gptEntryArraySectors(sectorSize) ==
  (EntryBytes + SectorOf(sectorSize) - 1) \div SectorOf(sectorSize)

NoLayout == [startOffset |-> 0, length |-> 0]

\* The backup table is kept free under MBR too, so the style never moves the
\* partition; the end is rounded down to a MiB.
calculateGptLayout(diskSize, sectorSize) ==
  LET sector == SectorOf(sectorSize)
      start == RoundUp(MiB, sector)
      backupGpt == (gptEntryArraySectors(sectorSize) + 1) * sector
      alignment == IF MiB > sector THEN MiB ELSE sector
      length == RoundDown(Minus(Minus(diskSize, start), backupGpt), alignment)
  IN IF diskSize <= start + backupGpt + sector \/ length = 0
     THEN NoLayout
     ELSE [startOffset |-> start, length |-> length]

\* partitionLayoutError is empty.
IsPartitionLayout(style, layout, sectorSize) ==
  /\ isSupportedSectorSize(sectorSize)
  /\ layout.length # 0
  /\ style = "mbr" =>
       (layout.startOffset + layout.length) \div sectorSize <= MbrMaxSectors

canCreatePartitionLayout(style, diskSize, sectorSize) ==
  IsPartitionLayout(style, calculateGptLayout(diskSize, sectorSize), sectorSize)

isValidDeviceRange(size, offset, length, sectorSize) ==
  /\ isSupportedSectorSize(sectorSize)
  /\ length > 0
  /\ offset <= size
  /\ length <= size - offset
  /\ offset % sectorSize = 0
  /\ length % sectorSize = 0

\* The part of isSafeRestoreTarget that is about geometry.
IsLargeEnough(diskSize, sectorSize) ==
  /\ diskSize >= MinimumRestoreTargetBytes
  /\ isSupportedSectorSize(sectorSize)
  /\ calculateGptLayout(diskSize, sectorSize).length # 0

----------------------------------------------------------------------------
\* The tables.  A request is a record of style, diskSize, sectorSize, layout.

sectorCount(request) == request.diskSize \div request.sectorSize

GeometryWithLastLba(request, lastLba) ==
  LET arraySectors == gptEntryArraySectors(request.sectorSize)
  IN [fits           |-> sectorCount(request) >= 2 * arraySectors + 3,
      arraySectors   |-> arraySectors,
      backupEntryLba |-> lastLba - arraySectors,
      firstUsableLba |-> 2 + arraySectors,
      lastUsableLba  |-> lastLba - arraySectors - 1]

gptGeometryOneShort(request) == GeometryWithLastLba(request, sectorCount(request) - 2)

\* The last sector is counted from the sectors, so that a size that is no whole
\* number of them still puts the backup header on the last one there is.
gptGeometry(request) == GeometryWithLastLba(request, sectorCount(request) - 1)

isWritablePartitionRequest(request) ==
  LET sector == request.sectorSize
      layout == request.layout
      endLba == (layout.startOffset + layout.length) \div sector
      geometry == gptGeometry(request)
  IN /\ IsPartitionLayout(request.style, layout, sector)
     /\ layout.startOffset % sector = 0
     /\ layout.length % sector = 0
     /\ sectorCount(request) # 0 /\ endLba <= sectorCount(request)
     /\ request.style = "gpt" =>
          /\ geometry.fits
          /\ layout.startOffset \div sector >= geometry.firstUsableLba
          /\ endLba - 1 <= geometry.lastUsableLba

gptBackupOffsetFromBytes(request) ==
  request.diskSize - (gptEntryArraySectors(request.sectorSize) + 1) * request.sectorSize

gptBackupOffset(request) ==
  IF gptGeometry(request).fits
  THEN gptGeometry(request).backupEntryLba * request.sectorSize ELSE 0

\* The sizes of what buildGptPrimary, buildGptBackup and buildMbr return.
primaryBytes(request) ==
  (2 + gptEntryArraySectors(request.sectorSize)) * request.sectorSize

backupBytes(request) ==
  (gptEntryArraySectors(request.sectorSize) + 1) * request.sectorSize

\* A cylinder, head and sector as BIOS translation packs them into three bytes;
\* beyond 1023 cylinders the "use LBA" marker.
writeChs(lba) ==
  LET cylinder == lba \div (MbrHeads * MbrSectorsPerTrack)
      head == (lba \div MbrSectorsPerTrack) % MbrHeads
      sector == (lba % MbrSectorsPerTrack) + 1
  IN IF cylinder > 1023 THEN << 254, 255, 255 >>
     ELSE << head, (sector % 64) + 64 * ((cylinder \div 256) % 4), cylinder % 256 >>

Clamp(lba) == IF lba < MbrMaxSectors THEN lba ELSE MbrMaxSectors

EntryOfExclusive(request) ==
  [first    |-> request.layout.startOffset \div request.sectorSize,
   last     |-> (request.layout.startOffset + request.layout.length) \div request.sectorSize,
   chsFirst |-> << 254, 255, 255 >>,
   chsLast  |-> << 254, 255, 255 >>]

\* What the entry of the new table says of the partition: GPT as in
\* buildEntryArray, whose last sector is inclusive, MBR as in buildMbr.
EntryOf(request) ==
  LET firstLba == request.layout.startOffset \div request.sectorSize
      span == request.layout.length \div request.sectorSize
      endLba == (request.layout.startOffset + request.layout.length) \div request.sectorSize
  IN IF request.style = "gpt"
     THEN [first |-> firstLba, last |-> endLba - 1]
     ELSE [first    |-> Clamp(firstLba),
           last     |-> Clamp(firstLba) + Clamp(span) - 1,
           chsFirst |-> writeChs(firstLba),
           chsLast  |-> writeChs(firstLba + span - 1)]
=============================================================================
