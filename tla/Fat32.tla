-------------------------------- MODULE Fat32 --------------------------------
(***************************************************************************)
(* How many clusters a volume has as FAT32, which allocation unit Windows  *)
(* is told to use, and which volumes either system refuses before anything *)
(* is erased (src/core/safety.cpp, src/linux/linux_restore.cpp,            *)
(* src/win/windows_disk_service.cpp).                                      *)
(*                                                                         *)
(* The number of clusters depends on the size of the tables, which depends *)
(* on the number of clusters: fat32DataClusterCount searches for it.  The  *)
(* search and the loop over the units are one step per iteration.          *)
(***************************************************************************)
EXTENDS DiskGeometry, Sequences

CONSTANTS
  VolumeSizes,          \* bytes; 0 and odd sizes included
  ReportedSectors,      \* sector sizes, unsupported ones included
  MaximumVolumeSize,    \* 32 GiB, what MSFT_Volume.Format takes
  ReservedSectors, FatCount, FatEntryBytes,   \* 32, 2 and 4
  MinimumClusters, MaximumClusters,           \* of the Windows format stack
  AllocationUnits,      \* sequence, growing: 512 to 256 KiB
  LargestOnSmallSectors,   \* 64 KiB: no larger unit on 512-byte sectors
  PreferredUnits,       \* sequence of << largest volume, unit >>, growing
  LastPreferred,        \* 32 KiB, for larger volumes
  MkfsMinimumClusters, MkfsMaximumSectors,    \* of mkfs.fat: 65525 and 2^32 - 1
  MkfsAlignment         \* mkfs.fat uses multiples of so many sectors: 32

ASSUME FatAssumption ==
  /\ VolumeSizes \subseteq Nat /\ ReportedSectors \subseteq Nat
  /\ MaximumVolumeSize \in Nat
  /\ ReservedSectors \in Nat /\ FatCount \in Nat \ {0} /\ FatEntryBytes \in Nat \ {0}
  /\ MinimumClusters \in Nat \ {0} /\ MaximumClusters \in Nat
  /\ AllocationUnits \in Seq(Nat \ {0})
  /\ \A i, j \in DOMAIN AllocationUnits : i < j => AllocationUnits[i] < AllocationUnits[j]
  /\ LargestOnSmallSectors \in Nat
  /\ PreferredUnits \in Seq(Nat \X Nat)
  /\ LastPreferred \in Nat
  /\ MkfsMinimumClusters \in Nat \ {0} /\ MkfsMaximumSectors \in Nat
ASSUME AlignmentAssumption ==
  /\ MkfsAlignment \in Nat \ {0}
  /\ \A sector \in SectorSizes : MiB % (MkfsAlignment * sector) = 0

VARIABLES
  volumeSize, sectorSize,
  pc,
  next,                 \* the unit looked at
  low, high,            \* fat32DataClusterCount: the count lies in low .. high
  best                  \* the unit to use, 0 for none

vars == << volumeSize, sectorSize, pc, next, low, high, best >>

Init ==
  /\ volumeSize \in VolumeSizes
  /\ sectorSize \in ReportedSectors
  /\ pc = "Check"
  /\ next = 1
  /\ low = 0 /\ high = 0
  /\ best = 0

TypeOK ==
  /\ volumeSize \in VolumeSizes
  /\ sectorSize \in ReportedSectors
  /\ pc \in {"Check", "Unit", "Search", "Judge", "Done"}
  /\ next \in 1 .. Len(AllocationUnits) + 1
  /\ low \in Nat /\ high \in Nat /\ low <= high
  /\ best \in {0} \cup { AllocationUnits[i] : i \in DOMAIN AllocationUnits }

totalSectors == volumeSize \div sectorSize

Unit == AllocationUnits[next]

sectorsPerCluster == Unit \div sectorSize

Preferred ==
  LET holding == { i \in DOMAIN PreferredUnits : volumeSize <= PreferredUnits[i][1] }
  IN IF holding = {} THEN LastPreferred
     ELSE PreferredUnits[CHOOSE i \in holding : \A j \in holding : i <= j][2]

UnitAllowed(unit) ==
  /\ unit > LargestOnSmallSectors => sectorSize # DefaultSector
  /\ unit >= sectorSize
  /\ unit % sectorSize = 0

fatSectors(clusters) == ((clusters + 2) * FatEntryBytes + sectorSize - 1) \div sectorSize

requiredSectorsOneTable(clusters) ==
  ReservedSectors + fatSectors(clusters) + clusters * sectorsPerCluster

requiredSectors(clusters) ==
  ReservedSectors + FatCount * fatSectors(clusters) + clusters * sectorsPerCluster

----------------------------------------------------------------------------
\* fat32AllocationUnitSize up to its loop.
CheckVolume ==
  /\ pc = "Check"
  /\ pc' = IF \/ ~ isSupportedSectorSize(sectorSize)
              \/ volumeSize = 0
              \/ volumeSize > MaximumVolumeSize
           THEN "Done" ELSE "Unit"
  /\ UNCHANGED << volumeSize, sectorSize, next, low, high, best >>

NextUnit ==
  /\ pc = "Unit"
  /\ next <= Len(AllocationUnits)
  /\ ~ UnitAllowed(Unit)
  /\ next' = next + 1
  /\ UNCHANGED << volumeSize, sectorSize, pc, low, high, best >>

\* fat32DataClusterCount up to its loop: a volume of odd bytes, or one that the
\* reserved sectors fill, has none.
CountClusters ==
  /\ pc = "Unit"
  /\ next <= Len(AllocationUnits)
  /\ UnitAllowed(Unit)
  /\ low' = 0
  /\ IF volumeSize % sectorSize = 0 /\ totalSectors > ReservedSectors
     THEN pc' = "Search" /\ high' = (totalSectors - ReservedSectors) \div sectorsPerCluster
     ELSE pc' = "Judge" /\ high' = 0
  /\ UNCHANGED << volumeSize, sectorSize, next, best >>

MiddleRoundedDown == low + (high - low) \div 2

\* Rounded up: the upper half gets smaller even when two are left.
Middle == low + (high - low + 1) \div 2

Halve ==
  /\ pc = "Search"
  /\ low < high
  /\ IF requiredSectors(Middle) <= totalSectors
     THEN low' = Middle /\ high' = high
     ELSE low' = low /\ high' = Middle - 1
  /\ UNCHANGED << volumeSize, sectorSize, pc, next, best >>

EndSearch ==
  /\ pc = "Search"
  /\ low >= high
  /\ pc' = "Judge"
  /\ UNCHANGED << volumeSize, sectorSize, next, low, high, best >>

Smaller == IF best = 0 \/ Unit < best THEN Unit ELSE best

\* The largest legal unit up to the preferred one, or else the smallest.
Better == IF best = 0 \/ Unit <= Preferred THEN Unit ELSE best

JudgeUnit ==
  /\ pc = "Judge"
  /\ best' = IF MinimumClusters <= low /\ low <= MaximumClusters THEN Better ELSE best
  /\ next' = next + 1
  /\ pc' = "Unit"
  /\ UNCHANGED << volumeSize, sectorSize, low, high >>

EndUnits ==
  /\ pc = "Unit"
  /\ next > Len(AllocationUnits)
  /\ pc' = "Done"
  /\ UNCHANGED << volumeSize, sectorSize, next, low, high, best >>

Next ==
  CheckVolume \/ NextUnit \/ CountClusters \/ Halve \/ EndSearch \/ JudgeUnit \/ EndUnits

Spec == Init /\ [][Next]_vars

\* The function runs.
FairSpec == Spec /\ WF_vars(Next)

----------------------------------------------------------------------------
\* What Linux accepts instead, without asking for a unit: canCreateFileSystemOn.

mkfsBareBytes(sector) ==
  LET fat == ((MkfsMinimumClusters + 2) * FatEntryBytes + sector - 1) \div sector
  IN (ReservedSectors + FatCount * fat + MkfsMinimumClusters) * sector

minimumMkfsNotRounded(sector) == mkfsBareBytes(sector)

minimumMkfsFat32VolumeBytes(sector) == RoundUp(mkfsBareBytes(sector), MiB)

maximumMkfsFat32VolumeBytes(sector) == MkfsMaximumSectors * sector

canCreateFileSystemOn(size, sector) ==
  /\ isSupportedSectorSize(sector)
  /\ size <= maximumMkfsFat32VolumeBytes(sector)
  /\ size >= minimumMkfsFat32VolumeBytes(sector)

\* mkfs.fat -F 32 itself, which ends well whatever it leaves behind ("exits
\* successfully outside these limits and leaves a wrong volume").  It counts
\* sectors in 32 bits, and its alignment takes a number of them down to a multiple:
\* the bare floor of 66 581 sectors of 512 bytes is eleven short of one of 32.  What
\* is left has to hold the clusters, at one sector each, with tables for them.
mkfsMakesFat32(size, sector) ==
  LET aligned == RoundDown(size \div sector, MkfsAlignment)
  IN /\ size \div sector <= MkfsMaximumSectors
     /\ \E fat \in 0 .. aligned :
          /\ fat * sector >= (MkfsMinimumClusters + 2) * FatEntryBytes
          /\ ReservedSectors + FatCount * fat + MkfsMinimumClusters <= aligned

----------------------------------------------------------------------------
\* What FAT32 asks of a volume, without the search: the clusters, and tables
\* long enough for an entry of each and the two entries in front.
Holds(clusters, unit) ==
  \E fat \in 0 .. totalSectors :
     /\ fat * sectorSize >= (clusters + 2) * FatEntryBytes
     /\ (ReservedSectors + FatCount * fat) * sectorSize + clusters * unit <= volumeSize

Legal(unit) ==
  /\ UnitAllowed(unit)
  /\ volumeSize % sectorSize = 0
  /\ Holds(MinimumClusters, unit)
  /\ ~ Holds(MaximumClusters + 1, unit)

LegalUnits ==
  { AllocationUnits[i] : i \in { j \in DOMAIN AllocationUnits : Legal(AllocationUnits[j]) } }

\* The search finds the largest number of clusters that leaves room for its own
\* tables ("Counts the FATs and reserved area [...] which can move a volume
\* across the FAT16/FAT32 boundary"): none that would not fit, and not one less.
SearchIsExact ==
  pc = "Judge" /\ volumeSize % sectorSize = 0 =>
    /\ low > 0 => Holds(low, Unit)
    /\ ~ Holds(low + 1, Unit)

\* The largest not above the default, else the smallest, or 0.
IsBest(chosen, legal) ==
  LET modest == { unit \in legal : unit <= Preferred }
  IN IF legal = {} THEN chosen = 0
     ELSE /\ chosen \in legal
          /\ IF modest = {} THEN \A unit \in legal : chosen <= unit
             ELSE chosen \in modest /\ \A unit \in modest : unit <= chosen

\* The unit Windows is given makes a FAT32 that the format stack takes, and the
\* best of them; a volume is refused only when no unit does ("odd clusters beat a
\* refusal") - and then before it is erased, not by formatVolume afterwards.
ChosenIsBest ==
  pc = "Done" =>
    IsBest(best, IF isSupportedSectorSize(sectorSize) /\ volumeSize \in 1 .. MaximumVolumeSize
                 THEN LegalUnits ELSE {})

\* Linux refuses before erasing, and mkfs.fat does not refuse afterwards: every
\* volume that is accepted, up to the largest, becomes a whole FAT32 although
\* mkfs.fat's own alignment comes off it ("rounding up to a mebibyte covers that").
\* Refused without need is at most a volume below the minimum, by less than a MiB.
LinuxRefusesInTime ==
  isSupportedSectorSize(sectorSize) /\ volumeSize % sectorSize = 0 =>
    /\ canCreateFileSystemOn(volumeSize, sectorSize) =>
         mkfsMakesFat32(volumeSize, sectorSize)
    /\ mkfsMakesFat32(volumeSize, sectorSize) =>
         \/ canCreateFileSystemOn(volumeSize, sectorSize)
         \/ /\ volumeSize < minimumMkfsFat32VolumeBytes(sectorSize)
            /\ minimumMkfsFat32VolumeBytes(sectorSize) < volumeSize + MiB

\* Every search comes to an end, and the unit is found or there is none.
ChoiceEnds == <>(pc = "Done")
=============================================================================
