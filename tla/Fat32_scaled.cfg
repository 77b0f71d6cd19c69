SPECIFICATION FairSpec
CONSTANTS
  Word = 4096
  MiB = 32
  SectorSizes = {4, 8}
  DefaultSector = 4
  EntryBytes = 4
  SignatureClearBytes = 60
  MinimumRestoreTargetBytes = 160
  MbrMaxSectors = 100
  MbrHeads = 2
  MbrSectorsPerTrack = 3
  VolumeSizes <- ScaledVolumes
  ReportedSectors = {0, 4, 6, 8}
  MaximumVolumeSize = 400
  ReservedSectors = 3
  FatCount = 2
  FatEntryBytes = 2
  MinimumClusters = 9
  MaximumClusters = 24
  AllocationUnits <- ScaledUnits
  LargestOnSmallSectors = 8
  PreferredUnits <- ScaledPreferred
  LastPreferred = 16
  MkfsMinimumClusters = 8
  MkfsMaximumSectors = 90
  MkfsAlignment = 4
INVARIANTS SearchIsExact ChosenIsBest LinuxRefusesInTime
PROPERTIES ChoiceEnds
CHECK_DEADLOCK FALSE
