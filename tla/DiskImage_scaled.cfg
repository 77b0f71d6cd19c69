SPECIFICATION Spec
CONSTANTS
  Word = 4096
  MiB = 96
  SectorSizes = {2, 4}
  DefaultSector = 2
  EntryBytes = 7
  SignatureClearBytes = 24
  MinimumRestoreTargetBytes = 92
  MbrMaxSectors = 100
  MbrHeads = 2
  MbrSectorsPerTrack = 3
  DiskSizes <- ScaledSizes
  ReportedSectors = {0, 2, 3, 4}
  WriteChunkBytes = 10
  ShortWrites = {3, 40}
INVARIANTS NoLateRefusal OldTablesGone TablesStayIntact TableTellsTheTruth
CHECK_DEADLOCK FALSE
