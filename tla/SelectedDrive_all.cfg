SPECIFICATION Spec
CONSTANTS
  Drives <- AllDrives
  Name <- DriveNames
  Links <- DriveLinks
  Rank <- LinkRanks
  SerialIn <- SerialsIn
  Size <- Sizes
  SectorSize <- SectorSizes
  Blank = ""
  AnyDisk = "USB disk"
  DefaultSector = 512
  SupportedSectors = {512, 4096}
  SmallestSize = 8
  NoDrive = "none"
  PlugLimit = 2
INVARIANTS WrittenAsShown ArgumentsDecideAlike UndisturbedIsWritten
CHECK_DEADLOCK FALSE
