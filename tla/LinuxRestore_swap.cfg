SPECIFICATION FairSpec
CONSTANTS
  NoDisk = NoDisk
  Disk = {d1, d2}
  Selected = d1
  MountPoint = {1, 2}
  Protected = {1}
  MaxEvents = 4
  Styles = {"gpt", "mbr"}
  FormatCommands = {1, 2}
  OpenAttempts = 3
INVARIANTS OnlySelectedDriveWritten SucceededMeansRestored FailedFormatRereads
PROPERTIES NoWriteUnderMount NoWriteUnderMapping ImplementsContract EndsWithVerdict
CHECK_DEADLOCK FALSE
