SPECIFICATION FairSpec
CONSTANTS
  NoDisk = NoDisk
  Disk = {d1, d2}
  Selected = d1
  MountPoint = {1, 2}
  Protected = {1}
  MaxEvents = 1
  Styles = {"gpt", "mbr"}
  FormatCommands = {1, 2}
  OpenAttempts = 3
CHECK_DEADLOCK FALSE
PROPERTY FinishedDriveIsAccepted
