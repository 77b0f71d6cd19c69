SPECIFICATION FairSpec
CONSTANTS
  Scans <- MCScans
  Choices = {"exFAT", "FAT32"}
  Fits <- MCFits
  Steps = 3
  FirstDestructive = 2
  MaxRestores = 2
INVARIANTS OneUserOfTheService RequestStillListed ClosedInPeace OutcomeIsTrue DialogFollows
PROPERTIES OutcomeShown
CHECK_DEADLOCK FALSE
