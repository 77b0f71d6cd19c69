SPECIFICATION GuardSpec
CONSTANTS
  Stick = "stick"
  PossibleMounts <- AllMounts
  ProtectedPaths <- Guarded
  OpenAttempts = 3
  MaxEvents = 3
INVARIANTS SystemStickIsRefused OwnNestingNeverBlocks
CHECK_DEADLOCK FALSE
