SPECIFICATION FairSpec
CONSTANTS
  NoStick = NoStick
  Stick = {s1, s2, s3}
  Selected = s1
  Alike = {{s1, s3}, {s2, s3}}
  AlikeRaw = {{s1, s3}, {s2, s3}}
  Superfloppy = {s2}
  InitialVolumes = {{"lettered", "letterless"}, {"protected"}}
  ReusesHeldNumber = TRUE
  NotReadyRetries = 2
  MaxEvents = 4
INVARIANTS FormatsOnlyTheOpened WrongLettersEndIt
PROPERTIES EndsWithVerdict ImplementsContract
CHECK_DEADLOCK FALSE
