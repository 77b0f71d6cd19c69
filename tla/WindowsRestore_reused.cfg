SPECIFICATION Spec
CONSTANTS
  NoStick = NoStick
  Stick = {s1, s2, s3}
  Selected = s1
  Alike = {{s1, s2}}
  AlikeRaw = {{s1, s2}}
  Superfloppy = {s2}
  InitialVolumes = {{"lettered", "letterless"}, {"protected"}}
  ReusesHeldNumber = TRUE
  NotReadyRetries = 2
  MaxEvents = 3
CHECK_DEADLOCK FALSE
PROPERTY OnlySelectedErased
