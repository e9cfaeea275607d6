SPECIFICATION Spec
CONSTANTS
  Turns = 1
  LargeReply = TRUE
  SpawnMayFail = FALSE
  CrashMayHappen = FALSE
  HostMayDie = FALSE
PROPERTY ValidReplyAccepted
