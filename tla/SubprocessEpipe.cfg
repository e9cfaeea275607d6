SPECIFICATION Spec
CONSTANTS
  Turns = 1
  LargeReply = FALSE
  SpawnMayFail = FALSE
  CrashMayHappen = TRUE
  HostMayDie = FALSE
INVARIANT CrashIsReported
