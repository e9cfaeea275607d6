SPECIFICATION TimerSpec
CONSTANTS
  Turns = 2
  LargeReply = TRUE
  SpawnMayFail = TRUE
  CrashMayHappen = TRUE
  HostMayDie = TRUE
INVARIANTS NoOrphan AnswersMatch
PROPERTIES CallReturns AdapterStops ImplementsCaseContract
