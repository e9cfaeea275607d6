SPECIFICATION FairSpec
CONSTANTS
  Retries = 1
  MaxAutoReplies = 2
  IdleTurnStop = 2
INVARIANTS NoLostWakeup InputAccounted
PROPERTIES EndIsFinal CallReturns AbortStopsCall
