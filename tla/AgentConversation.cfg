SPECIFICATION LoopSpec
CONSTANTS
  MaxAttempts = 2
  MaxEvents = 3
INVARIANTS NoLostWakeup OutputIsOneAnswer ErrorReported
PROPERTY CallReturns
