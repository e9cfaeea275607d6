SPECIFICATION HostSpec
CONSTANTS
  Callers = {cli}
  PipeCap = 2
  PortMayBeTaken = TRUE
  SignalMayCome = TRUE
INVARIANTS OneDaemon LiveDaemonsTracked
PROPERTIES StopReturns NoOrphanForever
