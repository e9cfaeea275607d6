SPECIFICATION ServeSpec
CONSTANTS
  Callers = {cli}
  PipeCap = 2
  PortMayBeTaken = FALSE
  SignalMayCome = FALSE
PROPERTY RequestsAnswered
