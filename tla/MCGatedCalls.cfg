SPECIFICATION FairGatedSpec
CONSTANTS
  base = base  sibling = sibling  capture = capture
  plain = plain  other = other  plugin = plugin
  Callers = {base, sibling, capture}
  Kinds = {plugin}
  NoKind = NoKind  Global = Global
  KindOf <- Kind
  Cap <- Allowed
  ReadMayFail = TRUE
  MaxKicks = 2
  Calls = {base, sibling, capture}
  Bridged = {base}
  Siblings = {sibling, capture}
  Capture = {capture}
  Commands = {plain, other}
  Plain = plain
  Unset = Unset
  Blank = Blank
  RunnerOf <- Runner
  EnvRunner = Unset
  Generation <- Speaks
  EnvMajor = 0
  Retries <- Again
INVARIANTS NoStrandedWaiter NobodyStuck ArgumentsFit CrashExplained CallsInSlots
PROPERTIES ImplementsBoundedSlots OneRoundOfProbes CallReturns
