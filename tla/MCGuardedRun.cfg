SPECIFICATION MCSpec
CONSTANTS
  userFile = userFile
  ignored = ignored
  artifact = artifact
  a = a
  b = b
  Absent = Absent
  Paths <- MCPaths
  Contents <- MCContents
  Allowed <- MCAllowed
  Ignored <- MCIgnored
  Invocations = 2
  RunIdSet = TRUE
INVARIANTS CleanPathsRestored OnlyRevertsPass
PROPERTY UserWorkSafe
