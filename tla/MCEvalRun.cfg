SPECIFICATION FairSpec
CONSTANTS
  OpenCodeAgents <- MCAgents
  Required <- MCRequired
  AdapterComplete = TRUE
  Documents <- MCDocuments
  PackageLists <- MCPackageLists
  Elsewhere <- MCElsewhere
  OuterCap = 2
INVARIANTS
  OneWholeTierFile
  MigrationKeepsProviders
  OnlyValidatedProviders
  ServerWhereNeeded
  ExitCodeHonest
PROPERTY
  EveryPackageSettles
