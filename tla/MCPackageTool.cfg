SPECIFICATION Spec
CONSTANTS
  Library <- MCLibrary
  Links <- MCLinks
  Lves <- MCLves
  Extras <- MCExtras
  Modelica <- MCModelica
  PackageNames <- MCPackageNames
  Moc <- MCMoc
  CommandLines <- MCCommandLines
  Paths <- MCPaths
  Directories <- MCDirectories
  Hollow <- MCHollow
  BaseName <- MCBaseName
  TrueWords <- MCTrueWords
  LibraryName = "lib"
  NoIcon = NoIcon
  MaxFaults = 1
  MaxAdded = 1
  MaxRuns = 2
INVARIANTS
  PackageTypeOK
  OptionsAsGiven
  NothingInClear
  CompleteContainer
  FaultsAreTold
  ExitExplained
  OldArchiveKept
  ManifestTruthful
CHECK_DEADLOCK FALSE
