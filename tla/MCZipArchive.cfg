SPECIFICATION Spec
CONSTANTS
  empty = empty
  small = small
  large = large
  drive = drive
  Files <- MCFiles
  Refused <- MCRefused
  Pieces <- MCPieces
  Absent = Absent
  NoFile = NoFile
  MaxFiles = 3
  MaxCells = 20
  Window = 4
  MaxAdds = 4
INVARIANTS
  ZipTypeOK
  ListedIsWhole
  ResultTruthful
  FinalizedIsLegible
PROPERTIES
  AppendOnly
CHECK_DEADLOCK FALSE
