CONSTANTS
  r1 = r1
  r2 = r2
  Requests = {r1, r2}
  Workers = 1
  Queue = 1
  MaxSegments = 3
  MaxArchive = 4
  Entries <- SmallEntries
  CodeNames <- SmallCodeNames
  MaxEntries = 3
  MaxOutput = 3
  MaxMessageBytes = 4
  MaxWrites = 3
  MaxPiece = 2
  Files <- SmallFiles
  MaxFiles = 2
  MaxRunes = 3
  MaxFindings = 2
SPECIFICATION LiveSpec
INVARIANTS
  TypeOK
  NothingLeftBehind
  WorkIsCovered
  HonestAnswers
  WorkspacesAreWhole
  ReportsAreTrue
PROPERTIES
  EveryRequestEnds
