CONSTANTS
  l1 = l1
  l2 = l2
  Lints = {l1, l2}
  MaxLives = 3
SPECIFICATION FairSpec
INVARIANTS
  TypeOK
  OnlyOwnFiles
  ReadyMeansWarm
  OrderlyExit
PROPERTIES
  LivesGetOn
