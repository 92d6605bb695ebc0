CONSTANTS
  Chunks = 2
  Cap = 1
SPECIFICATION FairSpec
INVARIANTS
  TypeOK
  StreamsAreWhole
PROPERTIES
  BridgeGetsOn
