CONSTANTS
  t1 = t1
  t2 = t2
  q1 = q1
  q2 = q2
  q3 = q3
  Threads = {t1, t2}
  Requests = {q1, q2, q3}
  Warm = Warm
  None = None
  MAX_USES = 2
  MIN_USES = 1
  MaxCrossings = 1
  MaxText = 5
SPECIFICATION FairSpec
INVARIANTS
  TypeOK
  OneRebuildAtATime
  WarmedTogether
  PositionsAreTrue
PROPERTIES
  RequestsEnd
