CONSTANTS
  r1 = r1
  r2 = r2
  Requests = {r1}
  Warm = Warm
  Threads = 1
  Backoff = 1
  MaxFaults = 1
  MaxGen = 6
SPECIFICATION Spec
INVARIANTS
  TypeOK
  OneJvm
  WarmBeforeRequests
  CloseLeavesNoJvm
