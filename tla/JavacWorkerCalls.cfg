CONSTANTS
  r1 = r1
  r2 = r2
  Requests = {r1, r2}
  Warm = Warm
  Threads = 2
  Backoff = 0
  MaxFaults = 0
  MaxGen = 3
SPECIFICATION Spec
SYMMETRY Symmetry
INVARIANTS
  SlotCoversJvm
  TrueOutcomes
  InFlightHoldsSlot
  NoLostWakeup
  DoneMeansAnswered
PROPERTIES
  ImplementsChecker
