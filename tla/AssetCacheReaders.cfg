CONSTANTS
  u1 = u1
  u2 = u2
  u3 = u3
  l1 = l1
  l2 = l2
  k1 = k1
  k2 = k2
  k3 = k3
  p1 = p1
  p2 = p2
  None = None
  Uploads = {u1, u2}
  Lints = {l1, l2}
  Keys = {k1, k2}
  Prints = {p1, p2}
  Sizes = {1, 2}
  MaxBytes = 3
  Workers = 2
  MaxFiles = 2
SPECIFICATION FairSpec
INVARIANTS
  TypeOK
  ReadSetsStayWhole
PROPERTIES
  UploadsEnd
