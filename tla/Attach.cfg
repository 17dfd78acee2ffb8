SPECIFICATION Spec
CONSTANTS
  h1 = h1
  h2 = h2
  h3 = h3
  t1 = t1
  t2 = t2
  u1 = u1
  SensorCnt = 2
  MsrCnt = 3
  TTYs = {t1, t2}
  Users = {u1}
  Helpers = {h1, h2, h3}
  Absent = Absent
  Empty = Empty
  MaxLoads = 2
SYMMETRY Symmetry
CHECK_DEADLOCK FALSE
INVARIANT TypeOK
INVARIANT InUseMeansReady
INVARIANT LeftoverPages
INVARIANT OneLine
INVARIANT OneOwner
INVARIANT OwnerKeepsLine
