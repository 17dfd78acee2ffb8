SPECIFICATION FairSpec
CONSTANTS
  c1 = c1
  c2 = c2
  c3 = c3
  Clients = {c1, c2, c3}
  Lines <- MCLines
  UpCap = 1
  DownCap = 1
  NoClient = NoClient
CHECK_DEADLOCK FALSE
INVARIANT TypeOK
INVARIANT SameForAll
INVARIANT EveryLineSaid
PROPERTY BackToSelect
