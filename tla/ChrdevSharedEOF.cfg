SPECIFICATION Spec
CONSTANTS
  p1 = p1
  p2 = p2
  f1 = f1
  f2 = f2
  s1 = s1
  s2 = s2
  long = long
  short = short
  NoFile = NoFile
  NoSensor = NoSensor
  RawValues <- MCRawValues
  Zero = long
  TextLen <- MCTextLen
  BUFSZ = 20
  Procs = {p1, p2}
  Files = {f1}
  Sensors = {s1}
  Counts = {1, 4}
  Sharing = TRUE
  MinGap = 1
  MaxUpdates = 2
  MaxTime = 2
  MaxPos = 3
INVARIANT NoEmptyRead
