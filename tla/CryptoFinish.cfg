SPECIFICATION Spec
CONSTANTS
  p1 = p1
  p2 = p2
  Callers = {p1}
  NonBlocking = {}
  Signals = FALSE
  Interrupt = Interrupt
  NumBuffers = 2
  OvqSizes = {2}
  MaxCalls = 3
CHECK_DEADLOCK FALSE
INVARIANT OpenSessionCanBeFinished
