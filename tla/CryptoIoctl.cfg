SPECIFICATION Spec
CONSTANTS
  p1 = p1
  p2 = p2
  Callers = {p1, p2}
  NonBlocking = {p2}
  Signals = TRUE
  Interrupt = Interrupt
  NumBuffers = 1
  OvqSizes = {1, 2}
  MaxCalls = 2
CHECK_DEADLOCK FALSE
INVARIANT TypeOK
INVARIANT OwnAnswer
INVARIANT RequestsConserved
INVARIANT BuffersConserved
INVARIANT NothingLeftBehind
PROPERTY CallReturns
