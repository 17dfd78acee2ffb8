SPECIFICATION Spec
CONSTANTS
  p1 = p1
  p2 = p2
  p3 = p3
  d1 = d1
  d2 = d2
  d3 = d3
  Openers = {p1, p2, p3}
  Devices = {d1, d2, d3}
  Dev <- OwnDevice
  NonBlocking = {}
  Signals = FALSE
  HostFds = {3, 4}
  NoDevice = NoDevice
  CtlQueueSize = 2
CHECK_DEADLOCK FALSE
INVARIANT OwnerHasDescriptor
INVARIANT AvailableWhenFree
INVARIANT RefusalMeansHostFailure
INVARIANT MessagesOutliveUse
PROPERTY OpenReturns
