SPECIFICATION LineFairSpec
CONSTANTS
  MAX_PACKET_LEN = 60
  PACKET_SIGNATURE_OFFSET = 4
  NODE_OFFSET = 7
  VREF_OFFSET = 9
  TEMPERATURE_OFFSET = 11
  LIGHT_OFFSET = 13
  lunix_sensor_cnt = 2
  LUNIX_DEBUG = TRUE
  IterLimit = 11
  Buffers = {}
  MaxCalls = 0
  Frames <- MCFrames
  MaxFrames = 2
  BufferSizes = {1}
  MaxFaults = 1
CHECK_DEADLOCK FALSE
INVARIANT InOrder
INVARIANT RoundTrip
INVARIANT Aligned
PROPERTY EveryReportArrives
