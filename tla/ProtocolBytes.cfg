SPECIFICATION Spec
CONSTANTS
  MAX_PACKET_LEN = 11
  PACKET_SIGNATURE_OFFSET = 4
  NODE_OFFSET = 7
  VREF_OFFSET = 7
  TEMPERATURE_OFFSET = 8
  LIGHT_OFFSET = 9
  lunix_sensor_cnt = 2
  LUNIX_DEBUG = TRUE
  IterLimit = 3
  Buffers <- MCShortBuffers
  MaxCalls = 8
CHECK_DEADLOCK FALSE
INVARIANT TypeOK
INVARIANT EscapeStaysInField
