CONSTANTS
  SPI_MAX_RECORDS = 2
  ESTOP_REPEAT = 2
  HEALTHY = 2
  PERIOD = 2
  SEQ = 4
  Bursts = {0}
  Inbound = {"ok", "estop"}
  MAX_OPS = 2
  MAX_QUEUE = 2
SPECIFICATION ClearSpec
PROPERTY ClearBringsBeats
CHECK_DEADLOCK FALSE
