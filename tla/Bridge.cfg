CONSTANTS
  SPI_MAX_RECORDS = 2
  ESTOP_REPEAT = 2
  HEALTHY = 2
  PERIOD = 2
  SEQ = 3
  Bursts = {0,2}
  Inbound = {"fail", "error", "idle", "ok", "estop", "clear"}
  MAX_OPS = 2
  MAX_QUEUE = 1
  MAX_BACKLOG = 3
  Nodes = {n1, n2}
  MAX_COUNTER = 3
  CAPACITY = 3
  TOPICS = {"safety", "bms"}
  MAX_INDEX = 7
  MAX_SECOND = 1
  XRCE_RECORDS = 1
  CHUNK = 2
  READ = 4
  RING = 3
  TERMINAL = 1
  PING = 2
  BYTES = 3
  MAX_AIR = 1
  Limbs = {l1, l2}
  GROUPS = 3
  FLAPS = 1
  MAX_TICKS = 2
  MAX_MISSED = 1
SPECIFICATION MCSpec
INVARIANTS RecordsKept EstopsAccounted ClearsCount BoxReads XrceKept MessagesTell
PROPERTY ThreadGoesOn
CHECK_DEADLOCK FALSE
