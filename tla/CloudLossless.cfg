CONSTANTS
  BUFFER = 2
  CONNS = 3
  CLIENTS = 2
  SAID = 3
  INITIAL = 2
  CREDITS = 2
  LOW_WATER = 1
  CHUNKS = 3
  STREAMS = 2
  CUTS = 2
  BEARERS = 3
  UNHEALTHY_SWITCH_S = 1
  PREEMPT_SWITCH_S = 1
  LINGER = 1
  MAXLEN = 1
  Reach <- CloudReach
  QUERIES = 1
  FLIPS = 1
SPECIFICATION Spec
INVARIANT Lossless
CHECK_DEADLOCK FALSE
