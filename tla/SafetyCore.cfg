CONSTANTS
  HEARTBEAT_TIMEOUT_MS = 1
  REARM_WINDOW_MS = 2
  CMD_STALE_MS = 2
  ESTOP_REARM_MS = 3
  TICK_MS = 1
  LOCK_MS = 1
  HALF = 4
  Seqs = {0, 1}
  Causes = {4}
  Counters = {1}
SPECIFICATION FairSpec
INVARIANT DeadMan
PROPERTIES ExitsEarned ImplementsStates Rearms
