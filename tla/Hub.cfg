SPECIFICATION Spec
CONSTANTS
  Inputs <- MCInputs
  Modes <- MCModes
  EVENTS = 2
  ROUTE_LEN = 1
  UPLINK_LEN = 1
  DOWNLINK_LEN = 1
  RECORDS = 1
  ESTOP_REPEAT = 1
  NOISE = 1
INVARIANTS MirrorAgrees SignalsTell UplinkKept
PROPERTY Drains
CHECK_DEADLOCK FALSE
