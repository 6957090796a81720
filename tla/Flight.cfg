SPECIFICATION Spec
CONSTANTS
  INGEST = 4
  ENV = 3
  PAIR_MAX = 5
  BRAKE = 4
  SLEW = 4
  Scales <- MCScales
  UNIT = 4
  Cmds <- MCCmds
  States <- MCStates
  HOME = 2
INVARIANTS HornsApart StopsInTime
PROPERTY RestIsHeard
