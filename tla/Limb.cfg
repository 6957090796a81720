SPECIFICATION Spec
CONSTANTS
  JOINTS = 2
  OC_TICKS = 1
INVARIANTS TripsHold KickNeedsOverlap
PROPERTY GoesLimp
