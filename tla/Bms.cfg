SPECIFICATION FairSpec
CONSTANTS
  FAMILIES = 2
  DEBOUNCE = 2
  STRIKES = 2
INVARIANTS GateTold RearmNeedsClear TrippedRecovers
PROPERTY TripReported
