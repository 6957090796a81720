SPECIFICATION FairSpec
CONSTANTS
  SLOTS = 2
  Senders = {a, b}
  CLASSES = 2
  FRAMES = 3
  BUS_OFFS = 1
INVARIANTS SlotsConserved BusOffHandled
PROPERTIES SendOrder SlotsReturn
