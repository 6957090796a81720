SPECIFICATION Spec
CONSTANTS
  LOW = 3
  SYNC_EVERY = 2
  RING = 3
  BLOCK = 2
  MESSAGE = 1
  Foreign = {FALSE}
  SPEECH = 5
  WAY = 3
  SPI_MAX_RECORDS = 1
  HANG = 2
  CAP = 4
  FRAMES = 2
  INTERVAL = 3
  TALK = 24
  UPWAY = 5
  MAX_WARNINGS = 1
  MARKERS = 1
  CHANGES = 2
INVARIANTS PlaysInOrder LossesHeal TalkBounded HudWhole
PROPERTY BannerFollows
CHECK_DEADLOCK FALSE
