SPECIFICATION FairSpec
CONSTANTS
  c1 = c1
  Callbacks = {c1}
  NoCallback = NoCallback
  NumGames = 2
  Recorded = {"initialization", "native_transition", "terminal"}
  Bounds <- MCBounds
INVARIANTS
  JournalsAreFaithful
PROPERTIES
  SealsInTime
  EventuallyPublished
CHECK_DEADLOCK FALSE
