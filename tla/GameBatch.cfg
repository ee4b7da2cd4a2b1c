SPECIFICATION BatchSpec
CONSTANTS
  Games = {1, 2, 3}
  MaxRequests = 2
  MaxStrangers = 1
  MaxFaults = 1
  Controllers = {"first", "second"}
  Dirs = {"left", "right"}
INVARIANTS
  GamesFollow
PROPERTIES
  RuntimeIsFreed
CHECK_DEADLOCK FALSE
