SPECIFICATION Spec
CONSTANTS
  Commits = {"c0", "c1", "c2"}
  Tree <- MCTree
  Base = "c0"
  Readers = {"sidecar", "recorder"}
  Threads = {t1, t2}
  Games = {g1}
  Indexes = {1}
  CacheSize = 1
  MaxPulls = 2
  MaxFaults = 1
INVARIANTS PriorSurvives SeatsAreStable
PROPERTIES EventuallyServed
CHECK_DEADLOCK FALSE
