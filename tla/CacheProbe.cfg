SPECIFICATION Spec
CONSTANTS
  Procs = {1, 2}
  Trials = 3
  MaxAttempts = 5
  MaxRetries = 2
  Increment = 10
  MaxFaults = 2
  MaxForeign = 1
  LedgerCap = 11
PROPERTIES
  NothingIsLostOrRepeated
  EventuallyComplete
