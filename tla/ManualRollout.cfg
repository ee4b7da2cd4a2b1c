CONSTANTS
  Runtimes = {a, b, c}
  First = a
  Nothing = Nothing
  MaxCommands = 2
  MaxFaults = 3
SPECIFICATION FairSpec
CHECK_DEADLOCK FALSE
INVARIANTS
  OneReleaseServes
PROPERTIES
  NothingIsDisturbed
  ImplementsSwitch
  EventuallyOpen
