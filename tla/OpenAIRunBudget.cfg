CONSTANTS
  Processes = {p1, p2}
  Calls = {c1, c2, c3}
  Costs = {2}
  Caps = {2, 3}
  Default = 2
  Limits = {1, 2}
  NoLimit = NoLimit
  MaxStarts = 2
SPECIFICATION Spec
SYMMETRY MCSymmetry
CHECK_DEADLOCK FALSE
INVARIANTS
  LedgerIsSound
PROPERTIES
  LedgerRemembers
  ImplementsMeter
