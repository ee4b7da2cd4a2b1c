SPECIFICATION Spec
CONSTANTS
  Callbacks = {c1}
  NoCallback = NoCallback
  Processes = {p1, p2}
  NativeRecorded = {"native_transition"}
  RowBytes = {1, 2}
  TerminalBytes = 2
  Reserve = 2
  MaxBytes = 8
  SegmentBytes = 3
INVARIANTS
  ViewIsSound
  CompleteMeansComplete
PROPERTIES
  HistoryIsKept
CHECK_DEADLOCK FALSE
