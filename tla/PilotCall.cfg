SPECIFICATION MCSpec
CONSTANTS
  Ids <- MCIds
  Confs <- MCConfs
  CallbackLimit = 22
  RequestLimit = 18
  Margin = 1
  MinRetry = 2
  LocalLimit = 20
  EngineLimit = 24
  Recordings <- MCRecordings
  Human = "human"
  None = None
INVARIANTS
  PaidIsReported
  BackInTime
  FormatsAreFair
  RoutesAreForced
  EvidenceIsTrue
PROPERTIES
  EveryCallEnds
  DrainedMeansAtRest
CHECK_DEADLOCK FALSE
