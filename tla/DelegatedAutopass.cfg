SPECIFICATION AutopassSpec
CONSTANTS
  Calls = {1, 2}
  Confs <- MCConfs
  MaxPasses = 2
PROPERTIES
  DelegationIsSound
  PilotIsAskedAgain
CHECK_DEADLOCK FALSE
