SPECIFICATION RunnerSpec
CONSTANTS
  Seats = {0, 1}
  Bindings <- MCBindings
  TheGateway <- MCGateway
  Setups <- MCSetups
  Games = 2
  MaxChoices = 3
  LoopLimit = 2
  MaxFaults = 2
PROPERTIES
  VerdictIsTrue
  EveryGameEnds
CHECK_DEADLOCK FALSE
