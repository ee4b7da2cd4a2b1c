CONSTANTS
  Seats = {s1}
  MaxTurns = 2
  Backlog = 2
  Tries = 2
  Bounds <- MCBounds
SPECIFICATION FairSpec
CHECK_DEADLOCK FALSE
INVARIANTS
  ReceiptsAreSound
PROPERTIES
  ImplementsSeatTurns
  EveryTurnEnds
