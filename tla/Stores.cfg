SPECIFICATION MCSpec
CONSTANTS
  Lib <- MCLib
  Pids = {1, 2}
  Plans <- AllPlans
  MaxCrashes = 1
  MaxRot = 1
  None = None
  Feed <- MCFeed
  Loaders = {1, 2}
  Readers = {"r"}
  Queries <- MCQueries
  Exports <- MCExports
  Libraries <- AllLibraries
  MaxStops = 1
  MaxRefusals = 1
  Workers = {"w1", "w2"}
  Cases <- AllCases
  Details <- MCDetails
  Leases = {1}
  MaxClock = 1
  MaxClaims = 2
  Nobody = Nobody
  Custodies <- AllCustodies
  Registries = {"r1", "r2"}
  Places <- MCPlaces
  Beats <- AllBeats
  MaxAge = 1
  MaxTime = 2
  MaxBoots = 2
  MaxDrains = 2
  QaAttempts <- AllAttempts
  MaxQaFaults = 3
  MaxQaWrites = 2
INVARIANTS SelectedIsKept ReadersAreServed ImprovementsAreEarned
PROPERTIES CustodyHolds RecordsStand EventuallyWritten
CHECK_DEADLOCK FALSE
