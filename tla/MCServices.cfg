SPECIFICATION Spec
CHECK_DEADLOCK FALSE
CONSTANTS
  MaxStamp = 5
  AppSeries = {"a", "b"}
  Generated <- GeneratedPoints
  SimulatedAt = 9
  PageSize = 3
  CacheDelay = 1
  Late = 1
  Smoothing = 2
  MaxTime = 4
  Markets = {"m", "n"}
  DedupeInterval = 2
  MaxFaults = 1
  Pools <- PoolNames
  Scheduler <- PoolScheduler
  MaxPasses = 1
  Agents = {"n1", "n2"}
  Pods = {"batch", "other"}
  Modes <- PoolModes
  NodeCpus = 3
  NoNode = "no_node"
  Hosts = {"h", "k", "l"}
  Starts = {1, 2}
  MaxTries = 2
  MaxCalls = 4
  PoolNodes <- MigratedNodes
  Inputs <- Typed
  Selectors <- LabelSelectors
  Rates <- Portions
  MaxClock = 2
  MaxEvents = 1
INVARIANTS
  CachedReadsAreComplete
  HistoryIsFound
  PricesAreRecorded
  ReportedPassIsWhole
  
  AccountsAreRight
  WindowsAreKept
  RequestIsCarriedOut
