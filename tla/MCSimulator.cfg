SPECIFICATION Spec
CONSTANTS
  Markets = {1, 2}
  Weight <- MCWeight
  Bid <- MCBid
  Prices = {1, 3}
  Sizes = {0, 1}
  Targets = {0, 3}
  Unit = 2
  Delays <- MCDelays
  EndTime = 4
  MaxSizeEvents = 2
  MaxPriceEvents = 1
  Periods = {3}
  Billing = 2
INVARIANTS CpusMatchInstances BilledByPeriod ReportsAreRight
PROPERTIES FleetReachesTarget
CHECK_DEADLOCK FALSE
