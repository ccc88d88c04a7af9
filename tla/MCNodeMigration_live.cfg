SPECIFICATION FairSpec
CONSTANTS
  p = p
  q = q
  e1 = e1
  e2 = e2
  e3 = e3
  None = None
  Pools = {p}
  Events = {e1, e2}
  PoolOf <- TwoEvents
  Accepting = {p}
  UptimePools = {p}
  NumNodes = 1
  Rate = 1
  MaxWorkers = 2
  disable_autoscaling = TRUE
  MaxOverruns = 1
  Aged = {1}
  MaxFaults = 1
PROPERTY EventIsMigrated
