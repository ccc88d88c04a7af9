SPECIFICATION Spec
CONSTANTS
  p = p
  q = q
  e1 = e1
  e2 = e2
  e3 = e3
  None = None
  Pools = {p, q}
  Events = {e1, e2, e3}
  PoolOf <- MCPoolOf
  Accepting = {p}
  UptimePools = {p}
  NumNodes = 2
  Rate = 1
  MaxWorkers = 2
  disable_autoscaling = TRUE
  MaxOverruns = 0
  Aged = {2}
  MaxFaults = 2
INVARIANTS TablesAgree CompletedWasMigrated CompletedPoolIsRecycled OneRecycler RateRespected PauseIsLifted
