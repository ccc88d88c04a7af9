SPECIFICATION Spec
CONSTANTS
  k = k
  e = e
  x = x
  m = m
  o = o
  Instances = {k, e, x, m, o}
  Scheduler <- MCScheduler
  DnsName <- MCDnsName
  OurGroups = {k, e, x, m}
  PoolForceTerminate = TRUE
  PoolThreshold = 0
  DefaultThreshold = 0
  CacheTtl = 1
  MaxRequests = 2
  MaxFaults = 1
  MaxMessages = 4
  Prompt = FALSE
INVARIANTS TypeOK CachedHostIsInPipeline ClosedHostIsTracked FollowUpIsHeld
