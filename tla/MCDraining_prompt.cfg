SPECIFICATION Spec
CONSTANTS
  k = k
  e = e
  x = x
  m = m
  o = o
  Instances = {k}
  Scheduler <- MCScheduler
  DnsName <- MCDnsName
  OurGroups = {k}
  PoolForceTerminate = FALSE
  PoolThreshold = 1
  DefaultThreshold = 1
  CacheTtl = 1
  MaxRequests = 4
  MaxFaults = 0
  MaxMessages = 5
  Prompt = TRUE
INVARIANT SingleChain
PROPERTY NoPodKilled
