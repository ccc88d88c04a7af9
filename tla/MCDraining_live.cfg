SPECIFICATION FairSpec
CONSTANTS
  k = k
  e = e
  x = x
  m = m
  o = o
  Instances = {k}
  Scheduler <- MCScheduler
  DnsName <- MCDnsName
  OurGroups = {k}
  PoolForceTerminate = FALSE
  PoolThreshold = 1
  DefaultThreshold = 0
  CacheTtl = 1
  MaxRequests = 2
  MaxFaults = 1
  MaxMessages = 4
  Prompt = FALSE
PROPERTIES QueuesRunEmpty ClosedHostIsReleased
