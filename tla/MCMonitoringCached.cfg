\* What the README says of the monitoring paths and the cache.
SPECIFICATION Spec
CONSTANTS
  c1 = c1
  c2 = c2
  c3 = c3
  NoPath = NoPath
  NoClient = NoClient
  Targets <- SpelledOnce
  Links <- MCLinks
  Capacity = 2
  UsageLimit = 2
  MaxResources = 1
  Clients <- TwoClients
  Threads = 1
  MaxQueue = 1
  MaxStarts = 1
INVARIANT MonitoringIsNotCached
CHECK_DEADLOCK FALSE
