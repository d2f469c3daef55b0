\* Two clients, with room for both pages in the queue.  No symmetry, which is
\* unsound for liveness.
SPECIFICATION FairSpec
CONSTANTS
  c1 = c1
  c2 = c2
  c3 = c3
  NoPath = NoPath
  NoClient = NoClient
  Targets <- SpelledOnce
  Links <- MCLinks
  Capacity = 2
  UsageLimit = 2
  MaxResources = 1
  Clients <- TwoClients
  Threads = 2
  MaxQueue = 2
  MaxStarts = 2
PROPERTIES
  ImplementsJobPool
  ScheduledPagesAreDone
  PrefetcherStops
CHECK_DEADLOCK FALSE
