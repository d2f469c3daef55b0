\* Three clients and two worker threads; a page with five URLs, in a cache of two
\* contents, two of which are already too many to go on prefetching; a queue of one
\* page, so that of three pages scheduled at once one is refused.
SPECIFICATION Spec
CONSTANTS
  c1 = c1
  c2 = c2
  c3 = c3
  NoPath = NoPath
  NoClient = NoClient
  Targets <- MCTargets
  Links <- MCLinks
  Capacity = 2
  UsageLimit = 2
  MaxResources = 1
  Clients <- MCClients
  Threads = 2
  MaxQueue = 1
  MaxStarts = 2
SYMMETRY MCSymmetry
INVARIANTS
  TypeOK
  NeverSleepsOverWork
  PageIsBounded
  BacklogIsBounded
  HitIsTheFile
CHECK_DEADLOCK FALSE
