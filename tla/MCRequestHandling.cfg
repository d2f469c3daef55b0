SPECIFICATION FairSpec
CONSTANTS
  c1 = c1
  c2 = c2
  c3 = c3
  Clients <- TwoClients
  MaxHandlers = 2
  Window = 1
  MemValues = {1}
  MaxTime = 2
  MaxPeeks = 1
INVARIANTS
  TypeOK
  ActiveIsOpen
  EachRequestCountedOnce
  RecentRequestsKept
PROPERTIES
  OldRequestsAreFew
  HandlersFinish
CHECK_DEADLOCK FALSE
