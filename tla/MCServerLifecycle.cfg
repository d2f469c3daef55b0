\* Three connections for two worker threads: one waits in the queue while both
\* workers are busy and the server is told to stop.  The program ends, so a state
\* without successor is no error.
SPECIFICATION FairSpec
CONSTANTS
  c1 = c1
  c2 = c2
  c3 = c3
  w1 = w1
  w2 = w2
  NoClient = NoClient
  Clients <- MCClients
  Workers <- MCWorkers
INVARIANTS
  TypeOK
  NobodyIsRefused
  EachConnectionHasOneOwner
  StopLeavesNothing
PROPERTIES
  ServerStops
  AcceptedIsClosed
CHECK_DEADLOCK FALSE
