\* Three workers, two producers, three tasks of which one throws, and a pool that
\* is started up to twice.  The system may stop (pool destroyed, process
\* terminated), so a state without successor is no error.
SPECIFICATION FairSpec
CONSTANTS
  w1 = w1
  w2 = w2
  w3 = w3
  p1 = p1
  p2 = p2
  j1 = j1
  j2 = j2
  j3 = j3
  NoJob = NoJob
  MaxStarts = 2
  Workers <- MCWorkers
  Producers <- MCProducers
  Jobs <- MCJobs
  ThrowingJobs <- MCThrowing
INVARIANTS
  TypeOK
  NoLostWakeup
  NoSleeperAtJoin
PROPERTIES
  ImplementsJobPool
  AcceptedJobsAreDone
  StopReturns
CHECK_DEADLOCK FALSE
