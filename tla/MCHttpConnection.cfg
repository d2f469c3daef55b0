\* A header limit of 6, a body limit of 3 and reads of 2 bytes, so that every limit is
\* met from both sides; an answer longer than the kernel holds; two ticks of patience.
\* The handler returns, so a state without successor is no error.
SPECIFICATION FairSpec
CONSTANTS
  Unreadable = Unreadable
  Requests <- MCRequests
  MaxHeader = 6
  MaxBody = 3
  ReadSize = 2
  Payload = 3
  SendBuffer = 2
  Timeout = 2
  MaxSignals = 1
INVARIANTS
  TypeOK
  BufferIsBounded
  JudgedByContent
PROPERTIES
  WorkerIsFreed
CHECK_DEADLOCK FALSE
