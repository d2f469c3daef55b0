\* A client that writes a byte before each timeout.
SPECIFICATION Spec
CONSTANTS
  Unreadable = Unreadable
  Requests <- MCRequests
  MaxHeader = 6
  MaxBody = 3
  ReadSize = 2
  Payload = 3
  SendBuffer = 2
  Timeout = 2
  MaxSignals = 0
INVARIANTS
  SlowClientsTimeOut
CHECK_DEADLOCK FALSE
