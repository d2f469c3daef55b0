\* Two polls can be in flight, so an older answer can arrive last; one request whose
\* counting and adjusting falls between the reads of the answers; a line of one
\* point.
SPECIFICATION FairSpec
CONSTANTS
  h1 = h1
  h2 = h2
  p1 = p1
  p2 = p2
  Nothing = Nothing
  Handlers <- OneHandler
  Polls <- TwoPolls
  Aging = FALSE
  History = 1
  MaxRequests = 1
INVARIANTS
  TypeOK
  PageIsWhole
  OnePoller
PROPERTIES
  OnlyOverlapsGoBack
  CatchesUp
