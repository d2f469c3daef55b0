\* What the README says the page shows of the cache: two handlers whose adjusting of the
\* weights can overtake each other.
SPECIFICATION Spec
CONSTANTS
  h1 = h1
  h2 = h2
  p1 = p1
  p2 = p2
  Nothing = Nothing
  Handlers <- TwoHandlers
  Polls <- TwoPolls
  Aging = FALSE
  History = 2
  MaxRequests = 2
INVARIANT StrategyIsActive
