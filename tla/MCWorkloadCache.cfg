\* Three keys; contents of one, two and four bytes in a cache of three, so that an
\* entry can fit, force one or two others out, be its own victim or be refused;
\* hit rates on both sides of, and at, the two thresholds.
SPECIFICATION FairSpec
CONSTANTS
  k1 = k1
  k2 = k2
  k3 = k3
  Keys <- MCKeys
  MaxBytes = 3
  Sizes = {1, 2, 4}
  InitialFrequencies = {1}
  HitRates = {49, 50, 80, 81}
  Scale = 1
  MaxLag = 1
  MaxOps = 6
INVARIANTS
  TypeOK
  IndexesMatchEntries
  BudgetIsHonoured
PROPERTIES
  ImplementsLfu
  EvictionEnds
CHECK_DEADLOCK FALSE
