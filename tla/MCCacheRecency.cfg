\* What the README says the recency-heavy profile favours: one operation a second,
\* ages of at most seven seconds, each age + 1 a divisor of Scale.
SPECIFICATION Spec
CONSTANTS
  k1 = k1
  k2 = k2
  k3 = k3
  Keys <- MCKeys
  MaxBytes = 2
  Sizes = {1}
  InitialFrequencies = {1}
  HitRates = {0}
  Scale = 840
  MaxLag = 0
  MaxOps = 7
SYMMETRY MCSymmetry
PROPERTY RecencyHonoured
CHECK_DEADLOCK FALSE
