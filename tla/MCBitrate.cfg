SPECIFICATION EstimatorsSpec
CONSTANTS
  Receivers = {c1, c2, c3}
  SSRCs = {s1, s2}
  Rates = {1, 2, 3}
  MaxRate = 4
INVARIANTS EstimatorsTypeOK CacheIsLowerBound
PROPERTY ImplementsLimit
