SPECIFICATION MCSpec
CONSTANTS
  Ids = {m1, m2}
  Places = {p1, p2}
  Workers = {w1, w2}
  Lives = {0, 1, 2}
  LatestCap = 1
  MaxOps = 3
  MaxFaults = 1
  None = None
SYMMETRY MCSymmetry
INVARIANTS TypeOK DeleteIsFinal LatestIsBounded SettledIsRetrievable
