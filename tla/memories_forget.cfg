SPECIFICATION MCSpec
CONSTANTS
  Agents = {a1}
  Ids = {m1, m2}
  Workers = {w1, w2}
  TrustWired = FALSE
  StartScores = {100}
  Changes = {}
  Overwrites = {}
  MaxOps = 4
  None = None
SYMMETRY MCSymmetry
PROPERTIES ForgetReachesEverything
