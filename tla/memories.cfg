SPECIFICATION MCSpec
CONSTANTS
  Agents = {a1, a2}
  Ids = {m1, m2}
  Workers = {w1, w2}
  TrustWired = TRUE
  StartScores = {50, 998}
  Changes <- MCChanges
  Overwrites = {100}
  MaxOps = 4
  None = None
SYMMETRY MCSymmetry
INVARIANTS TypeOK NothingIsHalfForgotten LateStoresAreEarned
PROPERTIES DeletedStaysDeleted
