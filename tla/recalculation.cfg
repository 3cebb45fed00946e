SPECIFICATION MCSpec
CONSTANTS
  a1 = a1  a2 = a2  v1 = v1  w1 = w1  w2 = w2  r1 = r1  None = None
  Agents = {a1, a2}
  Verifications = {v1}
  Workers = {w1, w2}
  Events <- MCEvents
  MaxOps = 3
  Recalculators = {r1}
  Written = {100}
  MaxRecalcs = 1
  MaxDays = 1
SYMMETRY MCSymmetry
PROPERTIES SavedScoreIsBracketed
