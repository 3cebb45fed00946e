SPECIFICATION MCSpec
CONSTANTS
  a1 = a1  a2 = a2  v1 = v1  v2 = v2  w1 = w1  w2 = w2  None = None
  Agents = {a1, a2}
  Verifications = {v1}
  Workers = {w1, w2}
  Events <- MCEvents
  MaxOps = 4
SYMMETRY MCSymmetry
INVARIANTS TypeOK ScoreInRange ScoreHasProvenance RecordsMatchEffects NoCircularWait TrustInvariant RepeatedResultsOverlap
PROPERTIES ForgottenForGood ImplementsStaleLedger ExactUnlessOvertaken
