SPECIFICATION MCSpec
CONSTANTS
  Memories = {m1, m2, m3, m4}
  Limits = {1, 2}
  Offsets = {0, 2}
  MaxWrites = 1
  Keys = {k1, k2}
  MaxChanges = 2
SYMMETRY MCSymmetry
INVARIANTS TypeOK AgreementIsKept BothBeatOne SearchIsHonest PageIsTheWindow
INVARIANTS WorkingSearchIsHonest SmallTotalsAreComplete
