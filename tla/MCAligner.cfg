SPECIFICATION Spec
CONSTANTS
  None = None
  h1 = h1
  h2 = h2
  u1 = u1
  u2 = u2
  Harvesters <- TwoHarvesters
  Uuids <- TwoUuids
  MaxChanges = 2
  MaxRuns = 2
  MaxFailures = 1
SYMMETRY AlignerSymmetry
INVARIANT TypeOK
INVARIANT Aligned
INVARIANT AddedWithOwner
PROPERTY OthersUntouched
CHECK_DEADLOCK FALSE
