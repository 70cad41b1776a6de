SPECIFICATION FairSpec
CONSTANTS
  None = None
  r1 = r1
  r2 = r2
  Records <- TwoRecords
  MaxCalls = 3
  v1 = v1
  v2 = v2
  e1 = e1
  e2 = e2
  Values <- TwoValues
  Changes <- TwoChanges
INVARIANT TypeOK
INVARIANT FormIsCurrent
INVARIANT NothingLost
PROPERTY AppliedWhereShown
PROPERTY LoadingEnds
CHECK_DEADLOCK FALSE
