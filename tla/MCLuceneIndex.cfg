SPECIFICATION FairSpec
CONSTANTS
  None = None
  m = m
  w = w
  q1 = q1
  q2 = q2
  worker = worker
  admin = admin
  Metadata <- OneRow
  Workspaces <- OneCopy
  Requests <- Editors
  Workers <- OneWorker
  Rebuilders <- TwoRebuilders
  Optimisers <- OneOptimiser
  MaxChanges = 2
  MaxOperations = 3
INVARIANT TypeOK
INVARIANT AtMostOneDocument
INVARIANT ClosedWhenQuiet
INVARIANT IndexFollowsRows
PROPERTY IndexingEnds
CHECK_DEADLOCK FALSE
