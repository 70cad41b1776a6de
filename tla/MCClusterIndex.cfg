SPECIFICATION Spec
CONSTANTS
  n1 = n1
  n2 = n2
  Nodes <- TwoNodes
  MaxRequests = 2
INVARIANT TypeOK
INVARIANT InSyncWhenQuiet
INVARIANT NoCircularWait
CHECK_DEADLOCK FALSE
VIEW UpToVersions
