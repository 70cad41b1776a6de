SPECIFICATION Spec
CONSTANTS
  None = None
  h1 = h1
  c1 = c1
  c2 = c2
  r1 = r1
  Harvesters <- OneHarvester
  Clients <- OneClient
  Records <- OneRecord
  StartHarvesterJobs = TRUE
  Failures = FALSE
  MaxTriggers = 1
  MaxRestarts = 0
INVARIANT RemovedWithRecords
CHECK_DEADLOCK FALSE
