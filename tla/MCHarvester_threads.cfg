SPECIFICATION FairSpec
CONSTANTS
  None = None
  h1 = h1
  c1 = c1
  c2 = c2
  r1 = r1
  Harvesters <- OneHarvester
  Clients <- TwoClients
  Records <- OneRecord
  StartHarvesterJobs = TRUE
  Failures = TRUE
  MaxTriggers = 2
  MaxRestarts = 1
INVARIANT TypeOK
INVARIANT StatusDurable
INVARIANT QuietRemovalLeavesNothing
INVARIANT ActiveIsScheduled
PROPERTY OneRunIsOne
 
PROPERTY RemovalEnds
PROPERTY ActiveRuns
CHECK_DEADLOCK FALSE
