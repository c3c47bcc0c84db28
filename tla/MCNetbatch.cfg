SPECIFICATION MCSpec
CONSTANTS
  h1 = h1
  h2 = h2
  l1 = l1
  l2 = l2
  j1 = j1
  j2 = j2
  Hosts <- MCHosts
  Loops <- MCLoops
  Jobs <- MCJobs
  None = none
  MaxFaults = 1
CHECK_DEADLOCK FALSE
INVARIANTS
  TypeOK
  RunningIsListed
  ActiveMeansRunning
PROPERTIES
  LoopGoesOn
  JobsStart
  KillsLand
  JobsRunOnce
