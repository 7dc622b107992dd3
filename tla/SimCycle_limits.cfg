SPECIFICATION Spec
CONSTANTS
  NJobs = 2
  Submit <- MCSubmitLimit
  Duration <- MCDurationLimit
  TimeLimit <- MCTimeLimitLimit
  Width <- MCWidthLimit
  OverTimeLimit = 1
  NNodes = 2
  TimeIncr = 1
  SimEndPoint = 5
  BackfillInterval = 2
  PeriodicTimeout = 1
  PurgeInterval = 2
  KillAge = 1
  MaxTime = 6
  MaxLag = 1
  MaxLost = 1
INVARIANTS
  NodesConserved
PROPERTIES
  SimulatesJobs
CHECK_DEADLOCK FALSE
