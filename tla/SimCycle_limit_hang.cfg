SPECIFICATION FairSpec
CONSTANTS
  NJobs = 1
  Submit <- MCSubmitOver
  Duration <- MCDurationOver
  TimeLimit <- MCTimeLimitOver
  Width <- MCWidthOver
  OverTimeLimit = 1
  NNodes = 2
  TimeIncr = 1
  SimEndPoint = 0
  BackfillInterval = 2
  PeriodicTimeout = 1
  PurgeInterval = 2
  KillAge = 4
  MaxTime = 8
  MaxLag = 1
  MaxLost = 0
PROPERTIES
  EndsWhenAllFinished
CHECK_DEADLOCK FALSE
