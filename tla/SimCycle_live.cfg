SPECIFICATION FairSpec
CONSTANTS
  NJobs = 2
  Submit <- MCSubmitSeq
  Duration <- MCDurationSeq
  TimeLimit <- MCTimeLimitSeq
  Width <- MCWidthSeq
  OverTimeLimit = 1
  NNodes = 2
  TimeIncr = 1
  SimEndPoint = 0
  BackfillInterval = 2
  PeriodicTimeout = 100
  PurgeInterval = 100
  KillAge = 100
  MaxTime = 12
  MaxLag = 1
  MaxLost = 0
PROPERTIES
  AllJobsFinish
  EndsOnceCounted
